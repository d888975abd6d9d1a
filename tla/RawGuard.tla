------------------------------- MODULE RawGuard -------------------------------
(***************************************************************************)
(* What the bytes of a marker count for: the raw guard (raw_guard.py), the *)
(* parse after it and the dispatch on version and schema                   *)
(* (_classify_marker in registration.py, validate_marker in                *)
(* validation.py).  The readers of a marker in registration.py,            *)
(* unregister.py and projection.py all take these steps.                   *)
(*                                                                         *)
(* Two programs read the same text.  The guard's own scan counts brackets  *)
(* and knows strings by quotes and backslashes, nothing else; the decoder  *)
(* of the json library comes after it, is recursive, and calls back for    *)
(* repeated names and non-finite numbers.  The library is external: here   *)
(* it goes through strings, escapes and brackets as the JSON grammar does, *)
(* and what else the grammar asks for is left open: it may find a fault    *)
(* anywhere, and may find none.                                            *)
(***************************************************************************)
EXTENDS Naturals, Sequences, FiniteSets

CONSTANTS
  MaxDepth,  \* MAX_DEPTH
  MaxLength  \* bound on the texts

ASSUME RawGuardAssumption == MaxDepth \in Nat /\ MaxLength \in Nat

\* A control is C0, C1 or a bidi control; between strings some C0 are white
\* space.  A mark stands for what the checks look for, which depends on its
\* place: between strings NaN or an Infinity, in a string a name its object
\* has already, after a backslash the code of a control.
Chars == {"quote", "escape", "open", "close", "control", "mark", "plain"}
Texts == UNION {[1 .. n -> Chars] : n \in 0 .. MaxLength}

Raws      == {"oversize", "bom", "malformed", "text"}
Phases    == {"read", "utf8", "depth", "decode", "controls", "schema", "done"}
Documents == {"unread", "none", "null", "object", "other"}
Verdicts  == {"open", "partial", "invalid", "unsupported", "valid", "raised"}
Results   == {"open", "read", "utf8", "depth", "duplicates", "nonfinite", "controls", "schema"}

VARIABLES
  raw,      \* the bytes: too many, with a byte order mark, not UTF-8, or a text
  text,     \* its characters
  phase,    \* how far the reading is
  pos,      \* characters read by the pass under way
  scan,     \* the variables of _depth_scan
  mode,     \* the decoder: between strings, in one, or after a backslash
  nested,   \* containers it is in: the depth of its recursion
  repeats,  \* those of them with a repeated name, to be noticed at their end
  document, \* what json.loads returned
  result,   \* the phase of the guard's result
  verdict,  \* the state of the marker
  (* ghosts *)
  trail,    \* the scan after each character
  met       \* forbidden things in the text as far as it was decoded

input   == <<raw, text>>
decoder == <<mode, nested, repeats, document, met>>
vars    == <<input, phase, pos, scan, decoder, result, verdict, trail>>

Start == [depth |-> 0, inString |-> FALSE, escaped |-> FALSE]

Init ==
  /\ raw \in Raws
  /\ text \in IF raw = "text" THEN Texts ELSE {<<>>}
  /\ phase = "read" /\ pos = 0
  /\ scan = Start /\ trail = <<>>
  /\ mode = "between" /\ nested = 0 /\ repeats = {} /\ document = "unread" /\ met = {}
  /\ result = "open" /\ verdict = "open"

-----------------------------------------------------------------------------
\* A marker the guard refuses is partial.
Refuse(why) ==
  /\ result' = why /\ verdict' = "partial" /\ phase' = "done"

GoOn(to) ==
  /\ phase' = to /\ pos' = 0
  /\ UNCHANGED <<result, verdict>>

BoundRead ==
  /\ phase = "read"
  /\ \/ raw = "oversize" /\ Refuse("read") /\ pos' = pos
     \/ raw # "oversize" /\ GoOn("utf8")
  /\ UNCHANGED <<input, scan, decoder, trail>>

StrictUtf8 ==
  /\ phase = "utf8"
  /\ \/ raw \in {"bom", "malformed"} /\ Refuse("utf8") /\ pos' = pos
     \/ raw = "text" /\ GoOn("depth")
  /\ UNCHANGED <<input, scan, decoder, trail>>

c == text[pos + 1]
Has(chars) == \E i \in 1 .. Len(text) : text[i] \in chars

\* Mutant: a bracket too many that closes counts.
CountedBelow(depth, ch) ==
  CASE ch = "open"  -> depth + 1
    [] ch = "close" -> depth - 1
    [] OTHER        -> depth

\* A bracket that closes nothing is passed over.
Counted(depth, ch) ==
  CASE ch = "open"               -> depth + 1
    [] ch = "close" /\ depth > 0 -> depth - 1
    [] OTHER                     -> depth

\* Mutant: a backslash in a string escapes nothing.
ScannedRaw(s, ch) ==
  IF s.inString
  THEN [s EXCEPT !.inString = ch # "quote"]
  ELSE [s EXCEPT !.inString = ch = "quote", !.depth = Counted(s.depth, ch)]

\* Mutant: brackets in strings count.
ScannedBlind(s, ch) == [s EXCEPT !.depth = Counted(s.depth, ch)]

\* One turn of the loop of _depth_scan.
Scanned(s, ch) ==
  IF s.inString
  THEN [s EXCEPT !.inString = s.escaped \/ ch # "quote",
                 !.escaped  = ~s.escaped /\ ch = "escape"]
  ELSE [s EXCEPT !.inString = ch = "quote", !.depth = Counted(s.depth, ch)]

DepthScan ==
  /\ phase = "depth" /\ pos < Len(text)
  /\ scan' = Scanned(scan, c)
  /\ trail' = Append(trail, scan')
  /\ pos' = pos + 1
  /\ \/ scan'.depth > MaxDepth /\ Refuse("depth")
     \/ scan'.depth <= MaxDepth /\ UNCHANGED <<phase, result, verdict>>
  /\ UNCHANGED <<input, decoder>>

ScanEnds ==
  /\ phase = "depth" /\ pos = Len(text)
  /\ GoOn("decode")
  /\ UNCHANGED <<input, scan, decoder, trail>>

-----------------------------------------------------------------------------
(***************************************************************************)
(* json.loads with the hooks of _decode_with_hooks.                        *)
(***************************************************************************)
Reading == phase = "decode" /\ pos < Len(text)

Read ==
  /\ pos' = pos + 1
  /\ UNCHANGED <<input, phase, scan, document, result, verdict, trail>>

Between ==
  /\ Reading /\ mode = "between"
  /\ Read
  /\ \/ c = "quote" /\ mode' = "string" /\ UNCHANGED <<nested, repeats, met>>
     \/ c = "open" /\ nested' = nested + 1 /\ UNCHANGED <<mode, repeats, met>>
     \/ c = "close" /\ nested > 0 /\ nested \notin repeats /\ nested' = nested - 1
        /\ UNCHANGED <<mode, repeats, met>>
     \/ c \in {"plain", "control"} /\ UNCHANGED <<mode, nested, repeats, met>>

InString ==
  /\ Reading /\ mode = "string"
  /\ Read
  /\ \/ c = "quote" /\ mode' = "between" /\ UNCHANGED <<repeats, met>>
     \/ c = "escape" /\ mode' = "escape" /\ UNCHANGED <<repeats, met>>
     \/ c = "control" /\ met' = met \cup {"control"} /\ UNCHANGED <<mode, repeats>>
     \/ c = "mark" /\ nested > 0 /\ repeats' = repeats \cup {nested}
        /\ met' = met \cup {"repeat"} /\ UNCHANGED mode
     \/ c \in {"open", "close", "mark", "plain"} /\ UNCHANGED <<mode, repeats, met>>
  /\ UNCHANGED nested

AfterBackslash ==
  /\ Reading /\ mode = "escape"
  /\ Read
  /\ c # "control"
  /\ mode' = "string"
  /\ met' = IF c = "mark" THEN met \cup {"control"} ELSE met
  /\ UNCHANGED <<nested, repeats>>

\* The pairs hook is called when an object ends.
DuplicateName ==
  /\ Reading /\ mode = "between" /\ c = "close" /\ nested \in repeats
  /\ Refuse("duplicates")
  /\ UNCHANGED <<input, pos, scan, decoder, trail>>

NonFiniteConstant ==
  /\ Reading /\ mode = "between" /\ c = "mark"
  /\ met' = met \cup {"nonfinite"}
  /\ Refuse("nonfinite")
  /\ UNCHANGED <<input, pos, scan, mode, nested, repeats, document, trail>>

\* An integer of more digits than int() takes raises a ValueError that is not a
\* JSONDecodeError: the guard does not return.
TooManyDigits ==
  /\ Reading /\ mode = "between" /\ c = "plain"
  /\ phase' = "done" /\ verdict' = "raised"
  /\ UNCHANGED <<input, pos, scan, decoder, result, trail>>

\* A fault of syntax, found anywhere: the guard goes on without a document.
JSONDecodeError ==
  /\ phase = "decode"
  /\ document' = "none"
  /\ GoOn("controls")
  /\ UNCHANGED <<input, scan, mode, nested, repeats, met, trail>>

Decoded ==
  /\ phase = "decode" /\ pos = Len(text) /\ text # <<>>
  /\ mode = "between" /\ nested = 0
  /\ \/ document' = "object" /\ Has({"open"})
     \/ document' = "null" /\ ~Has({"open", "quote"})
     \/ document' = "other"
  /\ GoOn("controls")
  /\ UNCHANGED <<input, scan, mode, nested, repeats, met, trail>>

-----------------------------------------------------------------------------
\* Mutant: the text is scanned, whether it was decoded or not.
ControlFoundInText == Has({"control"})

\* The decoded names and values are scanned, or the text if there is no
\* document; null counts as none.
ControlFound ==
  IF document \in {"none", "null"}
  THEN Has({"control"})
  ELSE "control" \in met

Controls ==
  /\ phase = "controls"
  /\ \/ ControlFound /\ Refuse("controls")
     \/ ~ControlFound /\ phase' = "schema" /\ result' = "schema" /\ UNCHANGED verdict
  /\ UNCHANGED <<input, pos, scan, decoder, trail>>

\* The text is parsed again, without hooks, and the document dispatched on its
\* version and its schema, which requires one.
Classify ==
  /\ phase = "schema"
  /\ phase' = "done"
  /\ \/ document = "none" /\ verdict' = "partial"
     \/ document \in {"null", "other"} /\ verdict' = "invalid"
     \/ document = "object" /\ verdict' \in {"unsupported", "invalid", "valid"}
  /\ UNCHANGED <<input, pos, scan, decoder, result, trail>>

Next ==
  \/ BoundRead \/ StrictUtf8 \/ DepthScan \/ ScanEnds
  \/ Between \/ InString \/ AfterBackslash
  \/ DuplicateName \/ NonFiniteConstant \/ TooManyDigits \/ JSONDecodeError \/ Decoded
  \/ Controls \/ Classify

Spec == Init /\ [][Next]_vars

-----------------------------------------------------------------------------
(***************************************************************************)
(* Properties.                                                             *)
(***************************************************************************)

\* Every variable has its type: the depth of the scan, too, never falls
\* below zero, whatever brackets close.
TypeOK ==
  /\ raw \in Raws /\ text \in Texts
  /\ phase \in Phases /\ pos \in 0 .. Len(text)
  /\ scan \in [depth : Nat, inString : BOOLEAN, escaped : BOOLEAN]
  /\ mode \in {"between", "string", "escape"}
  /\ nested \in Nat /\ repeats \subseteq 1 .. nested
  /\ document \in Documents /\ result \in Results /\ verdict \in Verdicts
  /\ trail \in Seq([depth : Nat, inString : BOOLEAN, escaped : BOOLEAN])
  /\ met \subseteq {"repeat", "nonfinite", "control"}

\* The recursion of the decoder never goes deeper than the guard allows: the
\* scan that is to prevent it does not take for a string what the decoder
\* reads as brackets (raw_guard.py:12).
DecoderBounded == nested <= MaxDepth

\* The backslashes right before a character.
Backslashes(i) ==
  Cardinality({k \in 1 .. i - 1 : \A l \in k .. i - 1 : text[l] = "escape"})

\* Reference definition: a quote ends a string unless an odd number of
\* backslashes stands before it.
Inside[i \in 0 .. Len(text)] ==
  /\ i > 0
  /\ IF Inside[i - 1] THEN text[i] # "quote" \/ Backslashes(i) % 2 = 1 ELSE text[i] = "quote"

\* Reference definition: some stretch of the text opens, outside strings, more
\* than MaxDepth containers that it does not close.
Deep ==
  \E i, k \in 1 .. Len(text) :
    LET Bare(ch) == {j \in i .. k : ~Inside[j - 1] /\ text[j] = ch}
    IN  Cardinality(Bare("open")) > Cardinality(Bare("close")) + MaxDepth

\* A text is refused for its depth if and only if it is too deep.
DepthIsExact ==
  /\ result = "depth" => Deep
  /\ phase = "decode" /\ pos = 0 => ~Deep

\* A valid marker repeats no name, has no number that is not finite and no
\* control in its names and values, however they were written.
ValidIsClean == verdict = "valid" => document = "object" /\ met = {}
=============================================================================
