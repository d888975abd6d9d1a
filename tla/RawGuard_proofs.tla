--------------------------- MODULE RawGuard_proofs ---------------------------
(***************************************************************************)
(* Theorems about RawGuard for every depth allowed and texts of any length *)
(* up to the bound.                                                        *)
(***************************************************************************)
EXTENDS RawGuard, CountingLemmas

Scans == [depth : Nat, inString : BOOLEAN, escaped : BOOLEAN]

\* The scan after i characters.
After(i) == IF i = 0 THEN Start ELSE trail[i]

\* The trail is that of the scan over the characters it has read.
Trailed ==
  /\ Len(trail) <= Len(text)
  /\ phase \in {"read", "utf8"} => trail = <<>> /\ pos = 0
  /\ phase = "depth" => Len(trail) = pos
  /\ phase \in {"decode", "controls", "schema"} => Len(trail) = Len(text)
  /\ scan = After(Len(trail))
  /\ \A i \in 1 .. Len(trail) : trail[i] = Scanned(After(i - 1), text[i])

\* A guard that has not refused the text for its depth met no depth too big.
Shallow == result # "depth" => \A i \in 1 .. Len(trail) : trail[i].depth <= MaxDepth

\* The decoder is in a string where the scan was, after a backslash where it
\* was, and in no more containers than the scan had counted.
InStep ==
  /\ phase \in {"read", "utf8", "depth", "decode", "controls"} => result = "open"
  /\ phase = "schema" => result = "schema"
  /\ phase \in {"read", "utf8", "depth"} => mode = "between" /\ nested = 0
  /\ phase = "decode" =>
       /\ After(pos).inString = (mode # "between")
       /\ After(pos).escaped = (mode = "escape")
       /\ nested <= After(pos).depth

\* What the decoder met and has not stopped for.
Watched ==
  /\ phase \in {"read", "utf8", "depth"} => repeats = {} /\ met = {} /\ document = "unread"
  /\ phase = "decode" => "nonfinite" \notin met /\ ("repeat" \in met => repeats # {})
  /\ phase \in {"controls", "schema"} /\ document = "object" => met \subseteq {"control"}
  /\ phase = "schema" /\ document = "object" => met = {}
  /\ phase # "done" => verdict = "open"
  /\ ValidIsClean

Inv == TypeOK /\ Trailed /\ Shallow /\ InStep /\ DecoderBounded /\ Watched

LEMMA TextType == ASSUME TypeOK PROVE text \in Seq(Chars) /\ Len(text) \in Nat
<1>1. PICK n \in 0 .. MaxLength : text \in [1 .. n -> Chars]
  BY DEF TypeOK, Texts
<1>2. QED
  BY <1>1, RawGuardAssumption

LEMMA CountedType ==
  ASSUME NEW depth \in Nat, NEW ch
  PROVE  Counted(depth, ch) \in Nat
BY DEF Counted

LEMMA ScannedType ==
  ASSUME NEW s \in Scans, NEW ch
  PROVE  Scanned(s, ch) \in Scans
<1>1. Counted(s.depth, ch) \in Nat
  BY CountedType DEF Scans
<1>2. QED
  BY <1>1 DEF Scanned, Scans

LEMMA AfterType ==
  ASSUME TypeOK, NEW i \in 0 .. Len(trail)
  PROVE  After(i) \in Scans
<1>1. Start \in Scans
  BY DEF Start, Scans
<1>2. CASE i # 0
  <2>1. trail \in Seq(Scans) /\ i \in 1 .. Len(trail)
    BY <1>2 DEF TypeOK, Scans
  <2>2. QED
    BY <1>2, <2>1 DEF After
<1>3. QED
  BY <1>1, <1>2 DEF After

LEMMA InitInv == Init => Inv
<1> SUFFICES ASSUME Init PROVE Inv
  OBVIOUS
<1>1. text \in Texts
  <2>1. <<>> \in [1 .. 0 -> Chars] /\ 0 \in 0 .. MaxLength
    BY RawGuardAssumption
  <2>2. QED
    BY <2>1 DEF Init, Texts
<1>2. Len(text) \in Nat
  <2>1. PICK n \in 0 .. MaxLength : text \in [1 .. n -> Chars]
    BY <1>1 DEF Texts
  <2>2. QED
    BY <2>1, RawGuardAssumption
<1>3. TypeOK
  BY <1>1, <1>2 DEF Init, TypeOK, Phases, Documents, Results, Verdicts, Start
<1>4. Trailed /\ Shallow /\ InStep
  BY <1>2 DEF Init, Trailed, Shallow, InStep, After
<1>5. DecoderBounded
  BY RawGuardAssumption DEF Init, DecoderBounded
<1>6. Watched
  BY DEF Init, Watched, ValidIsClean
<1>7. QED
  BY <1>3, <1>4, <1>5, <1>6 DEF Inv

LEMMA BeginInv == ASSUME Inv, BoundRead \/ StrictUtf8 PROVE Inv'
<1> USE DEF Inv, BoundRead, StrictUtf8, Refuse, GoOn, input, decoder
<1>1. TypeOK'
  <2>1. pos' \in 0 .. Len(text)
    BY TextType DEF TypeOK
  <2>2. QED
    BY <2>1 DEF TypeOK, Phases, Results, Verdicts
<1>2. Trailed'
  BY TextType DEF Trailed, After
<1>3. Shallow' /\ InStep' /\ DecoderBounded'
  BY DEF Trailed, Shallow, InStep, DecoderBounded
<1>4. Watched'
  BY DEF Watched, ValidIsClean
<1>5. QED
  BY <1>1, <1>2, <1>3, <1>4

LEMMA ScanInv == ASSUME Inv, DepthScan PROVE Inv'
<1> USE DEF Inv
<1> DEFINE n == Len(trail)
<1>1. /\ phase = "depth" /\ n = pos /\ n \in Nat /\ n < Len(text) /\ Len(text) \in Nat
      /\ trail \in Seq(Scans) /\ scan \in Scans /\ scan = After(n)
  BY TextType DEF DepthScan, Trailed, TypeOK, Scans
<1>2. scan' = Scanned(scan, text[n + 1]) /\ scan' \in Scans
  BY <1>1, ScannedType DEF DepthScan, c
<1>3. /\ trail' \in Seq(Scans) /\ Len(trail') = n + 1 /\ trail'[n + 1] = scan'
      /\ \A i \in 1 .. n : trail'[i] = trail[i]
  BY <1>1, <1>2 DEF DepthScan
<1>4. UNCHANGED <<raw, text, mode, nested, repeats, document, met>> /\ pos' = pos + 1
  BY DEF DepthScan, input, decoder
<1>5. \/ phase' = "done" /\ result' = "depth" /\ verdict' = "partial"
      \/ phase' = phase /\ result' = result /\ verdict' = verdict /\ scan'.depth <= MaxDepth
  BY DEF DepthScan, Refuse
<1>6. TypeOK'
  BY <1>1, <1>2, <1>3, <1>4, <1>5 DEF TypeOK, Scans, Phases, Results, Verdicts
<1>7. Trailed'
  <2>1. scan' = After(Len(trail))'
    BY <1>1, <1>3 DEF After
  <2>2. ASSUME NEW i \in 1 .. n + 1
        PROVE  trail'[i] = Scanned(After(i - 1)', text[i])
    <3>1. After(i - 1)' = After(i - 1)
      BY <1>1, <1>3 DEF After
    <3>2. CASE i = n + 1
      BY <1>1, <1>2, <1>3, <3>1, <3>2
    <3>3. CASE i \in 1 .. n
      BY <1>3, <3>1, <3>3 DEF Trailed
    <3>4. QED
      BY <1>1, <3>2, <3>3
  <2>3. QED
    BY <1>1, <1>3, <1>4, <1>5, <2>1, <2>2 DEF Trailed
<1>8. Shallow'
  BY <1>1, <1>3, <1>5 DEF Shallow
<1>9. InStep' /\ DecoderBounded'
  BY <1>1, <1>4, <1>5 DEF InStep, DecoderBounded
<1>10. Watched'
  BY <1>1, <1>4, <1>5 DEF Watched, ValidIsClean
<1>11. QED
  BY <1>6, <1>7, <1>8, <1>9, <1>10

LEMMA ScanEndsInv == ASSUME Inv, ScanEnds PROVE Inv'
<1> USE DEF Inv, ScanEnds, GoOn, input, decoder
<1>1. TypeOK'
  BY TextType DEF TypeOK, Phases
<1>2. Trailed' /\ Shallow'
  BY DEF Trailed, Shallow, After
<1>3. InStep' /\ DecoderBounded'
  <2>1. After(pos)' = Start
    BY DEF After
  <2>2. After(pos)'.inString = FALSE /\ After(pos)'.escaped = FALSE /\ After(pos)'.depth = 0
    BY <2>1 DEF Start
  <2>3. mode' = "between" /\ nested' = 0 /\ result' = "open" /\ phase' = "decode"
    BY DEF InStep
  <2>4. InStep'
    <3> HIDE DEF Inv, ScanEnds, GoOn, input, decoder
    <3>1. After(pos)'.inString = (mode # "between")'
      BY <2>2, <2>3
    <3>2. After(pos)'.escaped = (mode = "escape")'
      BY <2>2, <2>3
    <3>3. nested' <= After(pos)'.depth
      BY <2>2, <2>3
    <3>4. QED
      BY <2>3, <3>1, <3>2, <3>3 DEF InStep
  <2>5. QED
    BY <2>4 DEF DecoderBounded
<1>4. Watched'
  BY DEF Watched, ValidIsClean
<1>5. QED
  BY <1>1, <1>2, <1>3, <1>4

\* The decoder reads one more character than the scan it is compared with.
LEMMA NextScan ==
  ASSUME Inv, Reading
  PROVE  /\ phase = "decode" /\ pos \in Nat /\ pos + 1 \in 1 .. Len(text)
         /\ After(pos) \in Scans /\ After(pos + 1) \in Scans
         /\ After(pos + 1) = Scanned(After(pos), c)
         /\ After(pos + 1).depth <= MaxDepth
<1> USE DEF Inv
<1>1. /\ phase = "decode" /\ pos \in Nat /\ Len(text) \in Nat /\ pos < Len(text)
      /\ Len(trail) = Len(text) /\ result = "open"
  BY TextType DEF Reading, TypeOK, Trailed, InStep
<1>2. pos \in 0 .. Len(trail) /\ pos + 1 \in 1 .. Len(trail) /\ pos + 1 \in 0 .. Len(trail)
  BY <1>1
<1>3. After(pos + 1) = trail[pos + 1] /\ trail[pos + 1] = Scanned(After(pos), text[pos + 1])
  BY <1>1, <1>2 DEF After, Trailed
<1>4. trail[pos + 1].depth <= MaxDepth
  BY <1>1, <1>2 DEF Shallow
<1>5. QED
  BY <1>1, <1>2, <1>3, <1>4, AfterType DEF c

LEMMA DecodeInv == ASSUME Inv, Between \/ InString \/ AfterBackslash PROVE Inv'
<1> USE DEF Inv
<1>1. Reading /\ Read
  BY DEF Between, InString, AfterBackslash
<1>2. /\ UNCHANGED <<raw, text, phase, scan, document, result, verdict, trail>>
      /\ pos' = pos + 1 /\ phase = "decode"
  BY <1>1 DEF Reading, Read, input
<1>3. /\ pos \in Nat /\ pos + 1 \in 1 .. Len(text) /\ Len(text) \in Nat
      /\ After(pos) \in Scans /\ After(pos + 1) \in Scans
      /\ After(pos + 1) = Scanned(After(pos), c)
      /\ After(pos + 1).depth <= MaxDepth
  BY <1>1, NextScan, TextType
<1>4. After(pos)' = After(pos + 1)
  BY <1>2 DEF After
<1>5. /\ After(pos).inString = (mode # "between")
      /\ After(pos).escaped = (mode = "escape")
      /\ nested <= After(pos).depth /\ nested \in Nat /\ After(pos).depth \in Nat
  BY <1>2, <1>3 DEF InStep, TypeOK, Scans
<1>6. /\ After(pos + 1).inString = (mode' # "between")
      /\ After(pos + 1).escaped = (mode' = "escape")
      /\ nested' <= After(pos + 1).depth /\ nested' \in Nat
      /\ mode' \in {"between", "string", "escape"}
  <2>1. CASE Between
    <3>1. /\ mode = "between" /\ After(pos).inString = FALSE /\ After(pos).escaped = FALSE
          /\ mode' = IF c = "quote" THEN "string" ELSE "between"
      BY <1>5, <2>1 DEF Between
    <3>2. /\ After(pos + 1).inString = (c = "quote")
          /\ After(pos + 1).escaped = FALSE
          /\ After(pos + 1).depth = Counted(After(pos).depth, c)
      BY <1>3, <3>1 DEF Scanned, Scans
    <3>3. nested' <= Counted(After(pos).depth, c) /\ nested' \in Nat
      <4>1. CASE c = "open"
        BY <1>5, <2>1, <4>1 DEF Between, Counted
      <4>2. CASE c = "close"
        <5>1. nested > 0 /\ nested' = nested - 1
          BY <2>1, <4>2 DEF Between
        <5>2. Counted(After(pos).depth, c) = After(pos).depth - 1
          BY <1>5, <4>2, <5>1 DEF Counted
        <5>3. QED
          BY <1>5, <5>1, <5>2
      <4>3. CASE c \notin {"open", "close"}
        BY <1>5, <2>1, <4>3 DEF Between, Counted
      <4>4. QED
        BY <4>1, <4>2, <4>3
    <3>4. QED
      BY <3>1, <3>2, <3>3
  <2>2. CASE InString
    BY <1>3, <1>5, <2>2 DEF InString, Scanned, Scans
  <2>3. CASE AfterBackslash
    BY <1>3, <1>5, <2>3 DEF AfterBackslash, Scanned, Scans
  <2>4. QED
    BY <2>1, <2>2, <2>3
<1>7. repeats' \subseteq 1 .. nested' /\ met' \subseteq {"repeat", "nonfinite", "control"}
  <2>1. repeats \subseteq 1 .. nested /\ met \subseteq {"repeat", "nonfinite", "control"}
    BY DEF TypeOK
  <2>2. CASE Between
    <3>1. repeats' = repeats /\ met' = met
      BY <2>2 DEF Between
    <3>2. nested' \in {nested, nested + 1} \/ (nested' = nested - 1 /\ nested > 0 /\ nested \notin repeats)
      BY <2>2 DEF Between
    <3>3. ASSUME NEW l \in repeats
          PROVE  l \in 1 .. nested'
      BY <1>5, <2>1, <3>2
    <3>4. QED
      BY <2>1, <3>1, <3>3
  <2>3. CASE InString
    <3>1. nested' = nested
      BY <2>3 DEF InString
    <3>2. /\ repeats' = repeats \/ (repeats' = repeats \cup {nested} /\ nested > 0)
          /\ met' \in {met, met \cup {"control"}, met \cup {"repeat"}}
      BY <2>3 DEF InString
    <3>3. ASSUME NEW l \in repeats'
          PROVE  l \in 1 .. nested'
      <4>1. l \in repeats \/ (l = nested /\ nested > 0)
        BY <3>2
      <4>2. nested \in Nat /\ repeats \subseteq 1 .. nested
        BY <1>5, <2>1
      <4>3. nested > 0 => nested \in 1 .. nested
        BY <4>2
      <4>4. l \in 1 .. nested
        BY <4>1, <4>2, <4>3, Zenon
      <4>5. QED
        BY <3>1, <4>4
    <3>4. met' \subseteq {"repeat", "nonfinite", "control"}
      BY <2>1, <3>2
    <3>5. QED
      BY <3>3, <3>4
  <2>4. CASE AfterBackslash
    BY <2>1, <2>4 DEF AfterBackslash
  <2>5. QED
    BY <2>2, <2>3, <2>4
<1>8. TypeOK'
  BY <1>2, <1>3, <1>6, <1>7 DEF TypeOK
<1>9. Trailed' /\ Shallow'
  BY <1>2 DEF Trailed, Shallow, After
<1>10. InStep' /\ DecoderBounded'
  <2>1. After(pos + 1).depth \in Nat
    BY <1>3 DEF Scans
  <2>2. QED
    BY <1>2, <1>3, <1>4, <1>6, <2>1, RawGuardAssumption DEF InStep, DecoderBounded
<1>11. Watched'
  <2>1. "nonfinite" \notin met' /\ ("repeat" \in met' => repeats' # {})
    <3>1. "nonfinite" \notin met /\ ("repeat" \in met => repeats # {})
      BY <1>2 DEF Watched
    <3>2. QED
      BY <3>1 DEF Between, InString, AfterBackslash
  <2>2. QED
    BY <1>2, <2>1 DEF Watched, ValidIsClean
<1>12. QED
  BY <1>8, <1>9, <1>10, <1>11

LEMMA StopInv ==
  ASSUME Inv, DuplicateName \/ NonFiniteConstant \/ TooManyDigits PROVE Inv'
<1> USE DEF Inv, DuplicateName, NonFiniteConstant, TooManyDigits, Refuse, Reading, input, decoder
<1>1. TypeOK'
  BY DEF TypeOK, Phases, Results, Verdicts
<1>2. Trailed' /\ Shallow'
  BY DEF Trailed, Shallow, After, InStep
<1>3. InStep' /\ DecoderBounded'
  BY DEF InStep, DecoderBounded
<1>4. Watched'
  BY DEF Watched, ValidIsClean
<1>5. QED
  BY <1>1, <1>2, <1>3, <1>4

LEMMA DecodedInv == ASSUME Inv, JSONDecodeError \/ Decoded PROVE Inv'
<1> USE DEF Inv, JSONDecodeError, Decoded, GoOn, input
<1>1. TypeOK'
  <2>1. pos' \in 0 .. Len(text)
    BY TextType DEF TypeOK
  <2>2. document' \in Documents /\ phase' \in Phases
    BY DEF Documents, Phases
  <2>3. UNCHANGED <<raw, text, scan, mode, nested, repeats, met, trail, result, verdict>>
    OBVIOUS
  <2>4. QED
    BY <2>1, <2>2, <2>3 DEF TypeOK
<1>2. Trailed' /\ Shallow'
  BY DEF Trailed, Shallow, After
<1>3. InStep' /\ DecoderBounded'
  BY DEF InStep, DecoderBounded
<1>4. document' = "object" => met' \subseteq {"control"}
  <2>1. met' = met /\ met \subseteq {"repeat", "nonfinite", "control"} /\ "nonfinite" \notin met
    BY DEF Watched, TypeOK
  <2>2. Decoded => repeats = {}
    BY DEF TypeOK
  <2>3. document' = "object" => Decoded
    OBVIOUS
  <2>4. repeats = {} => "repeat" \notin met
    BY DEF Watched
  <2>5. QED
    BY <2>1, <2>2, <2>3, <2>4
<1>5. Watched'
  BY <1>4 DEF Watched, ValidIsClean
<1>6. QED
  BY <1>1, <1>2, <1>3, <1>5

LEMMA VerdictInv == ASSUME Inv, Controls \/ Classify PROVE Inv'
<1> USE DEF Inv, Controls, Classify, Refuse, input, decoder
<1>1. TypeOK'
  BY DEF TypeOK, Phases, Results, Verdicts
<1>2. Trailed' /\ Shallow'
  BY DEF Trailed, Shallow, After, InStep
<1>3. InStep' /\ DecoderBounded'
  BY DEF InStep, DecoderBounded
<1>4. Watched'
  BY DEF Watched, ValidIsClean, ControlFound
<1>5. QED
  BY <1>1, <1>2, <1>3, <1>4

LEMMA Inductive == Spec => []Inv
<1>1. Inv /\ [Next]_vars => Inv'
  <2> SUFFICES ASSUME Inv, [Next]_vars PROVE Inv'
    OBVIOUS
  <2>1. CASE UNCHANGED vars
    BY <2>1 DEF vars, input, decoder, Inv, TypeOK, Trailed, Shallow, InStep, DecoderBounded,
       Watched, ValidIsClean, After
  <2>2. QED
    BY <2>1, BeginInv, ScanInv, ScanEndsInv, DecodeInv, StopInv, DecodedInv, VerdictInv DEF Next
<1>2. QED
  BY InitInv, <1>1, PTL DEF Spec

\* Types: the depth of the scan stays a natural number.
THEOREM TypeCorrect == Spec => []TypeOK
BY Inductive, PTL DEF Inv

\* The recursive decoder behind the guard goes no deeper than MAX_DEPTH
\* (raw_guard.py:149-171 before 174-210).
THEOREM DecoderIsBounded == Spec => []DecoderBounded
BY Inductive, PTL DEF Inv

\* What is taken for a valid marker is clean (registration.py:475-542).
THEOREM ValidMarkersAreClean == Spec => []ValidIsClean
BY Inductive, PTL DEF Inv, Watched

-----------------------------------------------------------------------------
(***************************************************************************)
(* The depth is exact.  The scan knows strings by a state of two bits and  *)
(* counts up and down as it goes; the reference knows them by counting     *)
(* backslashes, and looks at every stretch of the text.  They agree:       *)
(*   - on strings, character by character (ScanIsInside);                  *)
(*   - no stretch opens, net, more than the depth at its end               *)
(*     (DepthBoundsStretches);                                             *)
(*   - the stretch after the last bracket that closed nothing opens just   *)
(*     that (DepthIsReached).                                              *)
(***************************************************************************)

\* The rule Inside is defined by, of any function.
Ruled(g, i) ==
  /\ i > 0
  /\ IF g[i - 1] THEN text[i] # "quote" \/ Backslashes(i) % 2 = 1 ELSE text[i] = "quote"

\* There is a function that obeys the rule at every place up to n.
LEMMA RuledDefined ==
  ASSUME NEW n \in Nat
  PROVE  \E g : g = [i \in 0 .. n |-> Ruled(g, i)]
<1> DEFINE S == {m \in Nat : \E g : g = [i \in 0 .. m |-> Ruled(g, i)]}
<1>1. 0 \in S
  <2> DEFINE g == [i \in 0 .. 0 |-> FALSE]
  <2>1. \A i \in 0 .. 0 : Ruled(g, i) = FALSE
    BY DEF Ruled
  <2>2. g = [i \in 0 .. 0 |-> Ruled(g, i)]
    BY <2>1
  <2>3. QED
    BY <2>2
<1>2. ASSUME NEW m \in Nat, m \in S
      PROVE  m + 1 \in S
  <2>1. PICK g : g = [i \in 0 .. m |-> Ruled(g, i)]
    BY <1>2
  <2> DEFINE h == [i \in 0 .. m + 1 |-> IF i = m + 1 THEN Ruled(g, i) ELSE g[i]]
  <2>2. ASSUME NEW i \in 0 .. m + 1
        PROVE  h[i] = Ruled(h, i)
    <3>1. h[i] = Ruled(g, i)
      BY <2>1
    <3>2. i # 0 => h[i - 1] = g[i - 1]
      OBVIOUS
    <3>3. Ruled(g, i) = Ruled(h, i)
      <4>1. CASE i = 0
        BY <4>1 DEF Ruled
      <4>2. CASE i # 0
        <5> HIDE DEF h
        <5>1. h[i - 1] = g[i - 1]
          BY <3>2, <4>2
        <5>2. QED
          BY <5>1, Zenon DEF Ruled
      <4>3. QED
        BY <4>1, <4>2
    <3>4. QED
      BY <3>1, <3>3
  <2>3. h = [i \in 0 .. m + 1 |-> Ruled(h, i)]
    BY <2>2
  <2> HIDE DEF h
  <2>4. QED
    BY <2>3
<1>3. \A m \in Nat : m \in S
  <2> HIDE DEF S
  <2>1. QED
    BY <1>1, <1>2, SetInduction
<1>4. QED
  BY <1>3

\* Inside does, so its recursive definition may be unfolded.
LEMMA InsideRecursion ==
  ASSUME TypeOK, NEW i \in 0 .. Len(text)
  PROVE  /\ Inside[i] \in BOOLEAN
         /\ Inside[i] = Ruled(Inside, i)
<1>1. PICK g : g = [k \in 0 .. Len(text) |-> Ruled(g, k)]
  BY TextType, RuledDefined
<1>2. Inside = [k \in 0 .. Len(text) |-> Ruled(Inside, k)]
  BY <1>1, Zenon DEF Inside, Ruled
<1>3. Ruled(Inside, i) \in BOOLEAN
  BY DEF Ruled
<1>4. QED
  BY <1>2, <1>3

\* Backslashes are counted from the last character that is none.
LEMMA BackslashesStep ==
  ASSUME NEW i \in Nat \ {0}
  PROVE  /\ Backslashes(i) \in Nat
         /\ Backslashes(i + 1) = IF text[i] = "escape" THEN Backslashes(i) + 1 ELSE 0
<1> DEFINE B(j) == {k \in 1 .. j - 1 : \A l \in k .. j - 1 : text[l] = "escape"}
<1>1. IsFiniteSet(B(i))
  <2>1. IsFiniteSet(1 .. i - 1)
    BY FS_Interval
  <2>2. QED
    BY <2>1, FS_Subset
<1>2. CASE text[i] = "escape"
  <2>1. B(i + 1) = B(i) \cup {i}
    BY <1>2
  <2>2. i \notin B(i)
    OBVIOUS
  <2>3. Cardinality(B(i) \cup {i}) = Cardinality(B(i)) + 1
    <3> HIDE DEF B
    <3>1. QED
      BY <1>1, <2>2, FS_AddElement
  <2>4. QED
    BY <1>1, <1>2, <2>1, <2>3, FS_CardinalityType DEF Backslashes
<1>3. CASE text[i] # "escape"
  <2>1. B(i + 1) = {}
    BY <1>3
  <2>2. QED
    BY <1>1, <1>3, <2>1, FS_CardinalityType, FS_EmptySet DEF Backslashes
<1>4. QED
  BY <1>2, <1>3

\* The scan is in a string where the text is, and about to pass over a
\* character where an odd number of backslashes stands before it.
LEMMA ScanIsInside ==
  ASSUME TypeOK, Trailed
  PROVE  \A i \in 0 .. Len(trail) :
           /\ After(i).inString = Inside[i]
           /\ After(i).escaped = (Inside[i] /\ Backslashes(i + 1) % 2 = 1)
<1> DEFINE P(i) == /\ After(i).inString = Inside[i]
                   /\ After(i).escaped = (Inside[i] /\ Backslashes(i + 1) % 2 = 1)
           S == {m \in Nat : m <= Len(trail) => P(m)}
<1>1. Len(trail) \in Nat /\ Len(text) \in Nat /\ Len(trail) <= Len(text)
  BY TextType DEF TypeOK, Trailed
<1>2. 0 \in S
  <2>1. After(0).inString = FALSE /\ After(0).escaped = FALSE
    BY DEF After, Start
  <2>2. Inside[0] = FALSE
    <3>1. 0 \in 0 .. Len(text)
      BY <1>1
    <3>2. Inside[0] = Ruled(Inside, 0)
      BY <3>1, InsideRecursion
    <3>3. QED
      BY <3>2 DEF Ruled
  <2>3. QED
    BY <2>1, <2>2
<1>3. ASSUME NEW m \in Nat, m \in S
      PROVE  m + 1 \in S
  <2> SUFFICES ASSUME m + 1 <= Len(trail) PROVE P(m + 1)
    OBVIOUS
  <2> DEFINE s == After(m)
             t == After(m + 1)
             ch == text[m + 1]
  <2>1. s.inString = Inside[m] /\ s.escaped = (Inside[m] /\ Backslashes(m + 1) % 2 = 1)
    BY <1>1, <1>3
  <2>2. t = Scanned(s, ch)
    <3>1. m + 1 \in 1 .. Len(trail) /\ (m + 1) - 1 = m /\ m + 1 # 0
      BY <1>1
    <3>2. QED
      BY <3>1 DEF Trailed, After
  <2>3. s \in Scans
    BY <1>1, AfterType
  <2>4. /\ Inside[m] \in BOOLEAN
        /\ Inside[m + 1] = IF Inside[m] THEN ch # "quote" \/ Backslashes(m + 1) % 2 = 1
                                        ELSE ch = "quote"
    <3>1. m \in 0 .. Len(text) /\ m + 1 \in 0 .. Len(text) /\ (m + 1) - 1 = m /\ m + 1 > 0
      BY <1>1
    <3>2. Inside[m + 1] = Ruled(Inside, m + 1) /\ Inside[m] \in BOOLEAN
      BY <3>1, InsideRecursion
    <3>3. QED
      BY <3>1, <3>2 DEF Ruled
  <2>5. /\ Backslashes(m + 1) \in Nat
        /\ Backslashes(m + 2) = IF ch = "escape" THEN Backslashes(m + 1) + 1 ELSE 0
    <3>1. m + 1 \in Nat \ {0} /\ (m + 1) + 1 = m + 2
      OBVIOUS
    <3>2. QED
      BY <3>1, BackslashesStep
  <2>6. (Backslashes(m + 2) % 2 = 1) = (ch = "escape" /\ ~(Backslashes(m + 1) % 2 = 1))
    BY <2>5
  <2>7. (m + 1) + 1 = m + 2
    OBVIOUS
  <2> HIDE DEF s, t, ch
  <2>8. CASE Inside[m]
    <3>1. s.inString /\ (s.escaped <=> Backslashes(m + 1) % 2 = 1)
      BY <2>1, <2>8
    <3>2. /\ t.inString = (s.escaped \/ ch # "quote")
          /\ t.escaped = (~s.escaped /\ ch = "escape")
      BY <2>2, <2>3, <3>1 DEF Scanned, Scans
    <3>3. Inside[m + 1] = (ch # "quote" \/ Backslashes(m + 1) % 2 = 1)
      BY <2>4, <2>8
    <3>4. QED
      BY <2>6, <2>7, <3>1, <3>2, <3>3 DEF t
  <2>9. CASE ~Inside[m]
    <3>1. ~s.inString /\ ~s.escaped
      BY <2>1, <2>9
    <3>2. t.inString = (ch = "quote") /\ t.escaped = s.escaped
      BY <2>2, <2>3, <3>1 DEF Scanned, Scans
    <3>3. Inside[m + 1] = (ch = "quote")
      BY <2>4, <2>9
    <3>4. QED
      BY <2>3, <2>6, <2>7, <3>1, <3>2, <3>3 DEF t, Scans
  <2>10. QED
    BY <2>4, <2>8, <2>9
<1>4. \A m \in Nat : m \in S
  <2> HIDE DEF S
  <2>1. QED
    BY <1>2, <1>3, SetInduction
<1>5. QED
  BY <1>1, <1>4

\* The brackets of one kind outside strings in a stretch, and how many it opens
\* and closes.
Bares(i, k, ch) == {j \in i .. k : ~Inside[j - 1] /\ text[j] = ch}
Opened(i, k) == Cardinality(Bares(i, k, "open"))
Closed(i, k) == Cardinality(Bares(i, k, "close"))

\* An empty stretch has none.
LEMMA BaresEmpty ==
  ASSUME NEW i \in Nat \ {0}, NEW ch
  PROVE  Cardinality(Bares(i, i - 1, ch)) = 0
<1>1. Bares(i, i - 1, ch) = {}
  BY DEF Bares
<1>2. QED
  BY <1>1, FS_EmptySet

\* They are finitely many.
LEMMA BaresCounted ==
  ASSUME NEW i \in Nat, NEW k \in Nat, NEW ch
  PROVE  /\ IsFiniteSet(Bares(i, k, ch))
         /\ Cardinality(Bares(i, k, ch)) \in Nat
<1>1. IsFiniteSet(i .. k)
  BY FS_Interval
<1>2. IsFiniteSet(Bares(i, k, ch))
  BY <1>1, FS_Subset DEF Bares
<1>3. QED
  BY <1>2, FS_CardinalityType

\* One character on, there is one more at most.
LEMMA BaresStep ==
  ASSUME NEW k \in Nat, NEW i \in 1 .. k + 1, NEW ch
  PROVE  /\ Cardinality(Bares(i, k, ch)) \in Nat
         /\ Cardinality(Bares(i, k + 1, ch)) =
              IF ~Inside[k] /\ text[k + 1] = ch
              THEN Cardinality(Bares(i, k, ch)) + 1
              ELSE Cardinality(Bares(i, k, ch))
<1>1. IsFiniteSet(Bares(i, k, ch))
  BY BaresCounted
<1>2. i .. k + 1 = (i .. k) \cup {k + 1} /\ (k + 1) - 1 = k
  OBVIOUS
<1>3. CASE ~Inside[k] /\ text[k + 1] = ch
  <2>1. Bares(i, k + 1, ch) = Bares(i, k, ch) \cup {k + 1}
    BY <1>2, <1>3 DEF Bares
  <2>2. k + 1 \notin Bares(i, k, ch)
    BY DEF Bares
  <2>3. QED
    BY <1>1, <1>3, <2>1, <2>2, FS_AddElement, FS_CardinalityType
<1>4. CASE ~(~Inside[k] /\ text[k + 1] = ch)
  <2>1. Bares(i, k + 1, ch) = Bares(i, k, ch)
    BY <1>2, <1>4 DEF Bares
  <2>2. QED
    BY <1>1, <1>4, <2>1, FS_CardinalityType
<1>5. QED
  BY <1>3, <1>4

\* A bracket of the text that closes nothing comes after k characters.
ClosesNothing(k) == After(k).depth = 0 /\ ~Inside[k] /\ text[k + 1] = "close"

\* One character on, the depth and the counts of a stretch that ends there
\* change alike, unless a bracket closes nothing.
LEMMA CountStep ==
  ASSUME TypeOK, Trailed, NEW k \in Nat, k + 1 <= Len(trail), NEW i \in 1 .. k + 1
  PROVE  /\ After(k).depth \in Nat /\ After(k + 1).depth \in Nat
         /\ Opened(i, k) \in Nat /\ Closed(i, k) \in Nat
         /\ Opened(i, k + 1) \in Nat /\ Closed(i, k + 1) \in Nat
         /\ ClosesNothing(k) =>
              /\ After(k).depth = 0 /\ After(k + 1).depth = 0
              /\ Opened(i, k + 1) = Opened(i, k) /\ Closed(i, k + 1) = Closed(i, k) + 1
         /\ ~ClosesNothing(k) =>
              Opened(i, k + 1) + Closed(i, k) + After(k).depth =
              Opened(i, k) + Closed(i, k + 1) + After(k + 1).depth
<1> DEFINE s == After(k)
           t == After(k + 1)
           ch == text[k + 1]
<1>1. k \in 0 .. Len(trail) /\ k + 1 \in 1 .. Len(trail) /\ k + 1 \in 0 .. Len(trail)
  BY DEF TypeOK
<1>2. s \in Scans /\ t \in Scans
  BY <1>1, AfterType
<1>3. t = Scanned(s, ch)
  BY <1>1 DEF Trailed, After
<1>4. s.inString = Inside[k]
  BY <1>1, ScanIsInside
<1> HIDE DEF s, t
<1>5. t.depth = IF Inside[k] THEN s.depth ELSE Counted(s.depth, ch)
  BY <1>2, <1>3, <1>4 DEF Scanned, Scans
<1>6. s.depth \in Nat /\ t.depth \in Nat
  BY <1>2 DEF Scans
<1>7. /\ Opened(i, k) \in Nat /\ Closed(i, k) \in Nat
      /\ Opened(i, k + 1) = IF ~Inside[k] /\ ch = "open" THEN Opened(i, k) + 1 ELSE Opened(i, k)
      /\ Closed(i, k + 1) = IF ~Inside[k] /\ ch = "close" THEN Closed(i, k) + 1 ELSE Closed(i, k)
  BY BaresStep DEF Opened, Closed
<1>8. ClosesNothing(k) <=> s.depth = 0 /\ ~Inside[k] /\ ch = "close"
  BY DEF ClosesNothing, s
<1> HIDE DEF ch
<1>9. /\ ClosesNothing(k) =>
           /\ s.depth = 0 /\ t.depth = 0
           /\ Opened(i, k + 1) = Opened(i, k) /\ Closed(i, k + 1) = Closed(i, k) + 1
      /\ ~ClosesNothing(k) =>
           Opened(i, k + 1) + Closed(i, k) + s.depth = Opened(i, k) + Closed(i, k + 1) + t.depth
  <2>1. CASE Inside[k] \/ ch \notin {"open", "close"}
    <3>1. /\ Opened(i, k + 1) = Opened(i, k) /\ Closed(i, k + 1) = Closed(i, k)
          /\ t.depth = s.depth /\ ~ClosesNothing(k)
      BY <1>5, <1>7, <1>8, <2>1 DEF Counted
    <3>2. QED
      BY <1>6, <1>7, <3>1
  <2>2. CASE ~Inside[k] /\ ch = "open"
    <3>1. /\ Opened(i, k + 1) = Opened(i, k) + 1 /\ Closed(i, k + 1) = Closed(i, k)
          /\ t.depth = s.depth + 1 /\ ~ClosesNothing(k)
      BY <1>5, <1>7, <1>8, <2>2 DEF Counted
    <3>2. QED
      BY <1>6, <1>7, <3>1
  <2>3. CASE ~Inside[k] /\ ch = "close"
    <3>1. Opened(i, k + 1) = Opened(i, k) /\ Closed(i, k + 1) = Closed(i, k) + 1
      BY <1>7, <2>3
    <3>2. ClosesNothing(k) => s.depth = 0 /\ t.depth = 0
      BY <1>5, <1>8, <2>3 DEF Counted
    <3>3. ~ClosesNothing(k) => t.depth = s.depth - 1
      BY <1>5, <1>6, <1>8, <2>3 DEF Counted
    <3>4. QED
      BY <1>6, <1>7, <3>1, <3>2, <3>3
  <2>4. QED
    BY <2>1, <2>2, <2>3
<1>10. Opened(i, k + 1) \in Nat /\ Closed(i, k + 1) \in Nat
  BY <1>7
<1>11. QED
  BY <1>6, <1>7, <1>9, <1>10 DEF s, t

\* No stretch opens more, net, than the depth at its end.
LEMMA DepthBoundsStretches ==
  ASSUME TypeOK, Trailed, NEW i \in Nat \ {0}
  PROVE  \A k \in Nat : i - 1 <= k /\ k <= Len(trail) =>
           Opened(i, k) <= Closed(i, k) + After(k).depth
<1> DEFINE P(k) == i - 1 <= k /\ k <= Len(trail) =>
                     Opened(i, k) <= Closed(i, k) + After(k).depth
           S == {k \in Nat : P(k)}
<1>1. ASSUME i - 1 <= Len(trail)
      PROVE  Opened(i, i - 1) <= Closed(i, i - 1) + After(i - 1).depth
  <2>1. i - 1 \in 0 .. Len(trail)
    BY <1>1 DEF TypeOK
  <2>2. After(i - 1).depth \in Nat
    BY <2>1, AfterType DEF Scans
  <2>3. Opened(i, i - 1) = 0 /\ Closed(i, i - 1) = 0
    BY BaresEmpty DEF Opened, Closed
  <2>4. QED
    BY <2>2, <2>3
<1>2. 0 \in S
  <2>1. i - 1 <= 0 => i - 1 = 0
    OBVIOUS
  <2>2. QED
    BY <1>1, <2>1
<1>3. ASSUME NEW k \in Nat, k \in S
      PROVE  k + 1 \in S
  <2> SUFFICES ASSUME i - 1 <= k + 1, k + 1 <= Len(trail)
               PROVE  Opened(i, k + 1) <= Closed(i, k + 1) + After(k + 1).depth
    OBVIOUS
  <2>1. CASE i - 1 = k + 1
    BY <1>1, <2>1
  <2>2. CASE i - 1 <= k
    <3>1. i \in 1 .. k + 1 /\ k <= Len(trail)
      BY <2>2 DEF TypeOK
    <3>2. Opened(i, k) <= Closed(i, k) + After(k).depth
      BY <1>3, <2>2, <3>1
    <3>3. /\ After(k).depth \in Nat /\ After(k + 1).depth \in Nat
          /\ Opened(i, k) \in Nat /\ Closed(i, k) \in Nat
          /\ Opened(i, k + 1) \in Nat /\ Closed(i, k + 1) \in Nat
          /\ ClosesNothing(k) =>
               /\ After(k).depth = 0 /\ After(k + 1).depth = 0
               /\ Opened(i, k + 1) = Opened(i, k) /\ Closed(i, k + 1) = Closed(i, k) + 1
          /\ ~ClosesNothing(k) =>
               Opened(i, k + 1) + Closed(i, k) + After(k).depth =
               Opened(i, k) + Closed(i, k + 1) + After(k + 1).depth
      BY <3>1, CountStep
    <3>4. QED
      BY <3>2, <3>3
  <2>3. QED
    BY <2>1, <2>2
<1>4. \A k \in Nat : k \in S
  <2> HIDE DEF S
  <2>1. QED
    BY <1>2, <1>3, SetInduction
<1>5. QED
  BY <1>4

\* Some stretch opens, net, the whole depth at its end: it begins after the
\* last bracket that closed nothing.
LEMMA DepthIsReached ==
  ASSUME TypeOK, Trailed
  PROVE  \A k \in Nat : k <= Len(trail) =>
           \E i \in 1 .. k + 1 : Opened(i, k) = Closed(i, k) + After(k).depth
<1> DEFINE P(k) == k <= Len(trail) =>
                     \E i \in 1 .. k + 1 : Opened(i, k) = Closed(i, k) + After(k).depth
           S == {k \in Nat : P(k)}
<1>1. ASSUME NEW k \in Nat, After(k).depth = 0
      PROVE  \E i \in 1 .. k + 1 : Opened(i, k) = Closed(i, k) + After(k).depth
  <2>1. k + 1 \in 1 .. k + 1 /\ k + 1 \in Nat \ {0} /\ (k + 1) - 1 = k
    OBVIOUS
  <2>2. Opened(k + 1, k) = 0 /\ Closed(k + 1, k) = 0
    BY <2>1, BaresEmpty DEF Opened, Closed
  <2>3. QED
    BY <1>1, <2>1, <2>2
<1>2. 0 \in S
  BY <1>1 DEF After, Start
<1>3. ASSUME NEW k \in Nat, k \in S
      PROVE  k + 1 \in S
  <2> SUFFICES ASSUME k + 1 <= Len(trail)
               PROVE  \E i \in 1 .. (k + 1) + 1 :
                        Opened(i, k + 1) = Closed(i, k + 1) + After(k + 1).depth
    OBVIOUS
  <2>1. CASE ClosesNothing(k)
    <3>1. After(k + 1).depth = 0
      <4>1. 1 \in 1 .. k + 1
        OBVIOUS
      <4>2. QED
        BY <2>1, <4>1, CountStep
    <3>2. QED
      BY <1>1, <3>1
  <2>2. CASE ~ClosesNothing(k)
    <3>1. k <= Len(trail)
      BY DEF TypeOK
    <3>2. PICK i \in 1 .. k + 1 : Opened(i, k) = Closed(i, k) + After(k).depth
      BY <1>3, <3>1
    <3>3. /\ After(k).depth \in Nat /\ After(k + 1).depth \in Nat
          /\ Opened(i, k) \in Nat /\ Closed(i, k) \in Nat
          /\ Opened(i, k + 1) \in Nat /\ Closed(i, k + 1) \in Nat
          /\ Opened(i, k + 1) + Closed(i, k) + After(k).depth =
             Opened(i, k) + Closed(i, k + 1) + After(k + 1).depth
      BY <2>2, CountStep
    <3>4. i \in 1 .. (k + 1) + 1
      OBVIOUS
    <3>5. Opened(i, k + 1) = Closed(i, k + 1) + After(k + 1).depth
      <4> DEFINE o == Opened(i, k)
                 c1 == Closed(i, k)
                 d == After(k).depth
                 o2 == Opened(i, k + 1)
                 c2 == Closed(i, k + 1)
                 d2 == After(k + 1).depth
      <4>1. /\ o \in Nat /\ c1 \in Nat /\ d \in Nat
            /\ o2 \in Nat /\ c2 \in Nat /\ d2 \in Nat
            /\ o = c1 + d /\ o2 + c1 + d = o + c2 + d2
        BY <3>2, <3>3
      <4> HIDE DEF o, c1, d, o2, c2, d2, P, S
      <4>2. o2 = c2 + d2
        BY <4>1
      <4>3. QED
        BY <4>2 DEF o2, c2, d2
    <3>6. QED
      BY <3>4, <3>5
  <2>3. QED
    BY <2>1, <2>2
<1>4. \A k \in Nat : k \in S
  <2> HIDE DEF S
  <2>1. QED
    BY <1>2, <1>3, SetInduction
<1>5. QED
  BY <1>4

\* A text is refused for its depth with a depth that is too big.
Refused == result = "depth" => scan.depth > MaxDepth

\* The step of that invariant.
LEMMA RefusedStep == Inv /\ Refused /\ [Next]_vars => Refused'
<1> SUFFICES ASSUME Inv, Refused, [Next]_vars PROVE Refused'
  OBVIOUS
<1> USE DEF Inv, Refused
<1>1. CASE BoundRead \/ StrictUtf8
  BY <1>1 DEF BoundRead, StrictUtf8, Refuse, GoOn
<1>2. CASE DepthScan
  BY <1>2 DEF DepthScan, Refuse, InStep
<1>3. CASE ScanEnds
  BY <1>3 DEF ScanEnds, GoOn
<1>4. CASE Between \/ InString \/ AfterBackslash
  BY <1>4 DEF Between, InString, AfterBackslash, Read
<1>5. CASE DuplicateName \/ NonFiniteConstant \/ TooManyDigits
  BY <1>5 DEF DuplicateName, NonFiniteConstant, TooManyDigits, Refuse
<1>6. CASE JSONDecodeError \/ Decoded
  BY <1>6 DEF JSONDecodeError, Decoded, GoOn
<1>7. CASE Controls \/ Classify
  BY <1>7 DEF Controls, Classify, Refuse
<1>8. CASE UNCHANGED vars
  BY <1>8 DEF vars
<1>9. QED
  BY <1>1, <1>2, <1>3, <1>4, <1>5, <1>6, <1>7, <1>8 DEF Next

\* The reference definition, in terms of these counts.
LEMMA DeepIsOpened ==
  Deep <=> \E i, k \in 1 .. Len(text) : Opened(i, k) > Closed(i, k) + MaxDepth
BY DEF Deep, Opened, Closed, Bares

\* Where the scan stopped, the depth it had reached is that of a stretch.
LEMMA RefusedIsDeep ==
  ASSUME TypeOK, Trailed, Refused, result = "depth"
  PROVE  Deep
<1> DEFINE n == Len(trail)
<1>1. n \in Nat /\ n <= Len(text) /\ Len(text) \in Nat /\ After(n).depth > MaxDepth
  BY TextType DEF TypeOK, Trailed, Refused
<1>2. PICK i \in 1 .. n + 1 : Opened(i, n) = Closed(i, n) + After(n).depth
  BY <1>1, DepthIsReached
<1>3. After(n).depth \in Nat
  BY <1>1, AfterType DEF Scans
<1>4. i # n + 1
  <2> SUFFICES ASSUME i = n + 1 PROVE FALSE
    OBVIOUS
  <2>1. Opened(i, n) = 0 /\ Closed(i, n) = 0
    <3>1. n + 1 \in Nat \ {0} /\ (n + 1) - 1 = n
      BY <1>1
    <3>2. QED
      BY <3>1, BaresEmpty DEF Opened, Closed
  <2>2. QED
    BY <1>1, <1>2, <1>3, <2>1, RawGuardAssumption
<1>5. i \in 1 .. Len(text) /\ n \in 1 .. Len(text)
  BY <1>1, <1>4
<1>6. Closed(i, n) \in Nat
  BY <1>1, <1>5, BaresCounted DEF Closed
<1>7. Opened(i, n) > Closed(i, n) + MaxDepth
  BY <1>1, <1>2, <1>3, <1>6, RawGuardAssumption
<1>8. QED
  BY <1>5, <1>7, DeepIsOpened

\* A scan that ended met no depth too big, and so there was no such stretch.
LEMMA PassedIsShallow ==
  ASSUME TypeOK, Trailed, Shallow, result # "depth", Len(trail) = Len(text)
  PROVE  ~Deep
<1> SUFFICES ASSUME NEW i \in 1 .. Len(text), NEW k \in 1 .. Len(text),
                    Opened(i, k) > Closed(i, k) + MaxDepth
             PROVE  FALSE
  BY DeepIsOpened
<1>1. Len(text) \in Nat /\ k \in Nat /\ i \in Nat \ {0} /\ k \in 1 .. Len(trail)
  BY TextType
<1>2. After(k).depth <= MaxDepth /\ After(k).depth \in Nat
  <2>1. k \in 0 .. Len(trail) /\ After(k) = trail[k]
    BY <1>1 DEF After
  <2>2. QED
    BY <1>1, <2>1, AfterType DEF Shallow, Scans
<1>3. Opened(i, k) \in Nat /\ Closed(i, k) \in Nat
  BY <1>1, BaresCounted DEF Opened, Closed
<1>4. CASE i - 1 <= k
  <2>1. Opened(i, k) <= Closed(i, k) + After(k).depth
    BY <1>1, <1>4, DepthBoundsStretches
  <2>2. QED
    BY <1>2, <1>3, <2>1, RawGuardAssumption
<1>5. CASE i - 1 > k
  <2>1. Bares(i, k, "open") = {}
    BY <1>1, <1>5 DEF Bares
  <2>2. Opened(i, k) = 0
    BY <2>1, FS_EmptySet DEF Opened
  <2>3. QED
    BY <1>3, <2>2, RawGuardAssumption
<1>6. QED
  BY <1>1, <1>4, <1>5

\* The guard refuses a text for its depth if some stretch of it is too deep,
\* and only then (raw_guard.py:149-171).
THEOREM DepthExact == Spec => []DepthIsExact
<1>1. Init => Refused
  BY DEF Init, Refused
<1>2. Spec => []Refused
  BY Inductive, <1>1, RefusedStep, PTL DEF Spec
<1>3. Inv /\ Refused => DepthIsExact
  <2> SUFFICES ASSUME Inv, Refused PROVE DepthIsExact
    OBVIOUS
  <2>1. result = "depth" => Deep
    BY RefusedIsDeep DEF Inv
  <2>2. phase = "decode" => ~Deep
    BY PassedIsShallow DEF Inv, Trailed, InStep
  <2>3. QED
    BY <2>1, <2>2 DEF DepthIsExact
<1>4. QED
  BY Inductive, <1>2, <1>3, PTL
=============================================================================
