---------------------------- MODULE ChangeBaseline ----------------------------
(***************************************************************************)
(* What the change signal promises: one baseline for each path, and each   *)
(* observation compares what it captured with the baseline and replaces it *)
(* in one step.  The baselines may be forgotten, all at once.              *)
(***************************************************************************)
EXTENDS Sequences

CONSTANTS
  Observers,   \* activity answers
  Paths,       \* what workspaces are called
  Captures,    \* the git states an observation can capture
  None         \* no baseline; nothing captured

VARIABLES
  known,       \* the baseline of each path, or None
  said         \* what each observer has said: the path, the signal for it and
               \* the capture that is about, or None

baselineVars == <<known, said>>

Init ==
  /\ known = [path \in Paths |-> None]
  /\ said = [o \in Observers |-> <<>>]

Signal(path, c) ==
  CASE known[path] = None -> "bootstrap"
    [] known[path] = c    -> "unchanged"
    [] OTHER              -> "changed"

Say(o, path, signal, c) ==
  said' = [said EXCEPT ![o] = Append(@, [path |-> path, signal |-> signal, saw |-> c])]

Observe(o, path, c) ==
  /\ known' = [known EXCEPT ![path] = c]
  /\ Say(o, path, Signal(path, c), c)

Unsupported(o, path) ==
  /\ Say(o, path, "unsupported", None)
  /\ UNCHANGED known

Forget ==
  /\ known' = [path \in Paths |-> None]
  /\ UNCHANGED said

Next ==
  \/ \E o \in Observers, path \in Paths :
       \/ \E c \in Captures : Observe(o, path, c)
       \/ Unsupported(o, path)
  \/ Forget

Spec == Init /\ [][Next]_baselineVars
=============================================================================
