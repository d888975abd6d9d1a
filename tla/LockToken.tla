------------------------------ MODULE LockToken ------------------------------
(***************************************************************************)
(* What the per-workspace registration lock promises, without files: one   *)
(* token per workspace.  A process takes a free token, gives its own token *)
(* back, or takes over the token of a process that is gone.  Nothing else  *)
(* moves the token, and nothing at all moves it away from a process that   *)
(* is alive except that process itself.                                    *)
(***************************************************************************)
CONSTANTS
  Holders,    \* every process whose name the token can ever carry
  Departed,   \* the holders that are gone before the first step
  Free        \* the token is nobody's

VARIABLES
  token,      \* the process that has the token, or Free
  gone        \* the processes that have ended, normally or by a crash

tokenVars == <<token, gone>>

Init ==
  /\ token \in Holders \cup {Free}
  /\ gone = Departed

Take(p) ==
  /\ token = Free
  /\ p \notin gone
  /\ token' = p
  /\ UNCHANGED gone

Return(p) ==
  /\ token = p
  /\ p \notin gone
  /\ token' = Free
  /\ UNCHANGED gone

Inherit(p) ==
  /\ token \in gone
  /\ p \notin gone
  /\ token' = p
  /\ UNCHANGED gone

Depart(p) ==
  /\ p \notin gone
  /\ gone' = gone \cup {p}
  /\ UNCHANGED token

Next == \E p \in Holders : Take(p) \/ Return(p) \/ Inherit(p) \/ Depart(p)

Spec == Init /\ [][Next]_tokenVars
=============================================================================
