------------------------------- MODULE JobLedger -------------------------------
(***************************************************************************)
(* What dispatching promises for one job after the other, without          *)
(* sessions, drafts or a record that is written in steps: a job is put on  *)
(* record under one workstream and stays there; an agent is asked for only *)
(* then, and once; what is reported agrees with what was heard; an agent   *)
(* that has gone never comes back, and only a job that was reported        *)
(* dispatched has a binding.                                               *)
(***************************************************************************)
CONSTANTS
  Jobs,
  Idents,   \* workstreams
  None      \* not on record

VARIABLES
  stream,   \* the workstream each job is on record under, or None
  stage,    \* how far each job is
  working,  \* the jobs that have an agent
  bound     \* the jobs that have a binding

ledgerVars == <<stream, stage, working, bound>>

Init ==
  /\ stream = [j \in Jobs |-> None]
  /\ stage = [j \in Jobs |-> "open"]
  /\ working = {} /\ bound = {}

Move(j, from, to) == stage[j] = from /\ stage' = [stage EXCEPT ![j] = to]

PutOnRecord(j) ==
  /\ stream[j] = None
  /\ stage[j] = "open"
  /\ \E i \in Idents : stream' = [stream EXCEPT ![j] = i]
  /\ UNCHANGED <<stage, working, bound>>

\* The agent starts, is refused, or nobody waits for the answer.
Ask(j) ==
  /\ stream[j] # None
  /\ stage[j] = "open"
  /\ \E to \in {"started", "refused", "pending"} :
       /\ stage' = [stage EXCEPT ![j] = to]
       /\ working' = IF to = "started" THEN working \cup {j} ELSE working
  /\ UNCHANGED <<stream, bound>>

StartLate(j) ==
  /\ Move(j, "pending", "late")
  /\ working' = working \cup {j}
  /\ UNCHANGED <<stream, bound>>

Report(j) ==
  /\ Move(j, "started", "dispatched")
  /\ bound' \in {bound, bound \cup {j}}
  /\ UNCHANGED <<stream, working>>

Depart(j) ==
  /\ j \in working
  /\ working' = working \ {j}
  /\ UNCHANGED <<stream, stage, bound>>

Forget ==
  /\ bound' = {}
  /\ UNCHANGED <<stream, stage, working>>

Next ==
  \/ \E j \in Jobs :
       PutOnRecord(j) \/ Ask(j) \/ StartLate(j) \/ Report(j) \/ Depart(j)
  \/ Forget

Spec == Init /\ [][Next]_ledgerVars
=============================================================================
