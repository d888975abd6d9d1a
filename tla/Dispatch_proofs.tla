---------------------------- MODULE Dispatch_proofs ----------------------------
(***************************************************************************)
(* Theorems about Dispatch for any number of drafts, sessions and          *)
(* answerers, and any doings of the outside world: the record file alone   *)
(* makes one session the author of a job, and only its author goes on to   *)
(* the daemon and the store.                                               *)
(***************************************************************************)
EXTENDS Dispatch, TLAPS

\* The session whose exclusive create of the record has succeeded and which
\* has not given up before the spawn.
Author(s) == pc[s] \in {"fill", "readback", "spawn", "bind"} \/ s \in asked

\* The part of TypeOK that dispatches read and write.
DispatchTypes ==
  /\ marker \in Idents \cup {None}
  /\ record \in [Jobs -> Records]
  /\ pc \in [Dispatchers \cup Answerers -> PCs]
  /\ identity \in [Dispatchers \cup Answerers -> Idents \cup {None}]
  /\ result \in [Dispatchers -> Outcomes]
  /\ asked \subseteq Dispatchers

\* From the create on a session knows the identity it resolved.
Resolved ==
  \A s \in Dispatchers : Author(s) \/ pc[s] = "create" => identity[s] \in Idents

\* What the record says of its author.
Filling ==
  \A s \in Dispatchers : pc[s] = "fill" => record[JobOf(s)] = PartRecord(identity[s])

Filled ==
  \A s \in Dispatchers :
    pc[s] \in {"readback", "spawn", "bind"} \/ s \in asked =>
      record[JobOf(s)] = FullRecord(identity[s])

OneAuthor ==
  \A s, t \in Dispatchers : Author(s) /\ Author(t) /\ JobOf(s) = JobOf(t) => s = t

\* When the daemon is asked, and what follows from its answer.
Asking ==
  \A s \in Dispatchers :
    /\ s \in asked => pc[s] \in {"bind", "done"}
    /\ pc[s] = "bind" => s \in asked /\ JobOf(s) \in ever
    /\ result[s] # "none" => pc[s] = "done"
    /\ result[s] \in {"dispatched", "partial-success"} => s \in asked

\* A binding is of a job whose author reported it dispatched.
BoundIsTold ==
  \A j \in bound : \E s \in asked : JobOf(s) = j /\ result[s] = "dispatched"

Inv ==
  /\ DispatchTypes /\ Resolved /\ Filling /\ Filled /\ OneAuthor
  /\ Asking /\ BoundIsTold /\ ResultHonest

-----------------------------------------------------------------------------
LEMMA JobFacts ==
  /\ \A s \in Dispatchers : JobOf(s) \in Jobs
  /\ Dispatchers \cap Answerers = {}
  /\ None \notin Idents
BY DispatchAssumption DEF JobOf, Jobs, Dispatchers

\* Records of different forms differ, and so do those of different authors.
LEMMA RecordFacts ==
  /\ NoRecord \in Records
  /\ \A i \in Idents : /\ PartRecord(i) \in Records /\ FullRecord(i) \in Records
                       /\ PartRecord(i) # NoRecord /\ FullRecord(i) # NoRecord
  /\ \A i, k \in Idents : PartRecord(i) # FullRecord(k)
BY DEF NoRecord, PartRecord, FullRecord, Records

LEMMA InitInv == Init => Inv
<1> SUFFICES ASSUME Init PROVE Inv
  OBVIOUS
<1>1. DispatchTypes
  BY RecordFacts DEF Init, DispatchTypes, PCs, Outcomes
<1>2. \A s \in Dispatchers : pc[s] \in {"draft", "resolve"} /\ result[s] = "none"
  BY DEF Init, Dispatchers
<1>3. asked = {} /\ bound = {}
  BY DEF Init
<1>4. QED
  BY <1>1, <1>2, <1>3 DEF Inv, Resolved, Filling, Filled, OneAuthor, Asking,
     BoundIsTold, ResultHonest, Author

\* Answers and the outside world: agents may appear, bindings may go.
LEMMA OthersInv ==
  ASSUME Inv,
         UNCHANGED <<record, result, asked>>, bound' \subseteq bound, ever \subseteq ever',
         marker' \in Idents \cup {None},
         pc' \in [Dispatchers \cup Answerers -> PCs],
         identity' \in [Dispatchers \cup Answerers -> Idents \cup {None}],
         \A s \in Dispatchers : pc'[s] = pc[s] /\ identity'[s] = identity[s]
  PROVE  Inv'
<1> USE DEF Inv
<1>1. DispatchTypes' /\ Resolved' /\ Filling' /\ Filled'
  BY DEF DispatchTypes, Resolved, Filling, Filled, Author
<1>2. OneAuthor' /\ Asking'
  BY DEF OneAuthor, Asking, Author
<1>3. BoundIsTold'
  BY DEF BoundIsTold
<1>4. ResultHonest'
  BY DEF ResultHonest
<1>5. QED
  BY <1>1, <1>2, <1>3, <1>4

\* Steps of a dispatch that neither touch the record nor ask the daemon.
LEMMA QuietInv ==
  ASSUME Inv, NEW s \in Dispatchers,
         \/ Confirm(s) \/ Cancel(s) \/ Resolve(s) \/ ResolveFails(s) \/ DraftRefused(s)
         \/ CreateFails(s) \/ FillFails(s) \/ ReadBack(s) \/ ReadBackFails(s)
  PROVE  Inv'
<1> USE JobFacts DEF Inv
<1> USE DEF Confirm, Cancel, Resolve, ResolveFails, DraftRefused, CreateFails, FillFails,
        ReadBack, ReadBackFails, At, Goto, Conclude, sources, outer
<1>1. /\ UNCHANGED <<record, asked, bound, ever>>
      /\ s \notin asked
  BY DEF Asking
<1>2. DispatchTypes'
  BY DEF DispatchTypes, PCs, Outcomes
<1>3. Resolved' /\ Filling' /\ Filled'
  BY <1>1 DEF DispatchTypes, Resolved, Filling, Filled, Author
<1>4. OneAuthor'
  BY <1>1 DEF DispatchTypes, OneAuthor, Author
<1>5. Asking'
  BY <1>1 DEF DispatchTypes, Asking
<1>6. BoundIsTold'
  BY <1>1 DEF DispatchTypes, BoundIsTold
<1>7. ResultHonest'
  BY <1>1 DEF DispatchTypes, ResultHonest
<1>8. QED
  BY <1>2, <1>3, <1>4, <1>5, <1>6, <1>7

LEMMA CreateInv ==
  ASSUME Inv, NEW s \in Dispatchers, CreateRecord(s)
  PROVE  Inv'
<1> USE JobFacts DEF Inv
<1> USE DEF CreateRecord, At, Goto, outer
<1>1. /\ s \notin asked /\ identity[s] \in Idents
      /\ pc[s] = "create" /\ pc' = [pc EXCEPT ![s] = "fill"]
      /\ UNCHANGED <<asked, bound, ever, identity, result>>
  BY DEF Asking, Resolved
<1>2. record' = [record EXCEPT ![JobOf(s)] = PartRecord(identity[s])]
  OBVIOUS
<1>3. \A t \in Dispatchers : Author(t) => JobOf(t) # JobOf(s)
  <2> SUFFICES ASSUME NEW t \in Dispatchers, Author(t), JobOf(t) = JobOf(s)
               PROVE  FALSE
    OBVIOUS
  <2>1. identity[t] \in Idents
    BY DEF Resolved
  <2>2. record[JobOf(t)] = NoRecord
    OBVIOUS
  <2>3. record[JobOf(t)] \in {PartRecord(identity[t]), FullRecord(identity[t])}
    BY DEF Filling, Filled, Author
  <2>4. QED
    BY <2>1, <2>2, <2>3, RecordFacts
<1>4. DispatchTypes'
  BY <1>1, <1>2, RecordFacts DEF DispatchTypes, PCs
<1>5. Resolved'
  BY <1>1 DEF DispatchTypes, Resolved, Author
<1>6. Filling' /\ Filled'
  BY <1>1, <1>2, <1>3 DEF DispatchTypes, Filling, Filled, Author
<1>7. OneAuthor'
  BY <1>1, <1>3 DEF DispatchTypes, OneAuthor, Author
<1>8. Asking' /\ BoundIsTold' /\ ResultHonest'
  BY <1>1 DEF DispatchTypes, Asking, BoundIsTold, ResultHonest
<1>9. QED
  BY <1>4, <1>5, <1>6, <1>7, <1>8

LEMMA FillInv ==
  ASSUME Inv, NEW s \in Dispatchers, FillRecord(s)
  PROVE  Inv'
<1> USE JobFacts DEF Inv
<1> USE DEF FillRecord, At, Goto, outer
<1>1. /\ s \notin asked /\ identity[s] \in Idents /\ Author(s)
      /\ pc[s] = "fill" /\ pc' = [pc EXCEPT ![s] = "readback"]
      /\ UNCHANGED <<asked, bound, ever, identity, result>>
  BY DEF Asking, Resolved, Author
<1>2. record' = [record EXCEPT ![JobOf(s)] = FullRecord(identity[s])]
  OBVIOUS
<1>3. \A t \in Dispatchers : Author(t) /\ t # s => JobOf(t) # JobOf(s)
  BY <1>1 DEF OneAuthor
<1>4. DispatchTypes'
  BY <1>1, <1>2, RecordFacts DEF DispatchTypes, PCs
<1>5. Resolved' /\ OneAuthor'
  BY <1>1 DEF DispatchTypes, Resolved, OneAuthor, Author
<1>6. Filling' /\ Filled'
  BY <1>1, <1>2, <1>3 DEF DispatchTypes, Filling, Filled, Author
<1>7. Asking' /\ BoundIsTold' /\ ResultHonest'
  BY <1>1 DEF DispatchTypes, Asking, BoundIsTold, ResultHonest
<1>8. QED
  BY <1>4, <1>5, <1>6, <1>7

\* The daemon is asked, with whatever outcome.
LEMMA SpawnInv ==
  ASSUME Inv, NEW s \in Dispatchers, Spawn(s) \/ SpawnRefused(s) \/ SpawnTimesOut(s)
  PROVE  Inv'
<1> USE JobFacts DEF Inv
<1> USE DEF Spawn, SpawnRefused, SpawnTimesOut, StartAgent, At, Goto, Conclude, sources, outer
<1>1. /\ pc[s] = "spawn" /\ asked' = asked \cup {s} /\ Author(s)
      /\ UNCHANGED <<record, bound, identity>> /\ ever \subseteq ever'
  BY DEF Author
<1>2. \/ /\ pc' = [pc EXCEPT ![s] = "bind"] /\ UNCHANGED result
         /\ JobOf(s) \in ever'
      \/ /\ pc' = [pc EXCEPT ![s] = "done"]
         /\ result' = [result EXCEPT ![s] = "partial-success"]
  OBVIOUS
<1>3. s \notin asked /\ result[s] = "none"
  BY <1>1 DEF Asking
<1>4. JobOf(s) \notin bound
  BY <1>1, <1>3 DEF BoundIsTold, OneAuthor, Author, DispatchTypes
<1>5. DispatchTypes'
  BY <1>1, <1>2 DEF DispatchTypes, PCs, Outcomes
<1>6. Resolved' /\ Filling' /\ Filled'
  BY <1>1, <1>2 DEF DispatchTypes, Resolved, Filling, Filled, Author
<1>7. OneAuthor'
  BY <1>1, <1>2 DEF DispatchTypes, OneAuthor, Author
<1>8. Asking'
  BY <1>1, <1>2 DEF DispatchTypes, Asking
<1>9. BoundIsTold'
  BY <1>1, <1>2, <1>3 DEF DispatchTypes, BoundIsTold
<1>10. ResultHonest'
  BY <1>1, <1>2, <1>3, <1>4 DEF DispatchTypes, ResultHonest
<1>11. QED
  BY <1>5, <1>6, <1>7, <1>8, <1>9, <1>10

LEMMA BindInv ==
  ASSUME Inv, NEW s \in Dispatchers, Bind(s) \/ BindFails(s)
  PROVE  Inv'
<1> USE JobFacts DEF Inv
<1> USE DEF Bind, BindFails, At, Goto, Conclude, sources, outer
<1>1. /\ pc[s] = "bind" /\ s \in asked /\ JobOf(s) \in ever
      /\ pc' = [pc EXCEPT ![s] = "done"] /\ result' = [result EXCEPT ![s] = "dispatched"]
      /\ UNCHANGED <<record, identity, asked, ever>>
      /\ bound' \subseteq bound \cup {JobOf(s)}
  BY DEF Asking
<1>2. DispatchTypes'
  BY <1>1 DEF DispatchTypes, PCs, Outcomes
<1>3. Resolved' /\ Filling' /\ Filled' /\ OneAuthor'
  BY <1>1 DEF DispatchTypes, Resolved, Filling, Filled, OneAuthor, Author
<1>4. Asking'
  BY <1>1 DEF DispatchTypes, Asking
<1>5. BoundIsTold'
  BY <1>1 DEF DispatchTypes, BoundIsTold
<1>6. \A t \in Dispatchers : result[t] = "partial-success" => JobOf(t) # JobOf(s)
  <2> SUFFICES ASSUME NEW t \in Dispatchers, result[t] = "partial-success",
                      JobOf(t) = JobOf(s)
               PROVE  FALSE
    OBVIOUS
  <2>1. t \in asked /\ pc[t] = "done"
    BY DEF Asking
  <2>2. t = s
    BY <1>1, <2>1 DEF OneAuthor, Author
  <2>3. QED
    BY <1>1, <2>1, <2>2
<1>7. ResultHonest'
  BY <1>1, <1>6 DEF DispatchTypes, ResultHonest
<1>8. QED
  BY <1>2, <1>3, <1>4, <1>5, <1>7

\* A step of an answer leaves every dispatch as it is.
LEMMA AnsweringInv ==
  ASSUME Inv, NEW q \in Answerers, Answering(q)
  PROVE  Inv'
<1>1. UNCHANGED <<sources, result, outer>>
  BY DEF Answering, ListAgents, ListFails, ListMisread, ReadManifest, ReadRecords,
     ReadBinding, StoreFails, AnswerUnheard, AnswerInspected, AnswerUninspected, Answer,
     Deliver
<1>2. \E step \in PCs : Goto(q, step)
  BY DEF Answering, ListAgents, ListFails, ListMisread, ReadManifest, ReadRecords,
     ReadBinding, StoreFails, AnswerUnheard, AnswerInspected, AnswerUninspected, Answer,
     Deliver, Leave, PCs
<1>3. \/ UNCHANGED identity
      \/ identity' = [identity EXCEPT ![q] = marker]
      \/ identity' = [identity EXCEPT ![q] = None]
  BY DEF Answering, ListAgents, ListFails, ListMisread, ReadManifest, ReadRecords,
     ReadBinding, StoreFails, AnswerUnheard, AnswerInspected, AnswerUninspected, Answer,
     Deliver, Leave
<1>4. /\ pc' \in [Dispatchers \cup Answerers -> PCs]
      /\ identity' \in [Dispatchers \cup Answerers -> Idents \cup {None}]
      /\ \A s \in Dispatchers : pc'[s] = pc[s] /\ identity'[s] = identity[s]
  BY <1>2, <1>3, JobFacts DEF Inv, DispatchTypes, Goto
<1>5. QED
  BY <1>1, <1>4, OthersInv DEF sources, outer, Inv, DispatchTypes

LEMMA OutsideInv ==
  ASSUME Inv,
         \/ \E j \in Jobs : AgentChanges(j) \/ DeleteAgent(j) \/ LateAgent(j)
         \/ MarkerChanges \/ WipeStore
  PROVE  Inv'
<1>1. /\ UNCHANGED <<record, result, asked, pc, identity>>
      /\ bound' \subseteq bound /\ ever \subseteq ever'
      /\ marker' \in Idents \cup {None}
  BY DEF AgentChanges, DeleteAgent, LateAgent, MarkerChanges, WipeStore, Outside,
     StartAgent, Inv, DispatchTypes
<1>2. QED
  BY <1>1, OthersInv DEF Inv, DispatchTypes

LEMMA Inductive == Spec => []Inv
<1>1. Inv /\ [Next]_vars => Inv'
  <2> SUFFICES ASSUME Inv, [Next]_vars PROVE Inv'
    OBVIOUS
  <2>1. CASE UNCHANGED vars
    <3>1. UNCHANGED <<marker, record, result, asked, bound, ever, pc, identity>>
      BY <2>1 DEF vars, sources, outer
    <3>2. QED
      BY <3>1, OthersInv DEF Inv, DispatchTypes
  <2>2. CASE \E s \in Dispatchers : Dispatching(s)
    BY <2>2, QuietInv, CreateInv, FillInv, SpawnInv, BindInv DEF Dispatching
  <2>3. QED
    BY <2>1, <2>2, AnsweringInv, OutsideInv DEF Next
<1>2. QED
  BY InitInv, <1>1, PTL DEF Spec

\* Nothing is asked of the daemon for a job without a complete record of it
\* that names the workstream its session resolved (dispatch.py:1-8).
THEOREM RecordBeforeAgent == Spec => []RecordFirst
<1>1. Inv => RecordFirst
  BY DEF Inv, DispatchTypes, Filled, RecordFirst
<1>2. QED
  BY Inductive, <1>1, PTL

\* A job is asked for once, however many sessions were given its draft.
THEOREM OneSpawn == Spec => []SpawnedOnce
<1>1. Inv => SpawnedOnce
  BY DEF Inv, DispatchTypes, OneAuthor, Author, SpawnedOnce
<1>2. QED
  BY Inductive, <1>1, PTL

\* What a dispatch reports of the daemon and the store is so.
THEOREM HonestResults == Spec => []ResultHonest
BY Inductive, PTL DEF Inv

-----------------------------------------------------------------------------
(***************************************************************************)
(* The answer.  What it knows of the daemon, the store and the records is  *)
(* older than what it says, so each part of the invariant relates what was *)
(* read to what has become of it.                                          *)
(***************************************************************************)

\* Whatever was there and could be read is in the listing, unless it failed.
HeardThere ==
  \A q \in Answerers :
    /\ pc[q] = "list" => ~reachable[q]
    /\ pc[q] \in {"manifest", "records", "jobs", "inspect"} /\ reachable[q] =>
         \A j \in before[q].there \ before[q].unread : heard[q][j] # None

\* Nothing is said before the first job is looked at.
Unanswered ==
  \A q \in Answerers : pc[q] \in {"list", "manifest", "records"} =>
    own[q] = {} /\ \A j \in Jobs : answer[q][j] = None

\* What was true of the store when the job's binding was looked up.
LookedUp ==
  \A q \in Answerers : pc[q] = "inspect" =>
    /\ looking[q] \in todo[q]
    /\ binding[q] => looking[q] \in ever
    /\ looking[q] \in before[q].told /\ ~binding[q] => looking[q] \in lost

ToldIsStored ==
  /\ \A s \in Dispatchers : result[s] = "dispatched" => JobOf(s) \in bound \cup lost
  /\ \A q \in Answerers : before[q].told \subseteq bound \cup lost

\* A complete record is never written again, so what was read of it stays so.
ReadIsFull ==
  \A q \in Answerers : \A j \in todo[q] \cup own[q] : record[j].form = "full"

OwnIdentity ==
  \A q \in Answerers : pc[q] \in {"jobs", "inspect"} =>
    \A j \in own[q] : record[j].identity = identity[q]

AnswerInv ==
  /\ TypeOK /\ Inv
  /\ HeardThere /\ Unanswered /\ LookedUp /\ ToldIsStored /\ ReadIsFull /\ OwnIdentity
  /\ AbsenceIsHeard /\ NeverDispatchedIsTrue /\ NotFoundMeansDispatched
  /\ OneStreamPerAnswer

LEMMA InitAnswer == Init => AnswerInv
<1> SUFFICES ASSUME Init PROVE AnswerInv
  OBVIOUS
<1>1. Inv
  BY InitInv
<1>2. /\ \A q \in Answerers : /\ own[q] = {} /\ todo[q] = {}
                              /\ pc[q] = "list" /\ ~reachable[q]
                              /\ before[q] = [there |-> {}, unread |-> {}, told |-> {}]
                              /\ \A j \in Jobs : answer[q][j] = None
      /\ \A s \in Dispatchers : result[s] = "none"
  BY JobFacts DEF Init, Dispatchers
<1>3. TypeOK
  BY <1>1, DispatchAssumption DEF Init, TypeOK, Inv, DispatchTypes
<1>4. HeardThere /\ Unanswered /\ LookedUp /\ ToldIsStored /\ ReadIsFull /\ OwnIdentity
  BY <1>2 DEF HeardThere, Unanswered, LookedUp, ToldIsStored, ReadIsFull, OwnIdentity
<1>5. AbsenceIsHeard /\ NeverDispatchedIsTrue /\ NotFoundMeansDispatched
      /\ OneStreamPerAnswer
  BY <1>2, DispatchAssumption DEF AbsenceIsHeard, NeverDispatchedIsTrue,
     NotFoundMeansDispatched, OneStreamPerAnswer, JobStates
<1>6. QED
  BY <1>1, <1>3, <1>4, <1>5 DEF AnswerInv

\* Steps of dispatches and of the outside world, as far as an answer is
\* concerned.
LEMMA StableAnswer ==
  ASSUME AnswerInv, TypeOK', Inv', UNCHANGED answers,
         \A q \in Answerers : pc'[q] = pc[q] /\ identity'[q] = identity[q],
         \A j \in Jobs : record[j].form = "full" => record'[j] = record[j],
         ever \subseteq ever', lost \subseteq lost', bound \cup lost \subseteq bound' \cup lost',
         \A s \in Dispatchers : result'[s] = "dispatched" => JobOf(s) \in bound' \cup lost'
  PROVE  AnswerInv'
<1> USE DEF AnswerInv, answers
<1>1. HeardThere' /\ Unanswered' /\ LookedUp'
  BY DEF HeardThere, Unanswered, LookedUp
<1>2. ToldIsStored'
  BY DEF ToldIsStored
<1>3. ReadIsFull' /\ OwnIdentity' /\ OneStreamPerAnswer'
  BY DEF TypeOK, ReadIsFull, OwnIdentity, OneStreamPerAnswer
<1>4. AbsenceIsHeard' /\ NeverDispatchedIsTrue' /\ NotFoundMeansDispatched'
  BY DEF TypeOK, AbsenceIsHeard, NeverDispatchedIsTrue, NotFoundMeansDispatched
<1>5. QED
  BY <1>1, <1>2, <1>3, <1>4

LEMMA DispatchAnswer ==
  ASSUME AnswerInv, Inv', NEW s \in Dispatchers, Dispatching(s)
  PROVE  AnswerInv'
<1> USE JobFacts DEF AnswerInv
<1>1. /\ UNCHANGED <<marker, answers, world>>
      /\ \/ UNCHANGED agent
         \/ agent' = [agent EXCEPT ![JobOf(s)] = Fresh]
      /\ inflight' \subseteq inflight \cup {JobOf(s)}
      /\ bound \subseteq bound' /\ bound' \subseteq bound \cup {JobOf(s)}
      /\ ever \subseteq ever' /\ ever' \subseteq ever \cup {JobOf(s)}
      /\ lost \subseteq lost' /\ lost' \subseteq lost \cup {JobOf(s)}
  BY DEF Dispatching, Confirm, Cancel, Resolve, ResolveFails, DraftRefused, CreateRecord,
     CreateFails, FillRecord, FillFails, ReadBack, ReadBackFails, Spawn, SpawnRefused,
     SpawnTimesOut, Bind, BindFails, StartAgent, sources, outer, TypeOK
<1>2. /\ \A q \in Answerers : pc'[q] = pc[q]
      /\ \A q \in Answerers : identity'[q] = identity[q]
  BY DEF Dispatching, Confirm, Cancel, Resolve, ResolveFails, DraftRefused, CreateRecord,
     CreateFails, FillRecord, FillFails, ReadBack, ReadBackFails, Spawn, SpawnRefused,
     SpawnTimesOut, Bind, BindFails, Goto, Conclude, TypeOK
<1>3. \A j \in Jobs : record[j].form = "full" => record'[j] = record[j]
  <2>1. CASE CreateRecord(s)
    BY <2>1 DEF CreateRecord, NoRecord, TypeOK
  <2>2. CASE FillRecord(s)
    <3>1. record[JobOf(s)] = PartRecord(identity[s])
      BY <2>2 DEF FillRecord, At, Inv, Filling
    <3>2. record[JobOf(s)].form = "part"
      BY <3>1 DEF PartRecord
    <3>3. QED
      BY <2>2, <3>2 DEF FillRecord, TypeOK
  <2>3. CASE UNCHANGED record
    BY <2>3
  <2>4. QED
    BY <2>1, <2>2, <2>3 DEF Dispatching, Confirm, Cancel, Resolve, ResolveFails,
       DraftRefused, CreateFails, FillFails, ReadBack, ReadBackFails, Spawn,
       SpawnRefused, SpawnTimesOut, Bind, BindFails, sources
<1>4. \A t \in Dispatchers : result'[t] = "dispatched" => JobOf(t) \in bound' \cup lost'
  <2>1. CASE Bind(s) \/ BindFails(s)
    BY <1>1, <2>1 DEF Bind, BindFails, Conclude, ToldIsStored, TypeOK
  <2>2. CASE \/ UNCHANGED result
             \/ \E o \in Outcomes \ {"dispatched"} : Conclude(s, o)
    BY <1>1, <2>2 DEF Conclude, ToldIsStored, TypeOK
  <2>3. QED
    BY <2>1, <2>2 DEF Dispatching, Confirm, Cancel, Resolve, ResolveFails, DraftRefused,
       CreateRecord, CreateFails, FillRecord, FillFails, ReadBack, ReadBackFails, Spawn,
       SpawnRefused, SpawnTimesOut, Outcomes
<1>5. TypeOK'
  <2>1. DispatchTypes'
    BY DEF Inv
  <2>2. agent' \in [Jobs -> Agents \cup {None}]
    <3>1. Fresh \in Agents
      BY DispatchAssumption DEF Fresh, Agents
    <3>2. QED
      BY <1>1, <3>1 DEF TypeOK
  <2>3. inflight' \subseteq Jobs /\ bound' \subseteq Jobs /\ ever' \subseteq Jobs
        /\ lost' \subseteq Jobs
    BY <1>1 DEF TypeOK
  <2>4. QED
    BY <1>1, <2>1, <2>2, <2>3 DEF TypeOK, DispatchTypes, answers
<1>6. QED
  BY <1>1, <1>2, <1>3, <1>4, <1>5, StableAnswer DEF answers

LEMMA OutsideAnswer ==
  ASSUME AnswerInv, Inv',
         \/ \E j \in Jobs : AgentChanges(j) \/ DeleteAgent(j) \/ LateAgent(j)
         \/ MarkerChanges \/ WipeStore
  PROVE  AnswerInv'
<1> USE DEF AnswerInv
<1>1. UNCHANGED <<record, result, pc, identity, answers>>
  BY DEF AgentChanges, DeleteAgent, LateAgent, MarkerChanges, WipeStore, Outside
<1>2. /\ bound' \subseteq bound /\ bound \cup lost = bound' \cup lost'
      /\ ever \subseteq ever' /\ ever' \subseteq Jobs /\ lost \subseteq lost'
      /\ inflight' \subseteq inflight
  BY DEF AgentChanges, DeleteAgent, LateAgent, MarkerChanges, WipeStore,
     Outside, StartAgent, TypeOK
<1>3. world' \in 0 .. MaxWorld
  <2>1. world' = world + 1 /\ world < MaxWorld
    BY DEF AgentChanges, DeleteAgent, LateAgent, MarkerChanges, WipeStore, Outside
  <2>2. QED
    BY <2>1, DispatchAssumption DEF TypeOK
<1>4. agent' \in [Jobs -> Agents \cup {None}]
  <2>1. CASE \E j \in Jobs : AgentChanges(j)
    <3>1. PICK j \in Jobs : AgentChanges(j)
      BY <2>1
    <3>2. agent[j] \in Agents
      BY <3>1 DEF AgentChanges, TypeOK
    <3>3. \E a \in Agents : agent' = [agent EXCEPT ![j] = a]
      <4>1. CASE \E st \in Statuses : agent' = [agent EXCEPT ![j].status = st]
        BY <3>2, <4>1 DEF Agents
      <4>2. CASE agent' = [agent EXCEPT ![j].pending = ~@]
        BY <3>2, <4>2 DEF Agents
      <4>3. CASE agent' = [agent EXCEPT ![j].archived = ~@]
        BY <3>2, <4>3 DEF Agents
      <4>4. QED
        BY <3>1, <4>1, <4>2, <4>3 DEF AgentChanges
    <3>4. QED
      BY <3>3 DEF TypeOK
  <2>2. CASE \E j \in Jobs : LateAgent(j)
    BY <2>2, DispatchAssumption DEF LateAgent, StartAgent, Fresh, Agents, TypeOK
  <2>3. CASE (\E j \in Jobs : DeleteAgent(j)) \/ MarkerChanges \/ WipeStore
    BY <2>3 DEF DeleteAgent, MarkerChanges, WipeStore, TypeOK
  <2>4. QED
    BY <2>1, <2>2, <2>3
<1>5. TypeOK'
  <2>1. DispatchTypes'
    BY DEF Inv
  <2>2. QED
    BY <1>1, <1>2, <1>3, <1>4, <2>1 DEF TypeOK, DispatchTypes, answers
<1>6. QED
  BY <1>1, <1>2, <1>5, StableAnswer DEF ToldIsStored

\* The derivation table says what it says, and calls a job absent only on
\* what the listing and the store told it.
LEMMA DeriveFacts ==
  ASSUME NEW reached \in BOOLEAN, NEW hasBinding \in BOOLEAN,
         NEW status \in Statuses \cup {None},
         NEW archived \in BOOLEAN, NEW pending \in BOOLEAN,
         NEW state, state = Derive(reached, hasBinding, status, archived, pending)
  PROVE  /\ state \in JobStates
         /\ state = "not-found" => reached /\ status = None /\ hasBinding
         /\ state = "never-dispatched" => reached /\ status = None /\ ~hasBinding
<1>1. CASE ~reached
  BY <1>1 DEF Derive, JobStates
<1>2. CASE reached /\ status = None
  BY <1>2 DEF Derive, JobStates
<1>3. CASE reached /\ status # None /\ (pending \/ archived)
  BY <1>3 DEF Derive, JobStates
<1>4. CASE reached /\ status # None /\ ~pending /\ ~archived
  <2>1. state = StateOf[status]
    BY <1>4 DEF Derive
  <2>2. status \in {"running", "idle", "error", "closed", "other"}
    BY <1>4, DispatchAssumption DEF StateOf
  <2>3. StateOf[status] \in JobStates \ {"not-found", "never-dispatched"}
    BY <2>2 DEF StateOf, JobStates
  <2>4. QED
    BY <2>1, <2>3
<1>5. QED
  BY <1>1, <1>2, <1>3, <1>4

\* The listing, whatever comes of it.
LEMMA ListAnswer ==
  ASSUME AnswerInv, Inv', NEW q \in Answerers, ListAgents(q) \/ ListFails(q) \/ ListMisread(q)
  PROVE  AnswerInv'
<1> USE JobFacts DEF AnswerInv
<1>1. /\ UNCHANGED <<sources, identity, result, todo, looking, binding, answer, own, outer>>
      /\ pc[q] = "list" /\ pc' = [pc EXCEPT ![q] = "manifest"]
  BY DEF ListAgents, ListFails, ListMisread, At, Goto
<1>2. \E b \in [there : {There}, unread : SUBSET There, told : {Told}] :
        before' = [before EXCEPT ![q] = b]
  BY DEF ListAgents, ListFails, ListMisread, Remember
<1>3. /\ heard' \in [Answerers -> [Jobs -> Statuses \cup {None}]]
      /\ reachable' \in [Answerers -> BOOLEAN]
      /\ \A p \in Answerers \ {q} : heard'[p] = heard[p] /\ reachable'[p] = reachable[p]
      /\ reachable'[q] =>
           \A j \in before'[q].there \ before'[q].unread : heard'[q][j] # None
  <2> \A j \in There : j \in Jobs /\ agent[j].status \in Statuses /\ agent[j].status # None
    BY DispatchAssumption DEF There, TypeOK, Agents
  <2>1. CASE ListAgents(q)
    <3>1. \A j \in Jobs : agent[j] # None => agent[j].status \in Statuses
      BY DEF TypeOK, Agents
    <3>2. before'[q].there = There
      BY <2>1 DEF ListAgents, Remember, TypeOK
    <3>3. QED
      BY <2>1, <3>1, <3>2, DispatchAssumption DEF ListAgents, TypeOK, There
  <2>2. CASE ListFails(q)
    BY <2>2, <1>1 DEF ListFails, TypeOK, HeardThere
  <2>3. CASE ListMisread(q)
    <3>1. PICK unread \in SUBSET There :
            /\ heard' = [heard EXCEPT ![q] =
                 [j \in Jobs |-> IF j \in There \ unread THEN agent[j].status ELSE None]]
            /\ Remember(q, unread)
      BY <2>3 DEF ListMisread
    <3>2. before'[q].there = There /\ before'[q].unread = unread
      BY <3>1 DEF Remember, TypeOK
    <3>3. \A j \in There \ unread : heard'[q][j] # None
      BY <3>1 DEF TypeOK
    <3>4. heard' \in [Answerers -> [Jobs -> Statuses \cup {None}]]
      BY <3>1 DEF TypeOK
    <3>5. QED
      BY <2>3, <3>1, <3>2, <3>3, <3>4 DEF ListMisread, TypeOK
  <2>4. QED
    BY <2>1, <2>2, <2>3
<1>4. There \subseteq Jobs /\ Told \subseteq bound \cup lost /\ Told \subseteq Jobs
  BY DEF There, Told, ToldIsStored
<1>5. TypeOK'
  <2>1. before' \in [Answerers -> [there : SUBSET Jobs, unread : SUBSET Jobs,
                                   told : SUBSET Jobs]]
    BY <1>2, <1>4 DEF TypeOK
  <2>2. QED
    BY <1>1, <1>3, <2>1 DEF TypeOK, sources, outer, Inv, DispatchTypes
<1>6. before'[q].told \subseteq bound \cup lost /\ \A p \in Answerers \ {q} : before'[p] = before[p]
  BY <1>2, <1>4 DEF TypeOK
<1>7. \A p \in Answerers \ {q} : pc'[p] = pc[p]
  BY <1>1 DEF TypeOK
<1>8. pc'[q] = "manifest"
  BY <1>1 DEF TypeOK
<1>9. HeardThere'
  BY <1>3, <1>6, <1>7, <1>8 DEF HeardThere
<1>10. Unanswered' /\ LookedUp' /\ OwnIdentity'
  BY <1>1, <1>6, <1>7, <1>8 DEF Unanswered, LookedUp, OwnIdentity, sources, outer
<1>11. ToldIsStored'
  BY <1>1, <1>6 DEF ToldIsStored, sources, outer
<1>12. ReadIsFull' /\ NotFoundMeansDispatched' /\ OneStreamPerAnswer'
  BY <1>1 DEF ReadIsFull, NotFoundMeansDispatched, OneStreamPerAnswer, sources, outer
<1>13. AbsenceIsHeard' /\ NeverDispatchedIsTrue'
  <2>1. \A j \in Jobs : answer[q][j] = None
    BY <1>1 DEF Unanswered
  <2>2. before'[q].told \subseteq Jobs
    BY <1>5 DEF TypeOK
  <2>3. QED
    BY <1>1, <1>6, <2>1, <2>2, DispatchAssumption DEF AbsenceIsHeard, NeverDispatchedIsTrue,
       JobStates, outer
<1>14. QED
  BY <1>5, <1>9, <1>10, <1>11, <1>12, <1>13

\* The reads of the marker, the records and the binding.
LEMMA ReadAnswer ==
  ASSUME AnswerInv, Inv', NEW q \in Answerers,
         ReadManifest(q) \/ ReadRecords(q) \/ ReadBinding(q)
  PROVE  AnswerInv'
<1> USE JobFacts DEF AnswerInv
<1>1. /\ UNCHANGED <<sources, result, heard, reachable, answer, own, before, outer>>
      /\ UNCHANGED <<record, bound, ever, lost>>
      /\ \E step \in {"records", "jobs", "inspect"} : pc' = [pc EXCEPT ![q] = step]
  BY DEF ReadManifest, ReadRecords, ReadBinding, Goto, answers, sources, outer
<1>2. \A p \in Answerers \ {q} :
        pc'[p] = pc[p] /\ identity'[p] = identity[p] /\ todo'[p] = todo[p]
        /\ looking'[p] = looking[p] /\ binding'[p] = binding[p]
  BY DEF ReadManifest, ReadRecords, ReadBinding, Goto, TypeOK, answers
<1>3. /\ \A j \in todo'[q] : j \in Jobs /\ record[j].form = "full"
      /\ todo' \in [Answerers -> SUBSET Jobs]
      /\ looking' \in [Answerers -> Jobs \cup {None}]
      /\ binding' \in [Answerers -> BOOLEAN]
  <2>1. CASE ReadManifest(q)
    BY <2>1 DEF ReadManifest, ReadIsFull, TypeOK, answers
  <2>2. CASE ReadRecords(q)
    BY <2>2 DEF ReadRecords, TypeOK
  <2>3. CASE ReadBinding(q)
    <3>1. PICK j \in todo[q] : /\ looking' = [looking EXCEPT ![q] = j]
                               /\ binding' = [binding EXCEPT ![q] = j \in bound]
      BY <2>3 DEF ReadBinding
    <3>2. j \in Jobs
      BY <3>1 DEF TypeOK
    <3>3. UNCHANGED todo
      BY <2>3 DEF ReadBinding
    <3>4. looking' \in [Answerers -> Jobs \cup {None}] /\ binding' \in [Answerers -> BOOLEAN]
      BY <3>1, <3>2 DEF TypeOK
    <3>5. QED
      BY <3>3, <3>4 DEF ReadIsFull, TypeOK
  <2>4. QED
    BY <2>1, <2>2, <2>3
<1>4. TypeOK'
  BY <1>1, <1>3 DEF TypeOK, Inv, DispatchTypes, sources, outer
<1>5. /\ pc[q] \in {"manifest", "records", "jobs"}
      /\ pc'[q] = "records" => pc[q] = "manifest"
      /\ pc'[q] \in {"records", "jobs", "inspect"}
  BY DEF ReadManifest, ReadRecords, ReadBinding, At, Goto, TypeOK
<1>6. HeardThere'
  BY <1>1, <1>2, <1>5 DEF HeardThere, TypeOK
<1>7. Unanswered'
  BY <1>1, <1>2, <1>5 DEF Unanswered, TypeOK
<1>8. LookedUp'
  <2>1. pc'[q] = "inspect" => /\ looking'[q] \in todo'[q]
                              /\ binding'[q] = (looking'[q] \in bound)
    BY DEF ReadManifest, ReadRecords, ReadBinding, Goto, TypeOK, answers
  <2>2. bound \subseteq ever
    BY DEF Inv, BoundIsTold, ResultHonest, DispatchTypes
  <2>3. before[q].told \subseteq bound \cup lost
    BY DEF ToldIsStored
  <2>4. QED
    BY <1>1, <1>2, <2>1, <2>2, <2>3 DEF LookedUp
<1>9. ToldIsStored'
  BY <1>1 DEF ToldIsStored
<1>10. ReadIsFull'
  BY <1>1, <1>2, <1>3 DEF ReadIsFull
<1>11. OwnIdentity'
  <2>1. CASE ReadBinding(q)
    BY <1>1, <1>2, <2>1 DEF ReadBinding, At, OwnIdentity
  <2>2. CASE ReadManifest(q) \/ ReadRecords(q)
    <3>1. own[q] = {}
      BY <2>2 DEF ReadManifest, ReadRecords, At, Unanswered
    <3>2. QED
      BY <1>1, <1>2, <3>1 DEF OwnIdentity
  <2>3. QED
    BY <2>1, <2>2
<1>12. AbsenceIsHeard' /\ NeverDispatchedIsTrue' /\ NotFoundMeansDispatched'
       /\ OneStreamPerAnswer'
  BY <1>1 DEF AbsenceIsHeard, NeverDispatchedIsTrue, NotFoundMeansDispatched,
     OneStreamPerAnswer
<1>13. QED
  BY <1>4, <1>6, <1>7, <1>8, <1>9, <1>10, <1>11, <1>12

\* The answer is delivered, or the store fails: what is said stays, or all of
\* it is withdrawn.
LEMMA LeaveAnswer ==
  ASSUME AnswerInv, Inv', NEW q \in Answerers, Deliver(q) \/ StoreFails(q)
  PROVE  AnswerInv'
<1> USE JobFacts DEF AnswerInv
<1>1. /\ UNCHANGED <<sources, result, looking, binding, before, outer>>
      /\ UNCHANGED <<record, bound, ever, lost>>
      /\ \E step \in {"answered", "failed"} : Leave(q, step)
  BY DEF Deliver, StoreFails, sources, outer
<1>2. /\ \A p \in Answerers \ {q} :
           pc'[p] = pc[p] /\ identity'[p] = identity[p] /\ heard'[p] = heard[p]
           /\ reachable'[p] = reachable[p] /\ todo'[p] = todo[p]
           /\ answer'[p] = answer[p] /\ own'[p] = own[p]
      /\ pc'[q] \in {"answered", "failed"}
  BY <1>1 DEF Deliver, StoreFails, Leave, Goto, TypeOK
<1>3. /\ \/ answer'[q] = answer[q]
         \/ \A j \in Jobs : answer'[q][j] = None
      /\ todo'[q] \subseteq todo[q] /\ own'[q] \subseteq own[q]
  BY DEF Deliver, StoreFails, TypeOK
<1>4. TypeOK'
  <2>1. /\ heard' \in [Answerers -> [Jobs -> Statuses \cup {None}]]
        /\ reachable' \in [Answerers -> BOOLEAN]
    BY <1>1 DEF Leave, TypeOK
  <2>2. /\ answer' \in [Answerers -> [Jobs -> JobStates \cup {None}]]
        /\ todo' \in [Answerers -> SUBSET Jobs] /\ own' \in [Answerers -> SUBSET Jobs]
    <3>1. CASE Deliver(q)
      BY <3>1 DEF Deliver, TypeOK
    <3>2. CASE StoreFails(q)
      BY <3>2 DEF StoreFails, TypeOK
    <3>3. QED
      BY <3>1, <3>2
  <2>3. QED
    BY <1>1, <2>1, <2>2 DEF TypeOK, Inv, DispatchTypes, sources, outer
<1>5. HeardThere' /\ Unanswered' /\ LookedUp' /\ OwnIdentity'
  BY <1>1, <1>2 DEF HeardThere, Unanswered, LookedUp, OwnIdentity
<1>6. ToldIsStored'
  BY <1>1 DEF ToldIsStored
<1>7. ReadIsFull' /\ OneStreamPerAnswer'
  BY <1>1, <1>2, <1>3 DEF ReadIsFull, OneStreamPerAnswer
<1>8. AbsenceIsHeard' /\ NeverDispatchedIsTrue' /\ NotFoundMeansDispatched'
  <2>1. \A j \in Jobs : answer'[q][j] \in {"not-found", "never-dispatched"} =>
          answer'[q][j] = answer[q][j]
    BY <1>3, DispatchAssumption DEF JobStates
  <2>2. before[q].told \subseteq Jobs
    BY DEF TypeOK
  <2>3. QED
    BY <1>1, <1>2, <2>1, <2>2 DEF AbsenceIsHeard, NeverDispatchedIsTrue,
       NotFoundMeansDispatched
<1>9. QED
  BY <1>4, <1>5, <1>6, <1>7, <1>8

\* One job is answered from the listing, the binding and an inspection.
LEMMA JobAnswered ==
  ASSUME AnswerInv, Inv', NEW q \in Answerers, At(q, "inspect"),
         NEW archived \in BOOLEAN, NEW pending \in BOOLEAN, Answer(q, archived, pending)
  PROVE  AnswerInv'
<1> USE JobFacts DEF AnswerInv
<1> DEFINE j     == looking[q]
           state == Derive(reachable[q], binding[q], heard[q][j], archived, pending)
<1>1. /\ pc[q] = "inspect" /\ j \in todo[q] /\ j \in Jobs
      /\ binding[q] => j \in ever
      /\ j \in before[q].told /\ ~binding[q] => j \in lost
  BY DEF At, LookedUp, TypeOK
<1>2. /\ UNCHANGED <<sources, identity, result, heard, reachable, before, outer>>
      /\ UNCHANGED <<record, bound, ever, lost>>
      /\ answer' = [answer EXCEPT ![q][j] = state]
      /\ todo' = [todo EXCEPT ![q] = @ \ {j}]
      /\ pc' = [pc EXCEPT ![q] = "jobs"]
      /\ looking' = [looking EXCEPT ![q] = None]
      /\ binding' = [binding EXCEPT ![q] = FALSE]
      /\ own' = IF record[j].identity = identity[q] THEN [own EXCEPT ![q] = @ \cup {j}]
                                                    ELSE own
  BY DEF Answer, Attributable, Goto, sources, outer
<1>3. /\ state \in JobStates
      /\ state = "not-found" => j \in ever
      /\ state \in {"not-found", "never-dispatched"} => reachable[q] /\ heard[q][j] = None
      /\ state = "never-dispatched" => ~binding[q]
  BY <1>1, DeriveFacts DEF TypeOK
<1>4. /\ \A p \in Answerers \ {q} : answer'[p] = answer[p] /\ todo'[p] = todo[p]
                                    /\ own'[p] = own[p] /\ pc'[p] = pc[p]
                                    /\ looking'[p] = looking[p] /\ binding'[p] = binding[p]
      /\ answer'[q][j] = state
      /\ \A i \in Jobs \ {j} : answer'[q][i] = answer[q][i]
      /\ todo'[q] = todo[q] \ {j} /\ pc'[q] = "jobs"
  BY <1>1, <1>2 DEF TypeOK
<1>5. /\ own'[q] \subseteq own[q] \cup {j}
      /\ j \in own'[q] \ own[q] => record[j].identity = identity[q]
  BY <1>2 DEF TypeOK
<1>6. TypeOK'
  <2>1. answer' \in [Answerers -> [Jobs -> JobStates \cup {None}]]
    BY <1>2, <1>3 DEF TypeOK
  <2>2. /\ todo' \in [Answerers -> SUBSET Jobs] /\ own' \in [Answerers -> SUBSET Jobs]
        /\ looking' \in [Answerers -> Jobs \cup {None}] /\ binding' \in [Answerers -> BOOLEAN]
    BY <1>1, <1>2 DEF TypeOK
  <2>3. QED
    BY <1>2, <2>1, <2>2 DEF TypeOK, Inv, DispatchTypes, sources, outer
<1>7. HeardThere' /\ Unanswered' /\ LookedUp'
  BY <1>1, <1>2, <1>4 DEF HeardThere, Unanswered, LookedUp
<1>8. ToldIsStored'
  BY <1>2 DEF ToldIsStored
<1>9. ReadIsFull' /\ OwnIdentity'
  BY <1>1, <1>2, <1>4, <1>5 DEF ReadIsFull, OwnIdentity
<1>10. OneStreamPerAnswer'
  BY <1>1, <1>2, <1>4, <1>5 DEF OneStreamPerAnswer, OwnIdentity
<1>11. AbsenceIsHeard'
  BY <1>1, <1>2, <1>3, <1>4 DEF AbsenceIsHeard, HeardThere
<1>12. NeverDispatchedIsTrue'
  <2>1. before[q].told \subseteq Jobs
    BY DEF TypeOK
  <2>2. QED
    BY <1>1, <1>2, <1>3, <1>4, <2>1 DEF NeverDispatchedIsTrue
<1>13. NotFoundMeansDispatched'
  BY <1>2, <1>3, <1>4 DEF NotFoundMeansDispatched
<1>14. QED
  BY <1>6, <1>7, <1>8, <1>9, <1>10, <1>11, <1>12, <1>13

LEMMA AnsweringAnswer ==
  ASSUME AnswerInv, Inv', NEW q \in Answerers, Answering(q)
  PROVE  AnswerInv'
<1>1. CASE AnswerUnheard(q) \/ AnswerUninspected(q)
  BY <1>1, JobAnswered DEF AnswerUnheard, AnswerUninspected
<1>2. CASE AnswerInspected(q)
  <2>1. looking[q] \in Jobs
    BY <1>2 DEF AnswerInspected, At, AnswerInv, LookedUp, TypeOK
  <2>2. agent[looking[q]].archived \in BOOLEAN /\ agent[looking[q]].pending \in BOOLEAN
    BY <1>2, <2>1 DEF AnswerInspected, AnswerInv, TypeOK, Agents
  <2>3. QED
    BY <1>2, <2>2, JobAnswered DEF AnswerInspected
<1>3. QED
  BY <1>1, <1>2, ListAnswer, ReadAnswer, LeaveAnswer DEF Answering

LEMMA AnswerInductive == Spec => []AnswerInv
<1>1. AnswerInv /\ Inv' /\ [Next]_vars => AnswerInv'
  <2> SUFFICES ASSUME AnswerInv, Inv', [Next]_vars PROVE AnswerInv'
    OBVIOUS
  <2>1. CASE UNCHANGED vars
    <3>1. UNCHANGED <<record, bound, ever, lost, result, pc, identity, answers>>
      BY <2>1 DEF vars, sources, outer
    <3>2. TypeOK'
      BY <2>1 DEF AnswerInv, TypeOK, vars, sources, outer, answers
    <3>3. QED
      BY <3>1, <3>2, StableAnswer DEF AnswerInv, ToldIsStored
  <2>2. QED
    BY <2>1, DispatchAnswer, AnsweringAnswer, OutsideAnswer DEF Next
<1>2. QED
  BY InitAnswer, Inductive, <1>1, PTL DEF Spec

\* Types, for any number of sessions and any doings of the outside world.
THEOREM TypeCorrect == Spec => []TypeOK
BY AnswerInductive, PTL DEF AnswerInv

\* No answer calls an agent absent that was there when the daemon was asked and
\* that its listing could read (activity.py:51-54, paseo_adapter.py:186-218).
THEOREM AbsenceHeard == Spec => []AbsenceIsHeard
BY AnswerInductive, PTL DEF AnswerInv

\* A job reported dispatched before the answer began is called
\* never-dispatched only if the store lost its binding.
THEOREM NeverDispatchedTrue == Spec => []NeverDispatchedIsTrue
BY AnswerInductive, PTL DEF AnswerInv

\* Not-found is said of jobs that had an agent.
THEOREM NotFoundDispatched == Spec => []NotFoundMeansDispatched
BY AnswerInductive, PTL DEF AnswerInv

\* An answer attributes its jobs to one workstream (R31 of the plan).
THEOREM OneStream == Spec => []OneStreamPerAnswer
BY AnswerInductive, PTL DEF AnswerInv

-----------------------------------------------------------------------------
(***************************************************************************)
(* The ledger.  A job is on record from the step that completes its file,  *)
(* asked for from the call of spawn of its one author, and at the stage    *)
(* that author's result tells, with what the daemon has done since.        *)
(***************************************************************************)

\* Who waits no longer has said so, and whoever had an agent asked for it.
Awaited == \A j \in inflight : \E s \in asked : JobOf(s) = j /\ result[s] = "partial-success"
Sought  == \A j \in ever : \E s \in asked : JobOf(s) = j

LedgerInv == Awaited /\ Sought

\* At first nothing is in flight and nobody has asked.
LEMMA InitLedgerInv == Init => LedgerInv
BY DEF Init, LedgerInv, Awaited, Sought

\* Nothing but an answer to spawn changes what is reported of a job asked for.
LEMMA ReportsStay ==
  ASSUME Inv, NEW s \in Dispatchers,
         \/ Confirm(s) \/ Cancel(s) \/ Resolve(s) \/ ResolveFails(s) \/ DraftRefused(s)
         \/ CreateRecord(s) \/ CreateFails(s) \/ FillRecord(s) \/ FillFails(s)
         \/ ReadBack(s) \/ ReadBackFails(s)
  PROVE  /\ UNCHANGED <<agent, inflight, bound, asked, ever>>
         /\ s \notin asked
         /\ \A t \in asked : result'[t] = result[t]
<1>1. s \notin asked
  BY DEF Inv, Asking, At, Confirm, Cancel, Resolve, ResolveFails, DraftRefused, CreateRecord,
     CreateFails, FillRecord, FillFails, ReadBack, ReadBackFails
<1>2. UNCHANGED <<agent, inflight, bound, asked, ever>>
  BY DEF Confirm, Cancel, Resolve, ResolveFails, DraftRefused, CreateRecord, CreateFails,
     FillRecord, FillFails, ReadBack, ReadBackFails, sources, outer
<1>3. UNCHANGED result \/ \E r : result' = [result EXCEPT ![s] = r]
  BY DEF Confirm, Cancel, Resolve, ResolveFails, DraftRefused, CreateRecord, CreateFails,
     FillRecord, FillFails, ReadBack, ReadBackFails, Conclude
<1>4. QED
  BY <1>1, <1>2, <1>3 DEF Inv, DispatchTypes

\* One step of a spawn, a binding or a late agent, in the terms of the ledger.
LEMMA SpawnShape ==
  ASSUME Inv, NEW s \in Dispatchers, Spawn(s) \/ SpawnRefused(s) \/ SpawnTimesOut(s)
  PROVE  /\ UNCHANGED <<record, bound>> /\ asked' = asked \cup {s} /\ s \notin asked
         /\ \A t \in asked : result'[t] = result[t]
         /\ \/ /\ result'[s] = "none" /\ agent' = [agent EXCEPT ![JobOf(s)] = Fresh]
               /\ ever' = ever \cup {JobOf(s)} /\ UNCHANGED inflight
            \/ /\ result'[s] = "partial-success" /\ UNCHANGED <<agent, ever, inflight>>
            \/ /\ result'[s] = "partial-success" /\ UNCHANGED <<agent, ever>>
               /\ inflight' = inflight \cup {JobOf(s)}
<1>1. s \notin asked /\ result[s] = "none"
  BY DEF Inv, Asking, At, Spawn, SpawnRefused, SpawnTimesOut
<1>2. QED
  BY <1>1 DEF Inv, DispatchTypes, Spawn, SpawnRefused, SpawnTimesOut, StartAgent, Conclude,
     sources

\* One step of binding: the author reports its job dispatched, bound or not.
LEMMA BindShape ==
  ASSUME Inv, NEW s \in Dispatchers, Bind(s) \/ BindFails(s)
  PROVE  /\ UNCHANGED <<record, agent, inflight, asked, ever>> /\ s \in asked
         /\ result[s] = "none" /\ result'[s] = "dispatched"
         /\ \A t \in asked \ {s} : result'[t] = result[t]
         /\ bound' \in {bound, bound \cup {JobOf(s)}}
BY DEF Inv, DispatchTypes, Asking, Bind, BindFails, At, Conclude, sources, outer

\* Only a spawn puts a job in flight, and its session reports that at once.
LEMMA LedgerStep == Inv /\ LedgerInv /\ [Next]_vars => LedgerInv'
<1> SUFFICES ASSUME Inv, LedgerInv, [Next]_vars PROVE LedgerInv'
  OBVIOUS
<1> USE DEF LedgerInv
<1>1. ASSUME NEW s \in Dispatchers, Dispatching(s)
      PROVE  LedgerInv'
  <2>1. CASE Spawn(s) \/ SpawnRefused(s) \/ SpawnTimesOut(s)
    BY <2>1, SpawnShape DEF Awaited, Sought
  <2>2. CASE Bind(s) \/ BindFails(s)
    BY <2>2, BindShape DEF Awaited, Sought
  <2>3. CASE ~(\/ Spawn(s) \/ SpawnRefused(s) \/ SpawnTimesOut(s) \/ Bind(s) \/ BindFails(s))
    BY <1>1, <2>3, ReportsStay DEF Dispatching, Awaited, Sought
  <2>4. QED
    BY <2>1, <2>2, <2>3
<1>2. ASSUME NEW q \in Answerers, Answering(q)
      PROVE  LedgerInv'
  <2>1. UNCHANGED <<sources, result, outer>>
    BY <1>2 DEF Answering, ListAgents, ListFails, ListMisread, ReadManifest, ReadRecords,
       ReadBinding, StoreFails, AnswerUnheard, AnswerInspected, AnswerUninspected, Answer, Deliver
  <2>2. QED
    BY <2>1 DEF Awaited, Sought, sources, outer
<1>3. ASSUME NEW j \in Jobs, AgentChanges(j) \/ DeleteAgent(j) \/ LateAgent(j)
      PROVE  LedgerInv'
  BY <1>3 DEF AgentChanges, DeleteAgent, LateAgent, Outside, StartAgent, Awaited, Sought
<1>4. CASE MarkerChanges \/ WipeStore
  BY <1>4 DEF MarkerChanges, WipeStore, Outside, Awaited, Sought
<1>5. CASE UNCHANGED vars
  BY <1>5 DEF vars, sources, outer, Awaited, Sought
<1>6. QED
  BY <1>1, <1>2, <1>3, <1>4, <1>5 DEF Next

-----------------------------------------------------------------------------

\* The outcome of a job that was asked for is its author's, of others nobody's.
OutcomeIsAuthors ==
  \A j : /\ (\A s \in asked : JobOf(s) # j) => Outcome(j) = {}
         /\ \A s \in asked : JobOf(s) = j => Outcome(j) = {result[s]}

\* The stage of a job is a matter of its outcome, its request and its agent.
StageIsTold ==
  \A j : /\ Outcome(j) = {} => Stage(j) = "open"
         /\ Outcome(j) = {"none"} => Stage(j) = "started"
         /\ Outcome(j) = {"dispatched"} => Stage(j) = "dispatched"
         /\ Outcome(j) = {"partial-success"} =>
              /\ j \in inflight => Stage(j) = "pending"
              /\ j \notin inflight /\ j \in ever => Stage(j) = "late"
              /\ j \notin inflight /\ j \notin ever => Stage(j) = "refused"

\* One author at most has asked for a job (OneAuthor).
LEMMA OutcomeFacts == Inv => OutcomeIsAuthors
<1>1. Inv => \A s, t \in asked : JobOf(s) = JobOf(t) => s = t
  BY DEF Inv, DispatchTypes, OneAuthor, Author
<1>2. QED
  BY <1>1 DEF OutcomeIsAuthors, Outcome

\* The cases of Stage exclude each other.
LEMMA StageFacts == StageIsTold
<1> SUFFICES ASSUME NEW j
             PROVE  /\ Outcome(j) = {} => Stage(j) = "open"
                    /\ Outcome(j) = {"none"} => Stage(j) = "started"
                    /\ Outcome(j) = {"dispatched"} => Stage(j) = "dispatched"
                    /\ Outcome(j) = {"partial-success"} =>
                         /\ j \in inflight => Stage(j) = "pending"
                         /\ j \notin inflight /\ j \in ever => Stage(j) = "late"
                         /\ j \notin inflight /\ j \notin ever => Stage(j) = "refused"
  BY DEF StageIsTold
<1>1. \A r : {} # {r}
  OBVIOUS
<1>2. \A r, q : r # q => {r} # {q}
  OBVIOUS
<1>3. QED
  BY <1>1, <1>2 DEF Stage

\* Both hold after a step as well.
LEMMA TellingFacts ==
  Inv /\ Inv' => OutcomeIsAuthors /\ OutcomeIsAuthors' /\ StageIsTold /\ StageIsTold'
BY OutcomeFacts, StageFacts, PTL

\* A job keeps its stage in a step that reports nothing of it.
LEMMA StageStays ==
  ASSUME NEW j, Outcome(j)' = Outcome(j),
         j \in inflight' <=> j \in inflight, j \in ever' <=> j \in ever
  PROVE  Stage(j)' = Stage(j)
BY DEF Stage

\* A fresh agent is an agent, and no agent is the absence of one.
LEMMA AgentFacts == Fresh \in Agents /\ None \notin Agents
BY DispatchAssumption DEF Fresh, Agents

\* A dispatch up to its spawn puts its job on record or leaves the ledger alone.
LEMMA RecordRefines ==
  ASSUME Inv, Inv', NEW s \in Dispatchers,
         \/ Confirm(s) \/ Cancel(s) \/ Resolve(s) \/ ResolveFails(s) \/ DraftRefused(s)
         \/ CreateRecord(s) \/ CreateFails(s) \/ FillRecord(s) \/ FillFails(s)
         \/ ReadBack(s) \/ ReadBackFails(s)
  PROVE  [Ledger!Next]_Ledger!ledgerVars
<1> DEFINE job == JobOf(s)
<1>1. /\ UNCHANGED <<agent, inflight, bound, asked, ever>> /\ s \notin asked
      /\ \A t \in asked : result'[t] = result[t]
  BY ReportsStay
<1>2. \A j : Outcome(j)' = Outcome(j)
  BY <1>1 DEF Outcome
<1>3. UNCHANGED <<[j \in Jobs |-> Stage(j)], There, bound>>
  <2>1. \A j : Stage(j)' = Stage(j)
    BY <1>1, <1>2, StageStays
  <2>2. QED
    BY <1>1, <2>1 DEF There
<1>4. CASE UNCHANGED record
  <2>1. UNCHANGED [j \in Jobs |-> Stream(j)]
    BY <1>4 DEF Stream
  <2>2. QED
    BY <1>3, <2>1 DEF Ledger!ledgerVars
<1>5. CASE CreateRecord(s)
  <2>1. record[job] = NoRecord /\ record' = [record EXCEPT ![job] = PartRecord(identity[s])]
    BY <1>5 DEF CreateRecord
  <2>2. UNCHANGED [j \in Jobs |-> Stream(j)]
    BY <2>1, JobFacts DEF Stream, NoRecord, PartRecord, Inv, DispatchTypes
  <2>3. QED
    BY <1>3, <2>2 DEF Ledger!ledgerVars
<1>6. CASE FillRecord(s)
  <2>1. /\ job \in Jobs /\ identity[s] \in Idents /\ Author(s)
        /\ record[job] = PartRecord(identity[s])
        /\ record' = [record EXCEPT ![job] = FullRecord(identity[s])]
    BY <1>6, JobFacts DEF FillRecord, At, Inv, Resolved, Filling, Author
  <2>2. Stage(job) = "open"
    <3>1. \A t \in asked : JobOf(t) # job
      BY <1>1, <2>1 DEF Inv, DispatchTypes, OneAuthor, Author
    <3>2. QED
      BY <3>1, TellingFacts DEF OutcomeIsAuthors, StageIsTold
  <2>3. /\ Stream(job) = None
        /\ [j \in Jobs |-> Stream(j)]' = [[j \in Jobs |-> Stream(j)] EXCEPT ![job] = identity[s]]
    <3>1. Stream(job) = None
      BY <2>1 DEF Stream, PartRecord
    <3>2. record \in [Jobs -> Records]
      BY DEF Inv, DispatchTypes
    <3>3. \A j \in Jobs : record'[j] = IF j = job THEN FullRecord(identity[s]) ELSE record[j]
      BY <2>1, <3>2
    <3>4. \A j \in Jobs : Stream(j)' = IF j = job THEN identity[s] ELSE Stream(j)
      BY <3>3 DEF Stream, FullRecord
    <3>5. QED
      BY <2>1, <3>1, <3>4
  <2>4. Ledger!PutOnRecord(job)
    BY <1>3, <2>1, <2>2, <2>3 DEF Ledger!PutOnRecord
  <2>5. QED
    BY <2>1, <2>4 DEF Ledger!Next
<1>7. QED
  BY <1>4, <1>5, <1>6 DEF Confirm, Cancel, Resolve, ResolveFails, DraftRefused, CreateFails,
     FillFails, ReadBack, ReadBackFails, sources

\* A spawn is Ask, with each of its outcomes.
LEMMA SpawnRefines ==
  ASSUME Inv, Inv', TypeOK, LedgerInv, NEW s \in Dispatchers,
         Spawn(s) \/ SpawnRefused(s) \/ SpawnTimesOut(s)
  PROVE  [Ledger!Next]_Ledger!ledgerVars
<1> DEFINE job == JobOf(s)
<1>1. /\ UNCHANGED <<record, bound>> /\ asked' = asked \cup {s} /\ s \notin asked
      /\ \A t \in asked : result'[t] = result[t]
      /\ \/ /\ result'[s] = "none" /\ agent' = [agent EXCEPT ![job] = Fresh]
            /\ ever' = ever \cup {job} /\ UNCHANGED inflight
         \/ /\ result'[s] = "partial-success" /\ UNCHANGED <<agent, ever, inflight>>
         \/ /\ result'[s] = "partial-success" /\ UNCHANGED <<agent, ever>>
            /\ inflight' = inflight \cup {job}
  BY SpawnShape
<1>2. job \in Jobs /\ \A t \in asked : JobOf(t) # job
  BY <1>1, JobFacts DEF Inv, DispatchTypes, OneAuthor, Author, Spawn, SpawnRefused,
     SpawnTimesOut, At
<1>3. Stage(job) = "open" /\ job \notin inflight /\ job \notin ever
  BY <1>2, TellingFacts DEF OutcomeIsAuthors, StageIsTold, LedgerInv, Awaited, Sought
<1>4. Stream(job) # None
  <2>1. record[job] = FullRecord(identity[s]) /\ identity[s] \in Idents
    BY DEF Inv, Filled, Resolved, Author, Spawn, SpawnRefused, SpawnTimesOut, At
  <2>2. QED
    BY <2>1, JobFacts DEF Stream, FullRecord
<1>5. \A j \in Jobs \ {job} : Stage(j)' = Stage(j)
  <2> SUFFICES ASSUME NEW j \in Jobs \ {job} PROVE Stage(j)' = Stage(j)
    OBVIOUS
  <2>1. Outcome(j)' = Outcome(j)
    BY <1>1 DEF Outcome
  <2>2. QED
    BY <1>1, <2>1, StageStays
<1>6. Outcome(job)' = {result'[s]}
  BY <1>1, TellingFacts DEF OutcomeIsAuthors
<1>7. UNCHANGED <<[j \in Jobs |-> Stream(j)], bound>>
  BY <1>1 DEF Stream
<1>8. \E to \in {"started", "refused", "pending"} :
        /\ Stage(job)' = to
        /\ There' = IF to = "started" THEN There \cup {job} ELSE There
  <2>1. CASE result'[s] = "none"
    <3>1. Stage(job)' = "started"
      BY <1>6, <2>1, TellingFacts DEF StageIsTold
    <3>2. agent' = [agent EXCEPT ![job] = Fresh] /\ agent \in [Jobs -> Agents \cup {None}]
      BY <1>1, <2>1 DEF TypeOK
    <3>3. There' = There \cup {job}
      BY <1>2, <3>2, AgentFacts DEF There
    <3>4. QED
      BY <3>1, <3>3
  <2>2. CASE result'[s] = "partial-success"
    <3>1. There' = There
      BY <1>1, <2>2 DEF There
    <3>2. Stage(job)' \in {"refused", "pending"}
      BY <1>1, <1>3, <1>6, <2>2, TellingFacts DEF StageIsTold
    <3>3. QED
      BY <3>1, <3>2
  <2>3. QED
    BY <1>1, <2>1, <2>2
<1>9. Ledger!Ask(job)
  <2>1. PICK to \in {"started", "refused", "pending"} :
          /\ Stage(job)' = to
          /\ There' = IF to = "started" THEN There \cup {job} ELSE There
    BY <1>8
  <2>2. [j \in Jobs |-> Stage(j)]' = [[j \in Jobs |-> Stage(j)] EXCEPT ![job] = to]
    BY <1>2, <1>5, <2>1
  <2>3. QED
    BY <1>2, <1>3, <1>4, <1>7, <2>1, <2>2 DEF Ledger!Ask
<1>10. QED
  BY <1>2, <1>9 DEF Ledger!Next

\* Binding, failed or not, is Report.
LEMMA BindRefines ==
  ASSUME Inv, Inv', NEW s \in Dispatchers, Bind(s) \/ BindFails(s)
  PROVE  [Ledger!Next]_Ledger!ledgerVars
<1> DEFINE job == JobOf(s)
<1>1. /\ UNCHANGED <<record, agent, inflight, asked, ever>> /\ s \in asked
      /\ result[s] = "none" /\ result'[s] = "dispatched"
      /\ \A t \in asked \ {s} : result'[t] = result[t]
      /\ bound' \in {bound, bound \cup {job}} /\ job \in Jobs
  BY BindShape, JobFacts
<1>2. Stage(job) = "started" /\ Stage(job)' = "dispatched"
  <2>1. Outcome(job) = {"none"} /\ Outcome(job)' = {"dispatched"}
    BY <1>1, TellingFacts DEF OutcomeIsAuthors
  <2>2. QED
    BY <2>1, TellingFacts DEF StageIsTold
<1>3. \A j \in Jobs \ {job} : Stage(j)' = Stage(j)
  <2> SUFFICES ASSUME NEW j \in Jobs \ {job} PROVE Stage(j)' = Stage(j)
    OBVIOUS
  <2>1. Outcome(j)' = Outcome(j)
    BY <1>1 DEF Outcome
  <2>2. QED
    BY <1>1, <2>1, StageStays
<1>4. UNCHANGED <<[j \in Jobs |-> Stream(j)], There>>
  BY <1>1 DEF Stream, There
<1>5. [j \in Jobs |-> Stage(j)]' = [[j \in Jobs |-> Stage(j)] EXCEPT ![job] = "dispatched"]
  BY <1>1, <1>2, <1>3
<1>6. Ledger!Report(job)
  BY <1>1, <1>2, <1>4, <1>5 DEF Ledger!Report, Ledger!Move
<1>7. QED
  BY <1>1, <1>6 DEF Ledger!Next

\* What agents and other programs do is StartLate, Depart, Forget or nothing.
LEMMA OutsideRefines ==
  ASSUME Inv, Inv', TypeOK, LedgerInv,
         \/ \E j \in Jobs : AgentChanges(j) \/ DeleteAgent(j) \/ LateAgent(j)
         \/ MarkerChanges \/ WipeStore
  PROVE  [Ledger!Next]_Ledger!ledgerVars
<1>1. /\ UNCHANGED <<record, result, asked>>
      /\ \A j : Outcome(j)' = Outcome(j)
      /\ UNCHANGED [j \in Jobs |-> Stream(j)]
  BY DEF AgentChanges, DeleteAgent, LateAgent, MarkerChanges, WipeStore, Outside, Outcome, Stream
<1>2. agent \in [Jobs -> Agents \cup {None}]
  BY DEF TypeOK
<1>3. ASSUME UNCHANGED <<inflight, ever>>
      PROVE  UNCHANGED [j \in Jobs |-> Stage(j)]
  <2>1. \A j : Stage(j)' = Stage(j)
    BY <1>1, <1>3, StageStays
  <2>2. QED
    BY <2>1
<1>4. ASSUME NEW job \in Jobs, AgentChanges(job)
      PROVE  UNCHANGED Ledger!ledgerVars
  <2>1. UNCHANGED <<inflight, bound, ever>>
    BY <1>4 DEF AgentChanges
  <2>2. There' = There
    <3>1. agent[job] \in Agents
      BY <1>2, <1>4 DEF AgentChanges
    <3>2. \E a \in Agents : agent' = [agent EXCEPT ![job] = a]
      <4>1. \/ \E st \in Statuses : agent' = [agent EXCEPT ![job].status = st]
            \/ agent' = [agent EXCEPT ![job].pending = ~@]
            \/ agent' = [agent EXCEPT ![job].archived = ~@]
        BY <1>4 DEF AgentChanges
      <4>2. QED
        BY <1>2, <3>1, <4>1 DEF Agents
    <3>3. QED
      BY <1>2, <3>1, <3>2, AgentFacts DEF There
  <2>3. QED
    BY <1>1, <1>3, <2>1, <2>2 DEF Ledger!ledgerVars
<1>5. ASSUME NEW job \in Jobs, DeleteAgent(job)
      PROVE  Ledger!Next
  <2>1. UNCHANGED <<inflight, bound, ever>> /\ job \in There /\ There' = There \ {job}
    BY <1>2, <1>5 DEF DeleteAgent, There
  <2>2. Ledger!Depart(job)
    BY <1>1, <1>3, <2>1 DEF Ledger!Depart
  <2>3. QED
    BY <2>2 DEF Ledger!Next
<1>6. ASSUME NEW job \in Jobs, LateAgent(job)
      PROVE  Ledger!Next
  <2>1. /\ job \in inflight /\ inflight' = inflight \ {job} /\ ever' = ever \cup {job}
        /\ agent' = [agent EXCEPT ![job] = Fresh] /\ UNCHANGED bound
    BY <1>6 DEF LateAgent, StartAgent
  <2>2. There' = There \cup {job}
    BY <1>2, <2>1, AgentFacts DEF There
  <2>3. Stage(job) = "pending" /\ Stage(job)' = "late"
    <3>1. PICK s \in asked : JobOf(s) = job /\ result[s] = "partial-success"
      BY <2>1 DEF LedgerInv, Awaited
    <3>2. Outcome(job) = {"partial-success"}
      BY <3>1, TellingFacts DEF OutcomeIsAuthors
    <3>3. Outcome(job)' = {"partial-success"}
      BY <1>1, <3>2
    <3>4. QED
      BY <2>1, <3>2, <3>3, TellingFacts DEF StageIsTold
  <2>4. \A j \in Jobs \ {job} : Stage(j)' = Stage(j)
    BY <1>1, <2>1, StageStays
  <2>5. [j \in Jobs |-> Stage(j)]' = [[j \in Jobs |-> Stage(j)] EXCEPT ![job] = "late"]
    BY <2>3, <2>4
  <2>6. Ledger!StartLate(job)
    BY <1>1, <2>1, <2>2, <2>3, <2>5 DEF Ledger!StartLate, Ledger!Move
  <2>7. QED
    BY <2>6 DEF Ledger!Next
<1>7. CASE MarkerChanges
  <2>1. UNCHANGED <<inflight, bound, ever, agent>>
    BY <1>7 DEF MarkerChanges
  <2>2. QED
    BY <1>1, <1>3, <2>1 DEF Ledger!ledgerVars, There
<1>8. CASE WipeStore
  <2>1. UNCHANGED <<inflight, ever, agent>> /\ bound' = {}
    BY <1>8 DEF WipeStore
  <2>2. Ledger!Forget
    BY <1>1, <1>3, <2>1 DEF Ledger!Forget, There
  <2>3. QED
    BY <2>2 DEF Ledger!Next
<1>9. QED
  BY <1>4, <1>5, <1>6, <1>7, <1>8

\* A step that leaves the entries alone leaves the ledger alone.
LEMMA NothingEntered == UNCHANGED entries => UNCHANGED Ledger!ledgerVars
<1> SUFFICES ASSUME UNCHANGED entries PROVE UNCHANGED Ledger!ledgerVars
  OBVIOUS
<1>1. UNCHANGED <<record, agent, inflight, bound, result, asked, ever>>
  BY DEF entries
<1>2. \A j : Outcome(j)' = Outcome(j)
  BY <1>1 DEF Outcome
<1>3. \A j : Stage(j)' = Stage(j)
  BY <1>1, <1>2, StageStays
<1>4. UNCHANGED <<[j \in Jobs |-> Stream(j)], [j \in Jobs |-> Stage(j)], There>>
  BY <1>1, <1>3 DEF Stream, There
<1>5. QED
  BY <1>1, <1>4 DEF Ledger!ledgerVars

\* Every step is a step of the ledger for one job or leaves it alone.
LEMMA NextLedger ==
  Inv /\ Inv' /\ TypeOK /\ LedgerInv /\ [Next]_vars => [Ledger!Next]_Ledger!ledgerVars
<1> SUFFICES ASSUME Inv, Inv', TypeOK, LedgerInv, [Next]_vars
             PROVE  [Ledger!Next]_Ledger!ledgerVars
  OBVIOUS
<1>1. CASE UNCHANGED vars
  BY <1>1, NothingEntered DEF vars, sources, outer, entries
<1>2. ASSUME NEW s \in Dispatchers, Dispatching(s)
      PROVE  [Ledger!Next]_Ledger!ledgerVars
  BY <1>2, RecordRefines, SpawnRefines, BindRefines DEF Dispatching
<1>3. ASSUME NEW q \in Answerers, Answering(q)
      PROVE  [Ledger!Next]_Ledger!ledgerVars
  <2>1. UNCHANGED <<sources, result, outer>>
    BY <1>3 DEF Answering, ListAgents, ListFails, ListMisread, ReadManifest, ReadRecords,
       ReadBinding, StoreFails, AnswerUnheard, AnswerInspected, AnswerUninspected, Answer, Deliver
  <2>2. QED
    BY <2>1, NothingEntered DEF sources, outer, entries
<1>4. QED
  BY <1>1, <1>2, <1>3, OutsideRefines DEF Next

\* The initial states are the initial states of the ledger.
LEMMA InitLedger == Init => Ledger!Init
<1> SUFFICES ASSUME Init PROVE Ledger!Init
  OBVIOUS
<1>1. asked = {} /\ bound = {} /\ \A j \in Jobs : record[j] = NoRecord /\ agent[j] = None
  BY DEF Init
<1>2. \A j : Stage(j) = "open"
  BY <1>1, StageFacts DEF StageIsTold, Outcome
<1>3. \A j \in Jobs : Stream(j) = None
  BY <1>1 DEF Stream, NoRecord
<1>4. QED
  BY <1>1, <1>2, <1>3 DEF Ledger!Init, There

\* However many sessions are given a draft, wherever they die and whatever the
\* daemon does late: each job is put on record once, asked for after that and
\* once, has an agent once at most, and is bound only when it was reported
\* dispatched (dispatch.py:1-8, 108-184).
THEOREM ImplementsLedger == Spec => Ledger!Spec /\ KeepsLedger
<1>1. Spec => []LedgerInv
  BY Inductive, InitLedgerInv, LedgerStep, PTL DEF Spec
<1>2. Spec => Ledger!Spec
  BY Inductive, TypeCorrect, InitLedger, NextLedger, <1>1, PTL DEF Spec, Ledger!Spec
<1>3. [Ledger!Next]_Ledger!ledgerVars =>
        [UNCHANGED entries \/ [Ledger!Next]_Ledger!ledgerVars]_vars
  OBVIOUS
<1>4. Ledger!Spec => KeepsLedger
  BY <1>3, PTL DEF Ledger!Spec, KeepsLedger
<1>5. QED
  BY <1>2, <1>4
=============================================================================
