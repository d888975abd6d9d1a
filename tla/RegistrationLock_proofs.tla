------------------------ MODULE RegistrationLock_proofs ------------------------
(***************************************************************************)
(* Theorems about RegistrationLock for any sets of writers, strict         *)
(* sessions and recoverers, any leftover lock file and any crash pattern.  *)
(***************************************************************************)
EXTENDS RegistrationLock, TLAPS

-----------------------------------------------------------------------------
(***************************************************************************)
(* Types.                                                                  *)
(***************************************************************************)

\* The metadata a session keeps is never NoLock, and has an owner.
LEMMA MetadataFacts ==
  /\ NoLock \notin LockFile
  /\ \A m \in Metadata : m \in LockFile /\ m # NoLock
<1>1. Nobody \notin Owners
  BY SessionsAssumption
<1>2. ASSUME NEW m \in LockFile
      PROVE  m # NoLock
  BY <1>1 DEF LockFile, NoLock
<1>3. ASSUME NEW m \in Metadata
      PROVE  m \in LockFile
  BY DEF LockFile, Metadata
<1>4. QED
  BY <1>2, <1>3

\* The types hold initially.
LEMMA InitTypes == Init => TypeOK
<1> SUFFICES ASSUME Init
             PROVE  TypeOK
  OBVIOUS
<1>1. lock \in LockFile \cup {NoLock}
  BY DEF Init, LockFile, Owners
<1>2. QED
  BY <1>1 DEF Init, TypeOK, Steps, Outcomes

\* Writing the metadata completes the file of the session that created it
\* and changes no other.
LEMMA FilledTypes ==
  ASSUME TypeOK, NEW p \in Sessions
  PROVE  Filled(p) \in LockFile \cup {NoLock}
<1>1. p \in Owners /\ p # Nobody
  BY SessionsAssumption DEF Owners
<1>2. CASE lock.owner = p
  <2>1. lock \in LockFile
    BY <1>1, <1>2 DEF TypeOK, NoLock
  <2>2. [lock EXCEPT !.full = TRUE] \in LockFile
    BY <2>1 DEF LockFile
  <2>3. QED
    BY <1>2, <2>2 DEF Filled
<1>3. CASE lock.owner # p
  BY <1>3 DEF Filled, TypeOK
<1>4. QED
  BY <1>2, <1>3

\* Writing the metadata does not change whose file it is.
LEMMA FilledOwner ==
  ASSUME TypeOK, NEW p \in Sessions
  PROVE  Filled(p).owner = lock.owner
<1>1. CASE lock = NoLock
  BY <1>1 DEF Filled, NoLock
<1>2. CASE lock \in LockFile
  <2>1. [lock EXCEPT !.full = TRUE].owner = lock.owner
    BY <1>2 DEF LockFile
  <2>2. QED
    BY <2>1 DEF Filled
<1>3. QED
  BY <1>1, <1>2 DEF TypeOK

\* Every step of a session preserves the types.
LEMMA StepTypes ==
  ASSUME TypeOK, NEW p \in Sessions, Step(p) \/ Crash(p)
  PROVE  TypeOK'
<1> USE DEF TypeOK, At, Goto, Finish, Steps, Outcomes
<1>1. p \in Owners
  BY DEF Owners
<1>2. CASE Begin(p)
  BY <1>2 DEF Begin
<1>3. CASE CreateLock(p)
  BY <1>1, <1>3, MetadataFacts DEF CreateLock, LockFile
<1>4. CASE LockExists(p)
  BY <1>4 DEF LockExists
<1>5. CASE CreateFails(p)
  BY <1>5 DEF CreateFails
<1>6. CASE FillLock(p)
  BY FilledTypes, <1>6 DEF FillLock
<1>7. CASE FillFails(p)
  BY FilledTypes, <1>7 DEF FillFails
<1>8. CASE Retry(p)
  BY <1>8 DEF Retry
<1>9. CASE GiveUp(p)
  BY <1>9 DEF GiveUp
<1>10. CASE ReadMetadata(p)
  BY <1>10, MetadataFacts DEF ReadMetadata, Readable, LockFile, Metadata
<1>11. CASE ReadNothing(p)
  BY <1>11 DEF ReadNothing
<1>12. CASE JudgeStale(p)
  BY <1>12 DEF JudgeStale
<1>13. CASE JudgeHeld(p)
  BY <1>13 DEF JudgeHeld
<1>14. CASE ReplaceLock(p)
  BY <1>1, <1>14 DEF ReplaceLock, LockFile
<1>15. CASE ReplaceFails(p)
  BY <1>15 DEF ReplaceFails
<1>16. CASE Release(p)
  BY <1>16 DEF Release, ReleaseReads, ReleaseSkips, UnlinkLock, UnlinkFails
<1>17. CASE BeginRecovery(p)
  BY <1>17 DEF BeginRecovery
<1>18. CASE Exit(p)
  BY <1>18 DEF Exit
<1>19. CASE Crash(p)
  BY <1>19 DEF Crash
<1>20. QED
  BY <1>2, <1>3, <1>4, <1>5, <1>6, <1>7, <1>8, <1>9, <1>10, <1>11, <1>12,
     <1>13, <1>14, <1>15, <1>16, <1>17, <1>18, <1>19
  DEF Step, Acquire, Inspect

\* Every variable keeps its type.
THEOREM TypeCorrect == Spec => []TypeOK
<1>1. TypeOK /\ [Next]_vars => TypeOK'
  BY StepTypes DEF Next, vars, TypeOK
<1>2. QED
  BY InitTypes, <1>1, PTL DEF Spec

-----------------------------------------------------------------------------
(***************************************************************************)
(* Staleness.                                                              *)
(***************************************************************************)

\* A lock file is only ever replaced on the word of metadata whose owner is
\* a process that is gone: an owner that merely outlives its lease is safe.
OnlyStaleReplaced ==
  \A p \in Sessions : At(p, "replace") => Gone(seen[p].owner)

\* A step of one session leaves the others where they are, and a session
\* that is gone stays gone.
LEMMA OthersKeep ==
  ASSUME TypeOK, NEW p \in Sessions, Step(p) \/ Crash(p)
  PROVE  /\ \A q \in Sessions \ {p} :
              pc'[q] = pc[q] /\ seen'[q] = seen[q] /\ outcome'[q] = outcome[q]
         /\ pc[p] # "gone"
<1> USE DEF TypeOK, At, Goto, Finish
<1>1. CASE Acquire(p)
  BY <1>1 DEF Acquire, Begin, CreateLock, LockExists, CreateFails, FillLock,
     FillFails, Retry, GiveUp
<1>2. CASE Inspect(p)
  BY <1>2 DEF Inspect, ReadMetadata, ReadNothing, JudgeStale, JudgeHeld,
     ReplaceLock, ReplaceFails
<1>3. CASE Release(p)
  BY <1>3 DEF Release, ReleaseReads, ReleaseSkips, UnlinkLock, UnlinkFails
<1>4. CASE BeginRecovery(p) \/ Exit(p) \/ Crash(p)
  BY <1>4 DEF BeginRecovery, Exit, Crash
<1>5. QED
  BY <1>1, <1>2, <1>3, <1>4 DEF Step

\* OnlyStaleReplaced is inductive.
LEMMA StaleStep ==
  ASSUME TypeOK, OnlyStaleReplaced, NEW p \in Sessions, Step(p) \/ Crash(p)
  PROVE  OnlyStaleReplaced'
<1> SUFFICES ASSUME NEW q \in Sessions, (At(q, "replace"))'
             PROVE  (Gone(seen[q].owner))'
  BY DEF OnlyStaleReplaced
<1>1. ASSUME NEW o, Gone(o)
      PROVE  (Gone(o))'
  BY <1>1, OthersKeep DEF Gone
<1>2. At(q, "replace") /\ seen'[q] = seen[q] => (Gone(seen[q].owner))'
  BY <1>1 DEF OnlyStaleReplaced
<1>3. CASE q # p
  BY <1>2, <1>3, OthersKeep DEF At
<1>4. CASE q = p
  <2> USE DEF TypeOK, At, Goto, Finish
  <2>1. CASE JudgeStale(p)
    BY <1>1, <1>4, <2>1 DEF JudgeStale, MayBeStale
  <2>2. CASE Acquire(p)
    BY <1>4, <2>2 DEF Acquire, Begin, CreateLock, LockExists, CreateFails,
       FillLock, FillFails, Retry, GiveUp
  <2>3. CASE Inspect(p) /\ ~JudgeStale(p)
    BY <1>4, <2>3 DEF Inspect, ReadMetadata, ReadNothing, JudgeHeld,
       ReplaceLock, ReplaceFails
  <2>4. CASE Release(p)
    BY <1>4, <2>4 DEF Release, ReleaseReads, ReleaseSkips, UnlinkLock, UnlinkFails
  <2>5. CASE BeginRecovery(p) \/ Exit(p) \/ Crash(p)
    BY <1>4, <2>5 DEF BeginRecovery, Exit, Crash
  <2>6. QED
    BY <2>1, <2>2, <2>3, <2>4, <2>5 DEF Step
<1>5. QED
  BY <1>3, <1>4

\* Only the lock of a process that is gone is ever up for replacement.
THEOREM ReplacesOnlyStale == Spec => []OnlyStaleReplaced
<1>1. Init => OnlyStaleReplaced
  BY DEF Init, OnlyStaleReplaced, At
<1>2. TypeOK /\ OnlyStaleReplaced /\ [Next]_vars => OnlyStaleReplaced'
  <2>1. CASE UNCHANGED vars
    BY <2>1 DEF vars, OnlyStaleReplaced, At, Gone
  <2>2. CASE Next
    BY <2>2, StaleStep DEF Next
  <2>3. QED
    BY <2>1, <2>2
<1>3. QED
  BY <1>1, <1>2, TypeCorrect, PTL DEF Spec

-----------------------------------------------------------------------------
(***************************************************************************)
(* Mutual exclusion.                                                       *)
(***************************************************************************)

\* HolderOwnsLock is inductive relative to the types and to staleness: while
\* nothing has raced, the session in the with block owns the file, so no other
\* session can, and a replacement takes the file of a process that is gone.
LEMMA HolderStep ==
  ASSUME TypeOK, OnlyStaleReplaced, HolderOwnsLock,
         NEW p \in Sessions, Step(p) \/ Crash(p)
  PROVE  HolderOwnsLock'
<1> SUFFICES ASSUME ~raced', NEW q \in Sessions
             PROVE  /\ (Holding(q))' => lock' = [owner |-> q, full |-> TRUE]
                    /\ (At(q, "fill"))' => lock' = [owner |-> q, full |-> FALSE]
  BY DEF HolderOwnsLock
<1> USE DEF Holding, At, Goto, Finish, TypeOK
<1>1. ~raced
  BY DEF Step, Acquire, Inspect, Release, Begin, CreateLock, LockExists,
     CreateFails, FillLock, FillFails, Retry, GiveUp, ReadMetadata, ReadNothing,
     JudgeStale, JudgeHeld, ReplaceLock, ReplaceFails, ReleaseReads,
     ReleaseSkips, UnlinkLock, UnlinkFails, BeginRecovery, Exit, Crash
<1>2. \A r \in Sessions :
        /\ Holding(r) => lock = [owner |-> r, full |-> TRUE]
        /\ At(r, "fill") => lock = [owner |-> r, full |-> FALSE]
  BY <1>1 DEF HolderOwnsLock
<1>3. p # Nobody /\ q # Nobody
  BY SessionsAssumption DEF Owners
<1>4. q # p => pc'[q] = pc[q]
  BY OthersKeep
<1>5. CASE CreateLock(p)
  <2>1. lock.owner = Nobody
    BY <1>5 DEF CreateLock, NoLock
  <2>2. ~Holding(q) /\ ~At(q, "fill")
    BY <1>2, <1>3, <2>1
  <2>3. CASE q = p
    BY <1>5, <2>3 DEF CreateLock
  <2>4. CASE q # p
    BY <1>4, <2>2, <2>4
  <2>5. QED
    BY <2>3, <2>4
<1>6. CASE FillLock(p)
  <2>1. lock.owner = p /\ ~Holding(p)
    BY <1>2, <1>6 DEF FillLock
  <2>2. lock = [owner |-> p, full |-> FALSE]
    BY <1>2, <1>6 DEF FillLock
  <2>3. lock' = [owner |-> p, full |-> TRUE]
    BY <2>2, <1>6 DEF FillLock, Filled
  <2>4. q # p => ~Holding(q) /\ ~At(q, "fill")
    BY <1>2, <2>1
  <2>5. CASE q = p
    BY <1>6, <2>3, <2>5 DEF FillLock
  <2>6. CASE q # p
    BY <1>4, <2>4, <2>6
  <2>7. QED
    BY <2>5, <2>6
<1>7. CASE FillFails(p)
  BY <1>2, <1>4, <1>7 DEF FillFails, Filled
<1>8. CASE ReplaceLock(p)
  <2>1. lock = seen[p] /\ Gone(lock.owner)
    BY <1>8 DEF ReplaceLock, OnlyStaleReplaced
  <2>2. q # p => ~Holding(q) /\ ~At(q, "fill")
    BY <1>2, <2>1, SessionsAssumption DEF Gone
  <2>3. QED
    BY <1>4, <1>8, <2>2 DEF ReplaceLock
<1>9. CASE UnlinkLock(p)
  BY <1>2, <1>4, <1>9 DEF UnlinkLock
<1>10. CASE ReleaseReads(p)
  BY <1>2, <1>4, <1>10 DEF ReleaseReads
<1>11. CASE Begin(p) \/ LockExists(p) \/ CreateFails(p) \/ Retry(p) \/ GiveUp(p)
  BY <1>2, <1>4, <1>11 DEF Begin, LockExists, CreateFails, Retry, GiveUp
<1>12. CASE ReadMetadata(p) \/ ReadNothing(p) \/ JudgeStale(p) \/ JudgeHeld(p)
            \/ ReplaceFails(p)
  BY <1>2, <1>4, <1>12 DEF ReadMetadata, ReadNothing, JudgeStale, JudgeHeld,
     ReplaceFails
<1>13. CASE \/ ReleaseSkips(p) \/ UnlinkFails(p) \/ BeginRecovery(p)
            \/ Exit(p) \/ Crash(p)
  BY <1>2, <1>4, <1>13 DEF ReleaseSkips, UnlinkFails, BeginRecovery, Exit, Crash
<1>14. QED
  BY <1>5, <1>6, <1>7, <1>8, <1>9, <1>10, <1>11, <1>12, <1>13
  DEF Step, Acquire, Inspect, Release

\* Up to the first race the session in the with block owns the lock file.
THEOREM HolderOwns == Spec => []HolderOwnsLock
<1>1. Init => HolderOwnsLock
  BY DEF Init, HolderOwnsLock, Holding, At
<1>2. TypeOK /\ OnlyStaleReplaced /\ HolderOwnsLock /\ [Next]_vars => HolderOwnsLock'
  <2>1. CASE UNCHANGED vars
    BY <2>1 DEF vars, HolderOwnsLock, Holding, At
  <2>2. CASE Next
    BY <2>2, HolderStep DEF Next
  <2>3. QED
    BY <2>1, <2>2
<1>3. QED
  BY <1>1, <1>2, TypeCorrect, ReplacesOnlyStale, PTL DEF Spec

\* Up to the first race at most one session is in the with block.
THEOREM Exclusion == Spec => []ExclusionUnlessRaced
<1>1. HolderOwnsLock => ExclusionUnlessRaced
  <2> SUFFICES ASSUME HolderOwnsLock, ~raced, NEW p \in Sessions, NEW q \in Sessions,
                      At(p, "held"), At(q, "held")
               PROVE  p = q
    BY DEF ExclusionUnlessRaced, MutualExclusion
  <2>1. lock = [owner |-> p, full |-> TRUE] /\ lock = [owner |-> q, full |-> TRUE]
    BY DEF HolderOwnsLock, Holding, At
  <2>2. QED
    BY <2>1
<1>2. QED
  BY <1>1, HolderOwns, PTL

\* Sessions that never recover a stale lock exclude each other whatever
\* happens: it takes recover_stale=True or recover-lock to break exclusion.
THEOREM StrictExclusion ==
  ASSUME Writers = {}, Recoverers = {}
  PROVE  Spec => []MutualExclusion
<1> DEFINE NeverLooks ==
      ~raced /\ \A p \in Sessions : pc[p] \notin {"inspect", "judge", "replace"}
<1>1. Init => NeverLooks
  BY DEF Init
<1>2. TypeOK /\ NeverLooks /\ [Next]_vars => NeverLooks'
  <2> SUFFICES ASSUME TypeOK, NeverLooks, [Next]_vars
               PROVE  NeverLooks'
    OBVIOUS
  <2>1. CASE UNCHANGED vars
    BY <2>1 DEF vars
  <2>2. ASSUME NEW p \in Sessions, Step(p) \/ Crash(p)
        PROVE  ~raced' /\ pc'[p] \notin {"inspect", "judge", "replace"}
    BY <2>2 DEF TypeOK, At, Goto, Finish, Step, Acquire, Inspect, Release, Begin,
       CreateLock, LockExists, CreateFails, FillLock, FillFails, Retry, GiveUp,
       ReadMetadata, ReadNothing, JudgeStale, JudgeHeld, ReplaceLock,
       ReplaceFails, ReleaseReads, ReleaseSkips, UnlinkLock, UnlinkFails,
       BeginRecovery, Exit, Crash
  <2>3. QED
    BY <2>1, <2>2, OthersKeep DEF Next
<1>3. NeverLooks /\ ExclusionUnlessRaced => MutualExclusion
  BY DEF ExclusionUnlessRaced
<1>4. QED
  BY <1>1, <1>2, <1>3, TypeCorrect, Exclusion, PTL DEF Spec

-----------------------------------------------------------------------------
(***************************************************************************)
(* What is left on disk.                                                   *)
(***************************************************************************)

\* A session that has not obtained the lock owns no lock file, and the file
\* of one that has is complete.
BystanderOwnsNothing ==
  \A p \in Sessions :
    /\ pc[p] \in {"idle", "create", "inspect", "judge", "replace", "backoff"} =>
         lock.owner # p
    /\ Holding(p) /\ lock.owner = p => lock.full

\* A step of p gives the lock file to p, removes it, or leaves it to its owner
\* as it is.
LEMMA OwnerChanges ==
  ASSUME TypeOK, NEW p \in Sessions, Step(p) \/ Crash(p)
  PROVE  lock' = lock \/ lock'.owner \in {p, Nobody}
<1>1. Filled(p) = lock \/ Filled(p).owner = p
  BY FilledOwner DEF Filled
<1>3. CASE CreateLock(p)
  BY <1>3 DEF CreateLock
<1>4. CASE FillLock(p) \/ FillFails(p)
  BY <1>1, <1>4 DEF FillLock, FillFails
<1>5. CASE ReplaceLock(p)
  BY <1>5 DEF ReplaceLock
<1>6. CASE UnlinkLock(p)
  BY <1>6 DEF UnlinkLock, NoLock
<1>7. CASE UNCHANGED lock
  BY <1>7
<1>8. QED
  BY <1>3, <1>4, <1>5, <1>6, <1>7
  DEF Step, Acquire, Inspect, Release, Begin, LockExists, CreateFails, Retry,
      GiveUp, ReadMetadata, ReadNothing, JudgeStale, JudgeHeld, ReplaceFails,
      ReleaseReads, ReleaseSkips, UnlinkFails, BeginRecovery, Exit, Crash

\* The two invariants of this section are inductive together.
LEMMA LeftoverStep ==
  ASSUME TypeOK, BystanderOwnsNothing, LeftoverHasCulprit,
         NEW p \in Sessions, Step(p) \/ Crash(p)
  PROVE  BystanderOwnsNothing' /\ LeftoverHasCulprit'
<1> DEFINE Bystander(q) ==
      pc[q] \in {"idle", "create", "inspect", "judge", "replace", "backoff"}
    Ended(q)   == pc[q] \in {"finished", "gone"}
    Culprit(q) == /\ outcome[q] \in {"failed", "crashed", "recovered", "released"}
                  /\ ~lock.full => outcome[q] \in {"failed", "crashed"}
<1> SUFFICES ASSUME NEW q \in Sessions, lock'.owner = q
             PROVE  /\ ~(Bystander(q))'
                    /\ (Holding(q))' => lock'.full
                    /\ (Ended(q))' => (Culprit(q))'
  BY DEF BystanderOwnsNothing, LeftoverHasCulprit
<1>1. q # Nobody
  BY SessionsAssumption DEF Owners
<1>2. /\ Bystander(q) => lock.owner # q
      /\ Holding(q) /\ lock.owner = q => lock.full
      /\ Ended(q) /\ lock.owner = q => Culprit(q)
  BY DEF BystanderOwnsNothing, LeftoverHasCulprit
<1>3. CASE q # p
  <2>1. lock' = lock
    BY <1>1, <1>3, OwnerChanges
  <2>2. pc'[q] = pc[q] /\ outcome'[q] = outcome[q]
    BY <1>3, OthersKeep
  <2>3. QED
    BY <1>2, <2>1, <2>2 DEF Holding
<1>4. CASE q = p
  <2> USE DEF TypeOK, At, Goto, Finish, Holding
  <2>1. CASE CreateLock(p)
    BY <1>4, <2>1 DEF CreateLock
  <2>2. CASE FillLock(p)
    <3>1. lock.owner = p
      BY <1>4, <2>2, FilledOwner DEF FillLock
    <3>2. lock' = [lock EXCEPT !.full = TRUE] /\ lock \in LockFile
      BY <1>1, <1>4, <2>2, <3>1 DEF FillLock, Filled, NoLock
    <3>3. lock'.full
      BY <3>2 DEF LockFile
    <3>4. QED
      BY <1>4, <2>2, <3>3 DEF FillLock
  <2>3. CASE FillFails(p)
    BY <1>4, <2>3 DEF FillFails
  <2>4. CASE ReplaceLock(p)
    BY <1>4, <2>4 DEF ReplaceLock
  <2>5. CASE UnlinkLock(p)
    BY <1>1, <1>4, <2>5 DEF UnlinkLock, NoLock
  <2>6. CASE Begin(p) \/ LockExists(p) \/ CreateFails(p) \/ Retry(p) \/ GiveUp(p)
    BY <1>2, <1>4, <2>6 DEF Begin, LockExists, CreateFails, Retry, GiveUp
  <2>7. CASE ReadMetadata(p) \/ ReadNothing(p) \/ JudgeStale(p) \/ JudgeHeld(p)
              \/ ReplaceFails(p)
    BY <1>2, <1>4, <2>7 DEF ReadMetadata, ReadNothing, JudgeStale, JudgeHeld,
       ReplaceFails
  <2>8. CASE ReleaseReads(p) \/ ReleaseSkips(p) \/ UnlinkFails(p)
    BY <1>2, <1>4, <2>8 DEF ReleaseReads, ReleaseSkips, UnlinkFails
  <2>9. CASE BeginRecovery(p) \/ Exit(p) \/ Crash(p)
    BY <1>2, <1>4, <2>9 DEF BeginRecovery, Exit, Crash
  <2>10. QED
    BY <2>1, <2>2, <2>3, <2>4, <2>5, <2>6, <2>7, <2>8, <2>9
    DEF Step, Acquire, Inspect, Release
<1>5. QED
  BY <1>3, <1>4

\* A lock file left behind has an owner that obtained the lock, and only one
\* that crashed or failed to write it leaves it without metadata.
THEOREM Leftover == Spec => []LeftoverHasCulprit
<1>1. Init => BystanderOwnsNothing /\ LeftoverHasCulprit
  BY SessionsAssumption DEF Init, BystanderOwnsNothing, LeftoverHasCulprit, NoLock,
     Owners, Holding
<1>2. /\ TypeOK /\ BystanderOwnsNothing /\ LeftoverHasCulprit
      /\ [Next]_vars
      => BystanderOwnsNothing' /\ LeftoverHasCulprit'
  <2>1. BystanderOwnsNothing /\ LeftoverHasCulprit /\ UNCHANGED vars
        => BystanderOwnsNothing' /\ LeftoverHasCulprit'
    BY DEF vars, BystanderOwnsNothing, LeftoverHasCulprit, Holding
  <2>2. QED
    BY <2>1, LeftoverStep DEF Next
<1>3. QED
  BY <1>1, <1>2, TypeCorrect, PTL DEF Spec

-----------------------------------------------------------------------------
(***************************************************************************)
(* The lock file implements the token.                                     *)
(***************************************************************************)

\* A step that is not a race is a step of the token or leaves it alone.
LEMMA TokenStep ==
  ASSUME TypeOK, OnlyStaleReplaced, HolderOwnsLock, ~raced',
         NEW p \in Sessions, Step(p) \/ Crash(p)
  PROVE  [Token!Next]_Token!tokenVars
<1> DEFINE G == {Prior} \cup {r \in Sessions : pc[r] = "gone"}
<1> USE DEF TypeOK, At, Goto, Finish
<1>1. p \notin G /\ p \in Owners /\ p # Nobody
  BY OthersKeep, SessionsAssumption DEF Owners
<1>2. ASSUME pc'[p] # "gone"
      PROVE  G' = G
  BY <1>1, <1>2, OthersKeep
<1>3. CASE CreateLock(p)
  <2>1. G' = G
    BY <1>2, <1>3 DEF CreateLock
  <2>2. Token!Take(p)
    BY <1>1, <1>3, <2>1 DEF CreateLock, NoLock, Token!Take
  <2>3. QED
    BY <1>1, <2>2 DEF Token!Next
<1>4. CASE ReplaceLock(p)
  <2>1. G' = G
    BY <1>2, <1>4 DEF ReplaceLock
  <2>2. lock = seen[p] /\ Gone(lock.owner)
    BY <1>4 DEF ReplaceLock, OnlyStaleReplaced
  <2>3. lock.owner \in G
    BY <2>2 DEF Gone
  <2>4. Token!Inherit(p)
    BY <1>1, <1>4, <2>1, <2>3 DEF ReplaceLock, Token!Inherit
  <2>5. QED
    BY <1>1, <2>4 DEF Token!Next
<1>5. CASE UnlinkLock(p)
  <2>1. G' = G
    BY <1>2, <1>5 DEF UnlinkLock
  <2>2. lock.owner = p
    BY <1>5 DEF UnlinkLock, HolderOwnsLock, Holding
  <2>3. Token!Return(p)
    BY <1>1, <1>5, <2>1, <2>2 DEF UnlinkLock, NoLock, Token!Return
  <2>4. QED
    BY <1>1, <2>3 DEF Token!Next
<1>6. CASE Exit(p) \/ Crash(p)
  <2>1. lock'.owner = lock.owner /\ pc'[p] = "gone"
    BY <1>6 DEF Exit, Crash
  <2>2. G' = G \cup {p}
    BY <2>1, OthersKeep
  <2>3. Token!Depart(p)
    BY <1>1, <2>1, <2>2 DEF Token!Depart
  <2>4. QED
    BY <1>1, <2>3 DEF Token!Next
<1>7. CASE FillLock(p) \/ FillFails(p)
  <2>1. Filled(p).owner = lock.owner
    BY FilledOwner
  <2>2. lock'.owner = lock.owner /\ pc'[p] # "gone"
    BY <1>7, <2>1 DEF FillLock, FillFails
  <2>3. QED
    BY <1>2, <2>2 DEF Token!tokenVars
<1>8. CASE \/ Begin(p) \/ LockExists(p) \/ CreateFails(p) \/ Retry(p) \/ GiveUp(p)
           \/ ReadMetadata(p) \/ ReadNothing(p) \/ JudgeStale(p) \/ JudgeHeld(p)
           \/ ReplaceFails(p) \/ ReleaseReads(p) \/ ReleaseSkips(p)
           \/ UnlinkFails(p) \/ BeginRecovery(p)
  <2>1. lock' = lock /\ pc'[p] # "gone"
    BY <1>8 DEF Begin, LockExists, CreateFails, Retry, GiveUp, ReadMetadata,
       ReadNothing, JudgeStale, JudgeHeld, ReplaceFails, ReleaseReads,
       ReleaseSkips, UnlinkFails, BeginRecovery
  <2>2. QED
    BY <1>2, <2>1 DEF Token!tokenVars
<1>9. QED
  BY <1>3, <1>4, <1>5, <1>6, <1>7, <1>8 DEF Step, Acquire, Inspect, Release

\* Up to the first race the lock file implements LockToken: only its live
\* owner gives it back, and only a process that is gone can lose it.
THEOREM ImplementsToken == Spec => TokenUntilRace
<1>1. Init => Token!Init
  BY DEF Init, Token!Init, NoLock, Owners
<1>2. TypeOK /\ OnlyStaleReplaced /\ HolderOwnsLock /\ [Next]_vars
      => [raced' \/ [Token!Next]_Token!tokenVars]_vars
  BY TokenStep DEF Next
<1>3. QED
  BY <1>1, <1>2, TypeCorrect, ReplacesOnlyStale, HolderOwns, PTL
  DEF Spec, TokenUntilRace
=============================================================================
