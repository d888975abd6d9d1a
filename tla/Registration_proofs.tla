-------------------------- MODULE Registration_proofs --------------------------
(***************************************************************************)
(* Theorems about Registration for any sets of sessions and any number of  *)
(* steps of programs outside the protocol: who may write and delete the    *)
(* marker, what the projection's rows are worth, and that the sessions     *)
(* together are the abstract registry.                                     *)
(***************************************************************************)
EXTENDS Registration, TLAPS

\* Which command a session runs, from where it is.
Kinds ==
  \A p \in Sessions :
    /\ pc[p] \in {"capture", "create", "collide", "fill", "readback", "project"}
         => p \in Registrars
    /\ pc[p] \in {"recheck", "compare", "unlink", "verify", "forget"}
         => p \in Unregistrars
    /\ pc[p] \in {"envelope", "delete", "confirmGone"} => p \in Resolvers
    /\ pc[p] \in {"confirmed", "lock"} => p \notin Linkers
    /\ pc[p] = "link" => p \in Registrars \cup Linkers

\* Outside programs alone make room for a further .workstream directory.
Counted == parents <= outside + (IF parent = ABSENT THEN 0 ELSE 1)

TypeInv == TypeOK /\ Kinds /\ Counted

-----------------------------------------------------------------------------
LEMMA KindFacts ==
  /\ Registrars \cap (Unregistrars \cup Resolvers \cup Linkers) = {}
  /\ Unregistrars \cap (Resolvers \cup Linkers) = {}
  /\ Resolvers \cap Linkers = {}
  /\ Registrars \subseteq Sessions /\ Unregistrars \subseteq Sessions
  /\ Resolvers \subseteq Sessions /\ Linkers \subseteq Sessions
  /\ \A p \in Sessions : p \in Registrars \cup Unregistrars \cup Resolvers \cup Linkers
  /\ Registrars \subseteq Idents /\ Stray \in Idents
  /\ Stray \notin Sessions /\ Nobody \notin Sessions /\ NoIdent \notin Idents
  /\ Idents \cap Sessions \subseteq Registrars
  /\ MaxOutside \in Nat
BY RegistrationAssumption DEF Sessions, Idents

LEMMA MarkerFacts ==
  /\ Absent \in Markers /\ Junk \in Markers
  /\ \A i \in Idents : Valid(i) \in Markers
  /\ \A i \in Registrars : Partial(i) \in Markers
  /\ ~IsPresent(Absent) /\ IsPresent(Junk) /\ ~IsValid(Absent) /\ ~IsValid(Junk)
  /\ \A i : /\ IsValid(Valid(i)) /\ Valid(i).by = i /\ IsPresent(Valid(i))
            /\ ~IsValid(Partial(i)) /\ IsPresent(Partial(i))
  /\ \A i, k : Valid(i) = Valid(k) => i = k
  /\ \A mk \in Markers : IsValid(mk) => mk.by \in Idents /\ mk = Valid(mk.by)
  /\ \A mk \in Markers : mk.by \in Idents
<1> USE KindFacts DEF Absent, Junk, Valid, Partial, IsPresent, IsValid
<1>1. /\ Absent \in Markers /\ Junk \in Markers
      /\ \A i \in Idents : Valid(i) \in Markers
      /\ \A i \in Registrars : Partial(i) \in Markers
  BY DEF Markers
<1>2. /\ ~IsPresent(Absent) /\ IsPresent(Junk) /\ ~IsValid(Absent) /\ ~IsValid(Junk)
      /\ \A i : /\ IsValid(Valid(i)) /\ Valid(i).by = i /\ IsPresent(Valid(i))
                /\ ~IsValid(Partial(i)) /\ IsPresent(Partial(i))
      /\ \A i, k : Valid(i) = Valid(k) => i = k
  OBVIOUS
<1>3. \A mk \in Markers : /\ IsValid(mk) => mk.by \in Idents /\ mk = Valid(mk.by)
                          /\ mk.by \in Idents
  BY DEF Markers
<1>4. QED
  BY ONLY <1>1, <1>2, <1>3

\* Steps that only move a session or end it.
Quiet(p) ==
  \/ InspectStops(p) \/ ObserveAbsent(p) \/ ObserveInvalid(p)
  \/ EnvelopeFails(p) \/ Decline(p)
  \/ Revalidate(p) \/ LockUnavailable(p)
  \/ CaptureFails(p) \/ CreateFails(p) \/ CreateCollides(p) \/ CollisionInvalid(p)
  \/ ReadBack(p) \/ ReadBackFails(p) \/ ProjectConflicts(p) \/ ProjectFails(p)
  \/ Recheck(p) \/ Compare(p) \/ RecheckFails(p) \/ VerifyAbsent(p) \/ VerifyFails(p)
  \/ DeleteFails(p) \/ ConfirmGone(p) \/ ConfirmFails(p) \/ Crash(p)

\* Steps that bind what was read.
Binding(p) ==
  \/ CaptureHandle(p) \/ ObserveValid(p) \/ BindEnvelope(p)
  \/ CaptureCreated(p) \/ LinkCollision(p)

LEMMA StepCases ==
  ASSUME NEW p \in Sessions, Step(p) \/ Crash(p)
  PROVE  \/ Quiet(p) \/ Binding(p)
         \/ MakeParent(p) \/ TakeLock(p) \/ Release(p)
         \/ CreateMarker(p) \/ FillMarker(p) \/ FillFails(p) \/ Project(p)
         \/ UnlinkMarker(p) \/ Forget(p) \/ DeleteInvalid(p)
BY DEF Step, Inspect, Lock, Register, Unregister, Resolve, Quiet, Binding

\* Where a session goes: an operation that returns frees the lock first.
Ends(p, outcome) ==
  /\ pc' = [pc EXCEPT ![p] = IF holder = p THEN "release" ELSE "done"]
  /\ result' = [result EXCEPT ![p] = outcome]

QuietMoves ==
  {<<"observe", "confirmed">>, <<"observe", "envelope">>, <<"confirmed", "lock">>,
   <<"create", "collide">>, <<"readback", "project">>, <<"recheck", "compare">>,
   <<"compare", "unlink">>, <<"verify", "forget">>}

QuietMove(p) ==
  \/ \E s \in PCs : /\ <<pc[p], s>> \in QuietMoves
                   /\ pc' = [pc EXCEPT ![p] = s] /\ UNCHANGED result
  \/ \E o \in Outcomes \ {"none", "registered", "linked-existing", "unregistered"} : Ends(p, o)
  \/ /\ pc' = [pc EXCEPT ![p] = "dead"]
     /\ result' = [result EXCEPT ![p] = IF result[p] = "none" THEN "crashed" ELSE result[p]]

LEMMA QuietShape ==
  ASSUME NEW p \in Sessions, TypeInv, Quiet(p)
  PROVE  /\ UNCHANGED <<disk, holder, rows, bindings, ghosts>>
         /\ QuietMove(p)
         /\ pc'[p] = "confirmed" => p \in Registrars
         /\ pc'[p] = "envelope" => p \in Resolvers
         /\ pc'[p] = "project" => marker = Valid(p) /\ parent = key[p]
         /\ pc'[p] = "unlink" => marker = content[p]
<1> USE DEF At, Goto, Conclude, Fails, QuietMove, Ends, PCs, Outcomes, QuietMoves, TypeInv, TypeOK
<1>1. CASE \/ InspectStops(p) \/ ObserveAbsent(p) \/ ObserveInvalid(p)
           \/ EnvelopeFails(p) \/ Decline(p)
  BY <1>1 DEF InspectStops, ObserveAbsent, ObserveInvalid, EnvelopeFails, Decline
<1>2. CASE Revalidate(p)
  BY <1>2 DEF Revalidate, RevalidateDraft, RevalidateRemoval, RevalidateResolution, RevalidationFails
<1>3. CASE \/ LockUnavailable(p) \/ CaptureFails(p) \/ CreateFails(p)
           \/ CreateCollides(p) \/ CollisionInvalid(p)
  BY <1>3 DEF LockUnavailable, CaptureFails, CreateFails, CreateCollides, CollisionInvalid
<1>4. CASE ReadBack(p) \/ ReadBackFails(p) \/ ProjectConflicts(p) \/ ProjectFails(p)
  BY <1>4 DEF ReadBack, ReadBackFails, ProjectConflicts, ProjectFails
<1>5. CASE \/ Recheck(p) \/ Compare(p) \/ RecheckFails(p) \/ VerifyAbsent(p) \/ VerifyFails(p)
           \/ DeleteFails(p) \/ ConfirmGone(p) \/ ConfirmFails(p)
  BY <1>5 DEF Recheck, Compare, RecheckFails, VerifyAbsent, VerifyFails, DeleteFails,
     ConfirmGone, ConfirmFails
<1>6. CASE Crash(p)
  BY <1>6 DEF Crash
<1>7. QED
  BY <1>1, <1>2, <1>3, <1>4, <1>5, <1>6 DEF Quiet

-----------------------------------------------------------------------------
(***************************************************************************)
(* Types.                                                                  *)
(***************************************************************************)
LEMMA InitType == Init => TypeInv
<1> SUFFICES ASSUME Init PROVE TypeInv
  OBVIOUS
<1> USE KindFacts, MarkerFacts DEF Init
<1>1. parents \in Handles /\ parent \in {ABSENT, parents}
  BY DEF Handles, ABSENT
<1>2. rows \subseteq Idents \X Handles
  BY <1>1 DEF ABSENT, Handles
<1>3. ABSENT \in Handles /\ outside \in 0 .. MaxOutside
  BY DEF Handles, ABSENT
<1>4. marker \in Markers /\ (parent = ABSENT => marker = Absent)
  BY DEF ABSENT
<1>5. TypeOK
  BY <1>1, <1>2, <1>3, <1>4 DEF TypeOK, PCs, Outcomes
<1>6. Kinds /\ Counted
  BY DEF Kinds, Counted, ABSENT
<1>7. QED
  BY <1>5, <1>6 DEF TypeInv

LEMMA QuietType ==
  ASSUME NEW p \in Sessions, TypeInv, Quiet(p)
  PROVE  TypeInv'
<1> USE DEF TypeInv, disk, bindings, ghosts
<1>0. /\ UNCHANGED <<disk, holder, rows, bindings, ghosts>>
      /\ QuietMove(p)
      /\ pc'[p] = "confirmed" => p \in Registrars
      /\ pc'[p] = "envelope" => p \in Resolvers
  BY QuietShape
<1>1. pc' \in [Sessions -> PCs] /\ result' \in [Sessions -> Outcomes]
  <2>1. pc' \in [Sessions -> PCs]
    BY <1>0 DEF TypeOK, QuietMove, Ends, PCs
  <2>2. "crashed" \in Outcomes
    BY DEF Outcomes
  <2>3. result' \in [Sessions -> Outcomes]
    BY <1>0, <2>2 DEF TypeOK, QuietMove, Ends
  <2>4. QED
    BY <2>1, <2>3
<1>2. TypeOK'
  BY <1>0, <1>1 DEF TypeOK
<1>3. Kinds'
  BY <1>0, KindFacts DEF TypeOK, Kinds, QuietMove, Ends, QuietMoves
<1>5. Counted'
  BY <1>0 DEF Counted
<1>6. QED
  BY <1>2, <1>3, <1>5

LEMMA BindingType ==
  ASSUME NEW p \in Sessions, TypeInv, Binding(p)
  PROVE  TypeInv'
<1> USE KindFacts DEF TypeInv, disk, ghosts, At, Goto, Conclude, Binding,
        CaptureHandle, ObserveValid, BindEnvelope, CaptureCreated, LinkCollision
<1>1. TypeOK'
  BY DEF TypeOK, PCs, Outcomes, Handles, ABSENT
<1>2. Kinds'
  BY DEF TypeOK, Kinds
<1>3. Counted'
  BY DEF Counted
<1>4. QED
  BY <1>1, <1>2, <1>3

LEMMA LockType ==
  ASSUME NEW p \in Sessions, TypeInv, MakeParent(p) \/ TakeLock(p) \/ Release(p)
  PROVE  TypeInv'
<1> USE KindFacts DEF TypeInv, disk, bindings, ghosts, At, Goto, MakeParent, TakeLock, Release
<1>1. parents' \in Handles /\ parent' \in {ABSENT, parents'} /\ Counted'
  BY DEF TypeOK, Handles, ABSENT, Counted
<1>2. TypeOK'
  BY <1>1 DEF TypeOK, PCs
<1>3. Kinds'
  BY DEF TypeOK, Kinds
<1>4. QED
  BY <1>1, <1>2, <1>3

LEMMA WriteType ==
  ASSUME NEW p \in Sessions, TypeInv,
         \/ CreateMarker(p) \/ FillMarker(p) \/ FillFails(p) \/ Project(p)
         \/ UnlinkMarker(p) \/ Forget(p) \/ DeleteInvalid(p)
  PROVE  TypeInv'
<1> USE KindFacts, MarkerFacts
    DEF TypeInv, disk, bindings, ghosts, At, Goto, Conclude, CreateMarker, FillMarker, FillFails,
        Filled, PublishFilled, Project, UnlinkMarker, Forget, DeleteInvalid
<1>1. /\ marker' \in Markers /\ (parent' = ABSENT => marker' = Absent)
      /\ published' \subseteq Idents /\ created' \subseteq Registrars
      /\ removed' \in [Sessions -> Markers]
  BY DEF TypeOK, Kinds
<1>2. rows' \subseteq Idents \X Handles
  BY DEF TypeOK, Kinds, Identity
<1>3. pc' \in [Sessions -> PCs] /\ result' \in [Sessions -> Outcomes]
  BY DEF TypeOK, PCs, Outcomes
<1>4. UNCHANGED <<parent, parents, holder, bindings, outside, dirty>>
  OBVIOUS
<1>5. TypeOK'
  BY <1>1, <1>2, <1>3, <1>4 DEF TypeOK
<1>6. Kinds'
  BY DEF TypeOK, Kinds
<1>7. Counted'
  BY <1>4 DEF Counted
<1>8. QED
  BY <1>5, <1>6, <1>7

LEMMA OutsideType == ASSUME TypeInv, EditMarker \/ RemoveParent PROVE TypeInv'
<1> USE KindFacts, MarkerFacts DEF TypeInv, Outside, EditMarker, RemoveParent, bindings
<1>1. parents' \in Handles /\ parent' \in {ABSENT, parents'} /\ Counted'
  BY DEF TypeOK, Handles, ABSENT, Counted
<1>2. /\ marker' \in Markers /\ (parent' = ABSENT => marker' = Absent)
      /\ published' \subseteq Idents
  BY DEF TypeOK
<1>3a. outside' \in 0 .. MaxOutside /\ holder' \in Sessions \cup {Nobody}
  BY DEF TypeOK
<1>3b. dirty' \in BOOLEAN
  BY Zenon
<1>3. outside' \in 0 .. MaxOutside /\ dirty' \in BOOLEAN /\ holder' \in Sessions \cup {Nobody}
  BY <1>3a, <1>3b
<1>4. UNCHANGED <<rows, pc, handle, key, content, result, created, removed>>
  OBVIOUS
<1>5. TypeOK'
  BY <1>1, <1>2, <1>3, <1>4 DEF TypeOK
<1>6. Kinds'
  BY <1>4 DEF Kinds
<1>7. QED
  BY <1>1, <1>5, <1>6

LEMMA NextType == TypeInv /\ [Next]_vars => TypeInv'
<1> SUFFICES ASSUME TypeInv, [Next]_vars PROVE TypeInv'
  OBVIOUS
<1>1. CASE EditMarker \/ RemoveParent
  BY <1>1, OutsideType
<1>2. ASSUME NEW p \in Sessions, Step(p) \/ Crash(p) PROVE TypeInv'
  BY <1>2, StepCases, QuietType, BindingType, LockType, WriteType
<1>3. CASE UNCHANGED vars
  BY <1>3 DEF vars, disk, bindings, ghosts, TypeInv, TypeOK, Kinds, Counted
<1>4. QED
  BY <1>1, <1>2, <1>3 DEF Next

\* The type invariant holds for any sessions and outside steps; that the
\* bound on directory identities does needs the count of outside steps.
THEOREM TypeCorrect == Spec => []TypeOK
<1>1. TypeInv => TypeOK
  BY DEF TypeInv
<1>2. QED
  BY <1>1, InitType, NextType, PTL DEF Spec

-----------------------------------------------------------------------------
(***************************************************************************)
(* What no session may do to a marker.                                     *)
(***************************************************************************)

\* However the sessions interleave, crash or lose the lock, the exclusive
\* create alone keeps a marker from being overwritten.
THEOREM CreatesOnly == Spec => CreateOnly
<1> DEFINE A == IsPresent(marker) /\ marker' # marker /\ outside' = outside =>
                  \/ marker' = Absent
                  \/ \E p \in Registrars : At(p, "fill") /\ marker = Partial(p)
                                                         /\ marker' = Valid(p)
<1>1. ASSUME TypeInv, [Next]_vars PROVE [A]_vars
  <2>1. ASSUME NEW p \in Sessions, Step(p) \/ Crash(p) PROVE A
    <3>1. CASE Quiet(p)
      BY <1>1, <3>1, QuietShape DEF disk
    <3>2. CASE Binding(p) \/ MakeParent(p) \/ TakeLock(p) \/ Release(p)
      BY <3>2 DEF Binding, CaptureHandle, ObserveValid, BindEnvelope, CaptureCreated,
         LinkCollision, MakeParent, TakeLock, Release, disk
    <3>3. CASE CreateMarker(p) \/ Project(p) \/ UnlinkMarker(p) \/ Forget(p) \/ DeleteInvalid(p)
      BY <3>3 DEF CreateMarker, Project, UnlinkMarker, Forget, DeleteInvalid, disk
    <3>4. CASE FillMarker(p) \/ FillFails(p)
      BY <1>1, <3>4 DEF FillMarker, FillFails, Filled, TypeInv, Kinds, At, ghosts
    <3>5. QED
      BY <2>1, <3>1, <3>2, <3>3, <3>4, StepCases
  <2>2. CASE EditMarker \/ RemoveParent
    BY <1>1, <2>2 DEF EditMarker, RemoveParent, Outside, TypeInv, TypeOK
  <2>3. QED
    BY <1>1, <2>1, <2>2 DEF Next
<1>2. QED
  BY <1>1, InitType, NextType, PTL DEF Spec, CreateOnly

-----------------------------------------------------------------------------
(***************************************************************************)
(* What the rows are worth: what is projected was published.               *)
(***************************************************************************)
Published ==
  /\ RowsWerePublished
  /\ IsValid(marker) => marker.by \in published
  /\ \A p \in Sessions : /\ pc[p] = "project" => p \in published
                         /\ pc[p] = "link" => content[p].by \in published

LEMMA StepPublished ==
  ASSUME NEW p \in Sessions, TypeInv, Published, Step(p) \/ Crash(p)
  PROVE  Published'
<1> USE MarkerFacts DEF Published
<1>1. CASE Quiet(p)
  <2>1. /\ UNCHANGED <<disk, holder, rows, bindings, ghosts>> /\ QuietMove(p)
        /\ pc'[p] = "project" => marker = Valid(p)
    BY <1>1, QuietShape
  <2>2. RowsWerePublished'
    BY <2>1 DEF RowsWerePublished, ghosts
  <2>3. QED
    BY <2>1, <2>2 DEF QuietMove, Ends, QuietMoves, TypeInv, TypeOK, disk, bindings, ghosts
<1>2. CASE Binding(p) \/ MakeParent(p) \/ TakeLock(p) \/ Release(p)
  <2> USE DEF Binding, CaptureHandle, ObserveValid, BindEnvelope, CaptureCreated, LinkCollision,
          MakeParent, TakeLock, Release, At, Goto, Conclude, disk, bindings, ghosts
  <2>1. UNCHANGED <<rows, published, marker>>
    BY <1>2
  <2>2. RowsWerePublished'
    BY <2>1 DEF RowsWerePublished
  <2>3. \A q \in Sessions : /\ pc'[q] = "project" => q \in published
                            /\ pc'[q] = "link" => content'[q].by \in published
    BY <1>2 DEF TypeInv, TypeOK
  <2>4. QED
    BY <2>1, <2>2, <2>3
<1>3. CASE Project(p)
  <2> USE DEF Project, At, Conclude, disk, bindings, ghosts
  <2>1. Identity(p) \in published
    <3>1. CASE pc[p] = "project"
      <4>1. Identity(p) = p
        BY <3>1 DEF Identity
      <4>2. p \in published
        BY <3>1
      <4>3. QED
        BY <4>1, <4>2
    <3>2. CASE pc[p] = "link"
      BY <3>2 DEF Identity
    <3>3. QED
      BY <1>3, <3>1, <3>2
  <2>2. /\ rows' = rows \cup {<<Identity(p), key[p]>>} /\ published' = published
        /\ \A row \in rows : row[1] = Identity(p) \/ row[2] # key[p]
        /\ \A row \in rows : row = <<row[1], row[2]>>
    BY <1>3 DEF Conflicts, TypeInv, TypeOK
  <2>3. RowsWerePublished'
    BY <2>1, <2>2 DEF RowsWerePublished
  <2>4. QED
    BY <1>3, <2>3 DEF TypeInv, TypeOK
<1>4. CASE CreateMarker(p) \/ FillMarker(p) \/ FillFails(p) \/ UnlinkMarker(p) \/ DeleteInvalid(p)
  <2> USE DEF CreateMarker, FillMarker, FillFails, Filled, PublishFilled, UnlinkMarker,
          DeleteInvalid, At, Goto, Conclude, disk, bindings, ghosts
  <2>1. rows' = rows /\ content' = content /\ published \subseteq published'
    BY <1>4
  <2>2. RowsWerePublished'
    BY <2>1 DEF RowsWerePublished
  <2>3. IsValid(marker') => marker'.by \in published'
    BY <1>4 DEF TypeInv, TypeOK
  <2>4. \A q \in Sessions : pc'[q] \in {"project", "link"} => pc'[q] = pc[q]
    BY <1>4 DEF TypeInv, TypeOK
  <2>5. QED
    BY <2>1, <2>2, <2>3, <2>4
<1>5. CASE Forget(p)
  <2> USE DEF Forget, At, Conclude, disk, bindings, ghosts
  <2>1. rows' \subseteq rows
    BY <1>5
  <2>2. RowsWerePublished'
    BY <1>5, <2>1 DEF RowsWerePublished
  <2>3. QED
    BY <1>5, <2>2 DEF TypeInv, TypeOK
<1>6. QED
  BY <1>1, <1>2, <1>3, <1>4, <1>5, StepCases

LEMMA NextPublished == TypeInv /\ Published /\ [Next]_vars => Published'
<1> SUFFICES ASSUME TypeInv, Published, [Next]_vars PROVE Published'
  OBVIOUS
<1>1. CASE EditMarker \/ RemoveParent
  <2>1. UNCHANGED <<rows, pc, content>> /\ published \subseteq published'
    BY <1>1 DEF EditMarker, RemoveParent, bindings
  <2>2. IsValid(marker') => marker'.by \in published'
    BY <1>1, MarkerFacts DEF EditMarker, RemoveParent
  <2>3. QED
    BY <2>1, <2>2 DEF Published, RowsWerePublished
<1>2. CASE UNCHANGED vars
  BY <1>2 DEF vars, disk, bindings, ghosts, Published, RowsWerePublished
<1>3. QED
  BY <1>1, <1>2, StepPublished DEF Next

\* Every row names a published identity and no two share a handle, whatever
\* becomes of the lock: a session reads a valid marker back before it projects
\* its own identity, and links only what it read.
THEOREM RowsPublished == Spec => []RowsWerePublished
<1>1. Init => Published
  BY MarkerFacts DEF Init, Published, RowsWerePublished, Valid
<1>2. Published => RowsWerePublished
  BY DEF Published
<1>3. QED
  BY <1>1, <1>2, InitType, NextType, NextPublished, PTL DEF Spec

-----------------------------------------------------------------------------
(***************************************************************************)
(* While the lock excludes: one session past it, and it is the holder.     *)
(***************************************************************************)
Locked == {"capture", "create", "collide", "fill", "readback", "project",
           "recheck", "compare", "unlink", "verify", "forget",
           "delete", "confirmGone", "release"}

Exclusive == ~dirty => \A p \in Sessions : pc[p] \in Locked => holder = p

\* Without a live holder no session is past the lock.
LEMMA NobodyLocked ==
  ASSUME Exclusive, ~dirty, ~LiveHolder, NEW p \in Sessions
  PROVE  pc[p] \notin Locked
BY KindFacts DEF Exclusive, LiveHolder, Ended, Locked

LEMMA StepExclusive ==
  ASSUME NEW p \in Sessions, TypeInv, Exclusive, Step(p) \/ Crash(p)
  PROVE  Exclusive'
<1> SUFFICES ASSUME ~dirty', NEW q \in Sessions, pc'[q] \in Locked
             PROVE  holder' = q
  BY DEF Exclusive
<1> USE DEF TypeInv, TypeOK
<1>1. CASE Quiet(p)
  <2>1. UNCHANGED <<holder, dirty>> /\ QuietMove(p)
    BY <1>1, QuietShape DEF ghosts
  <2>2. QED
    BY <2>1 DEF QuietMove, Ends, QuietMoves, Exclusive, Locked
<1>2. CASE TakeLock(p)
  <2>1. ~dirty /\ ~LiveHolder /\ holder' = p /\ \A r \in Sessions \ {p} : pc'[r] = pc[r]
    BY <1>2 DEF TakeLock, Goto
  <2>2. QED
    BY <2>1, NobodyLocked
<1>3. CASE Release(p)
  <2>1. dirty' = dirty /\ pc' = [pc EXCEPT ![p] = "done"]
    BY <1>3 DEF Release, Goto, ghosts
  <2>2. holder = q /\ q # p
    BY <2>1 DEF Exclusive, Locked
  <2>3. QED
    BY <1>3, <2>2 DEF Release
<1>4. CASE Binding(p) \/ MakeParent(p)
  BY <1>4 DEF Binding, CaptureHandle, ObserveValid, BindEnvelope, CaptureCreated,
     LinkCollision, MakeParent, At, Goto, Conclude, Locked, Exclusive, ghosts
<1>5. CASE \/ CreateMarker(p) \/ FillMarker(p) \/ FillFails(p) \/ Project(p)
           \/ UnlinkMarker(p) \/ Forget(p) \/ DeleteInvalid(p)
  <2>1. /\ UNCHANGED <<holder, dirty>>
        /\ \A r \in Sessions \ {p} : pc'[r] = pc[r]
        /\ pc[p] \in Locked \cup {"link"}
        /\ pc[p] = "link" /\ pc'[p] = "release" => holder = p
        /\ pc[p] = "link" => pc'[p] \in {"release", "done"}
    BY <1>5 DEF CreateMarker, FillMarker, FillFails, Project, UnlinkMarker, Forget,
       DeleteInvalid, At, Goto, Conclude, Locked, ghosts
  <2>2. QED
    BY <2>1 DEF Exclusive, Locked
<1>6. QED
  BY <1>1, <1>2, <1>3, <1>4, <1>5, StepCases

LEMMA NextExclusive == TypeInv /\ Exclusive /\ [Next]_vars => Exclusive'
<1> SUFFICES ASSUME TypeInv, Exclusive, [Next]_vars PROVE Exclusive'
  OBVIOUS
<1>1. CASE EditMarker
  BY <1>1 DEF EditMarker, Outside, Exclusive
<1>2. CASE RemoveParent
  <2>1. pc' = pc /\ (~dirty' => ~dirty /\ ~LiveHolder)
    BY <1>2 DEF RemoveParent, Outside
  <2>2. QED
    BY <2>1, NobodyLocked DEF Exclusive
<1>3. CASE UNCHANGED vars
  BY <1>3 DEF vars, ghosts, Exclusive
<1>4. QED
  BY <1>1, <1>2, <1>3, StepExclusive DEF Next

-----------------------------------------------------------------------------
(***************************************************************************)
(* What the holder knows of the disk, and what its reports are worth.      *)
(***************************************************************************)

\* Only a session past its unlink has removed anything.
RemovedLate ==
  \A p \in Sessions :
    removed[p] # Absent => pc[p] \in {"verify", "forget", "confirmGone", "release", "done", "dead"}

Known ==
  ~dirty => \A p \in Sessions :
    /\ pc[p] = "unlink" => marker = content[p]
    /\ pc[p] = "project" => marker = Valid(p) /\ parent = key[p]

Inv == /\ TypeInv /\ Published /\ Exclusive /\ RemovedLate /\ Known
       /\ DeletesOnlyConfirmed /\ RegisteredIsReal

\* A step of p that writes the disk, while the lock excludes, finds no other
\* session past the lock.
LEMMA WritesAlone ==
  ASSUME NEW p \in Sessions, TypeInv, Exclusive, ~dirty,
         NEW q \in Sessions, pc[p] \in Locked, pc[q] \in Locked
  PROVE  p = q
BY DEF Exclusive

LEMMA QuietInv ==
  ASSUME NEW p \in Sessions, Inv, Quiet(p)
  PROVE  RemovedLate' /\ Known' /\ DeletesOnlyConfirmed' /\ RegisteredIsReal'
<1> USE DEF Inv, TypeInv, TypeOK, disk, bindings, ghosts
<1>0. /\ UNCHANGED <<disk, holder, rows, bindings, ghosts>> /\ QuietMove(p)
      /\ pc'[p] = "project" => marker = Valid(p) /\ parent = key[p]
      /\ pc'[p] = "unlink" => marker = content[p]
  BY QuietShape
<1>1. RemovedLate'
  BY <1>0 DEF QuietMove, Ends, QuietMoves, RemovedLate
<1>2. Known'
  BY <1>0 DEF QuietMove, Ends, QuietMoves, Known
<1>3. DeletesOnlyConfirmed'
  BY <1>0 DEF DeletesOnlyConfirmed
<1>4. RegisteredIsReal'
  <2> SUFFICES ASSUME ~dirty', NEW q \in Registrars, pc'[q] = "release", result'[q] = "registered"
               PROVE  marker' = Valid(q) /\ <<q, parent'>> \in rows'
    BY DEF RegisteredIsReal, At
  <2>1. pc[q] = "release" /\ result[q] = "registered"
    BY <1>0, KindFacts DEF QuietMove, Ends, QuietMoves
  <2>2. QED
    BY <1>0, <2>1 DEF RegisteredIsReal, At
<1>5. QED
  BY <1>1, <1>2, <1>3, <1>4

LEMMA BindingInv ==
  ASSUME NEW p \in Sessions, Inv, Binding(p)
  PROVE  RemovedLate' /\ Known' /\ DeletesOnlyConfirmed' /\ RegisteredIsReal'
<1> USE KindFacts
    DEF Inv, TypeInv, TypeOK, disk, ghosts, At, Goto, Conclude, Binding, CaptureHandle,
        ObserveValid, BindEnvelope, CaptureCreated, LinkCollision
<1>0. UNCHANGED <<disk, holder, rows, removed, dirty>>
  OBVIOUS
<1>1. RemovedLate'
  BY DEF RemovedLate
<1>2. Known'
  BY DEF Known
<1>3. DeletesOnlyConfirmed'
  <2>1. content'[p] # content[p] => removed[p] = Absent
    BY DEF RemovedLate
  <2>2. \A q \in Sessions \ {p} : content'[q] = content[q]
    OBVIOUS
  <2>3. QED
    BY <1>0, <2>1, <2>2 DEF DeletesOnlyConfirmed
<1>4. RegisteredIsReal'
  BY DEF RegisteredIsReal
<1>5. QED
  BY <1>1, <1>2, <1>3, <1>4

LEMMA LockInv ==
  ASSUME NEW p \in Sessions, Inv, MakeParent(p) \/ TakeLock(p) \/ Release(p)
  PROVE  RemovedLate' /\ Known' /\ DeletesOnlyConfirmed' /\ RegisteredIsReal'
<1> USE KindFacts, MarkerFacts
    DEF Inv, TypeInv, TypeOK, disk, bindings, ghosts, At, Goto, MakeParent, TakeLock, Release
<1>1. RemovedLate'
  BY DEF RemovedLate
<1>2. UNCHANGED <<marker, rows, content, key, removed, result>> /\ (dirty => dirty')
  OBVIOUS
<1>3. parent' # parent => marker = Absent
  OBVIOUS
<1>4. \A q \in Sessions : /\ pc'[q] \in {"unlink", "project"} => pc'[q] = pc[q]
                          /\ pc'[q] = "release" => pc'[q] = pc[q]
  OBVIOUS
<1>5. \A q : Absent # Valid(q)
  OBVIOUS
<1>6. Known'
  BY <1>2, <1>3, <1>4, <1>5 DEF Known
<1>7. DeletesOnlyConfirmed'
  BY <1>2 DEF DeletesOnlyConfirmed
<1>8. RegisteredIsReal'
  <2> SUFFICES ASSUME ~dirty', NEW q \in Registrars, pc'[q] = "release", result'[q] = "registered"
               PROVE  marker' = Valid(q) /\ <<q, parent'>> \in rows'
    BY DEF RegisteredIsReal
  <2>1. marker = Valid(q) /\ <<q, parent>> \in rows
    BY <1>2, <1>4 DEF RegisteredIsReal
  <2>2. QED
    BY <1>2, <1>3, <1>5, <2>1
<1>9. QED
  BY <1>1, <1>6, <1>7, <1>8

LEMMA WriteInv ==
  ASSUME NEW p \in Sessions, Inv,
         \/ CreateMarker(p) \/ FillMarker(p) \/ FillFails(p) \/ Forget(p)
         \/ UnlinkMarker(p) \/ DeleteInvalid(p)
  PROVE  RemovedLate' /\ Known' /\ DeletesOnlyConfirmed' /\ RegisteredIsReal'
<1> USE KindFacts
    DEF Inv, TypeInv, TypeOK, bindings, ghosts, At, Goto, Conclude, CreateMarker,
        FillMarker, FillFails, Forget, UnlinkMarker, DeleteInvalid
<1>1. /\ pc[p] \in {"create", "fill", "forget", "unlink", "delete"}
      /\ pc'[p] \notin {"unlink", "project"} /\ pc'[p] # pc[p]
      /\ pc'[p] = "release" => result'[p] # "registered"
      /\ \A q \in Sessions \ {p} : /\ pc'[q] = pc[q] /\ result'[q] = result[q]
                                   /\ removed'[q] = removed[q]
      /\ UNCHANGED <<content, key, parent, dirty>>
  <2>1. CASE CreateMarker(p) \/ FillMarker(p) \/ FillFails(p)
    BY <2>1
  <2>2. CASE Forget(p) \/ UnlinkMarker(p) \/ DeleteInvalid(p)
    BY <2>2 DEF disk
  <2>3. QED
    BY <2>1, <2>2
<1>2. RemovedLate'
  BY <1>1 DEF RemovedLate
<1>3. \A q \in Sessions \ {p} : ~dirty => pc[q] \notin Locked
  BY <1>1, WritesAlone DEF Locked
<1>4. Known'
  BY <1>1, <1>3 DEF Known, Locked
<1>5. DeletesOnlyConfirmed'
  <2>1. ~dirty => removed'[p] \in {removed[p], Absent, content[p]} \/ p \notin Unregistrars
    BY DEF Known, Kinds, disk
  <2>2. QED
    BY <1>1, <2>1 DEF DeletesOnlyConfirmed
<1>6. RegisteredIsReal'
  BY <1>1, <1>3 DEF RegisteredIsReal, Locked
<1>7. QED
  BY <1>2, <1>4, <1>5, <1>6

LEMMA ProjectInv ==
  ASSUME NEW p \in Sessions, Inv, Project(p)
  PROVE  RemovedLate' /\ Known' /\ DeletesOnlyConfirmed' /\ RegisteredIsReal'
<1> USE KindFacts DEF Inv, TypeInv, TypeOK, disk, bindings, ghosts, At, Conclude, Project
<1>1. RemovedLate'
  BY DEF RemovedLate
<1>2. Known'
  BY DEF Known
<1>3. DeletesOnlyConfirmed'
  BY DEF DeletesOnlyConfirmed
<1>4. RegisteredIsReal'
  <2> SUFFICES ASSUME ~dirty', NEW q \in Registrars, pc'[q] = "release", result'[q] = "registered"
               PROVE  marker' = Valid(q) /\ <<q, parent'>> \in rows'
    BY DEF RegisteredIsReal
  <2>1. CASE q = p
    BY <2>1 DEF Known, Identity
  <2>2. CASE q # p
    BY <2>2 DEF RegisteredIsReal
  <2>3. QED
    BY <2>1, <2>2
<1>5. QED
  BY <1>1, <1>2, <1>3, <1>4

\* An outside program that writes under a held lock is seen by the ghost; under
\* a free lock no session relies on the disk.
LEMMA OutsideInv ==
  ASSUME Inv, EditMarker \/ RemoveParent
  PROVE  RemovedLate' /\ Known' /\ DeletesOnlyConfirmed' /\ RegisteredIsReal'
<1> USE DEF Inv, EditMarker, RemoveParent, Outside, bindings
<1>1. /\ UNCHANGED <<pc, removed, content, result>>
      /\ ~dirty' => ~dirty /\ ~LiveHolder
  OBVIOUS
<1>2. ~dirty' => \A p \in Sessions : pc[p] \notin Locked
  BY <1>1, NobodyLocked
<1>3. RemovedLate'
  BY <1>1 DEF RemovedLate
<1>4. Known'
  BY <1>1, <1>2 DEF Known, Locked
<1>5. DeletesOnlyConfirmed'
  BY <1>1 DEF DeletesOnlyConfirmed
<1>6. RegisteredIsReal'
  BY <1>1, <1>2, KindFacts DEF RegisteredIsReal, Locked, At
<1>7. QED
  BY <1>3, <1>4, <1>5, <1>6

LEMMA InitInv == Init => Inv
<1> SUFFICES ASSUME Init PROVE Inv
  OBVIOUS
<1>1. TypeInv
  BY InitType
<1>2. Published
  BY MarkerFacts DEF Init, Published, RowsWerePublished, Valid
<1>3. Exclusive /\ RemovedLate /\ Known /\ DeletesOnlyConfirmed /\ RegisteredIsReal
  BY KindFacts DEF Init, Exclusive, RemovedLate, Known, DeletesOnlyConfirmed,
     RegisteredIsReal, At, Locked
<1>4. QED
  BY <1>1, <1>2, <1>3 DEF Inv

LEMMA NextInv == Inv /\ [Next]_vars => Inv'
<1> SUFFICES ASSUME Inv, [Next]_vars PROVE Inv'
  OBVIOUS
<1>1. TypeInv' /\ Published' /\ Exclusive'
  BY NextType, NextPublished, NextExclusive DEF Inv
<1>2. RemovedLate' /\ Known' /\ DeletesOnlyConfirmed' /\ RegisteredIsReal'
  <2>1. ASSUME NEW p \in Sessions, Step(p) \/ Crash(p)
        PROVE  RemovedLate' /\ Known' /\ DeletesOnlyConfirmed' /\ RegisteredIsReal'
    BY <2>1, StepCases, QuietInv, BindingInv, LockInv, WriteInv, ProjectInv
  <2>2. CASE EditMarker \/ RemoveParent
    BY <2>2, OutsideInv
  <2>3. CASE UNCHANGED vars
    BY <2>3 DEF vars, disk, bindings, ghosts, Inv, RemovedLate, Known,
       DeletesOnlyConfirmed, RegisteredIsReal, At
  <2>4. QED
    BY <2>1, <2>2, <2>3 DEF Next
<1>3. QED
  BY <1>1, <1>2 DEF Inv

\* While the lock excludes, unregister removes the confirmed marker or nothing:
\* what it compared under the lock cannot change before its unlink.
THEOREM ConfirmedDeletes == Spec => []DeletesOnlyConfirmed
<1>1. Inv => DeletesOnlyConfirmed
  BY DEF Inv
<1>2. QED
  BY <1>1, InitInv, NextInv, PTL DEF Spec

\* While the lock excludes, registered is said of a complete marker in the
\* directory that the new row names, and stays true until the lock is given up.
THEOREM RegisteredReal == Spec => []RegisteredIsReal
<1>1. Inv => RegisteredIsReal
  BY DEF Inv
<1>2. QED
  BY <1>1, InitInv, NextInv, PTL DEF Spec

-----------------------------------------------------------------------------
(***************************************************************************)
(* The sessions together are the abstract registry.                        *)
(***************************************************************************)

\* What a session has bound, done and reported, by where it is.
History ==
  \A p \in Sessions :
    /\ pc[p] \notin {"release", "done", "dead"} => result[p] = "none"
    /\ pc[p] \in {"idle", "observe", "envelope"} => ~IsValid(content[p])
    /\ p \in Registrars /\ pc[p] \notin {"link", "release", "done", "dead"}
         => ~IsValid(content[p])
    /\ pc[p] = "link" => IsValid(content[p])
    /\ p \in Unregistrars /\ pc[p] \notin {"idle", "observe", "release", "done", "dead"}
         => IsValid(content[p])
    /\ p \in Registrars /\ pc[p] \notin {"readback", "project", "release", "done", "dead"}
         => p \notin published
    /\ p \notin Unregistrars \cup Resolvers => removed[p] = Absent
    /\ pc[p] \in {"verify", "forget"} => removed[p] # Absent

LEMMA InitHistory == Init => History
BY KindFacts, MarkerFacts DEF Init, History

LEMMA StepHistory ==
  ASSUME NEW p \in Sessions, TypeInv, History, Step(p) \/ Crash(p)
  PROVE  History'
<1> USE KindFacts DEF TypeInv, TypeOK, disk, bindings, ghosts
<1> SUFFICES ASSUME NEW q \in Sessions
    PROVE (/\ pc[q] \notin {"release", "done", "dead"} => result[q] = "none"
           /\ pc[q] \in {"idle", "observe", "envelope"} => ~IsValid(content[q])
           /\ q \in Registrars /\ pc[q] \notin {"link", "release", "done", "dead"}
                => ~IsValid(content[q])
           /\ pc[q] = "link" => IsValid(content[q])
           /\ q \in Unregistrars /\ pc[q] \notin {"idle", "observe", "release", "done", "dead"}
                => IsValid(content[q])
           /\ q \in Registrars /\ pc[q] \notin {"readback", "project", "release", "done", "dead"}
                => q \notin published
           /\ q \notin Unregistrars \cup Resolvers => removed[q] = Absent
           /\ pc[q] \in {"verify", "forget"} => removed[q] # Absent)'
  BY DEF History
<1>1. CASE Quiet(p)
  <2>1. /\ UNCHANGED <<disk, holder, rows, bindings, ghosts>> /\ QuietMove(p)
        /\ pc'[p] = "confirmed" => p \in Registrars
    BY <1>1, QuietShape
  <2>2. UNCHANGED <<content, removed, published>>
    BY <2>1
  <2>3. CASE q # p
    BY <2>1, <2>2, <2>3 DEF QuietMove, Ends, History
  <2>4. CASE q = p /\ pc'[p] \in {"release", "done", "dead"}
    BY <2>2, <2>4 DEF History
  <2>5. CASE q = p /\ <<pc[p], pc'[p]>> \in QuietMoves /\ result' = result
    <3>1. /\ pc[p] \notin {"link", "release", "done", "dead", "project", "forget"}
          /\ pc'[p] \notin {"idle", "observe", "link", "release", "done", "dead", "verify"}
          /\ pc'[p] = "envelope" => pc[p] = "observe"
          /\ pc'[p] = "project" => pc[p] = "readback"
          /\ pc[p] = "readback" => pc'[p] = "project"
          /\ pc'[p] = "forget" => pc[p] = "verify"
          /\ pc[p] \in {"idle", "observe"} => pc'[p] \in {"confirmed", "envelope"}
      BY <2>5 DEF QuietMoves
    <3>2. pc'[p] = "envelope" => p \in Resolvers
      BY <1>1, QuietShape
    <3>3. QED
      BY <2>1, <2>2, <2>5, <3>1, <3>2 DEF History
  <2>6. QED
    BY <2>1, <2>3, <2>4, <2>5 DEF QuietMove, Ends
<1>2. CASE Binding(p)
  BY <1>2, MarkerFacts DEF Kinds, Binding, CaptureHandle, ObserveValid, BindEnvelope, CaptureCreated,
     LinkCollision, At, Goto, Conclude, History
<1>3. CASE MakeParent(p) \/ TakeLock(p) \/ Release(p)
  BY <1>3 DEF MakeParent, TakeLock, Release, At, Goto, History
<1>4. CASE CreateMarker(p) \/ FillMarker(p) \/ FillFails(p)
  BY <1>4 DEF CreateMarker, FillMarker, FillFails, PublishFilled, At, Goto, Conclude, History, Kinds
<1>5. CASE Project(p) \/ Forget(p)
  BY <1>5 DEF Project, Forget, At, Conclude, History
<1>6. CASE UnlinkMarker(p) \/ DeleteInvalid(p)
  BY <1>6, MarkerFacts DEF UnlinkMarker, DeleteInvalid, At, Goto, History, Kinds, IsPresent
<1>7. QED
  BY <1>1, <1>2, <1>3, <1>4, <1>5, <1>6, StepCases

LEMMA NextHistory == TypeInv /\ Published /\ History /\ [Next]_vars => History'
<1> SUFFICES ASSUME TypeInv, Published, History, [Next]_vars PROVE History'
  OBVIOUS
<1>1. CASE EditMarker \/ RemoveParent
  <2>1. /\ UNCHANGED <<pc, content, result, removed>>
        /\ published' \subseteq published \cup {Stray}
    BY <1>1, MarkerFacts DEF EditMarker, RemoveParent, bindings
  <2>2. QED
    BY <2>1, KindFacts DEF History
<1>2. CASE UNCHANGED vars
  BY <1>2 DEF vars, disk, bindings, ghosts, History
<1>3. QED
  BY <1>1, <1>2, StepHistory DEF Next

\* What a session has done so far, read off the ghosts.
LEMMA EffectFacts ==
  ASSUME NEW p \in Sessions, TypeInv, History
  PROVE  /\ Effect[p] = "published" <=> p \in published
         /\ Effect[p] \in {"published", "retired", "nothing"}
         /\ p \in published => p \in Registrars
         /\ p \notin published => (Effect[p] = "retired" <=> IsValid(removed[p]))
         /\ p \in Registrars \cup Linkers => ~IsValid(removed[p])
         /\ Chosen[p] = NoIdent <=> ~IsValid(content[p])
<1>1. p \in published => p \in Registrars
  BY KindFacts DEF TypeInv, TypeOK
<1>2. p \in Registrars \cup Linkers => ~IsValid(removed[p])
  BY KindFacts, MarkerFacts DEF History
<1>3. Chosen[p] = NoIdent <=> ~IsValid(content[p])
  BY KindFacts, MarkerFacts DEF TypeInv, TypeOK, Chosen, IdentityIn
<1>4. QED
  BY <1>1, <1>2, <1>3 DEF Effect

\* Steps that change nothing the registry sees but what one session reports.
Reports(p) ==
  \/ UNCHANGED result
  \/ /\ result[p] = "none"
     /\ \E r \in Registry!Truthful(Effect[p], Chosen[p]) : result' = [result EXCEPT ![p] = r]

LEMMA ReportRefines ==
  ASSUME NEW p \in Sessions, TypeInv, Reports(p), UNCHANGED <<Effect, Chosen>>,
         IdentityIn(marker') = IdentityIn(marker)
  PROVE  [Registry!Next]_Registry!registryVars
BY DEF Reports, Registry!Next, Registry!Report, Registry!registryVars

LEMMA SameView ==
  UNCHANGED <<content, published, removed>> => UNCHANGED <<Effect, Chosen>>
BY DEF Effect, Chosen

\* What a session that has done nothing may say without having seen an identity.
Excuses == {"occupied-invalid", "changed-marker-stopped", "written-unverified", "stopped",
            "cancelled", "error", "crashed", "not-invalid", "invalid-marker-resolved",
            "invalid-deleted-unverified"}

LEMMA TruthfulFacts ==
  /\ \A saw : Excuses \subseteq Registry!Truthful("nothing", saw)
  /\ \A saw : saw # NoIdent =>
       {"linked-existing", "conflict"} \subseteq Registry!Truthful("nothing", saw)
  /\ \A saw : {"registered", "registered-unlinked", "conflict", "written-unverified",
               "error", "crashed"} \subseteq Registry!Truthful("published", saw)
  /\ \A saw : {"unregistered", "changed-marker-stopped", "crashed"}
                \subseteq Registry!Truthful("retired", saw)
BY DEF Registry!Truthful, Excuses

\* Where a session can have done nothing yet.
LEMMA NothingYet ==
  ASSUME NEW p \in Sessions, TypeInv, History, RemovedLate, ~Overtaken,
         pc[p] \in {"idle", "observe", "envelope", "confirmed", "lock", "capture", "create",
                    "collide", "fill", "link", "recheck", "compare", "unlink", "delete",
                    "confirmGone"}
  PROVE  Effect[p] = "nothing" /\ result[p] = "none"
<1>1. p \notin published
  BY EffectFacts DEF History
<1>2. ~IsValid(removed[p])
  BY MarkerFacts DEF RemovedLate, Overtaken, TypeInv, Kinds
<1>3. QED
  BY <1>1, <1>2, EffectFacts DEF History

LEMMA QuietReports ==
  ASSUME NEW p \in Sessions, Inv, History, ~Overtaken, Quiet(p)
  PROVE  Reports(p)
<1> USE EffectFacts, TruthfulFacts DEF Inv, At, Goto, Fails, Conclude
<1>1. CASE \/ InspectStops(p) \/ ObserveAbsent(p) \/ ObserveInvalid(p)
           \/ EnvelopeFails(p) \/ Decline(p) \/ Revalidate(p)
  <2>1. Effect[p] = "nothing" /\ result[p] = "none"
    BY <1>1, NothingYet DEF InspectStops, ObserveAbsent, ObserveInvalid, EnvelopeFails, Decline,
       Revalidate, RevalidateDraft, RevalidateRemoval, RevalidateResolution, RevalidationFails
  <2>2. UNCHANGED result \/ \E r \in Excuses : result' = [result EXCEPT ![p] = r]
    BY <1>1 DEF InspectStops, ObserveAbsent, ObserveInvalid, EnvelopeFails, Decline, Excuses,
       Revalidate, RevalidateDraft, RevalidateRemoval, RevalidateResolution, RevalidationFails
  <2>3. QED
    BY <2>1, <2>2 DEF Reports
<1>2. CASE \/ LockUnavailable(p) \/ CaptureFails(p) \/ CreateFails(p) \/ CreateCollides(p)
           \/ CollisionInvalid(p) \/ Recheck(p) \/ Compare(p) \/ RecheckFails(p)
           \/ DeleteFails(p) \/ ConfirmGone(p) \/ ConfirmFails(p)
  <2>1. Effect[p] = "nothing" /\ result[p] = "none"
    BY <1>2, NothingYet DEF LockUnavailable, CaptureFails, CreateFails, CreateCollides,
       CollisionInvalid, Recheck, Compare, RecheckFails, DeleteFails, ConfirmGone, ConfirmFails
  <2>2. UNCHANGED result \/ \E r \in Excuses : result' = [result EXCEPT ![p] = r]
    BY <1>2 DEF LockUnavailable, CaptureFails, CreateFails, CreateCollides, Excuses,
       CollisionInvalid, Recheck, Compare, RecheckFails, DeleteFails, ConfirmGone, ConfirmFails
  <2>3. QED
    BY <2>1, <2>2 DEF Reports
<1>3. CASE ReadBack(p) \/ VerifyAbsent(p)
  BY <1>3 DEF ReadBack, VerifyAbsent, Reports
<1>4. CASE ReadBackFails(p)
  <2>1. Effect[p] \in {"published", "nothing"} /\ result[p] = "none"
    BY <1>4 DEF ReadBackFails, TypeInv, Kinds, History
  <2>2. "written-unverified" \in Registry!Truthful(Effect[p], Chosen[p])
    BY <2>1 DEF Excuses
  <2>3. QED
    BY <1>4, <2>1, <2>2 DEF ReadBackFails, Reports
<1>5. CASE VerifyFails(p)
  <2>1. Effect[p] \in {"retired", "nothing"} /\ result[p] = "none"
    BY <1>5, KindFacts DEF VerifyFails, TypeInv, Kinds, History
  <2>2. "changed-marker-stopped" \in Registry!Truthful(Effect[p], Chosen[p])
    BY <2>1 DEF Excuses
  <2>3. QED
    BY <1>5, <2>1, <2>2 DEF VerifyFails, Reports
<1>6. CASE ProjectConflicts(p) \/ ProjectFails(p)
  <2>1. CASE pc[p] = "project"
    <3>1. Effect[p] = "published" /\ result[p] = "none"
      BY <2>1 DEF Published, History
    <3>2. QED
      BY <1>6, <2>1, <3>1 DEF ProjectConflicts, ProjectFails, Reports
  <2>2. CASE pc[p] = "link"
    <3>1. Effect[p] = "nothing" /\ result[p] = "none" /\ Chosen[p] # NoIdent
      BY <2>2, NothingYet DEF History
    <3>2. QED
      BY <1>6, <2>2, <3>1 DEF ProjectConflicts, ProjectFails, Reports, Excuses
  <2>3. QED
    BY <1>6, <2>1, <2>2 DEF ProjectConflicts, ProjectFails
<1>7. CASE Crash(p)
  <2>1. "crashed" \in Registry!Truthful(Effect[p], Chosen[p])
    BY DEF Excuses
  <2>2. CASE result[p] = "none"
    BY <1>7, <2>1, <2>2 DEF Crash, Reports
  <2>3. CASE result[p] # "none"
    BY <1>7, <2>3 DEF Crash, Reports, TypeInv, TypeOK
  <2>4. QED
    BY <2>2, <2>3
<1>8. QED
  BY <1>1, <1>2, <1>3, <1>4, <1>5, <1>6, <1>7 DEF Quiet

\* An identity is published in the step that completes the marker.
LEMMA FillRefines ==
  ASSUME NEW p \in Sessions, Inv, History, FillMarker(p) \/ FillFails(p)
  PROVE  [Registry!Next]_Registry!registryVars
<1> USE DEF Inv
<1>1. /\ p \in Registrars /\ p \notin published /\ ~IsValid(content[p]) /\ result[p] = "none"
      /\ Effect[p] = "nothing" /\ UNCHANGED <<content, removed>>
  BY EffectFacts, KindFacts
     DEF FillMarker, FillFails, At, TypeInv, Kinds, History, bindings
<1>2. /\ UNCHANGED Chosen
      /\ \/ UNCHANGED result
         \/ result' = [result EXCEPT ![p] = "stopped"] /\ UNCHANGED <<marker, published>>
         \/ result' = [result EXCEPT ![p] = "error"]
  BY <1>1 DEF FillMarker, FillFails, Goto, Conclude, Chosen
<1>3. CASE UNCHANGED <<marker, published>>
  <2>1. UNCHANGED Effect
    BY <1>1, <1>3 DEF Effect
  <2>2. Reports(p)
    BY <1>1, <1>2, TruthfulFacts DEF Reports, Excuses
  <2>3. QED
    BY <1>2, <1>3, <2>1, <2>2, ReportRefines
<1>4. CASE marker = Partial(p) /\ marker' = Valid(p) /\ published' = published \cup {p}
  <2>1. Effect' = [Effect EXCEPT ![p] = "published"]
    BY <1>1, <1>4 DEF Effect
  <2>2. IdentityIn(marker) = NoIdent /\ IdentityIn(marker') = p
    BY <1>4, MarkerFacts DEF IdentityIn
  <2>3. Effect'[p] = "published"
    BY <1>1, <2>1 DEF Effect
  <2>4. UNCHANGED result \/ \E r \in Registry!Truthful(Effect'[p], Chosen[p]) :
                              result' = [result EXCEPT ![p] = r]
    BY <1>1, <1>2, <1>4, <2>3, TruthfulFacts DEF FillMarker, FillFails, Goto, Conclude
  <2>5. Registry!Publish(p)
    BY <1>1, <1>2, <2>1, <2>2 DEF Registry!Publish
  <2>6. UNCHANGED result \/ Registry!Report(p)
    BY <1>1, <2>4 DEF Registry!Report
  <2>7. QED
    BY <2>5, <2>6 DEF Registry!Next
<1>5. QED
  BY <1>3, <1>4 DEF FillMarker, FillFails, Filled, PublishFilled, ghosts

\* An identity is chosen in the step that binds a valid marker.
LEMMA BindingRefines ==
  ASSUME NEW p \in Sessions, Inv, History, ~Overtaken, Binding(p)
  PROVE  [Registry!Next]_Registry!registryVars
<1> USE DEF Inv
<1>1. UNCHANGED <<marker, published, removed>>
  BY DEF Binding, CaptureHandle, ObserveValid, BindEnvelope, CaptureCreated, LinkCollision,
     disk, ghosts
<1>2. UNCHANGED Effect /\ UNCHANGED IdentityIn(marker)
  BY <1>1 DEF Effect, IdentityIn
<1>3. \/ UNCHANGED content
      \/ content' = [content EXCEPT ![p] = marker] /\ UNCHANGED result
  BY DEF Binding, CaptureHandle, ObserveValid, BindEnvelope, CaptureCreated, LinkCollision,
     Goto, Conclude
<1>4. (result[p] = "none" /\ ~IsValid(content[p])) \/ UNCHANGED content
  BY DEF Binding, CaptureHandle, ObserveValid, BindEnvelope, CaptureCreated, LinkCollision,
     At, Goto, Conclude, History, TypeInv, Kinds
<1>5. CASE UNCHANGED content
  <2>1. UNCHANGED Chosen
    BY <1>5 DEF Chosen
  <2>2. Reports(p)
    <3>1. UNCHANGED result \/ /\ Effect[p] = "nothing" /\ result[p] = "none"
                              /\ \E r \in Excuses : result' = [result EXCEPT ![p] = r]
      BY NothingYet DEF Binding, CaptureHandle, ObserveValid, BindEnvelope, CaptureCreated,
         LinkCollision, At, Goto, Conclude, Excuses
    <3>2. QED
      BY <3>1, TruthfulFacts DEF Reports
  <2>3. QED
    BY <1>2, <2>1, <2>2, ReportRefines
<1>6. CASE content' = [content EXCEPT ![p] = marker] /\ ~IsValid(marker) /\ UNCHANGED result
           /\ ~IsValid(content[p])
  <2>1. UNCHANGED Chosen
    BY <1>6 DEF Chosen, IdentityIn, TypeInv, TypeOK
  <2>2. QED
    BY <1>2, <1>6, <2>1, ReportRefines DEF Reports
<1>7. CASE content' = [content EXCEPT ![p] = marker] /\ IsValid(marker) /\ UNCHANGED result
           /\ ~IsValid(content[p]) /\ result[p] = "none"
  <2>1. Chosen' = [Chosen EXCEPT ![p] = IdentityIn(marker)] /\ Chosen[p] = NoIdent
    BY <1>7 DEF Chosen, IdentityIn, TypeInv, TypeOK
  <2>2. IdentityIn(marker) # NoIdent
    BY <1>7, MarkerFacts, KindFacts DEF IdentityIn, TypeInv, TypeOK
  <2>3. Registry!Choose(p)
    BY <1>2, <1>7, <2>1, <2>2 DEF Registry!Choose
  <2>4. QED
    BY <2>3 DEF Registry!Next
<1>8. QED
  BY <1>3, <1>4, <1>5, <1>6, <1>7

\* An identity is retired in the step that unlinks the marker it was bound to.
LEMMA UnlinkRefines ==
  ASSUME NEW p \in Sessions, Inv, History, ~dirty, ~Overtaken, UnlinkMarker(p)
  PROVE  [Registry!Next]_Registry!registryVars
<1> USE DEF Inv
<1>1. /\ p \in Unregistrars /\ marker = content[p] /\ IsValid(content[p])
      /\ marker' = Absent /\ removed' = [removed EXCEPT ![p] = marker]
      /\ UNCHANGED <<content, published, result>>
      /\ Effect[p] = "nothing" /\ result[p] = "none"
  BY NothingYet, KindFacts DEF UnlinkMarker, At, Goto, TypeInv, Kinds, Known, History, bindings
<1>2. UNCHANGED Chosen /\ Chosen[p] = IdentityIn(marker)
  BY <1>1 DEF Chosen
<1>3. Effect' = [Effect EXCEPT ![p] = "retired"]
  BY <1>1, EffectFacts DEF Effect, TypeInv, TypeOK
<1>4. IdentityIn(marker) # NoIdent /\ IdentityIn(marker') = NoIdent
  BY <1>1, MarkerFacts, KindFacts DEF IdentityIn, TypeInv, TypeOK
<1>5. Registry!Retire(p)
  BY <1>1, <1>2, <1>3, <1>4 DEF Registry!Retire
<1>6. QED
  BY <1>1, <1>5 DEF Registry!Next

\* Steps of the lock, the exclusive create and an overtaken deletion of what is
\* not valid are not seen.
LEMMA HiddenRefines ==
  ASSUME NEW p \in Sessions, Inv, History, ~Overtaken',
         \/ MakeParent(p) \/ TakeLock(p) \/ Release(p) \/ CreateMarker(p) \/ DeleteInvalid(p)
  PROVE  [Registry!Next]_Registry!registryVars
<1> USE DEF Inv
<1>1. UNCHANGED <<content, published, result>>
  BY DEF MakeParent, TakeLock, Release, CreateMarker, DeleteInvalid, Goto, bindings, ghosts
<1>2. IdentityIn(marker') = IdentityIn(marker) /\ Effect' = Effect
  <2>1. CASE MakeParent(p) \/ TakeLock(p) \/ Release(p)
    BY <2>1 DEF MakeParent, TakeLock, Release, disk, ghosts, IdentityIn, Effect
  <2>2. CASE CreateMarker(p)
    BY <2>2, MarkerFacts DEF CreateMarker, IdentityIn, Effect, IsPresent
  <2>3. CASE DeleteInvalid(p)
    <3>1. /\ p \in Resolvers /\ removed' = [removed EXCEPT ![p] = marker]
          /\ marker' = Absent /\ removed[p] = Absent
      BY <2>3 DEF DeleteInvalid, At, TypeInv, Kinds, RemovedLate
    <3>2. ~IsValid(marker)
      BY <3>1, KindFacts DEF Overtaken, TypeInv, TypeOK
    <3>3. QED
      BY <1>1, <3>1, <3>2, MarkerFacts DEF IdentityIn, Effect, TypeInv, TypeOK
  <2>4. QED
    BY <2>1, <2>2, <2>3
<1>3. QED
  BY <1>1, <1>2, ReportRefines DEF Reports, Chosen

\* A projection and its removal only report.
LEMMA ProjectRefines ==
  ASSUME NEW p \in Sessions, Inv, History, ~dirty, ~Overtaken, Project(p) \/ Forget(p)
  PROVE  [Registry!Next]_Registry!registryVars
<1> USE EffectFacts, TruthfulFacts DEF Inv
<1>1. UNCHANGED <<marker, content, published, removed>>
  BY DEF Project, Forget, disk, bindings, ghosts
<1>2. Reports(p)
  <2>1. CASE Project(p) /\ pc[p] = "project"
    <3>1. Effect[p] = "published" /\ result[p] = "none"
      BY <2>1 DEF Published, History
    <3>2. QED
      BY <2>1, <3>1 DEF Project, At, Conclude, Reports
  <2>2. CASE Project(p) /\ pc[p] = "link"
    <3>1. Effect[p] = "nothing" /\ result[p] = "none" /\ Chosen[p] # NoIdent
      BY <2>2, NothingYet DEF History
    <3>2. QED
      BY <2>2, <3>1 DEF Project, At, Conclude, Reports
  <2>3. CASE Forget(p)
    <3>1. p \in Unregistrars /\ removed[p] = content[p] /\ IsValid(content[p]) /\ result[p] = "none"
      BY <2>3, KindFacts DEF Forget, At, TypeInv, Kinds, History, DeletesOnlyConfirmed
    <3>2. Effect[p] = "retired"
      BY <3>1, KindFacts
    <3>3. QED
      BY <2>3, <3>1, <3>2 DEF Forget, Conclude, Reports
  <2>4. QED
    BY <2>1, <2>2, <2>3 DEF Project
<1>3. QED
  BY <1>1, <1>2, SameView, ReportRefines

LEMMA NextRefines ==
  ASSUME Inv, History, [Next]_vars
  PROVE  dirty' \/ Overtaken' \/ outside' # outside \/ [Registry!Next]_Registry!registryVars
<1> SUFFICES ASSUME ~dirty', ~Overtaken', outside' = outside
             PROVE  [Registry!Next]_Registry!registryVars
  OBVIOUS
<1>1. CASE UNCHANGED vars
  BY <1>1 DEF vars, disk, bindings, ghosts, Effect, Chosen, IdentityIn, Registry!registryVars
<1>2. CASE EditMarker \/ RemoveParent
  BY <1>2 DEF EditMarker, RemoveParent, Outside, Inv, TypeInv, TypeOK
<1>3. ASSUME NEW p \in Sessions, Step(p) \/ Crash(p)
      PROVE  [Registry!Next]_Registry!registryVars
  <2>1. ~dirty
    <3>1. CASE Quiet(p)
      BY <3>1, QuietShape DEF Inv, ghosts
    <3>2. QED
      BY <1>3, <3>1, StepCases DEF Binding, CaptureHandle, ObserveValid, BindEnvelope,
         CaptureCreated, LinkCollision, MakeParent, TakeLock, Release, CreateMarker, FillMarker,
         FillFails, Project, UnlinkMarker, Forget, DeleteInvalid, ghosts
  <2>2. ~Overtaken
    <3>1. CASE UnlinkMarker(p) \/ DeleteInvalid(p)
      BY <3>1, KindFacts, MarkerFacts DEF UnlinkMarker, DeleteInvalid, At, Overtaken, Inv, TypeInv,
         TypeOK, Kinds, RemovedLate
    <3>2. CASE Quiet(p)
      BY <3>2, QuietShape DEF Inv, ghosts, Overtaken
    <3>3. QED
      BY <1>3, <3>1, <3>2, StepCases DEF Binding, CaptureHandle, ObserveValid, BindEnvelope,
         CaptureCreated, LinkCollision, MakeParent, TakeLock, Release, CreateMarker, FillMarker,
         FillFails, Project, Forget, ghosts, Overtaken
  <2>3. CASE Quiet(p)
    <3>1. UNCHANGED <<marker, content, published, removed>>
      BY <2>3, QuietShape DEF Inv, disk, bindings, ghosts
    <3>2. QED
      BY <2>2, <2>3, <3>1, QuietReports, SameView, ReportRefines DEF Inv
  <2>4. QED
    BY <1>3, <2>1, <2>2, <2>3, StepCases, FillRefines, BindingRefines, UnlinkRefines,
       HiddenRefines, ProjectRefines
<1>4. QED
  BY <1>1, <1>2, <1>3 DEF Next

LEMMA InitRefines == Init => Registry!Init
BY KindFacts, MarkerFacts
   DEF Init, Registry!Init, IdentityIn, Effect, Chosen

\* Until the lock fails to exclude, a program outside the protocol acts, or an
\* overtaken resolve-invalid deletes a valid marker, the sessions, however many,
\* are the abstract registry: identities are published and retired one at a
\* time, each by a session that may, and every report is true.
THEOREM ImplementsRegistry == Spec => RegistryUntilDirty
<1>1. Inv /\ History /\ [Next]_vars =>
        [dirty' \/ Overtaken' \/ outside' # outside \/ [Registry!Next]_Registry!registryVars]_vars
  BY NextRefines
<1>2. Inv /\ History /\ [Next]_vars => Inv' /\ History'
  BY NextInv, NextHistory DEF Inv
<1>3. QED
  BY <1>1, <1>2, InitInv, InitHistory, InitRefines, PTL DEF Spec, RegistryUntilDirty
=============================================================================
