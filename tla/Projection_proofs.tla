--------------------------- MODULE Projection_proofs ---------------------------
(***************************************************************************)
(* Theorems about Projection for any workspaces, paths, sessions and roots *)
(* and any changes of markers and paths: what a transaction may do to the  *)
(* table, and what its rows say.                                           *)
(***************************************************************************)
EXTENDS Projection, TLAPS

\* The types that are kept, with the domains that EXCEPT relies on.
Types ==
  /\ marker \in [Targets -> Idents \cup {None}]
  /\ leads \in [Paths -> Targets \cup {None}]
  /\ table \in SUBSET Rows
  /\ pc \in [Sessions -> PCs]
  /\ aim \in [Sessions -> [path : Paths \cup {None}, target : Targets \cup {None}]]
  /\ bound \in [Sessions -> SUBSET Rows]
  /\ next \in [Rebuilders -> Nat]
  /\ entries \in [Rebuilders -> SUBSET Rows]
  /\ result \in [Sessions -> Outcomes]
  /\ was \in SUBSET (Idents \X Targets)
  /\ world \in 0 .. MaxWorld
  /\ moved \in BOOLEAN

\* A session that reads has a path to read at, a rebuilder that of its root.
Aimed ==
  \A p \in Sessions : pc[p] = "read" =>
    /\ aim[p].path \in Paths /\ aim[p].target \in Targets
    /\ p \in Rebuilders => next[p] <= Len(Roots[p]) /\ aim[p].path = Roots[p][next[p]]

Counting == \A p \in Rebuilders : next[p] \in 1 .. Len(Roots[p]) + 1

TypeInv == Types /\ Aimed /\ Counting

-----------------------------------------------------------------------------
LEMMA SessionFacts ==
  /\ Linkers \cap (Forgetters \cup Rebuilders) = {}
  /\ Forgetters \cap Rebuilders = {}
  /\ Linkers \subseteq Sessions /\ Forgetters \subseteq Sessions /\ Rebuilders \subseteq Sessions
  /\ \A p \in Sessions : p \in Linkers \cup Forgetters \cup Rebuilders
  /\ None \notin Targets /\ None \notin Idents
  /\ \A p \in Rebuilders : Roots[p] \in Seq(Paths) /\ Len(Roots[p]) \in Nat
  /\ \A p \in Rebuilders : \A k \in 1 .. Len(Roots[p]) : Roots[p][k] \in Paths
BY ProjectionAssumption DEF Sessions

\* What a session puts together from a valid marker is a row.
LEMMA RowIsRow ==
  ASSUME NEW p \in Sessions, NEW n \in Nat, Types, Aimed, pc[p] = "read",
         MarkerAt(aim[p].path) # None
  PROVE  /\ RowOf(p, n) \in Rows
         /\ MarkerAt(aim[p].path) = marker[leads[aim[p].path]]
         /\ leads[aim[p].path] \in Targets
<1>1. aim[p].path \in Paths /\ aim[p].target \in Targets
  BY DEF Aimed
<1>2. leads[aim[p].path] \in Targets /\ MarkerAt(aim[p].path) \in Idents
  BY <1>1 DEF MarkerAt, Types
<1>3. QED
  BY <1>1, <1>2 DEF RowOf, Rows, MarkerAt

\* Steps that end a session, or leave it where the table is not concerned.
Stop(p) ==
  \/ InspectStops(p) \/ UpdateConflicts(p) \/ DeleteStops(p)
  \/ RootFails(p) \/ ReplaceConflicts(p) \/ ListFails(p)

Aim(p) == Inspect(p) \/ CaptureRoot(p)

Write(p) == Update(p) \/ UpdateFails(p) \/ Remove(p) \/ RemoveFails(p)
              \/ Replace(p) \/ ReplaceFails(p)

LEMMA NextCases ==
  ASSUME Next
  PROVE  \/ \E p \in Sessions : \/ Stop(p) \/ Aim(p) \/ Write(p) \/ Bind(p) \/ ReadRoot(p)
                                \/ SkipAlias(p) \/ DeleteMarker(p) \/ List(p)
         \/ \E t \in Targets, i \in Idents \cup {None} : WriteMarker(t, i)
         \/ \E path \in Paths, t \in Targets \cup {None} : MovePath(path, t)
BY DEF Next, Look, Link, Forget, Rebuild, Stop, Aim, Write

LEMMA StopShape ==
  ASSUME NEW p \in Sessions, Types, Stop(p)
  PROVE  /\ UNCHANGED <<marker, leads, table, aim, bound, next, entries, outer>>
         /\ \E o \in Outcomes : result' = [result EXCEPT ![p] = o]
         /\ pc' = [pc EXCEPT ![p] = "done"]
BY DEF Stop, InspectStops, ReadFails, UpdateConflicts, DeleteStops, RootFails,
   ReplaceConflicts, ListFails, Conclude, Goto, Outcomes

-----------------------------------------------------------------------------
(***************************************************************************)
(* Types.                                                                  *)
(***************************************************************************)
LEMMA InitType == Init => TypeInv
<1> SUFFICES ASSUME Init PROVE TypeInv
  OBVIOUS
<1>1. was \in SUBSET (Idents \X Targets) /\ world \in 0 .. MaxWorld
  BY ProjectionAssumption DEF Init
<1>2. Types
  BY <1>1 DEF Init, Types, PCs, Outcomes
<1>3. Aimed /\ Counting
  BY SessionFacts DEF Init, Aimed, Counting
<1>4. QED
  BY <1>2, <1>3 DEF TypeInv

\* The new table of a transaction is made of rows.
LEMMA WriteTable ==
  ASSUME NEW p \in Sessions, Types, Write(p)
  PROVE  table' \in SUBSET Rows
<1>1. \A r \in bound[p] : r \in Rows
  BY DEF Types
<1>2. \A r \in bound[p] : Upsert(table, r) \in SUBSET Rows
  BY <1>1 DEF Upsert, Types
<1>3. Replaced(p) \in SUBSET Rows
  BY <1>1 DEF Replaced, Upserted, Types
<1>4. QED
  BY <1>2, <1>3 DEF Types, Write, Update, UpdateFails, Remove, RemoveFails, Replace, ReplaceFails

LEMMA StepType ==
  ASSUME NEW p \in Sessions, TypeInv,
         \/ Stop(p) \/ Aim(p) \/ Write(p) \/ Bind(p) \/ ReadRoot(p)
         \/ SkipAlias(p) \/ DeleteMarker(p) \/ List(p)
  PROVE  TypeInv'
<1> USE SessionFacts DEF TypeInv, outer, At, Goto, Conclude
<1>1. CASE Stop(p)
  <2>0. pc' \in [Sessions -> PCs] /\ result' \in [Sessions -> Outcomes]
    <3>1. /\ pc' = [pc EXCEPT ![p] = "done"]
          /\ \E o \in Outcomes : result' = [result EXCEPT ![p] = o]
      BY <1>1, StopShape
    <3>2. pc' \in [Sessions -> PCs]
      BY <3>1 DEF Types, PCs
    <3>3. QED
      BY <3>1, <3>2 DEF Types
  <2>1. Types'
    BY <1>1, <2>0, StopShape DEF Types
  <2>2. Aimed' /\ Counting'
    BY <1>1, StopShape DEF Types, Aimed, Counting
  <2>3. QED
    BY <2>1, <2>2
<1>2. CASE Aim(p)
  <2>1. PICK path \in Paths :
          /\ leads[path] \in Targets
          /\ aim' = [aim EXCEPT ![p] = [path |-> path, target |-> leads[path]]]
          /\ pc' = [pc EXCEPT ![p] = "read"]
          /\ UNCHANGED <<marker, leads, table, bound, next, result, entries, outer>>
          /\ p \in Rebuilders => next[p] <= Len(Roots[p]) /\ path = Roots[p][next[p]]
    BY <1>2 DEF Aim, Inspect, CaptureRoot, Capture, AllRead, Root, Types, Counting
  <2>2. Types'
    BY <2>1 DEF Types, PCs
  <2>3. Aimed' /\ Counting'
    BY <2>1 DEF Types, Aimed, Counting
  <2>4. QED
    BY <2>2, <2>3
<1>3. CASE Write(p)
  <2>1. /\ UNCHANGED <<marker, leads, aim, bound, next, entries, outer>>
        /\ pc' \in {[pc EXCEPT ![p] = "done"], [pc EXCEPT ![p] = "list"]}
        /\ result' \in [Sessions -> Outcomes]
    BY <1>3 DEF Write, Update, UpdateFails, Remove, RemoveFails, Replace, ReplaceFails, Types, Outcomes
  <2>0. pc' \in [Sessions -> PCs] /\ table' \in SUBSET Rows
    BY <1>3, <2>1, WriteTable DEF Types, PCs
  <2>2. Types'
    BY <2>0, <2>1 DEF Types
  <2>3. Aimed' /\ Counting'
    BY <2>1 DEF Types, Aimed, Counting
  <2>4. QED
    BY <2>2, <2>3
<1>4. CASE Bind(p)
  <2>1. /\ bound' = [bound EXCEPT ![p] = {RowOf(p, 0)}] /\ RowOf(p, 0) \in Rows
        /\ pc' \in {[pc EXCEPT ![p] = "write"], [pc EXCEPT ![p] = "delete"]}
        /\ UNCHANGED <<marker, leads, table, aim, next, result, entries, outer>>
    BY <1>4, RowIsRow DEF Bind
  <2>2. Types'
    BY <2>1 DEF Types, PCs
  <2>3. Aimed' /\ Counting'
    BY <2>1 DEF Types, Aimed, Counting
  <2>4. QED
    BY <2>2, <2>3
<1>5. CASE ReadRoot(p) \/ SkipAlias(p)
  <2>1. /\ p \in Rebuilders /\ pc[p] = "read" /\ next[p] \in 1 .. Len(Roots[p])
        /\ next' = [next EXCEPT ![p] = next[p] + 1] /\ pc' = [pc EXCEPT ![p] = "capture"]
        /\ UNCHANGED <<marker, leads, table, aim, result, entries, outer>>
    BY <1>5 DEF ReadRoot, SkipAlias, Advance, Aimed, Counting, Types
  <2>2. bound' \in [Sessions -> SUBSET Rows]
    <3>1. CASE SkipAlias(p)
      BY <3>1 DEF SkipAlias, Types
    <3>2. CASE ReadRoot(p)
      <4>1. RowOf(p, next[p]) \in Rows
        BY <2>1, <3>2, RowIsRow DEF ReadRoot
      <4>2. bound' = [bound EXCEPT ![p] = bound[p] \cup {RowOf(p, next[p])}]
        BY <3>2 DEF ReadRoot
      <4>3. QED
        BY <4>1, <4>2 DEF Types
    <3>3. QED
      BY <1>5, <3>1, <3>2
  <2>6. pc' \in [Sessions -> PCs] /\ next' \in [Rebuilders -> Nat]
    BY <2>1 DEF Types, PCs
  <2>3. Types'
    BY <2>1, <2>2, <2>6 DEF Types
  <2>4. Aimed' /\ Counting'
    BY <2>1 DEF Types, Aimed, Counting
  <2>5. QED
    BY <2>3, <2>4
<1>6. CASE DeleteMarker(p) \/ List(p)
  <2>1. Types'
    BY <1>6 DEF DeleteMarker, List, Types, PCs, Outcomes
  <2>2. Aimed' /\ Counting'
    BY <1>6 DEF DeleteMarker, List, Types, Aimed, Counting
  <2>3. QED
    BY <2>1, <2>2
<1>7. QED
  BY <1>1, <1>2, <1>3, <1>4, <1>5, <1>6

LEMMA WorldType ==
  ASSUME TypeInv,
         \/ \E t \in Targets, i \in Idents \cup {None} : WriteMarker(t, i)
         \/ \E path \in Paths, t \in Targets \cup {None} : MovePath(path, t)
  PROVE  TypeInv'
<1> USE DEF TypeInv, WriteMarker, MovePath, session
<1>1. world' \in 0 .. MaxWorld
  BY ProjectionAssumption DEF Types
<1>2. Types'
  BY <1>1 DEF Types
<1>3. Aimed' /\ Counting'
  BY DEF Aimed, Counting
<1>4. QED
  BY <1>2, <1>3

LEMMA NextType == TypeInv /\ [Next]_vars => TypeInv'
<1> SUFFICES ASSUME TypeInv, [Next]_vars PROVE TypeInv'
  OBVIOUS
<1>1. CASE UNCHANGED vars
  BY <1>1 DEF vars, session, outer, TypeInv, Types, Aimed, Counting
<1>2. CASE Next
  BY <1>2, NextCases, StepType, WorldType
<1>3. QED
  BY <1>1, <1>2

\* Whatever markers and paths do, the table and what sessions bind are rows,
\* and no rebuild reads past its last root.
THEOREM TypeCorrect == Spec => []TypeOK
<1>1. TypeInv => TypeOK
  BY DEF TypeInv, Types, Counting, TypeOK
<1>2. QED
  BY <1>1, InitType, NextType, PTL DEF Spec

-----------------------------------------------------------------------------
(***************************************************************************)
(* The table.                                                              *)
(***************************************************************************)

\* A rebuild binds each target once.
BoundOnce == \A p \in Sessions : \A r, s \in bound[p] : r.target = s.target => r = s

\* A transaction is an upsert, a removal, or a replacement without a clash.
Transacts(p) ==
  \/ \E r \in bound[p] : ~Clashes(r, table) /\ table' = Upsert(table, r)
  \/ \E r \in bound[p] : table' = {s \in table : ~SameKey(s, r)}
  \/ (\A r \in bound[p] : ~Clashes(r, table)) /\ table' = Replaced(p)

\* Without a clash a replacement leaves the rows of the rebuild and no other.
LEMMA ReplacedIsBound ==
  ASSUME NEW p, \A r \in bound[p] : ~Clashes(r, table)
  PROVE  Replaced(p) = bound[p]
BY DEF Replaced, Upserted, Clashes, SameKey

\* Only a transaction changes the table.
LEMMA TableSteps ==
  ASSUME [Next]_vars, Types
  PROVE  UNCHANGED table \/ \E p \in Sessions : (Write(p) /\ Transacts(p))
<1>1. CASE UNCHANGED vars
  BY <1>1 DEF vars
<1>2. ASSUME NEW p \in Sessions,
             \/ Stop(p) \/ Aim(p) \/ Write(p) \/ Bind(p) \/ ReadRoot(p)
             \/ SkipAlias(p) \/ DeleteMarker(p) \/ List(p)
      PROVE  UNCHANGED table \/ (Write(p) /\ Transacts(p))
  <2>1. CASE Stop(p)
    BY <2>1, StopShape
  <2>2. CASE Aim(p) \/ Bind(p) \/ ReadRoot(p) \/ SkipAlias(p) \/ DeleteMarker(p) \/ List(p)
    BY <2>2 DEF Aim, Inspect, CaptureRoot, Capture, Bind, ReadRoot, SkipAlias, DeleteMarker, List
  <2>3. CASE Write(p)
    BY <2>3 DEF Write, Update, UpdateFails, Remove, RemoveFails, Replace, ReplaceFails, Transacts
  <2>4. QED
    BY <1>2, <2>1, <2>2, <2>3
<1>3. CASE \/ \E t \in Targets, i \in Idents \cup {None} : WriteMarker(t, i)
           \/ \E path \in Paths, t \in Targets \cup {None} : MovePath(path, t)
  BY <1>3 DEF WriteMarker, MovePath
<1>4. QED
  BY <1>1, <1>2, <1>3, NextCases

LEMMA NextBoundOnce == TypeInv /\ BoundOnce /\ [Next]_vars => BoundOnce'
<1> SUFFICES ASSUME TypeInv, BoundOnce, [Next]_vars PROVE BoundOnce'
  OBVIOUS
<1> USE DEF TypeInv
<1>1. CASE UNCHANGED bound
  BY <1>1 DEF BoundOnce
<1>2. ASSUME NEW p \in Sessions,
             \/ Stop(p) \/ Aim(p) \/ Write(p) \/ Bind(p) \/ ReadRoot(p)
             \/ SkipAlias(p) \/ DeleteMarker(p) \/ List(p)
      PROVE  BoundOnce'
  <2>1. CASE Bind(p)
    BY <2>1 DEF Bind, Types, BoundOnce
  <2>2. CASE ReadRoot(p)
    <3>1. /\ bound' = [bound EXCEPT ![p] = bound[p] \cup {RowOf(p, next[p])}]
          /\ \A r \in bound[p] : r.target # aim[p].target
          /\ RowOf(p, next[p]).target = aim[p].target
      BY <2>2 DEF ReadRoot, IsAlias, RowOf
    <3>2. QED
      BY <3>1 DEF Types, BoundOnce
  <2>3. CASE Stop(p)
    BY <1>1, <2>3, StopShape
  <2>4. CASE Aim(p) \/ Write(p) \/ SkipAlias(p) \/ DeleteMarker(p) \/ List(p)
    BY <1>1, <2>4 DEF Aim, Inspect, CaptureRoot, Capture, SkipAlias, DeleteMarker, List,
       Write, Update, UpdateFails, Remove, RemoveFails, Replace, ReplaceFails
  <2>5. QED
    BY <1>2, <2>1, <2>2, <2>3, <2>4
<1>3. CASE \/ \E t \in Targets, i \in Idents \cup {None} : WriteMarker(t, i)
           \/ \E path \in Paths, t \in Targets \cup {None} : MovePath(path, t)
  BY <1>1, <1>3 DEF WriteMarker, MovePath, session
<1>4. QED
  BY <1>1, <1>2, <1>3, NextCases DEF vars, session

LEMMA NextOneRow == TypeInv /\ BoundOnce /\ OneRowPerTarget /\ [Next]_vars => OneRowPerTarget'
<1> SUFFICES ASSUME TypeInv, BoundOnce, OneRowPerTarget, [Next]_vars,
                    NEW p \in Sessions, Transacts(p)
             PROVE  OneRowPerTarget'
  BY TableSteps DEF TypeInv, OneRowPerTarget
<1>1. CASE \E r \in bound[p] : ~Clashes(r, table) /\ table' = Upsert(table, r)
  BY <1>1 DEF Upsert, Clashes, SameKey, OneRowPerTarget
<1>2. CASE \E r \in bound[p] : table' = {s \in table : ~SameKey(s, r)}
  BY <1>2 DEF OneRowPerTarget
<1>3. CASE (\A r \in bound[p] : ~Clashes(r, table)) /\ table' = Replaced(p)
  BY <1>3, ReplacedIsBound DEF BoundOnce, OneRowPerTarget
<1>4. QED
  BY <1>1, <1>2, <1>3 DEF Transacts

\* A target has one row at most after every transaction, whatever sessions
\* race: each checks for another identity in the transaction that writes.
THEOREM OneRow == Spec => []OneRowPerTarget
<1>1. Init => BoundOnce /\ OneRowPerTarget
  BY DEF Init, BoundOnce, OneRowPerTarget
<1>2. QED
  BY <1>1, InitType, NextType, NextBoundOnce, NextOneRow, PTL DEF Spec

\* No transaction replaces the identity that a target is routed to.
THEOREM StableIdentity == Spec => IdentityStable
<1> DEFINE A == \A r \in table, s \in table' : r.target = s.target => r.identity = s.identity
<1>1. ASSUME TypeInv, BoundOnce, OneRowPerTarget, [Next]_vars PROVE [A]_vars
  <2>1. CASE UNCHANGED table
    BY <1>1, <2>1 DEF OneRowPerTarget
  <2>2. ASSUME NEW p \in Sessions, Transacts(p) PROVE A
    <3>1. CASE \E r \in bound[p] : ~Clashes(r, table) /\ table' = Upsert(table, r)
      BY <1>1, <3>1 DEF Upsert, Clashes, SameKey, OneRowPerTarget
    <3>2. CASE \E r \in bound[p] : table' = {s \in table : ~SameKey(s, r)}
      BY <1>1, <3>2 DEF OneRowPerTarget
    <3>3. CASE (\A r \in bound[p] : ~Clashes(r, table)) /\ table' = Replaced(p)
      BY <3>3, ReplacedIsBound DEF Clashes
    <3>4. QED
      BY <2>2, <3>1, <3>2, <3>3 DEF Transacts
  <2>3. QED
    BY <1>1, <2>1, <2>2, TableSteps DEF TypeInv
<1>2. Init => BoundOnce /\ OneRowPerTarget
  BY DEF Init, BoundOnce, OneRowPerTarget
<1>3. QED
  BY <1>1, <1>2, InitType, NextType, NextBoundOnce, NextOneRow, PTL DEF Spec, IdentityStable

-----------------------------------------------------------------------------
(***************************************************************************)
(* What the rows say, while paths stay where they lead.                    *)
(***************************************************************************)
\* A valid marker is remembered; a path still leads where it led when it was
\* captured; what is bound was read off a valid marker.
Remembered == \A t \in Targets : marker[t] # None => <<marker[t], t>> \in was

StillLeads ==
  ~moved => \A p \in Sessions : pc[p] = "read" => leads[aim[p].path] = aim[p].target

BoundWasRead ==
  ~moved => \A p \in Sessions : \A r \in bound[p] : <<r.identity, r.target>> \in was

Read == Remembered /\ StillLeads /\ BoundWasRead /\ RowsWereRead

\* What a row put together while paths stay says of the marker.
LEMMA RowWasRead ==
  ASSUME NEW p \in Sessions, NEW n \in Nat, TypeInv, Read, ~moved, pc[p] = "read",
         MarkerAt(aim[p].path) # None
  PROVE  /\ RowOf(p, n) \in Rows
         /\ <<RowOf(p, n).identity, RowOf(p, n).target>> \in was
<1>1. /\ RowOf(p, n) \in Rows
      /\ MarkerAt(aim[p].path) = marker[aim[p].target] /\ aim[p].target \in Targets
  BY RowIsRow DEF TypeInv, Read, StillLeads
<1>2. <<marker[aim[p].target], aim[p].target>> \in was
  BY <1>1 DEF Read, Remembered
<1>3. QED
  BY <1>1, <1>2 DEF RowOf

LEMMA StepRead ==
  ASSUME NEW p \in Sessions, TypeInv, Read,
         \/ Stop(p) \/ Aim(p) \/ Write(p) \/ Bind(p) \/ ReadRoot(p)
         \/ SkipAlias(p) \/ DeleteMarker(p) \/ List(p)
  PROVE  Read'
<1> USE SessionFacts DEF TypeInv, outer, At, Goto, Conclude
<1>1. UNCHANGED <<leads, was, moved>>
  <2>1. CASE Stop(p)
    BY <2>1, StopShape
  <2>2. CASE \/ Aim(p) \/ Write(p) \/ Bind(p) \/ ReadRoot(p)
             \/ SkipAlias(p) \/ DeleteMarker(p) \/ List(p)
    BY <2>2 DEF Aim, Inspect, CaptureRoot, Capture, Write, Update, UpdateFails, Remove, RemoveFails, Replace,
       ReplaceFails, Bind, ReadRoot, SkipAlias, DeleteMarker, List
  <2>3. QED
    BY <2>1, <2>2
<1>2. CASE Stop(p)
  BY <1>1, <1>2, StopShape
     DEF Types, Read, Remembered, StillLeads, BoundWasRead, RowsWereRead
<1>3. CASE Aim(p)
  <2>1. PICK path \in Paths :
          /\ aim' = [aim EXCEPT ![p] = [path |-> path, target |-> leads[path]]]
          /\ pc' = [pc EXCEPT ![p] = "read"]
          /\ UNCHANGED <<marker, table, bound, entries>>
    BY <1>3 DEF Aim, Inspect, CaptureRoot, Capture, AllRead, Root, Types, Counting
  <2>2. QED
    BY <1>1, <2>1 DEF Types, Read, Remembered, StillLeads, BoundWasRead, RowsWereRead
<1>4. CASE Write(p)
  <2>1. /\ UNCHANGED <<marker, aim, bound, entries>>
        /\ pc' \in {[pc EXCEPT ![p] = "done"], [pc EXCEPT ![p] = "list"]}
    BY <1>4 DEF Write, Update, UpdateFails, Remove, RemoveFails, Replace, ReplaceFails
  <2>2. \A r \in table' : r \in table \/ r \in bound[p]
    BY <1>4 DEF Write, Update, UpdateFails, Remove, RemoveFails, Replace, ReplaceFails, Upsert, Replaced,
       Upserted
  <2>3. RowsWereRead'
    BY <1>1, <2>1, <2>2 DEF Read, RowsWereRead, BoundWasRead
  <2>4. QED
    BY <1>1, <2>1, <2>3 DEF Types, Read, Remembered, StillLeads, BoundWasRead
<1>5. CASE Bind(p) \/ ReadRoot(p)
  <2>1. PICK n \in Nat : \A r \in bound'[p] : r \in bound[p] \/ r = RowOf(p, n)
    <3>1. CASE Bind(p)
      BY <3>1 DEF Bind, Types
    <3>2. CASE ReadRoot(p)
      BY <3>2 DEF ReadRoot, Types
    <3>3. QED
      BY <1>5, <3>1, <3>2
  <2>2. /\ pc[p] = "read" /\ MarkerAt(aim[p].path) # None
        /\ UNCHANGED <<marker, table, aim, entries>>
        /\ \A q \in Sessions \ {p} : bound'[q] = bound[q] /\ pc'[q] = pc[q]
        /\ pc'[p] # "read"
    BY <1>5 DEF Bind, ReadRoot, Advance, Types
  <2>3. ~moved => \A r \in bound'[p] : <<r.identity, r.target>> \in was
    BY <2>1, <2>2, RowWasRead DEF Read, BoundWasRead
  <2>4. QED
    BY <1>1, <2>2, <2>3 DEF Read, Remembered, StillLeads, BoundWasRead, RowsWereRead
<1>6. CASE SkipAlias(p) \/ DeleteMarker(p)
  <2>1. /\ UNCHANGED <<table, aim, bound, entries>>
        /\ \A q \in Sessions : pc'[q] = "read" => pc[q] = "read"
        /\ \A t \in Targets : marker'[t] # None => marker'[t] = marker[t]
    BY <1>6 DEF SkipAlias, Advance, DeleteMarker, Types
  <2>2. QED
    BY <1>1, <2>1 DEF Read, Remembered, StillLeads, BoundWasRead, RowsWereRead
<1>7. CASE List(p)
  <2>1. /\ UNCHANGED <<marker, table, aim, bound>>
        /\ entries' = [entries EXCEPT ![p] = table]
        /\ \A q \in Sessions : pc'[q] = "read" => pc[q] = "read"
    BY <1>7 DEF List, Types
  <2>2. QED
    BY <1>1, <2>1 DEF Types, Read, Remembered, StillLeads, BoundWasRead, RowsWereRead
<1>8. QED
  BY <1>2, <1>3, <1>4, <1>5, <1>6, <1>7

LEMMA NextRead == TypeInv /\ Read /\ [Next]_vars => Read'
<1> SUFFICES ASSUME TypeInv, Read, [Next]_vars PROVE Read'
  OBVIOUS
<1>1. CASE UNCHANGED vars
  BY <1>1 DEF vars, session, outer, Read, Remembered, StillLeads, BoundWasRead, RowsWereRead
<1>2. ASSUME NEW t \in Targets, NEW i \in Idents \cup {None}, WriteMarker(t, i)
      PROVE  Read'
  <2>1. /\ marker' = [marker EXCEPT ![t] = i]
        /\ was' = was \cup ({<<i, t>>} \cap (Idents \X Targets))
        /\ UNCHANGED <<leads, table, pc, aim, bound, entries, moved>>
    BY <1>2 DEF WriteMarker, session
  <2>2. i # None => <<i, t>> \in was'
    BY <2>1
  <2>3. Remembered'
    BY <2>1, <2>2 DEF Read, Remembered, TypeInv, Types
  <2>4. QED
    BY <2>1, <2>3 DEF Read, StillLeads, BoundWasRead, RowsWereRead
<1>3. ASSUME NEW path \in Paths, NEW t \in Targets \cup {None}, MovePath(path, t)
      PROVE  Read'
  BY <1>3 DEF MovePath, Read, Remembered, StillLeads, BoundWasRead, RowsWereRead
<1>4. QED
  BY <1>1, <1>2, <1>3, NextCases, StepRead

LEMMA InitRead == Init => Read
<1> SUFFICES ASSUME Init PROVE Read
  OBVIOUS
<1>1. Remembered
  BY DEF Init, Remembered
<1>2. QED
  BY <1>1, SessionFacts DEF Init, Read, StillLeads, BoundWasRead, RowsWereRead

\* While paths stay, every row states what a valid marker of its target stated:
\* a rebuild and a link may be late, but they make nothing up.
THEOREM RowsRead == Spec => []RowsWereRead
<1>1. Read => RowsWereRead
  BY DEF Read
<1>2. QED
  BY <1>1, InitType, NextType, InitRead, NextRead, PTL DEF Spec

-----------------------------------------------------------------------------
(***************************************************************************)
(* Rebuild: what it has gathered from the roots read so far.               *)
(***************************************************************************)
GatheredBy(p) ==
  /\ \A r \in bound[p] : /\ r.ordinal \in FirstRoots(p) /\ r.ordinal < next[p]
                         /\ r.path = Roots[p][r.ordinal] /\ r.target = leads[r.path]
  /\ \A k \in 1 .. next[p] - 1 : \E r \in bound[p] : r.target = leads[Roots[p][k]]
  /\ \A j \in FirstRoots(p) : j < next[p] => \E r \in bound[p] : r.ordinal = j

Gathered == ~moved => \A p \in Rebuilders : GatheredBy(p)

LEMMA GatheredKept ==
  ASSUME Gathered, UNCHANGED leads, moved => moved',
         \A p \in Rebuilders : bound'[p] = bound[p] /\ next'[p] = next[p]
  PROVE  Gathered'
BY DEF Gathered, GatheredBy, FirstRoots

LEMMA StepGathered ==
  ASSUME NEW p \in Sessions, TypeInv, Read, Gathered,
         \/ Stop(p) \/ Aim(p) \/ Write(p) \/ Bind(p) \/ ReadRoot(p)
         \/ SkipAlias(p) \/ DeleteMarker(p) \/ List(p)
  PROVE  Gathered'
<1> USE SessionFacts DEF TypeInv
<1>1. CASE Stop(p)
  BY <1>1, StopShape, GatheredKept DEF outer
<1>2. CASE Aim(p) \/ Write(p) \/ DeleteMarker(p) \/ List(p)
  <2>1. UNCHANGED <<leads, bound, next, moved>>
    BY <1>2 DEF Aim, Inspect, CaptureRoot, Capture, Write, Update, UpdateFails,
       Remove, RemoveFails, Replace, ReplaceFails, DeleteMarker, List, outer
  <2>2. QED
    BY <2>1, GatheredKept
<1>3. CASE Bind(p)
  <2>1. /\ \A q \in Rebuilders : bound'[q] = bound[q]
        /\ UNCHANGED <<leads, next, moved>>
    BY <1>3 DEF Bind, Types, outer
  <2>2. QED
    BY <2>1, GatheredKept
<1>4. CASE ReadRoot(p) \/ SkipAlias(p)
  <2> SUFFICES ASSUME ~moved, NEW q \in Rebuilders PROVE GatheredBy(q)'
    BY <1>4 DEF ReadRoot, SkipAlias, outer, Gathered
  <2> DEFINE n == next[p]
  <2>1. /\ p \in Rebuilders /\ pc[p] = "read"
        /\ n \in 1 .. Len(Roots[p]) /\ aim[p].path = Roots[p][n]
        /\ leads[Roots[p][n]] = aim[p].target
        /\ next' = [next EXCEPT ![p] = n + 1]
        /\ UNCHANGED leads
        /\ \A r \in Rebuilders \ {p} : bound'[r] = bound[r]
    <3>1. p \in Rebuilders /\ pc[p] = "read" /\ UNCHANGED leads
      BY <1>4 DEF ReadRoot, SkipAlias, At
    <3>2. n \in 1 .. Len(Roots[p]) /\ aim[p].path = Roots[p][n]
      BY <3>1 DEF Aimed, Counting
    <3>3. leads[Roots[p][n]] = aim[p].target
      BY <3>1, <3>2 DEF Read, StillLeads
    <3>4. QED
      BY <1>4, <3>1, <3>2, <3>3 DEF ReadRoot, SkipAlias, Advance, Types
  <2>2. FirstRoots(q)' = FirstRoots(q)
    BY <2>1 DEF FirstRoots
  <2>3. CASE q # p
    BY <2>1, <2>2, <2>3 DEF Gathered, GatheredBy, Types
  <2>4. CASE q = p
    <3>1. GatheredBy(p) /\ next'[p] = n + 1 /\ n \in Nat
      BY <2>1 DEF Gathered, Types
    <3>2. CASE SkipAlias(p)
      <4>1. PICK r \in bound[p] : r.target = leads[Roots[p][n]]
        BY <2>1, <3>2 DEF SkipAlias, IsAlias
      <4>2. /\ r.ordinal \in 1 .. n - 1 /\ leads[Roots[p][r.ordinal]] = leads[Roots[p][n]]
        BY <3>1, <4>1 DEF GatheredBy, FirstRoots
      <4>3. n \notin FirstRoots(p)
        BY <4>2 DEF FirstRoots
      <4>4. bound' = bound
        BY <3>2 DEF SkipAlias
      <4>5. \A k \in 1 .. n : \E s \in bound[p] : s.target = leads[Roots[p][k]]
        BY <3>1, <4>1 DEF GatheredBy
      <4>6. \A j \in FirstRoots(p) : j < n + 1 => \E s \in bound[p] : s.ordinal = j
        <5>1. \A j \in FirstRoots(p) : j \in Nat /\ j # n
          BY <2>1, <4>3 DEF FirstRoots
        <5>2. \A j \in FirstRoots(p) : j < n + 1 => j < n
          BY <3>1, <5>1
        <5>3. QED
          BY <3>1, <5>2 DEF GatheredBy
      <4>7. \A s \in bound[p] : s.ordinal < n + 1
        BY <3>1, <4>2 DEF GatheredBy, FirstRoots
      <4>8. QED
        BY <2>1, <2>2, <2>4, <3>1, <4>4, <4>5, <4>6, <4>7 DEF GatheredBy
    <3>3. CASE ReadRoot(p)
      <4>1. /\ bound'[p] = bound[p] \cup {RowOf(p, n)}
            /\ \A r \in bound[p] : r.target # leads[Roots[p][n]]
            /\ RowOf(p, n).ordinal = n /\ RowOf(p, n).path = Roots[p][n]
            /\ RowOf(p, n).target = leads[Roots[p][n]]
        BY <2>1, <3>3 DEF ReadRoot, IsAlias, RowOf, Types
      <4>2. n \in FirstRoots(p)
        BY <2>1, <3>1, <4>1 DEF GatheredBy, FirstRoots
      <4>3. \A r \in bound'[p] : /\ r.ordinal \in FirstRoots(p) /\ r.ordinal < n + 1
                                 /\ r.path = Roots[p][r.ordinal] /\ r.target = leads[r.path]
        BY <3>1, <4>1, <4>2 DEF GatheredBy, FirstRoots
      <4>4. \A k \in 1 .. n : \E r \in bound'[p] : r.target = leads[Roots[p][k]]
        BY <3>1, <4>1 DEF GatheredBy
      <4>5. \A j \in FirstRoots(p) : j < n + 1 => \E r \in bound'[p] : r.ordinal = j
        BY <3>1, <4>1 DEF GatheredBy, FirstRoots
      <4>6. QED
        BY <2>1, <2>2, <2>4, <3>1, <4>3, <4>4, <4>5 DEF GatheredBy
    <3>4. QED
      BY <1>4, <3>2, <3>3
  <2>5. QED
    BY <2>3, <2>4
<1>5. QED
  BY <1>1, <1>2, <1>3, <1>4

LEMMA NextGathered == TypeInv /\ Read /\ Gathered /\ [Next]_vars => Gathered'
<1> SUFFICES ASSUME TypeInv, Read, Gathered, [Next]_vars PROVE Gathered'
  OBVIOUS
<1>1. CASE UNCHANGED vars
  BY <1>1, GatheredKept DEF vars, session, outer
<1>2. CASE \E t \in Targets, i \in Idents \cup {None} : WriteMarker(t, i)
  BY <1>2, GatheredKept DEF WriteMarker, session
<1>3. CASE \E path \in Paths, t \in Targets \cup {None} : MovePath(path, t)
  BY <1>3 DEF MovePath, Gathered
<1>4. QED
  BY <1>1, <1>2, <1>3, NextCases, StepGathered

LEMMA InitGathered == Init => Gathered
BY SessionFacts DEF Init, Gathered, GatheredBy, FirstRoots

\* What a rebuild has gathered when every root is read.
LEMMA AllGathered ==
  ASSUME NEW p \in Rebuilders, TypeInv, GatheredBy(p), AllRead(p)
  PROVE  {<<r.target, r.path, r.ordinal>> : r \in bound[p]} =
           {<<leads[Roots[p][j]], Roots[p][j], j>> : j \in FirstRoots(p)}
<1>1. \A j \in FirstRoots(p) : j < next[p]
  BY SessionFacts DEF AllRead, FirstRoots, TypeInv, Counting
<1>2. \A r \in bound[p] : \E j \in FirstRoots(p) :
        r.ordinal = j /\ r.path = Roots[p][j] /\ r.target = leads[Roots[p][j]]
  BY DEF GatheredBy
<1>3. \A j \in FirstRoots(p) : \E r \in bound[p] :
        r.ordinal = j /\ r.path = Roots[p][j] /\ r.target = leads[Roots[p][j]]
  BY <1>1 DEF GatheredBy
<1>4. QED
  BY <1>2, <1>3

\* A rebuild makes the table hold its roots and nothing else, each target once
\* under its first mention, in one step.
THEOREM RebuildExact == Spec => RebuildIsExact
<1> DEFINE A == table' # table /\ ~moved /\ (\A p \in Linkers \cup Forgetters : pc'[p] = pc[p]) =>
                  \E p \in Rebuilders :
                    /\ AllRead(p)
                    /\ {<<r.target, r.path, r.ordinal>> : r \in table'} =
                         {<<leads[Roots[p][j]], Roots[p][j], j>> : j \in FirstRoots(p)}
<1>1. ASSUME TypeInv, Gathered, [Next]_vars PROVE [A]_vars
  <2>1. SUFFICES ASSUME table' # table, ~moved,
                        \A p \in Linkers \cup Forgetters : pc'[p] = pc[p]
                 PROVE  \E p \in Rebuilders :
                          /\ AllRead(p)
                          /\ {<<r.target, r.path, r.ordinal>> : r \in table'} =
                               {<<leads[Roots[p][j]], Roots[p][j], j>> : j \in FirstRoots(p)}
    OBVIOUS
  <2>2. PICK p \in Sessions : Write(p)
    BY <1>1, <2>1, TableSteps DEF TypeInv
  <2>3. p \notin Linkers \cup Forgetters
    BY <1>1, <2>1, <2>2, SessionFacts DEF Write, Update, UpdateFails, Remove, RemoveFails, Replace,
       ReplaceFails, AllRead, At, Goto, Conclude, TypeInv, Types
  <2>4. /\ p \in Rebuilders /\ AllRead(p)
        /\ \A r \in bound[p] : ~Clashes(r, table)
        /\ table' = Replaced(p)
    BY <2>1, <2>2, <2>3 DEF Write, Update, UpdateFails, Remove, RemoveFails, Replace, ReplaceFails, AllRead
  <2>5. table' = bound[p]
    BY <2>4, ReplacedIsBound
  <2>6. GatheredBy(p)
    BY <1>1, <2>1, <2>4 DEF Gathered
  <2>7. QED
    BY <1>1, <2>4, <2>5, <2>6, AllGathered
<1>2. QED
  BY <1>1, InitType, NextType, InitRead, NextRead, InitGathered, NextGathered, PTL
     DEF Spec, RebuildIsExact
=============================================================================
