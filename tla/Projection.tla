------------------------------ MODULE Projection ------------------------------
(***************************************************************************)
(* The link projection (projection.py): one table of routing rows in a     *)
(* local database, shared by the processes that link, unregister and       *)
(* rebuild any number of workspaces.  The markers are the authority and    *)
(* change under the sessions' hands; the table only follows them.          *)
(*                                                                         *)
(* A transaction (BEGIN IMMEDIATE ... COMMIT) is one step.  What a session *)
(* reads outside of it, handles and markers, is a step of its own.  A      *)
(* process that dies is a session that takes no further step.              *)
(***************************************************************************)
EXTENDS Naturals, Sequences, FiniteSets

CONSTANTS
  Targets,     \* workspaces, each known by its target handle
  Idents,      \* marker identities
  Paths,       \* paths an operator may name; two may lead to one target
  Linkers,     \* sessions that end in Projection.update
  Forgetters,  \* sessions of unregister, which end in Projection.remove
  Rebuilders,  \* sessions of rebuild
  Roots,       \* the ordered roots each rebuilder is given
  None,        \* no valid marker; nothing at a path
  MaxWorld     \* bound: how often markers and paths change on their own

Sessions == Linkers \cup Forgetters \cup Rebuilders

ASSUME ProjectionAssumption ==
  /\ Linkers \cap (Forgetters \cup Rebuilders) = {}
  /\ Forgetters \cap Rebuilders = {}
  /\ Roots \in [Rebuilders -> Seq(Paths)]
  /\ None \notin Targets \cup Idents
  /\ MaxWorld \in Nat

\* A row; link and unregister use ordinal 0, rebuild the 1-based position.
Rows == [identity : Idents, target : Targets, path : Paths, ordinal : Nat]

VARIABLES
  marker,   \* the identity in each workspace's valid marker, or None
  leads,    \* the workspace each path leads to, or None
  table,    \* the rows of the projection
  pc,       \* where each session is
  aim,      \* the path each session looks at, and the target it captured
  bound,    \* the rows each session has put together from what it read
  next,     \* the root each rebuilder reads next
  result,   \* what each session reports
  entries,  \* the rows a successful rebuild lists
  (* ghosts *)
  was,      \* every <<identity, target>> that a valid marker ever stated
  world,    \* how often markers and paths have changed on their own
  moved     \* one of these changes moved a path

session == <<pc, aim, bound, next, result, entries>>
outer   == <<was, world, moved>>
vars    == <<marker, leads, table, session, outer>>

Init ==
  /\ marker \in [Targets -> Idents \cup {None}]
  /\ leads \in [Paths -> Targets \cup {None}]
  /\ table = {}
  /\ pc = [p \in Sessions |-> "capture"]
  /\ aim = [p \in Sessions |-> [path |-> None, target |-> None]]
  /\ bound = [p \in Sessions |-> {}]
  /\ next = [p \in Rebuilders |-> 1]
  /\ result = [p \in Sessions |-> "none"]
  /\ entries = [p \in Rebuilders |-> {}]
  /\ was = {seen \in Idents \X Targets : marker[seen[2]] = seen[1]}
  /\ world = 0
  /\ moved = FALSE

-----------------------------------------------------------------------------
At(p, step)   == pc[p] = step
Goto(p, step) == pc' = [pc EXCEPT ![p] = step]

Conclude(p, outcome) ==
  Goto(p, "done") /\ result' = [result EXCEPT ![p] = outcome]

(***************************************************************************)
(* Reading a workspace: its handle first, then the marker, at the path.    *)
(***************************************************************************)
Capture(p, path) ==
  /\ leads[path] # None
  /\ aim' = [aim EXCEPT ![p] = [path |-> path, target |-> leads[path]]]
  /\ Goto(p, "read")
  /\ UNCHANGED <<marker, leads, table, bound, next, result, entries, outer>>

MarkerAt(path) == IF leads[path] = None THEN None ELSE marker[leads[path]]

\* Mutant: the marker of an earlier root is used again.
RowOfEarlier(p, ordinal) ==
  [identity |-> IF bound[p] = {} THEN MarkerAt(aim[p].path)
                ELSE (CHOOSE r \in bound[p] : TRUE).identity,
   target |-> aim[p].target, path |-> aim[p].path, ordinal |-> ordinal]

RowOf(p, ordinal) ==
  [identity |-> MarkerAt(aim[p].path), target |-> aim[p].target,
   path |-> aim[p].path, ordinal |-> ordinal]

\* The path is gone, redirected or unreadable, or its marker does not validate.
ReadFails(p, outcome) ==
  /\ pc[p] \in {"capture", "read"}
  /\ Conclude(p, outcome)
  /\ UNCHANGED <<marker, leads, table, aim, bound, next, entries, outer>>

-----------------------------------------------------------------------------
(***************************************************************************)
(* The table.  Its primary key is (identity, target_handle), and           *)
(* target_handle alone is unique.                                          *)
(***************************************************************************)
SameKey(r, s) == r.identity = s.identity /\ r.target = s.target

\* Mutant: another identity's row is not looked for.
ClashesNever(r, rows) == FALSE

Clashes(r, rows) == \E s \in rows : s.target = r.target /\ s.identity # r.identity

\* INSERT ... ON CONFLICT(identity, target_handle) DO UPDATE.
Upsert(rows, r) == {s \in rows : ~SameKey(s, r)} \cup {r}

-----------------------------------------------------------------------------
(***************************************************************************)
(* link: the inspection binds a row, update writes it.                     *)
(***************************************************************************)
Inspect(p) ==
  p \in Linkers \cup Forgetters /\ At(p, "capture") /\ \E path \in Paths : Capture(p, path)

InspectStops(p) == p \in Linkers \cup Forgetters /\ ReadFails(p, "stopped")

Bind(p) ==
  /\ p \in Linkers \cup Forgetters /\ At(p, "read")
  /\ MarkerAt(aim[p].path) # None
  /\ bound' = [bound EXCEPT ![p] = {RowOf(p, 0)}]
  /\ Goto(p, IF p \in Linkers THEN "write" ELSE "delete")
  /\ UNCHANGED <<marker, leads, table, aim, next, result, entries, outer>>

\* Mutant: INSERT OR REPLACE, which deletes the row in the way.
UpdateReplacing(p) ==
  /\ p \in Linkers /\ At(p, "write")
  /\ \E r \in bound[p] : table' = {s \in table : s.target # r.target} \cup {r}
  /\ Conclude(p, "linked")
  /\ UNCHANGED <<marker, leads, aim, bound, next, entries, outer>>

Update(p) ==
  /\ p \in Linkers /\ At(p, "write")
  /\ \E r \in bound[p] : ~Clashes(r, table) /\ table' = Upsert(table, r)
  /\ Conclude(p, "linked")
  /\ UNCHANGED <<marker, leads, aim, bound, next, entries, outer>>

UpdateConflicts(p) ==
  /\ p \in Linkers /\ At(p, "write")
  /\ \E r \in bound[p] : Clashes(r, table)
  /\ Conclude(p, "conflict")
  /\ UNCHANGED <<marker, leads, table, aim, bound, next, entries, outer>>

\* The store cannot be opened or enforced before the transaction; or it is
\* found weakened after COMMIT, in _run_transaction's finally.
UpdateFails(p) ==
  /\ p \in Linkers /\ At(p, "write")
  /\ \/ UNCHANGED table
     \/ \E r \in bound[p] : ~Clashes(r, table) /\ table' = Upsert(table, r)
  /\ Conclude(p, "projection-failed")
  /\ UNCHANGED <<marker, leads, aim, bound, next, entries, outer>>

-----------------------------------------------------------------------------
(***************************************************************************)
(* unregister: the deletion of the confirmed marker, then remove.          *)
(***************************************************************************)
DeleteMarker(p) ==
  /\ p \in Forgetters /\ At(p, "delete")
  /\ \E r \in bound[p] : /\ marker[r.target] = r.identity
                         /\ marker' = [marker EXCEPT ![r.target] = None]
  /\ Goto(p, "write")
  /\ UNCHANGED <<leads, table, aim, bound, next, result, entries, outer>>

DeleteStops(p) ==
  /\ p \in Forgetters /\ At(p, "delete")
  /\ Conclude(p, "changed-marker-stopped")
  /\ UNCHANGED <<marker, leads, table, aim, bound, next, entries, outer>>

Remove(p) ==
  /\ p \in Forgetters /\ At(p, "write")
  /\ \E r \in bound[p] : table' = {s \in table : ~SameKey(s, r)}
  /\ Conclude(p, "registered-unlinked")
  /\ UNCHANGED <<marker, leads, aim, bound, next, entries, outer>>

\* As UpdateFails, before the DELETE or after its COMMIT; _remove_projection
\* swallows it.
RemoveFails(p) ==
  /\ p \in Forgetters /\ At(p, "write")
  /\ \/ UNCHANGED table
     \/ \E r \in bound[p] : table' = {s \in table : ~SameKey(s, r)}
  /\ Conclude(p, "projection-failed")
  /\ UNCHANGED <<marker, leads, aim, bound, next, entries, outer>>

-----------------------------------------------------------------------------
(***************************************************************************)
(* rebuild: read every root in order, replace the table in one             *)
(* transaction, then list it through another connection.                   *)
(***************************************************************************)
AllRead(p) == p \in Rebuilders /\ At(p, "capture") /\ next[p] > Len(Roots[p])
Root(p)    == Roots[p][next[p]]
Advance(p) == next' = [next EXCEPT ![p] = @ + 1] /\ Goto(p, "capture")
IsAlias(p) == \E r \in bound[p] : r.target = aim[p].target

CaptureRoot(p) ==
  p \in Rebuilders /\ At(p, "capture") /\ ~AllRead(p) /\ Capture(p, Root(p))

\* A second path to a target already read; its marker is not looked at.
SkipAlias(p) ==
  /\ p \in Rebuilders /\ At(p, "read")
  /\ IsAlias(p)
  /\ Advance(p)
  /\ UNCHANGED <<marker, leads, table, aim, bound, result, entries, outer>>

\* Mutant: only the roots that were kept are counted.
ReadRootCounting(p) ==
  /\ p \in Rebuilders /\ At(p, "read")
  /\ ~IsAlias(p) /\ MarkerAt(aim[p].path) # None
  /\ bound' = [bound EXCEPT ![p] = @ \cup {RowOf(p, Cardinality(@) + 1)}]
  /\ Advance(p)
  /\ UNCHANGED <<marker, leads, table, aim, result, entries, outer>>

\* Mutant: a root without a valid marker is kept.
ReadRootUnchecked(p) ==
  /\ p \in Rebuilders /\ At(p, "read")
  /\ ~IsAlias(p)
  /\ bound' = [bound EXCEPT ![p] = @ \cup {RowOf(p, next[p])}]
  /\ Advance(p)
  /\ UNCHANGED <<marker, leads, table, aim, result, entries, outer>>

ReadRoot(p) ==
  /\ p \in Rebuilders /\ At(p, "read")
  /\ ~IsAlias(p) /\ MarkerAt(aim[p].path) # None
  /\ bound' = [bound EXCEPT ![p] = @ \cup {RowOf(p, next[p])}]
  /\ Advance(p)
  /\ UNCHANGED <<marker, leads, table, aim, result, entries, outer>>

RootFails(p) == p \in Rebuilders /\ ~AllRead(p) /\ ReadFails(p, "failed: root")

\* Every root is upserted, and every target that is not a root is deleted.
Upserted(p) == {s \in table : \A r \in bound[p] : ~SameKey(s, r)} \cup bound[p]
Replaced(p) == {s \in Upserted(p) : \E r \in bound[p] : s.target = r.target}

Replace(p) ==
  /\ AllRead(p)
  /\ \A r \in bound[p] : ~Clashes(r, table)
  /\ table' = Replaced(p)
  /\ Goto(p, "list")
  /\ UNCHANGED <<marker, leads, aim, bound, next, result, entries, outer>>

\* The INSERT meets another identity's row for the target, before the DELETE
\* of the same transaction is reached: IntegrityError, rolled back.
ReplaceConflicts(p) ==
  /\ AllRead(p)
  /\ \E r \in bound[p] : Clashes(r, table)
  /\ Conclude(p, "failed: row in the way")
  /\ UNCHANGED <<marker, leads, table, aim, bound, next, entries, outer>>

ReplaceFails(p) ==
  /\ AllRead(p)
  /\ \/ UNCHANGED table
     \/ (\A r \in bound[p] : ~Clashes(r, table)) /\ table' = Replaced(p)
  /\ Conclude(p, "failed: store")
  /\ UNCHANGED <<marker, leads, aim, bound, next, entries, outer>>

List(p) ==
  /\ p \in Rebuilders /\ At(p, "list")
  /\ entries' = [entries EXCEPT ![p] = table]
  /\ Conclude(p, "rebuilt")
  /\ UNCHANGED <<marker, leads, table, aim, bound, next, outer>>

\* ProjectionStoreError from list_projection leaves rebuild.
ListFails(p) ==
  /\ p \in Rebuilders /\ At(p, "list")
  /\ Conclude(p, "error")
  /\ UNCHANGED <<marker, leads, table, aim, bound, next, entries, outer>>

-----------------------------------------------------------------------------
(***************************************************************************)
(* The world: registrations, copies and edits of markers; paths moved.     *)
(***************************************************************************)
WriteMarker(t, i) ==
  /\ world < MaxWorld
  /\ world' = world + 1
  /\ marker' = [marker EXCEPT ![t] = i]
  /\ was' = was \cup ({<<i, t>>} \cap (Idents \X Targets))
  /\ UNCHANGED <<leads, table, session, moved>>

MovePath(path, t) ==
  /\ world < MaxWorld
  /\ world' = world + 1
  /\ leads' = [leads EXCEPT ![path] = t]
  /\ moved' = TRUE
  /\ UNCHANGED <<marker, table, session, was>>

Link(p)   == Update(p) \/ UpdateConflicts(p) \/ UpdateFails(p)
Look(p)   == Inspect(p) \/ InspectStops(p) \/ Bind(p)
Forget(p) == DeleteMarker(p) \/ DeleteStops(p) \/ Remove(p) \/ RemoveFails(p)
Rebuild(p) ==
  \/ CaptureRoot(p) \/ SkipAlias(p) \/ ReadRoot(p) \/ RootFails(p)
  \/ Replace(p) \/ ReplaceConflicts(p) \/ ReplaceFails(p) \/ List(p) \/ ListFails(p)

Next ==
  \/ \E p \in Sessions : Look(p) \/ Link(p) \/ Forget(p) \/ Rebuild(p)
  \/ \E t \in Targets, i \in Idents \cup {None} : WriteMarker(t, i)
  \/ \E path \in Paths, t \in Targets \cup {None} : MovePath(path, t)

Spec == Init /\ [][Next]_vars
-----------------------------------------------------------------------------
(***************************************************************************)
(* Properties.                                                             *)
(***************************************************************************)
PCs == {"capture", "read", "delete", "write", "list", "done"}

Outcomes == {"none", "linked", "conflict", "projection-failed", "stopped",
             "changed-marker-stopped", "registered-unlinked", "rebuilt",
             "failed: root", "failed: store", "failed: row in the way",
             "error"}

\* Every variable has its type; what a session has bound are rows.
TypeOK ==
  /\ marker \in [Targets -> Idents \cup {None}]
  /\ leads \in [Paths -> Targets \cup {None}]
  /\ table \subseteq Rows
  /\ pc \in [Sessions -> PCs]
  /\ aim \in [Sessions -> [path : Paths \cup {None}, target : Targets \cup {None}]]
  /\ \A p \in Sessions : bound[p] \subseteq Rows
  /\ \A p \in Rebuilders : next[p] \in 1 .. Len(Roots[p]) + 1 /\ entries[p] \subseteq Rows
  /\ result \in [Sessions -> Outcomes]
  /\ was \subseteq Idents \X Targets
  /\ world \in 0 .. MaxWorld
  /\ moved \in BOOLEAN

\* The unique index on target_handle holds after every transaction, so that a
\* lookup by target finds one row at most.
OneRowPerTarget ==
  \A r, s \in table : r.target = s.target => r = s

\* No transaction, of a link, a removal or a rebuild, replaces the identity a
\* target is routed to: another identity has to be removed first.  A rebuild
\* or a link that acts on what it read long ago therefore never overwrites the
\* row of a newer registration.
IdentityStable ==
  [][\A r \in table, s \in table' : r.target = s.target => r.identity = s.identity]_vars

\* While paths stay where they lead, a row, and what a rebuild lists, states
\* an identity that a valid marker of that very target once had.
RowsWereRead ==
  ~moved =>
    /\ \A r \in table : <<r.identity, r.target>> \in was
    /\ \A p \in Rebuilders : \A r \in entries[p] : <<r.identity, r.target>> \in was

\* The roots of a rebuild that are not aliases of earlier ones, each under its
\* position in the operator's list.
FirstRoots(p) ==
  {j \in 1 .. Len(Roots[p]) : \A k \in 1 .. j - 1 : leads[Roots[p][k]] # leads[Roots[p][j]]}

\* A rebuild changes the table in one step or not at all, and that step makes
\* it hold its roots and nothing else, each target once, under the path and
\* the ordinal of its first mention.
RebuildIsExact ==
  [][table' # table /\ ~moved /\ (\A p \in Linkers \cup Forgetters : pc'[p] = pc[p]) =>
       \E p \in Rebuilders :
         /\ AllRead(p)
         /\ {<<r.target, r.path, r.ordinal>> : r \in table'} =
              {<<leads[Roots[p][j]], Roots[p][j], j>> : j \in FirstRoots(p)}]_vars

\* projection.py:34-38: a rebuild is a transactional replacement from its
\* roots, and stale entries are repaired inside the transaction.  So a rebuild
\* whose roots are as it read them is not refused for a row already stored.
StaleRowsRepaired ==
  [][\A p \in Rebuilders :
       pc'[p] # pc[p] /\ result'[p] = "failed: row in the way" =>
         \E r \in bound[p] : marker[r.target] # r.identity]_vars
=============================================================================
