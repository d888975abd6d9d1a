----------------------------- MODULE Registration -----------------------------
(***************************************************************************)
(* The lifecycle of one workspace's marker, .workstream/manifest.json:     *)
(* register, link and inspect, unregister and resolve-invalid run by       *)
(* concurrent processes (registration.py, unregister.py, the marker        *)
(* primitives of filesystem.py and the interactive flows of cli.py), with  *)
(* crashes, input/output errors and edits by programs that do not use the  *)
(* lock.                                                                   *)
(*                                                                         *)
(* A session is one process running one command once.  The lock is the     *)
(* token of LockToken, which RegistrationLock implements until a stale     *)
(* replacement races: a free token or one whose holder has ended can be    *)
(* taken, and an acquisition can always end as unavailable.  With LockRaces *)
(* the token can also be taken from a live holder, as after such a race.   *)
(***************************************************************************)
EXTENDS Naturals, FiniteSets

CONSTANTS
  Registrars,     \* sessions of register; each names the identity it drafts
  Unregistrars,   \* sessions of unregister
  Resolvers,      \* sessions of resolve-invalid
  Linkers,        \* sessions of link and of inspect, which links too
  Stray,          \* the author of markers no session of the model wrote
  Nobody,         \* holder of a free lock
  LockRaces,      \* whether a stale replacement may race, so that a session
                  \* obtains the lock while another one still relies on it
  MaxOutside      \* bound: steps of programs that ignore the lock

Sessions == Registrars \cup Unregistrars \cup Resolvers \cup Linkers
Idents   == Registrars \cup {Stray}
NoIdent  == "no identity"

ASSUME RegistrationAssumption ==
  /\ Registrars \cap (Unregistrars \cup Resolvers \cup Linkers) = {}
  /\ Unregistrars \cap (Resolvers \cup Linkers) = {}
  /\ Resolvers \cap Linkers = {}
  /\ LockRaces \in BOOLEAN
  /\ Stray \notin Sessions /\ Nobody \notin Sessions /\ NoIdent \notin Idents
  /\ MaxOutside \in Nat

(***************************************************************************)
(* A marker is known by its author and its form: valid (it passes the raw  *)
(* guard and the schema), partial (the exclusive create, with some of the  *)
(* bytes), or junk (anything else that does not validate).                 *)
(***************************************************************************)
Absent     == [form |-> "absent", by |-> Stray]
Junk       == [form |-> "junk", by |-> Stray]
Valid(i)   == [form |-> "valid", by |-> i]
Partial(i) == [form |-> "partial", by |-> i]

Markers == {Absent, Junk} \cup {Valid(i) : i \in Idents}
                          \cup {Partial(i) : i \in Registrars}

IsPresent(m) == m # Absent
IsValid(m)   == m.form = "valid"

\* The identity of the .workstream directory, part of the target handle; a
\* directory that is created again has a new one.
ABSENT  == 0
Handles == ABSENT .. MaxOutside + 1

VARIABLES
  parent,    \* the .workstream directory, or ABSENT
  parents,   \* the last directory identity used
  marker,    \* the file at the marker path
  holder,    \* the session whose lock file is on disk, or Nobody
  rows,      \* the projection's rows for this workspace: <<identity, handle>>
  pc,        \* where each session is
  handle,    \* the handle each session bound by inspection
  key,       \* the handle each session expects, or projects under
  content,   \* the marker each session has read and bound
  result,    \* what each session reports
  (* ghosts *)
  created,   \* the sessions whose exclusive create succeeded
  removed,   \* what each session's unlink removed
  published, \* the authors of the markers that were ever valid on disk
  outside,   \* how many steps outside programs have taken
  dirty      \* the lock has failed to exclude: one of them fell while a live
             \* session held it, or a session took it from a live one

disk     == <<parent, parents, marker>>
bindings == <<handle, key, content>>
ghosts   == <<created, removed, published, outside, dirty>>
vars     == <<disk, holder, rows, pc, bindings, result, ghosts>>

Init ==
  /\ \/ parent = ABSENT /\ marker = Absent
     \/ parent = 1 /\ marker \in {Absent, Valid(Stray), Junk}
  /\ parents = parent
  /\ holder = Nobody
  /\ rows \in SUBSET {<<Stray, h>> : h \in {parent} \ {ABSENT}}
  /\ pc = [p \in Sessions |-> "idle"]
  /\ handle = [p \in Sessions |-> ABSENT]
  /\ key = [p \in Sessions |-> ABSENT]
  /\ content = [p \in Sessions |-> Absent]
  /\ result = [p \in Sessions |-> "none"]
  /\ created = {}
  /\ removed = [p \in Sessions |-> Absent]
  /\ published = {Stray}
  /\ outside = 0
  /\ dirty = FALSE

-----------------------------------------------------------------------------
(***************************************************************************)
(* Control flow.                                                           *)
(***************************************************************************)
At(p, step)   == pc[p] = step
Goto(p, step) == pc' = [pc EXCEPT ![p] = step] /\ UNCHANGED result

\* An operation returns its outcome; inside the with block the lock is
\* released first.
Conclude(p, outcome) ==
  /\ result' = [result EXCEPT ![p] = outcome]
  /\ pc' = [pc EXCEPT ![p] = IF holder = p THEN "release" ELSE "done"]

Ended(p) == p \in Sessions /\ pc[p] \in {"done", "dead"}

LiveHolder == holder # Nobody /\ ~Ended(holder)

\* A read of the marker and a capture of the handle can always fail: the file
\* cannot be opened, a component is redirected, the identity API is missing.
Fails(p, outcome) ==
  /\ Conclude(p, outcome)
  /\ UNCHANGED <<disk, holder, rows, bindings, ghosts>>

-----------------------------------------------------------------------------
(***************************************************************************)
(* Inspection and confirmation, without the lock.  inspect captures the    *)
(* handle, then reads the marker.                                          *)
(***************************************************************************)

CaptureHandle(p) ==
  /\ At(p, "idle")
  /\ handle' = [handle EXCEPT ![p] = parent]
  /\ Goto(p, "observe")
  /\ UNCHANGED <<disk, holder, rows, key, content, ghosts>>

InspectStops(p) ==
  /\ At(p, "idle")
  /\ Fails(p, IF p \in Resolvers THEN "not-invalid" ELSE "stopped")

\* draft-ready: a registrar drafts an identity and its envelope.
ObserveAbsent(p) ==
  /\ At(p, "observe")
  /\ ~IsPresent(marker)
  /\ IF p \in Registrars
     THEN Goto(p, "confirmed")
     ELSE Conclude(p, IF p \in Resolvers THEN "not-invalid" ELSE "stopped")
  /\ UNCHANGED <<disk, holder, rows, bindings, ghosts>>

\* linked-existing: register degrades to linking; unregister binds the marker;
\* for resolve-invalid there is nothing to do.
ObserveValid(p) ==
  /\ At(p, "observe")
  /\ IsValid(marker)
  /\ \/ /\ p \in Registrars \cup Linkers
        /\ content' = [content EXCEPT ![p] = marker]
        /\ key' = [key EXCEPT ![p] = handle[p]]
        /\ Goto(p, "link")
     \/ /\ p \in Unregistrars
        /\ content' = [content EXCEPT ![p] = marker]
        /\ Goto(p, "confirmed")
        /\ UNCHANGED key
     \/ /\ p \in Resolvers
        /\ Conclude(p, "not-invalid")
        /\ UNCHANGED <<key, content>>
  /\ UNCHANGED <<disk, holder, rows, handle, ghosts>>

\* occupied-invalid: the marker does not validate, or cannot be read.
ObserveInvalid(p) ==
  /\ At(p, "observe")
  /\ IsPresent(marker)
  /\ IF p \in Resolvers
     THEN Goto(p, "envelope")
     ELSE Conclude(p, "occupied-invalid")
  /\ UNCHANGED <<disk, holder, rows, bindings, ghosts>>

\* resolution_envelope captures the handle and reads the marker a second time:
\* what it binds need not be what was found invalid.
BindEnvelope(p) ==
  /\ At(p, "envelope")
  /\ IsPresent(marker)
  /\ handle' = [handle EXCEPT ![p] = parent]
  /\ content' = [content EXCEPT ![p] = marker]
  /\ Goto(p, "confirmed")
  /\ UNCHANGED <<disk, holder, rows, key, ghosts>>

EnvelopeFails(p) == At(p, "envelope") /\ Fails(p, "error")

\* The operator rejects the preview, or the digest does not match.
Decline(p) == At(p, "confirmed") /\ Fails(p, "cancelled")

-----------------------------------------------------------------------------
(***************************************************************************)
(* Revalidation of the confirmation, still without the lock.               *)
(***************************************************************************)

\* register: the marker is still absent, the parent transition still possible.
RevalidateDraft(p) ==
  /\ At(p, "confirmed") /\ p \in Registrars
  /\ IF ~IsPresent(marker) /\ parent = handle[p]
     THEN Goto(p, "lock")
     ELSE Conclude(p, "cancelled")
  /\ UNCHANGED <<disk, holder, rows, bindings, ghosts>>

\* unregister: a fresh inspection against the envelope.
RevalidateRemoval(p) ==
  /\ At(p, "confirmed") /\ p \in Unregistrars
  /\ IF ~IsPresent(marker) THEN Conclude(p, "stopped")
     ELSE IF ~IsValid(marker) THEN Conclude(p, "occupied-invalid")
     ELSE IF parent = handle[p] /\ marker = content[p] THEN Goto(p, "lock")
     ELSE Conclude(p, "changed-marker-stopped")
  /\ UNCHANGED <<disk, holder, rows, bindings, ghosts>>

\* resolve-invalid: the handle and the digest of the bytes.
RevalidateResolution(p) ==
  /\ At(p, "confirmed") /\ p \in Resolvers
  /\ IF parent # handle[p] THEN Conclude(p, "cancelled")
     ELSE IF ~IsPresent(marker) THEN Conclude(p, "invalid-marker-resolved")
     ELSE IF marker = content[p] THEN Goto(p, "lock")
     ELSE Conclude(p, "cancelled")
  /\ UNCHANGED <<disk, holder, rows, bindings, ghosts>>

RevalidationFails(p) ==
  /\ At(p, "confirmed")
  /\ \E outcome \in {"stopped", "occupied-invalid"} : Fails(p, outcome)

-----------------------------------------------------------------------------
(***************************************************************************)
(* The lock.                                                               *)
(***************************************************************************)

\* Mutant: the new directory is taken for the last one.
MakeParentOld(p) ==
  /\ At(p, "lock")
  /\ parent = ABSENT
  /\ parents' = parents + 1
  /\ parent' = parents
  /\ Goto(p, "lock")
  /\ UNCHANGED <<marker, holder, rows, bindings, ghosts>>

\* _acquire_lock_once makes the parent before it creates the lock file.
MakeParent(p) ==
  /\ At(p, "lock")
  /\ parent = ABSENT
  /\ parents' = parents + 1
  /\ parent' = parents'
  /\ Goto(p, "lock")
  /\ UNCHANGED <<marker, holder, rows, bindings, ghosts>>

TakeLock(p) ==
  /\ At(p, "lock")
  /\ parent # ABSENT
  /\ LiveHolder => LockRaces
  /\ holder' = p
  /\ Goto(p, CASE p \in Registrars -> "capture"
               [] p \in Unregistrars -> "recheck"
               [] OTHER -> "delete")
  /\ dirty' = (dirty \/ LiveHolder)
  /\ UNCHANGED <<disk, rows, bindings, created, removed, published, outside>>

LockUnavailable(p) ==
  /\ At(p, "lock")
  /\ Fails(p, IF p \in Unregistrars THEN "changed-marker-stopped" ELSE "stopped")

Release(p) ==
  /\ At(p, "release")
  /\ holder' \in IF holder = p THEN {Nobody, p} ELSE {holder}
  /\ Goto(p, "done")
  /\ UNCHANGED <<disk, rows, bindings, ghosts>>

-----------------------------------------------------------------------------
(***************************************************************************)
(* register, with the lock.                                                *)
(***************************************************************************)

\* The handle the read-back must find: the one just created for a draft made
\* without a parent, the revalidated one otherwise.
CaptureCreated(p) ==
  /\ At(p, "capture")
  /\ \/ /\ handle[p] = ABSENT /\ parent = ABSENT
        /\ Conclude(p, "cancelled")
        /\ UNCHANGED key
     \/ /\ handle[p] # ABSENT \/ parent # ABSENT
        /\ key' = [key EXCEPT ![p] = IF handle[p] = ABSENT THEN parent ELSE handle[p]]
        /\ Goto(p, "create")
  /\ UNCHANGED <<disk, holder, rows, handle, content, ghosts>>

CaptureFails(p) ==
  At(p, "capture") /\ handle[p] = ABSENT /\ Fails(p, "stopped")

\* Mutant: opened without O_EXCL, and so truncated.
CreateMarkerOver(p) ==
  /\ At(p, "create")
  /\ parent # ABSENT
  /\ marker' = Partial(p)
  /\ created' = created \cup {p}
  /\ Goto(p, "fill")
  /\ UNCHANGED <<parent, parents, holder, rows, bindings,
                 removed, published, outside, dirty>>

\* Exclusive create: never over an existing file.
CreateMarker(p) ==
  /\ At(p, "create")
  /\ parent # ABSENT
  /\ ~IsPresent(marker)
  /\ marker' = Partial(p)
  /\ created' = created \cup {p}
  /\ Goto(p, "fill")
  /\ UNCHANGED <<parent, parents, holder, rows, bindings,
                 removed, published, outside, dirty>>

CreateFails(p) == At(p, "create") /\ Fails(p, "stopped")

CreateCollides(p) ==
  /\ At(p, "create")
  /\ IsPresent(marker)
  /\ Goto(p, "collide")
  /\ UNCHANGED <<disk, holder, rows, bindings, ghosts>>

\* Mutant: the collision links the draft instead of the marker that is there.
LinkCollisionDraft(p) ==
  /\ At(p, "collide")
  /\ IsValid(marker)
  /\ content' = [content EXCEPT ![p] = Valid(p)]
  /\ key' = [key EXCEPT ![p] = handle[p]]
  /\ Goto(p, "link")
  /\ UNCHANGED <<disk, holder, rows, handle, ghosts>>

\* _collision_result links a valid marker under the handle captured before the
\* lock, which names no parent when the parent was absent then.
LinkCollision(p) ==
  /\ At(p, "collide")
  /\ IsValid(marker)
  /\ content' = [content EXCEPT ![p] = marker]
  /\ key' = [key EXCEPT ![p] = handle[p]]
  /\ Goto(p, "link")
  /\ UNCHANGED <<disk, holder, rows, handle, ghosts>>

CollisionInvalid(p) == At(p, "collide") /\ Fails(p, "occupied-invalid")

\* The bytes go to the inode p created.
Filled(p) == IF marker = Partial(p) THEN Valid(p) ELSE marker

PublishFilled(p) ==
  published' = IF marker = Partial(p) THEN published \cup {p} ELSE published

FillMarker(p) ==
  /\ At(p, "fill")
  /\ marker' = Filled(p)
  /\ PublishFilled(p)
  /\ Goto(p, "readback")
  /\ UNCHANGED <<parent, parents, holder, rows, bindings,
                 created, removed, outside, dirty>>

\* Mutant: every error of the write is a stop, with all the bytes on disk too.
FillFailsStopped(p) ==
  /\ At(p, "fill")
  /\ Conclude(p, "stopped")
  /\ \/ UNCHANGED <<marker, published>>
     \/ marker' = Filled(p) /\ PublishFilled(p)
  /\ UNCHANGED <<parent, parents, holder, rows, bindings,
                 created, removed, outside, dirty>>

\* os.write makes no progress: WriteFailedError.  os.write or os.fsync raises:
\* the error leaves register, with some or all of the bytes on disk.
FillFails(p) ==
  /\ At(p, "fill")
  /\ \/ Conclude(p, "stopped") /\ UNCHANGED <<marker, published>>
     \/ Conclude(p, "error") /\ UNCHANGED <<marker, published>>
     \/ Conclude(p, "error") /\ marker' = Filled(p) /\ PublishFilled(p)
  /\ UNCHANGED <<parent, parents, holder, rows, bindings,
                 created, removed, outside, dirty>>

\* Mutant: the marker is read back, the handle is not.
ReadBackMarkerOnly(p) ==
  /\ At(p, "readback")
  /\ marker = Valid(p)
  /\ Goto(p, "project")
  /\ UNCHANGED <<disk, holder, rows, bindings, ghosts>>

ReadBack(p) ==
  /\ At(p, "readback")
  /\ marker = Valid(p)
  /\ parent = key[p]
  /\ Goto(p, "project")
  /\ UNCHANGED <<disk, holder, rows, bindings, ghosts>>

ReadBackFails(p) == At(p, "readback") /\ Fails(p, "written-unverified")

-----------------------------------------------------------------------------
(***************************************************************************)
(* The projection transaction: one row per identity and handle, refused    *)
(* when the handle has a row of another identity.                          *)
(***************************************************************************)
Identity(p) == IF At(p, "project") THEN p ELSE content[p].by

Conflicts(id, h) == \E row \in rows : row[1] # id /\ row[2] = h

Project(p) ==
  /\ pc[p] \in {"project", "link"}
  /\ ~Conflicts(Identity(p), key[p])
  /\ rows' = rows \cup {<<Identity(p), key[p]>>}
  /\ Conclude(p, IF At(p, "project") THEN "registered" ELSE "linked-existing")
  /\ UNCHANGED <<disk, holder, bindings, ghosts>>

ProjectConflicts(p) ==
  /\ pc[p] \in {"project", "link"}
  /\ Conflicts(Identity(p), key[p])
  /\ Fails(p, "conflict")

ProjectFails(p) ==
  /\ pc[p] \in {"project", "link"}
  /\ Fails(p, IF At(p, "project") THEN "registered-unlinked" ELSE "stopped")

-----------------------------------------------------------------------------
(***************************************************************************)
(* unregister, with the lock: the handle, then the bytes, then the bytes   *)
(* again, then the conditional delete, which reads them a last time.       *)
(***************************************************************************)
Recheck(p) ==
  /\ At(p, "recheck")
  /\ parent = handle[p]
  /\ Goto(p, "compare")
  /\ UNCHANGED <<disk, holder, rows, bindings, ghosts>>

\* Mutant: after the lock only the handle is compared.
CompareHandleOnly(p) ==
  /\ At(p, "compare")
  /\ Goto(p, "unlink")
  /\ UNCHANGED <<disk, holder, rows, bindings, ghosts>>

Compare(p) ==
  /\ At(p, "compare")
  /\ marker = content[p]
  /\ Goto(p, "unlink")
  /\ UNCHANGED <<disk, holder, rows, bindings, ghosts>>

\* A difference, or a read that fails.
RecheckFails(p) ==
  /\ pc[p] \in {"recheck", "compare", "unlink"}
  /\ Fails(p, "changed-marker-stopped")

\* os.unlink removes whatever is at the path.
UnlinkMarker(p) ==
  /\ At(p, "unlink")
  /\ IsPresent(marker)
  /\ removed' = [removed EXCEPT ![p] = marker]
  /\ marker' = Absent
  /\ Goto(p, "verify")
  /\ UNCHANGED <<parent, parents, holder, rows, bindings,
                 created, published, outside, dirty>>

VerifyAbsent(p) ==
  /\ At(p, "verify")
  /\ ~IsPresent(marker)
  /\ Goto(p, "forget")
  /\ UNCHANGED <<disk, holder, rows, bindings, ghosts>>

\* Every read-back finds a file, or fails.
VerifyFails(p) == At(p, "verify") /\ Fails(p, "changed-marker-stopped")

\* _remove_projection; its failure is swallowed.
Forget(p) ==
  /\ At(p, "forget")
  /\ rows' \in {rows, rows \ {<<content[p].by, handle[p]>>}}
  /\ Conclude(p, "unregistered")
  /\ UNCHANGED <<disk, holder, bindings, ghosts>>

-----------------------------------------------------------------------------
(***************************************************************************)
(* resolve-invalid, with the lock: nothing is compared again.              *)
(***************************************************************************)
DeleteInvalid(p) ==
  /\ At(p, "delete")
  /\ removed' = [removed EXCEPT ![p] = marker]
  /\ marker' = Absent
  /\ Goto(p, "confirmGone")
  /\ UNCHANGED <<parent, parents, holder, rows, bindings,
                 created, published, outside, dirty>>

DeleteFails(p) == At(p, "delete") /\ Fails(p, "stopped")

ConfirmGone(p) ==
  /\ At(p, "confirmGone")
  /\ ~IsPresent(marker)
  /\ Fails(p, "invalid-marker-resolved")

ConfirmFails(p) == At(p, "confirmGone") /\ Fails(p, "invalid-deleted-unverified")

-----------------------------------------------------------------------------
(***************************************************************************)
(* The world: crashes, and programs that do not use the lock.              *)
(***************************************************************************)
Crash(p) ==
  /\ pc[p] \notin {"idle", "done", "dead"}
  /\ pc' = [pc EXCEPT ![p] = "dead"]
  /\ result' = [result EXCEPT ![p] = IF @ = "none" THEN "crashed" ELSE @]
  /\ UNCHANGED <<disk, holder, rows, bindings, ghosts>>

Outside ==
  /\ outside < MaxOutside
  /\ outside' = outside + 1
  /\ dirty' = (dirty \/ LiveHolder)
  /\ parent # ABSENT

\* A hand edit, a restored copy of an earlier marker, a deletion.
EditMarker ==
  /\ Outside
  /\ marker' \in {Absent, Junk, Valid(Stray)} \cup {Valid(i) : i \in published}
  /\ published' = IF IsValid(marker') THEN published \cup {marker'.by} ELSE published
  /\ UNCHANGED <<parent, parents, holder, rows, pc, bindings, result, created, removed>>

\* .workstream is removed with all that is in it, or replaced by a new one.
RemoveParent ==
  /\ Outside
  /\ \/ parent' = ABSENT /\ UNCHANGED parents
     \/ parents' = parents + 1 /\ parent' = parents'
  /\ marker' = Absent
  /\ holder' = Nobody
  /\ UNCHANGED <<rows, pc, bindings, result, created, removed, published>>

-----------------------------------------------------------------------------
Inspect(p) ==
  \/ CaptureHandle(p) \/ InspectStops(p)
  \/ ObserveAbsent(p) \/ ObserveValid(p) \/ ObserveInvalid(p)
  \/ BindEnvelope(p) \/ EnvelopeFails(p) \/ Decline(p)

Revalidate(p) ==
  \/ RevalidateDraft(p) \/ RevalidateRemoval(p) \/ RevalidateResolution(p)
  \/ RevalidationFails(p)

Lock(p) == MakeParent(p) \/ TakeLock(p) \/ LockUnavailable(p) \/ Release(p)

Register(p) ==
  \/ CaptureCreated(p) \/ CaptureFails(p)
  \/ CreateMarker(p) \/ CreateFails(p) \/ CreateCollides(p)
  \/ LinkCollision(p) \/ CollisionInvalid(p)
  \/ FillMarker(p) \/ FillFails(p) \/ ReadBack(p) \/ ReadBackFails(p)
  \/ Project(p) \/ ProjectConflicts(p) \/ ProjectFails(p)

Unregister(p) ==
  \/ Recheck(p) \/ Compare(p) \/ RecheckFails(p) \/ UnlinkMarker(p)
  \/ VerifyAbsent(p) \/ VerifyFails(p) \/ Forget(p)

Resolve(p) ==
  \/ DeleteInvalid(p) \/ DeleteFails(p) \/ ConfirmGone(p) \/ ConfirmFails(p)

Step(p) ==
  \/ Inspect(p) \/ Revalidate(p) \/ Lock(p)
  \/ Register(p) \/ Unregister(p) \/ Resolve(p)

Next ==
  \/ \E p \in Sessions : Step(p) \/ Crash(p)
  \/ EditMarker \/ RemoveParent

Spec == Init /\ [][Next]_vars
-----------------------------------------------------------------------------
(***************************************************************************)
(* Properties.                                                             *)
(***************************************************************************)
PCs == {"idle", "observe", "envelope", "confirmed", "lock", "capture",
        "create", "collide", "fill", "readback", "project", "link", "recheck",
        "compare", "unlink", "verify", "forget", "delete", "confirmGone",
        "release", "done", "dead"}

Outcomes == {"none", "registered", "registered-unlinked", "linked-existing",
             "conflict", "occupied-invalid", "written-unverified",
             "unregistered", "changed-marker-stopped", "stopped", "cancelled",
             "invalid-marker-resolved", "invalid-deleted-unverified",
             "not-invalid", "error", "crashed"}

\* Every variable has its type, and a marker is only ever on disk inside a
\* directory that is there.
TypeOK ==
  /\ parents \in Handles /\ parent \in {ABSENT, parents}
  /\ marker \in Markers /\ (parent = ABSENT => marker = Absent)
  /\ holder \in Sessions \cup {Nobody}
  /\ rows \subseteq Idents \X Handles
  /\ pc \in [Sessions -> PCs]
  /\ handle \in [Sessions -> Handles] /\ key \in [Sessions -> Handles]
  /\ content \in [Sessions -> Markers]
  /\ result \in [Sessions -> Outcomes]
  /\ created \subseteq Registrars
  /\ removed \in [Sessions -> Markers]
  /\ published \subseteq Idents
  /\ outside \in 0 .. MaxOutside
  /\ dirty \in BOOLEAN

\* unregister deletes the marker the operator confirmed or nothing, however
\* registrations, other removals, crashes and stale locks fall between its
\* inspection and its unlink; only a program that ignores the lock and writes
\* while the lock is held can make it delete something else (the limitation
\* protocol section 11 discloses), or a stale replacement of the lock that raced.
DeletesOnlyConfirmed ==
  ~dirty => \A p \in Unregistrars : removed[p] \in {Absent, content[p]}

\* When register is about to return registered, still under the lock, the
\* marker at the path is the one it drafted, complete, and the projection has
\* its row under the handle of the directory the marker is in.
RegisteredIsReal ==
  ~dirty => \A p \in Registrars :
    At(p, "release") /\ result[p] = "registered" =>
      marker = Valid(p) /\ <<p, parent>> \in rows

\* No session ever overwrites a marker: a marker that is present stays as it
\* is until its own author completes it, somebody deletes it, or a program
\* outside the protocol touches it.
CreateOnly ==
  [][IsPresent(marker) /\ marker' # marker /\ outside' = outside =>
       \/ marker' = Absent
       \/ \E p \in Registrars : At(p, "fill") /\ marker = Partial(p)
                                              /\ marker' = Valid(p)]_vars

\* Every projection row names an identity whose marker was once valid on disk
\* (never a draft that was cancelled, collided or was left partial), and no
\* two identities share a handle.
RowsWerePublished ==
  /\ \A row \in rows : row[1] \in published
  /\ \A r1, r2 \in rows : r1[2] = r2[2] => r1 = r2

\* The registry of WorkspaceRegistry, read off the files: the workspace is
\* registered while its marker is valid.
IdentityIn(m) == IF IsValid(m) THEN m.by ELSE NoIdent

Effect == [p \in Sessions |-> IF p \in published THEN "published"
                              ELSE IF IsValid(removed[p]) THEN "retired"
                              ELSE "nothing"]

Chosen == [p \in Sessions |-> IdentityIn(content[p])]

Registry == INSTANCE WorkspaceRegistry WITH
  None    <- NoIdent,
  current <- IdentityIn(marker),
  chosen  <- Chosen,
  effect  <- Effect,
  report  <- result

\* resolve-invalid has deleted a valid marker (see ResolvesOnlyConfirmed).
Overtaken == \E v \in Resolvers : IsValid(removed[v])

\* Until a program outside the protocol writes under a held lock, the lock is
\* taken from a live holder, or a resolve-invalid that was overtaken deletes a
\* valid marker, every step of the sessions is a step of the abstract registry
\* or leaves it alone: an identity is published only into an unregistered
\* workspace, only the confirmed identity is retired, each at most once per
\* session and in one step, and what is reported is what happened.
RegistryUntilDirty ==
  /\ Registry!Init
  /\ [][dirty' \/ Overtaken' \/ outside' # outside \/ [Registry!Next]_Registry!registryVars]_vars

\* docs/architecture/state-machine.md:101 and registration.py:1098-1101:
\* resolve-invalid deletes the bound invalid marker; for a changed marker it
\* reports cancelled and deletes nothing.
ResolvesOnlyConfirmed ==
  \A p \in Resolvers : removed[p] \in {Absent, content[p]}
=============================================================================
