--------------------------- MODULE RegistrationLock ---------------------------
(***************************************************************************)
(* The per-workspace lock file .workstream/.registration.lock, one system  *)
(* call per step (workstream_registration/filesystem.py).                  *)
(*                                                                         *)
(* A session is one process running one command with one lock owner id.    *)
(* Writers are the sessions of register, unregister and resolve-invalid:   *)
(* they take the lock with recover_stale=True.  Strict sessions take it    *)
(* with the default recover_stale=False.  Recoverers run recover-lock.     *)
(*                                                                         *)
(* A lock file is named by the session that created its inode (for a file  *)
(* moved in by os.replace, by the session that wrote it) and by whether    *)
(* its metadata is complete: an exclusive create leaves an empty file      *)
(* until the metadata is written.  A file left by an earlier crashed       *)
(* process belongs to Prior; a file that came with a copied directory, and *)
(* so names another workspace, belongs to Elsewhere.                       *)
(***************************************************************************)
EXTENDS FiniteSets

CONSTANTS
  Writers,     \* sessions that acquire with recover_stale=True
  Strict,      \* sessions that acquire with recover_stale=False
  Recoverers,  \* sessions that run recover-lock
  Prior,       \* owner of a lock file left by a process that crashed before
  Elsewhere,   \* owner of a lock file that names another workspace
  Nobody       \* no owner

Sessions == Writers \cup Strict \cup Recoverers
Owners   == Sessions \cup {Prior, Elsewhere}

ASSUME SessionsAssumption ==
  /\ Writers \cap Strict = {}
  /\ Recoverers \cap (Writers \cup Strict) = {}
  /\ Prior \notin Sessions
  /\ Elsewhere \notin Sessions
  /\ Prior # Elsewhere
  /\ Nobody \notin Owners

LockFile == [owner : Owners, full : BOOLEAN]
Metadata == [owner : Owners, full : {TRUE}]
NoLock   == [owner |-> Nobody, full |-> FALSE]

VARIABLES
  lock,      \* the lock file, or NoLock
  pc,        \* where each session is
  seen,      \* the parsed metadata a session read from the lock file
  outcome,   \* what each session's lock operation ended with
  raced      \* ghost: some os.replace has overwritten another file than the
             \* one its session had read and judged stale

vars == <<lock, pc, seen, outcome, raced>>

Steps == {"idle", "create", "fill", "inspect", "judge", "replace", "backoff",
          "held", "unlink", "finished", "gone"}

Outcomes == {"none", "held", "released", "unavailable", "failed",
             "crashed", "recovered", "clear", "refused"}

Init ==
  /\ lock \in {NoLock} \cup [owner : {Prior, Elsewhere}, full : BOOLEAN]
  /\ pc = [p \in Sessions |-> "idle"]
  /\ seen = [p \in Sessions |-> NoLock]
  /\ outcome = [p \in Sessions |-> "none"]
  /\ raced = FALSE

(***************************************************************************)
(* Helpers.                                                                *)
(***************************************************************************)
At(p, step) == pc[p] = step

Goto(p, step) == pc' = [pc EXCEPT ![p] = step]

\* The lock operation of p ends; the process itself ends later (Exit).
Finish(p, result) ==
  /\ Goto(p, "finished")
  /\ outcome' = [outcome EXCEPT ![p] = result]

Gone(o) == \/ o = Prior
           \/ o \in Sessions /\ pc[o] = "gone"

-----------------------------------------------------------------------------
(***************************************************************************)
(* One acquisition attempt: _acquire_lock_once inside acquire_lock.        *)
(***************************************************************************)

Begin(p) ==
  /\ At(p, "idle")
  /\ p \in Writers \cup Strict
  /\ Goto(p, "create")
  /\ UNCHANGED <<lock, seen, outcome, raced>>

\* Mutant: opened without O_EXCL, over whatever is there.
CreateLockOver(p) ==
  /\ At(p, "create")
  /\ lock' = [owner |-> p, full |-> FALSE]
  /\ Goto(p, "fill")
  /\ UNCHANGED <<seen, outcome, raced>>

\* os.open with O_CREAT|O_EXCL.
CreateLock(p) ==
  /\ At(p, "create")
  /\ lock = NoLock
  /\ lock' = [owner |-> p, full |-> FALSE]
  /\ Goto(p, "fill")
  /\ UNCHANGED <<seen, outcome, raced>>

LockExists(p) ==
  /\ At(p, "create")
  /\ lock # NoLock
  /\ Goto(p, IF p \in Writers THEN "inspect" ELSE "backoff")
  /\ UNCHANGED <<lock, seen, outcome, raced>>

\* Any other error of os.mkdir or os.open is LockUnavailableError; mkdir's
\* FileExistsError is ignored.
CreateFails(p) ==
  /\ At(p, "create")
  /\ Goto(p, "backoff")
  /\ UNCHANGED <<lock, seen, outcome, raced>>

\* The metadata goes to the inode p created, which need not be the file at
\* the lock's path any more.
Filled(p) == IF lock.owner = p THEN [lock EXCEPT !.full = TRUE] ELSE lock

FillLock(p) ==
  /\ At(p, "fill")
  /\ lock' = Filled(p)
  /\ Goto(p, "held")
  /\ outcome' = [outcome EXCEPT ![p] = "held"]
  /\ UNCHANGED <<seen, raced>>

\* Mutant: the write error is swallowed and the session goes on.
FillFailsSilently(p) ==
  /\ At(p, "fill")
  /\ lock' \in {lock, Filled(p)}
  /\ Goto(p, "held")
  /\ outcome' = [outcome EXCEPT ![p] = "held"]
  /\ UNCHANGED <<seen, raced>>

\* Mutant: the write error is taken for a lock that is not available.
FillFailsUnavailable(p) ==
  /\ At(p, "fill")
  /\ lock' \in {lock, Filled(p)}
  /\ Goto(p, "backoff")
  /\ UNCHANGED <<seen, outcome, raced>>

\* os.write or os.fsync fails: the error leaves registration_lock.__enter__,
\* so nothing removes the file, complete or not.
FillFails(p) ==
  /\ At(p, "fill")
  /\ lock' \in {lock, Filled(p)}
  /\ Finish(p, "failed")
  /\ UNCHANGED <<seen, raced>>

-----------------------------------------------------------------------------
(***************************************************************************)
(* Looking at somebody else's lock: _read_lock_metadata, is_stale and      *)
(* _replace_lock_file, shared by the acquisition and by recover_lock.      *)
(***************************************************************************)

\* Mutant: metadata that is still being written parses too.
ReadableHalf == lock # NoLock

\* The metadata parses only when it is complete.
Readable == lock # NoLock /\ lock.full

ReadMetadata(p) ==
  /\ At(p, "inspect")
  /\ Readable
  /\ seen' = [seen EXCEPT ![p] = lock]
  /\ Goto(p, "judge")
  /\ UNCHANGED <<lock, outcome, raced>>

\* Absent and malformed metadata read as None, and so does a file that cannot
\* be read, whatever is in it.
ReadNothing(p) ==
  /\ At(p, "inspect")
  /\ IF p \in Recoverers
     THEN Finish(p, "clear")
     ELSE Goto(p, "backoff") /\ UNCHANGED outcome
  /\ UNCHANGED <<lock, seen, raced>>

\* Mutant: the lease alone decides, whether the owner is alive or not.
StaleByLease(o) == o # Elsewhere

\* LockMetadata.is_stale, after the workspace comparison, can answer yes for a
\* lock of this workspace whose owner has ended: owner_alive never reports a
\* live owner dead.  It can always answer no: the clock decides whether the
\* lease has run out, and a pid that was reused or may not be probed counts
\* as alive.
MayBeStale(o) == o # Elsewhere /\ Gone(o)

JudgeStale(p) ==
  /\ At(p, "judge")
  /\ MayBeStale(seen[p].owner)
  /\ Goto(p, "replace")
  /\ UNCHANGED <<lock, seen, outcome, raced>>

JudgeHeld(p) ==
  /\ At(p, "judge")
  /\ seen' = [seen EXCEPT ![p] = NoLock]
  /\ IF p \in Recoverers
     THEN Finish(p, "refused")
     ELSE Goto(p, "backoff") /\ UNCHANGED outcome
  /\ UNCHANGED <<lock, raced>>

\* os.replace moves the new metadata over whatever is at the path by now.
ReplaceLock(p) ==
  /\ At(p, "replace")
  /\ lock' = [owner |-> p, full |-> TRUE]
  /\ raced' = (raced \/ lock # seen[p])
  /\ seen' = [seen EXCEPT ![p] = NoLock]
  /\ IF p \in Recoverers
     THEN Finish(p, "recovered")
     ELSE Goto(p, "held") /\ outcome' = [outcome EXCEPT ![p] = "held"]

\* The temporary file cannot be opened or moved (LockUnavailableError), or
\* cannot be written (the error leaves the operation).
ReplaceFails(p) ==
  /\ At(p, "replace")
  /\ seen' = [seen EXCEPT ![p] = NoLock]
  /\ \/ Finish(p, "failed")
     \/ p \notin Recoverers /\ Goto(p, "backoff") /\ UNCHANGED outcome
  /\ UNCHANGED <<lock, raced>>

-----------------------------------------------------------------------------
(***************************************************************************)
(* The retry loop of acquire_lock: the clock decides whether the deadline  *)
(* has passed.                                                             *)
(***************************************************************************)
Retry(p) ==
  /\ At(p, "backoff")
  /\ Goto(p, "create")
  /\ UNCHANGED <<lock, seen, outcome, raced>>

\* Mutant: every attempt starts a new deadline.
GiveUpRestarts(p) ==
  /\ At(p, "backoff")
  /\ Goto(p, "create")
  /\ UNCHANGED <<lock, seen, outcome, raced>>

GiveUp(p) ==
  /\ At(p, "backoff")
  /\ Finish(p, "unavailable")
  /\ UNCHANGED <<lock, seen, raced>>

-----------------------------------------------------------------------------
(***************************************************************************)
(* release_lock, run by registration_lock.__exit__ on every exit from the  *)
(* with block.                                                             *)
(***************************************************************************)
ReleaseReads(p) ==
  /\ At(p, "held")
  /\ lock = [owner |-> p, full |-> TRUE]
  /\ Goto(p, "unlink")
  /\ UNCHANGED <<lock, seen, outcome, raced>>

\* The file is not p's, is malformed, or cannot be read: release_lock returns,
\* and nobody is told.
ReleaseSkips(p) ==
  /\ At(p, "held")
  /\ Finish(p, "released")
  /\ UNCHANGED <<lock, seen, raced>>

\* os.unlink removes whatever is at the path; FileNotFoundError is ignored.
UnlinkLock(p) ==
  /\ At(p, "unlink")
  /\ lock' = NoLock
  /\ Finish(p, "released")
  /\ UNCHANGED <<seen, raced>>

\* Any other error of os.unlink is swallowed too: the file stays, and the
\* session ends as if it had removed it.
UnlinkFails(p) ==
  /\ At(p, "unlink")
  /\ Finish(p, "released")
  /\ UNCHANGED <<lock, seen, raced>>

-----------------------------------------------------------------------------
(***************************************************************************)
(* recover_lock: the workspace is captured again and compared with the     *)
(* confirmed handle before the lock file is looked at.  The replacement    *)
(* lock it leaves is its own, and nothing releases it.                     *)
(***************************************************************************)
BeginRecovery(p) ==
  /\ At(p, "idle")
  /\ p \in Recoverers
  /\ \/ Goto(p, "inspect") /\ UNCHANGED outcome
     \/ Finish(p, "refused")
  /\ UNCHANGED <<lock, seen, raced>>

-----------------------------------------------------------------------------
(***************************************************************************)
(* The world: processes end or crash.                                      *)
(***************************************************************************)
Exit(p) ==
  /\ At(p, "finished")
  /\ Goto(p, "gone")
  /\ UNCHANGED <<lock, seen, outcome, raced>>

Crash(p) ==
  /\ pc[p] \notin {"idle", "finished", "gone"}
  /\ Goto(p, "gone")
  /\ outcome' = [outcome EXCEPT ![p] = "crashed"]
  /\ seen' = [seen EXCEPT ![p] = NoLock]
  /\ UNCHANGED <<lock, raced>>

-----------------------------------------------------------------------------
Acquire(p) ==
  \/ Begin(p) \/ CreateLock(p) \/ LockExists(p)
  \/ CreateFails(p) \/ FillLock(p) \/ FillFails(p) \/ Retry(p) \/ GiveUp(p)

Inspect(p) ==
  \/ ReadMetadata(p) \/ ReadNothing(p) \/ JudgeStale(p) \/ JudgeHeld(p)
  \/ ReplaceLock(p) \/ ReplaceFails(p)

Release(p) ==
  \/ ReleaseReads(p) \/ ReleaseSkips(p) \/ UnlinkLock(p) \/ UnlinkFails(p)

\* What the session itself does; Crash is done to it.
Step(p) == Acquire(p) \/ Inspect(p) \/ Release(p) \/ BeginRecovery(p) \/ Exit(p)

Next == \E p \in Sessions : Step(p) \/ Crash(p)

Spec == Init /\ [][Next]_vars

\* A session once begun is scheduled until it ends, and a session that tests
\* its deadline over and over finds it passed in the end.
Fairness ==
  \A p \in Sessions : /\ WF_vars(pc[p] # "idle" /\ Step(p))
                      /\ SF_vars(GiveUp(p))

FairSpec == Spec /\ Fairness
-----------------------------------------------------------------------------
(***************************************************************************)
(* Properties.                                                             *)
(***************************************************************************)

\* Every variable has its type; what a session keeps from the lock file is
\* always parsed metadata, and it keeps some exactly while it decides on it.
TypeOK ==
  /\ lock \in LockFile \cup {NoLock}
  /\ pc \in [Sessions -> Steps]
  /\ seen \in [Sessions -> Metadata \cup {NoLock}]
  /\ outcome \in [Sessions -> Outcomes]
  /\ raced \in BOOLEAN
  /\ \A p \in Sessions : seen[p] # NoLock <=> pc[p] \in {"judge", "replace"}

Holding(p) == pc[p] \in {"held", "unlink"}

\* At most one session is past a successful acquisition of the lock.
MutualExclusion ==
  \A p, q \in Sessions : At(p, "held") /\ At(q, "held") => p = q

\* As long as no os.replace has hit a file other than the one its session
\* judged stale, at most one session is in the with block: through crashes,
\* leases that run out under a slow owner, write errors that leave malformed
\* files, recover-lock, and any interleaving of the system calls.
ExclusionUnlessRaced == ~raced => MutualExclusion

\* Until such a race, a session in the with block finds its own complete
\* metadata at the lock's path, up to the moment it unlinks it: the release
\* can neither miss its own lock nor unlink another session's.
HolderOwnsLock ==
  ~raced => \A p \in Sessions :
    /\ Holding(p) => lock = [owner |-> p, full |-> TRUE]
    /\ At(p, "fill") => lock = [owner |-> p, full |-> FALSE]

\* A file without metadata cannot be judged stale, so it stops every writer
\* until somebody removes it by hand.  Only a session that crashed or failed to
\* write leaves one behind, races included.  A session that ended well can
\* leave its file too, as release_lock swallows every error
\* (filesystem.py:573-576), but then with metadata that the next writer can
\* judge; a session that never obtained the lock leaves none.
LeftoverHasCulprit ==
  \A p \in Sessions :
    pc[p] \in {"finished", "gone"} /\ lock.owner = p =>
      /\ outcome[p] \in {"failed", "crashed", "recovered", "released"}
      /\ ~lock.full => outcome[p] \in {"failed", "crashed"}

\* Every session that starts comes to an end: the acquisition is bounded by
\* its deadline whatever the other sessions do, and no exit waits for the lock.
EverySessionEnds ==
  \A p \in Sessions : pc[p] # "idle" ~> pc[p] = "gone"

\* The lock file implements the token of LockToken up to the first race: the
\* session (or past process) that owns the file has the token.
Token == INSTANCE LockToken WITH
  Holders  <- Owners,
  Departed <- {Prior},
  Free     <- Nobody,
  token    <- lock.owner,
  gone     <- {Prior} \cup {p \in Sessions : pc[p] = "gone"}

\* Every step that is not a race is a step of LockToken or leaves it alone.
TokenUntilRace ==
  /\ Token!Init
  /\ [][raced' \/ [Token!Next]_Token!tokenVars]_vars

\* docs/architecture/filesystem-and-projection.md:28, filesystem.py:26-28: a
\* live owner's lock is never broken.
LiveLockNeverBroken ==
  [][\A p \in Sessions :
       /\ lock.owner = p
       /\ pc[p] \notin {"unlink", "finished", "gone"}
       => lock'.owner = p]_vars
=============================================================================
