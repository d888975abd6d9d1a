# Arjim: a TLA+ model of registration and dispatch

Arjim keeps work in *workstreams*. A workstream is registered into a workspace
directory by one marker file, `.workstream/manifest.json`, and work is sent to
it as *jobs* that an agent carries out. The program is two Python packages with
no daemon of its own: every command is a process of its own that works on
shared files, two SQLite stores and an agent daemon it reaches through a CLI.
What is hard about it is that many such processes run against the same files,
die anywhere, and act on what they read a while ago.

This directory models the two packages in TLA+, checks small instances with
TLC, and proves every safety property of every module with TLAPS, for any
number of processes, workspaces, jobs and records.

## Inventory

| Part | Source | State | Operations | Hard about it |
|---|---|---|---|---|
| Registration lock | `filesystem.py` 352-660, `cli.py` 314-377 | `.workstream/.registration.lock` | acquire with or without replacement of a stale lock, release, recover-lock | staleness is judged before it is acted on; crashes between create and metadata; leases; the deadline |
| Registration lifecycle | `registration.py`, `filesystem.py` | the marker, its directory, the rows of the projection | inspect, draft, confirm, register, link, read-back, collision | the operator thinks while others act; partial markers; a directory that is replaced |
| Unregister | `unregister.py` | the same | confirm, re-read under the lock, conditional delete, absence read-back, removal of the row | the read and the unlink are two steps |
| resolve-invalid | `registration.py` 1038-1183 | the same | confirm, delete, read-back | nothing is compared again under the lock |
| Link projection | `projection.py` | one table of routing rows | update, remove, rebuild, list | markers and paths are read before the transaction |
| Owner-only enforcement | `projection.py` | permissions of the store | set and verify before and after a transaction | it can fail after COMMIT |
| Marker validation | `raw_guard.py`, `validation.py`, `registration.py` 475-542 | none | bytes to state of a marker | two programs read one text; what is forbidden depends on where it stands |
| Dispatch | `dispatch.py`, `intent.py` | none of its own | confirm, resolve, write the record, spawn, bind | three places, no transaction; retries; time-outs |
| Job records | `records.py` | `.workstream/dispatch/<job>.json` | create-only write, read | a write that stops half-way |
| Dispatch store | `store.py` | bindings, baselines | bind, look up, destroy | it can be lost at any time |
| Paseo adapter | `paseo_adapter.py` | none; the agents are the daemon's | spawn, list, inspect | a call that is given up may still take effect |
| Activity answer | `activity.py` | none | one answer from all of the above | no lock and no snapshot |
| Change signal | `activity.py` 308-331, `git_adapter.py` | baselines | observe, compare, advance | concurrent observers; the baseline advances before the answer is delivered |
| Chains | `chain.py` | none | reconstruct, propose | links that agents can write: circles, forks, missing predecessors |
| Outcome notes | `records.py` 239-339 | none | one guarded read | the path gate |
| Command lines, diagnostics, conformance runners, contracts | `cli.py`, `diagnostics.py`, `conformance_runner.py`, `contracts/` | none | parsing, wording, test driving, data | - |

The parts meet in files. A registration session takes the lock, creates the
marker, reads it back and updates the projection, all inside the lock;
unregister undoes this; rebuild and link reach the projection without the lock.
Dispatch reads the marker, never the lock, and writes beside it. The activity
answer reads the marker, the records, the bindings and the daemon one after the
other.

What makes each part correct:

- Lock: one session at a time in the with block; only a file of a process that
  is gone is replaced; a file without metadata, which nobody can judge, is left
  only by a session that crashed or failed to write it; every session ends.
- Registration, unregister, resolve-invalid: a marker is only created, completed
  by its author, or removed by someone who was shown it; what is reported is
  what was done; the projection never names a marker that was not there.
- Projection: one row per target; no identity is replaced by another; rows state
  what was read; a rebuild is exact.
- Dispatch: no agent without a complete record; one agent per draft; reports
  that are true, and a job that only goes forward. Answer: no agent is called
  absent that was there and that the listing had in a form the adapter reads.
- Change signal: unchanged is said only of what was recorded under the same path, as
  it was given; every signal is exact against the baseline it was compared with.
- Marker validation: the decoder's recursion is bounded by a scan that knows less
  than the decoder; what passes for valid is clean.
- Chains: a walk ends whatever the links are, and no record is told twice.

## Modules

```
LockToken  <--- refined by --- RegistrationLock <--- RegistrationLock_proofs
                                    ^ MCRegistrationLock
   (its interface is the lock of)
WorkspaceRegistry <--- refined by --- Registration <--- MCRegistration
                                    ^ Registration_proofs
ChangeBaseline <--- refined by --- ChangeSignal <--- MCChangeSignal
                                    ^ ChangeSignal_proofs
JobLedger <--- refined by --- Dispatch <--- MCDispatch
                                    ^ Dispatch_proofs
RawGuard   <--- MCRawGuard          RawGuard   <--- RawGuard_proofs ---> CountingLemmas
Projection <--- MCProjection        Projection <--- Projection_proofs
Chain      <--- MCChain             Chain      <--- Chain_proofs
```

**`RegistrationLock`** is the lock file at one system call per step. A session is
one process with one owner id: `Writers` (register, unregister and
resolve-invalid, `recover_stale=True`), `Strict` (the default) and `Recoverers`
(recover-lock). `CreateLock`/`FillLock`/`FillFails` are `_create_lock_file`;
`LockExists`, `ReadMetadata`, `ReadNothing`, `JudgeStale`, `JudgeHeld`,
`ReplaceLock`, `ReplaceFails` are `_acquire_lock_once`, `is_stale` and
`_replace_lock_file`; `Retry`/`GiveUp` the loop of `acquire_lock`; `ReleaseReads`,
`UnlinkLock` and their failures `release_lock`, which swallows every error: a session
whose unlink fails ends as `released`, like one that succeeded. A lock file is its owner and
whether its metadata is complete. Time is left out: a lease may have run out
whenever the owner is gone, or not, and a deadline may pass at any test of it.
The ghost `raced` records that an `os.replace` hit another file than the one
judged.

**`LockToken`** is what the lock promises: a token that passes from its owner to a
taker only when it is returned or its owner is gone.

**`Registration`** is the lifecycle of one workspace's marker. Each session is one
command, one read or write of a shared file per step: `CaptureHandle` and the
`Observe` actions are `inspect`, `BindEnvelope` the removal and resolution
envelopes, `Decline` the prompt, the `Revalidate` actions the comparison before
the lock, `MakeParent`, `TakeLock`, `Release` the lock (the token of `LockToken`,
since the lock implements it), `CaptureCreated` to `ReadBack` the write of
`register`, `LinkCollision` its collision path, `Project` and its failures
`_project`, `Recheck` to `Forget` unregister, `DeleteInvalid` and `ConfirmGone`
resolve-invalid. `Crash` ends a session anywhere; `EditMarker` and `RemoveParent`
are programs that ignore the lock. The text of a marker is its author and its
form; a target handle is the identity of `.workstream`, the only component that
registration itself creates. Simplifications: the workspace directory stays;
releasing the lock is one step; the end of a process is merged with the end of
its command; a projection transaction is one step. `LockRaces` lets
the token be taken from a live holder, as a racing stale replacement does. The
ghost `dirty` says that the exclusion has been broken: an outside program wrote
while a live session held the lock, or the lock was taken from one.

**`WorkspaceRegistry`** is what these commands promise together: an identity is
published into an unregistered workspace or retired by somebody who chose it,
in one step each, and `Truthful` lists the outcomes that may be reported for it.

**`Projection`** is the routing table with the sessions that reach it. `Capture`,
`Inspect`, `Bind` are the reads of link and unregister; `ReadRoot`, `SkipAlias`,
`RootFails` the loop of `rebuild`; `Update`, `Remove`, `Replace`, `List` and their
failures are one transaction each. Paths may be aliases and may be moved
(`MovePath`), markers come and go (`WriteMarker`, `DeleteMarker`).

**`Dispatch`** is dispatch and the activity answer over one workspace: the record
file, the agents of the daemon, the bindings. `Confirm` to `BindFails` follow
`dispatch`, `write_job_record`, `spawn` and `bind_job` call by call, for sessions
that may share a draft; `ListAgents` to `Deliver` follow `answer_activity`;
`Derive` is the derivation table. `ListMisread` is a listing the adapter takes no
agents from (JSON that is no list), or not all (entries of another shape); the ghost
`before` remembers for each answer which agents were there, which of them were not read, and
which jobs had been reported. A spawn that times out, or whose CLI exits with an
error, may have reached the daemon all the same. Agents change, are deleted and start late
(`AgentChanges`, `DeleteAgent`, `LateAgent`); the marker is replaced
(`MarkerChanges`); the store is destroyed (`WipeStore`).

**`JobLedger`** is what dispatching promises for one job after the other, without
sessions, drafts or a record written in steps: on record under one workstream, once
and for good (`PutOnRecord`); an agent asked for only then, and once (`Ask`);
`dispatched` reported of an agent that started, and a binding only then (`Report`);
an agent whose spawn was given up or refused may still start (`StartLate`), and one that has
gone does not come back (`Depart`). `Dispatch` implements it by a mapping that puts
each job's entry together from the sessions that asked, the record file, the daemon
and the store: a record counts when it is complete, an agent while the daemon has
it (`There`), and the stage of a job is what its author reported and whether the
spawn is still in flight (`Stage`).

**`ChangeSignal`** is the change signal of several activity answers. Each is given a
list of `Paths` and started in one of the `Directories`: a path may be given twice,
a relative one leads to another workspace from another directory, and two paths may
lead to one workspace. Git works in the workspace a path leads to (`Place`); the
baseline is kept under the path (`Path`), as `handle = str(workspace)` has it.
`ComeTo` and `Found` are the loop of `answer_activity` around the signal,
`ReadHead`, `ReadStatus` and `GitFails` are `capture_git_state`, `BaselineEqual` to
`SetBaseline` the branches of `_compute_change_signal` and the upsert of the store,
`StoreFails` an error of the store that ends the answer, `Tell` its delivery. `Work`
is whoever commits or edits meanwhile, `Wipe` the loss of the replaceable store. A
state is HEAD and the listing of `git status`, which is what the digest of the
worktree is made of. `entries` is the answer so far, one entry for each path gone
through, with two ghosts: the state the signal is about, and how often the store had
been deleted. The ghost `stale` holds the observers about to replace a baseline
other than the one they compared with.

**`ChangeBaseline`** is one observation of one path in one step: compare with the baseline
of the path, say so, replace it.

**`RawGuard`** is how the bytes of a marker come to a state: `BoundRead`,
`StrictUtf8`, `DepthScan` (one turn of the loop per step), then the decoder with the
two hooks, `Controls`, and `Classify` for the second parse and the dispatch on
version and schema, with which `_classify_marker`, `_collision_result`,
`_readback_and_project` and `_parse_marker` end alike. A text is a sequence of
classes of characters. The decoder is the library's, so the model has it as the
grammar has strings, escapes and brackets, and lets it find a fault anywhere.

**`Chain`** is `build_chain_from_records`: `Index` enters one record into the index,
`Begin`, `Extend` and `End` are a walk from one of the `Heads`. The links are
arbitrary, since the records are files that agents can write; the records come
in any order, since their order is that of time stamps. There are finitely many:
they are the files of a directory.

In `Registration` and `ChangeSignal` a crash is an action, because the lock, and a
baseline about to be replaced, outlive it. In `Projection` and `Dispatch` nothing
does, so a session that dies, or that an exception leaves, is one that takes no
further step: every interleaving the model has includes the one where it stops.

## Runs

| Run | Instance | What it shows |
|---|---|---|
| `Lock` | two writers, a strict session, a recoverer; any lock file left by a crash or come with a copied directory | until a replacement races, one holder, who owns the file; only files of dead owners are replaced; a file left behind has a culprit; every step is one of the token; every session ends |
| `Lock_broken` | two writers | violates "a live owner's lock is never broken" |
| `Registration_outside` | a registrar, an unregistrar, a resolve-invalid; one outside step | only what was confirmed is deleted, `registered` is true when returned, the registry is implemented |
| `Registration_contend` | two registrars, an unregistrar; the lock may be taken from a live holder | collisions, partial markers, crashes: nothing is written over, rows are of published markers, the registry is implemented until the exclusion breaks |
| `Registration_resolved` | a registrar and a resolver | violates "a changed marker is not deleted" |
| `Projection` | two workspaces, three paths with aliases, a linker, a forgetter, a rebuilder with three roots; one change of the world | one row per target, identities stable, rows were read, a rebuild is exact |
| `Projection_repair` | the same | violates "stale entries are repaired inside the same transaction" |
| `Dispatch` | two sessions of one draft, a direct dispatch, one answer; two changes of the world | a record before an agent, one spawn per draft, true reports, absence only of what the listing could not have shown, one workstream per answer; every job keeps to the ledger |
| `ChangeSignal` | two answers, each with the list `. .` or one absolute path, started in either of two workspaces (in one of which the two paths are aliases); two commits, two listings; one step of work, one deletion of the store | path by path: signals are exact unless a baseline is replaced unread, unchanged was recorded, captures are torn only if HEAD moved |
| `ChangeSignal_failed` | three answers, each over two paths to two workspaces, one step of work | violates "a failed observation does not advance the baseline" |
| `RawGuard` | every text of up to six classes of characters, one level of brackets allowed | the decoder is bounded, too deep is refused and nothing else is, valid is clean |
| `Chain` | every set of up to five records with every assignment of links | chains follow the links, no walk runs in a circle, no record is in two chains, linear histories are complete, every turn leaves less to do |

The bounds. `MaxOutside` and `MaxWorld` bound steps of programs outside the model,
not of the program. One outside step reaches every place of every session; two in
`Dispatch` are what it takes to replace a marker and put it back, or to start an
agent late and delete it (then only one of the sessions of the draft runs, see
`Calm` in `MCDispatch`). Sessions run once, so repeated commands are more sessions,
and two of a kind are the least that race; the lock has four, so that two replacers
can judge the file of a third. Two identities and two workspaces are the least that
can be mixed up; three roots with an alias are the least where a position and a
count differ. `Statuses` has the status agents start in and one other, as nothing
but `StateOf` tells the others apart. In `ChangeSignal` two answers of two
observations each are the least that can race and then be told what was left, by the
other or by themselves; with one step of work and the relative path in two
workspaces the state a path leads to changes and changes back; `MaxWipes` of one
empties the store between any read and the write after it. `ChangeSignal_failed`
needs three answers: one that records, one that finds the change and fails, one that
is told. Six characters hold an open bracket, a string of an escaped quote, a
further string and the bracket that a scan without escapes would take for its
inside. `Linkers` have no run of their own: a linker does what a registrar does that
finds a valid marker, and the theorems hold for any number of them. Five records are
enough for a chain of two beside a circle of two and a record that follows itself.
Symmetry is over values that nothing orders or compares (identities, targets, job
ids of chains, sessions of one kind with one draft), and never used in the run with
liveness. Sessions end, so deadlock is not checked.

Fairness is assumed in `Lock` only. `WF` on the steps of a session that has begun:
processes are scheduled by the operating system and no step waits for another
process. `SF` on `GiveUp`: the loop of `acquire_lock` tests a monotonic clock
against a fixed deadline in every turn, so a session that keeps testing finds it
passed, though a turn may find it not yet passed.

## Proofs

`RegistrationLock_proofs` proves, for any sets of sessions (assuming only that the
kinds are disjoint and the names of owners distinct, `SessionsAssumption`):

- `TypeCorrect`, `ReplacesOnlyStale`: a session about to replace read an owner that
  is gone; the theorems below need it. Inductive because nobody returns from the
  dead (`OthersKeep`).
- `HolderOwns`: until a race, whoever is in the with block, or about to unlink,
  owns the complete file at the path, and whoever is filling it owns the empty
  one. This is the strengthening: exclusion itself is not inductive, but the
  file has one owner. A replacement keeps it because the file that is replaced
  is, without a race, the one that was judged, and its owner is gone.
- `Exclusion` follows. `StrictExclusion`: with strict sessions only, `raced` stays
  false and exclusion has no condition.
- `Leftover`: inductive only together with `BystanderOwnsNothing`, that who has not
  obtained the lock owns no file, and that the file of a holder is complete, so that
  an unlink that fails leaves one the next writer can judge.
- `ImplementsToken`: the initial states are the token's, and every step before the
  first race is a step of the token or a stutter.

`Dispatch_proofs` proves every safety invariant of `Dispatch`, for any drafts,
sessions, answerers and doings of the outside world (assuming only that the
kinds of sessions and jobs are disjoint and that `None` is none of the values it
stands beside, `DispatchAssumption`):

- `RecordBeforeAgent`, `OneSpawn`, `HonestResults`: the strengthening is `OneAuthor`,
  that of the sessions of one job one at most is past the exclusive create, with
  `Filling` and `Filled`, what the record says of its author. A second author
  would have found no record where the first one left one. A binding is of a
  job whose author reported it (`BoundIsTold`), so what was given up is unbound.
- `AbsenceHeard`, `NeverDispatchedTrue`, `NotFoundDispatched`, `OneStream`: an answer is
  made of reads of different age, so the invariant relates each to what became
  of it: the listing holds whatever was there and could be read (`HeardThere`), the binding
  was looked up in a store that only loses what is counted as lost (`LookedUp`,
  `ToldIsStored`), and a record that was read complete is never written again
  (`ReadIsFull`, from the exclusive create), so its identity stays (`OwnIdentity`).
- `TypeCorrect`: the types alone are not inductive; that a record has an identity
  needs `Resolved`.
- `ImplementsLedger`: the initial states are the ledger's, and every step of every
  session, of the daemon and of the other programs is a step of the ledger for one
  job or leaves the ledger alone. The sessions that asked for an agent of a job are
  its author or nobody (`OutcomeIsAuthors`), so what they reported is one report,
  and with the agents that ever were it tells how far the job is (`StageIsTold`). It
  adds `LedgerInv` to the invariants above: only a spawn whose session gave it up,
  or saw it refused, is in flight, and only a job that was asked for ever had an
  agent. `KeepsLedger` is the property the run checks; its disjunct `UNCHANGED
  entries` names the variables the ledger is a function of, so that it allows no
  step the ledger does not (`NothingEntered`), and spares TLC the mapping in the
  others.

`Chain_proofs` proves, for any set of job ids and any links:

- `FollowsLinks`, `TypeCorrect`: what the index names follows the job it is named
  under (`Indexed`).
- `NothingTwice`: that no walk runs in a circle and that no two chains share a record
  are inductive together only. A record that a walk would meet again
  is not a head, so in its chain it comes after the one record it follows, and
  that is where the walk stands; by disjointness and the absence of circles so
  far it is the last of this very chain, and nothing comes after it (`NewRecord`).
  It needs heads to be unmet until their walk begins (`HeadsWait`).
- `LosesNothing`: while no two links name one job, the index forgets none of them
  (`Remembers`), so a chain ends where nothing follows (`WalkedOut`), and every head
  is met (`HeadsMet`). The records in no chain would then be closed under the links
  they follow, and `Linear` has no such set.
- `Terminates`: every step lowers `Left`, which counts the records to index, the heads
  to begin at, the records no walk has met and the chain to return. A turn of the
  walk lowers it because the record it goes on to is one no walk has met (from
  `NewRecord`, as for the circles), so the safety invariants are what makes the loop
  end. It needs the records to be finitely many, which `Init` says.

`Registration_proofs` proves, for any numbers of registrars, unregistrars, resolvers
and linkers, with or without a lock that races (assuming only that the kinds are
disjoint and that `Stray`, `Nobody` and the absence of an identity are no sessions,
`RegistrationAssumption`):

- `CreatesOnly` and `RowsPublished` need no lock at all: a marker is filled by the
  session that created it (`Kinds`, `Counted`), and whatever a session is about to
  project was in a complete marker when it read it (`Published`).
- `ConfirmedDeletes`, `RegisteredReal`: while the exclusion is unbroken only the holder is
  past the lock (`Exclusive`), so what it read there is still so (`Known`), and what
  an unregister removed was what its operator saw (`RemovedLate`).
- `ImplementsRegistry`: every step before the exclusion breaks is a step of
  `WorkspaceRegistry` or leaves it alone. `History` keeps what was ever published,
  `Reports` that an outcome is given only for what was done.

`Projection_proofs` proves every safety property of `Projection`, for any sessions,
workspaces, paths and roots (`ProjectionAssumption`):

- `OneRow`, `StableIdentity`: each transaction checks what it replaces; a rebuild's
  entries have one row per target because aliases are skipped (`BoundOnce`).
- `RowsRead`: what a session holds was read from the marker of its target while its
  path led there (`BoundWasRead`, `StillLeads`, `Remembered`).
- `RebuildExact`: the entries are the roots gone through so far (`Gathered`), and the
  transaction leaves them and nothing else (`ReplacedIsBound`).

`ChangeSignal_proofs` proves its properties for any answers, paths, lists of them,
directories, workspaces and git states: the baseline of a path is what some entry
for that path records since the last deletion (`BaselineWasRecorded`,
`DecisionHolds`), so what is called unchanged was recorded by another answer or
earlier in the same one (`UnchangedIsKnown`); between the two git commands a capture
is of a state that was shown unless HEAD moved (`SnapshotIsReal`); an observer that
is not `stale` replaces just what it compared with, so its step, for its path, is
one of `ChangeBaseline` (`SignalsAreExact`).

`RawGuard_proofs` proves, for any limit and any text:

- `DecoderIsBounded`: the decoder is in a string just where the scan was, and in no
  more containers than the scan had counted there (`InStep`); the scan, which is over
  by then, is kept as a ghost, `trail` (`Trailed`), and was never too deep
  (`Shallow`).
- `ValidMarkersAreClean`: a repeated name is pending until its object ends
  (`Watched`), so a document that ends has none, and one with a control is refused.
- `DepthExact`: the scan refuses just the texts in which some stretch opens, outside
  strings, more than `MaxDepth` brackets beyond those it closes. The reference,
  `Deep`, has no counter and no scan: it counts a stretch of the text between any two
  places with a function `Inside` that recurs over the text and counts backslashes.
  The proof has three parts, each an induction over the places the scan has passed:
  the scan is in a string just where `Inside` says so (`ScanIsInside`); what it has
  counted at a place is at least what any stretch that ends there opens more than it
  closes (`DepthBoundsStretches`); and it is just that of one stretch, which begins
  after the last bracket that closed nothing (`DepthIsReached`).

`CountingLemmas` has the one principle these need: `SetInduction`, induction over the
natural numbers stated for a set instead of a predicate, from theorems of the library
on finite sets and injections. That recursive functions of the model have
the values their definitions give (`InsideRecursion`) is proved with it too: the
function is assembled from its restrictions to shorter prefixes (`RuledDefined`).

What stays with TLC: that every session of the lock ends, which rests on fairness,
and the runs that end in a violation.

## Where the code and its documents differ

Four differences are runs that end in a counterexample (see `PROJECT.json`,
"findings"). Others were met while modelling and have no run:

- `registration.py:908` projects a collision under the handle captured before
  `.workstream` existed; linking again finds another handle and adds a second row,
  where `docs/architecture/state-machine.md:114` calls linking idempotent.
- `raw_guard.py:37-38` has the module return results only; an integer of more than
  4300 digits makes `json.loads` raise a plain `ValueError` that `_decode_with_hooks`
  (`raw_guard.py:195-205`) does not catch (`TooManyDigits`).
- `raw_guard.py:4-22` orders duplicates before non-finite numbers; the decoder finds
  them in the order of the text, so `{"a":NaN,"a":1}` is refused as non-finite. A
  text that does not decode, `null` among them, is scanned as a text, so that a line
  break in it is a prohibited control.
- AE5 of the dispatch plan has a pending permission told as needs-operator; when the
  inspection fails after a listing that succeeded, `activity.py:235` takes the job as
  having nothing pending and tells the listed status.
- `git_adapter.py:30` calls what it captures a snapshot; HEAD and the listing are two
  commands (`SnapshotUnlessMoved` says what is left). The digest is of the listing,
  so further edits to a file that is already listed are no change.
- `docs/architecture/filesystem-and-projection.md:29` has stale locks replaced by
  recover-lock only; `filesystem.py:510` replaces them in every writing command.
- `filesystem.py:636-639` has malformed lock metadata raise; `filesystem.py:646`
  answers True and leaves the file.
- `docs/architecture/state-machine.md:34` has changed-marker-stopped delete nothing;
  `unregister.py:360` reports it after an unlink whose read-back fails.
- `docs/architecture/state-machine.md:28` calls stopped a no-write stop;
  `registration.py:910` reports it over a partial marker.
- `cli.py:774-775` has inspect modify nothing; `cli.py:596` upserts a row.
- `projection.py:492-494` reports a failure after COMMIT when a sidecar's
  permissions have weakened.
- The plan of the dispatch loop (AE7, R17) has jobs of a wiped store report
  not-found; `activity.py:54` and the tests have never-dispatched. AE2 has a job
  whose spawn failed report never-dispatched; one whose spawn timed out may run.
- `dispatch.py:6-7` promises a degraded-binding note; `dispatch.py:178` swallows
  the failure.
- `paseo_adapter.py:186` takes any JSON that is not a list for an empty list, and
  189 skips entries of another shape; jobs whose agents are there are then told
  absent (not-found or never-dispatched), where
  `contracts/workstream-dispatch/v1/job-state.md:30` wants a daemon that cannot be
  heard told unreachable, never mistaken for absent work. `AbsenceIsHeard` is
  therefore about agents the listing could read.
- `activity.py:309` calls the change signal per-workspace; the baseline is kept under
  `str(path)` (`activity.py:314-315`), and `cli.py:203` neither resolves the paths nor
  drops repeated ones. `activity ws ws` says unchanged of what its own first entry
  recorded, `activity .` in two clones shares one baseline, and two spellings of one
  workspace have two. The properties are about paths for this reason.
- `filesystem.py:573-576` swallows the error of the unlink: a command that reports
  success may leave its lock file, complete, for the next writer to find stale.
- `contracts/workstream-dispatch/v1/job-state.md` has rows for running and error without
  a word of archived agents, which the code and `Derive` tell as superseded whatever
  their status (`activity.py:61`).
- `intent.py:197-198` has a confirmation consumed before any write so that it cannot be
  replayed; nothing stores that it was, and a second dispatch of the draft is
  stopped by the record file instead (`OneSpawn`).
- `chain.py:47` reconstructs chains from records alone; after a fork, or when a
  predecessor has no record, a record is in no chain.
- The digest an operator confirms covers the instruction only; `dispatch.py:102`
  resolves the identity anew.

## Not modelled, and why

- The bytes of UTF-8 and the size limit, and the closed schema: pure, and a choice of
  outcomes in `RawGuard`. The other models use the state of a marker that comes out.
  Digests: two texts have one digest only if they are equal.
- Owner-only enforcement: an outcome of each transaction.
- Outcome notes, validate_posture, show: they read and change nothing, and no later
  step depends on what they read.
- Diagnostics: bounded wording of outcomes the models name.
- Time stamps, labels, wording, exit codes, argument parsing.
- Conformance runners and fixtures: they drive the code for tests.

## Plan

Done: all the parts that keep state or act on it, each with its proofs. What is left,
in the order of what it would add:

1. Outcome notes in `Dispatch`: an answer reads them after the state of the job, from a
   file the agent is still writing.
2. The activity answer over several workspaces in one module with `ChangeSignal`, to
   say of a whole answer what both say of its halves.
3. The interactive flows of `cli.py` with their prompts and exit codes.
