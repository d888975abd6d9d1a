----------------------------- MODULE ChangeSignal -----------------------------
(***************************************************************************)
(* The change signal of the activity answer (activity.py,                  *)
(* _compute_change_signal; git_adapter.py, capture_git_state; the baseline *)
(* table of store.py).                                                     *)
(*                                                                         *)
(* An observer is one process answering one activity command.  It goes     *)
(* through the paths it was given, in their order and as often as they are *)
(* given; at each it asks git for HEAD, then for the status, reads the     *)
(* baseline, and, where that differs, replaces it.  Only after the last is *)
(* the answer told.  Git works in the workspace the path leads to from     *)
(* where the command was started; the baseline is kept under the path as   *)
(* it was given, so that one workspace can have several baselines and      *)
(* several workspaces can share one.  Observers run concurrently with one  *)
(* another and with whoever works in the workspaces, and the store, which  *)
(* is replaceable, can be deleted at any time.                             *)
(***************************************************************************)
EXTENDS Naturals, Sequences

CONSTANTS
  Observers,    \* activity answers
  Workspaces,
  Paths,        \* what a workspace is called on the command line
  Lists,        \* the scan lists commands are given
  Directories,  \* where a command is started: what each path leads to from there
  Heads,        \* the commits HEAD can be at
  Statuses,     \* what git status lists, which is all the digest tells apart
  None,         \* no baseline; nothing captured
  MaxWork,      \* bound: steps of those who work in the workspaces
  MaxWipes      \* bound: deletions of the store

Captures == [head_oid : Heads, worktree : Statuses]

\* What an observer has of a state: HEAD, and the status or nothing yet.
Readings == [head_oid : Heads, worktree : Statuses \cup {None}]

ASSUME ChangeSignalAssumption ==
  /\ Lists \subseteq Seq(Paths)
  /\ Directories \subseteq [Paths -> Workspaces]
  /\ None \notin Captures
  /\ MaxWork \in Nat /\ MaxWipes \in Nat

VARIABLES
  git,        \* the state of each workspace: HEAD and what status lists
  baseline,   \* the baselines table, by handle, which is the path
  scan,       \* the scan list of each observer
  leads,      \* the directory it was started in
  pc,         \* where it is
  state,      \* what it has captured of the workspace it is at, or None
  entries,    \* what its answer has so far, one entry for each path done;
              \* with two ghosts: the state the signal is about, or None,
              \* and how often the store had been deleted when it arose
  (* ghosts *)
  stale,      \* observers about to replace a baseline other than the one read
  shown,      \* the states the workspace was in while the observer captured
  work, wipes \* how many bounded steps have been taken

command == <<scan, leads>>
answer  == <<pc, state, entries>>
ghosts  == <<stale, shown, work, wipes>>
vars    == <<git, baseline, command, answer, ghosts>>

Init ==
  /\ git \in [Workspaces -> Captures]
  /\ baseline = [path \in Paths |-> None]
  /\ scan \in [Observers -> Lists]
  /\ leads \in [Observers -> Directories]
  /\ pc = [o \in Observers |-> "next"]
  /\ state = [o \in Observers |-> None]
  /\ entries = [o \in Observers |-> <<>>]
  /\ stale = {}
  /\ shown = [o \in Observers |-> {}]
  /\ work = 0 /\ wipes = 0

-----------------------------------------------------------------------------
(***************************************************************************)
(* An answer.                                                              *)
(***************************************************************************)
At(o, step)   == pc[o] = step
Goto(o, step) == pc' = [pc EXCEPT ![o] = step]

\* The path the observer is at, and the workspace it finds there.
Path(o)  == scan[o][Len(entries[o]) + 1]
Place(o) == leads[o][Path(o)]

\* The signal for the path is found: on to the next one.
Found(o, signal, capture) ==
  /\ entries' = [entries EXCEPT ![o] =
       Append(@, [workspace_path |-> Path(o), change_signal |-> signal,
                  captured |-> capture, era |-> wipes])]
  /\ state' = [state EXCEPT ![o] = None]
  /\ shown' = [shown EXCEPT ![o] = {}]
  /\ Goto(o, "next")

\* On to the next path; the jobs there are gone through first, and nothing
\* they give matters here.
ComeTo(o) ==
  /\ At(o, "next")
  /\ Len(entries[o]) < Len(scan[o])
  /\ Goto(o, "head")
  /\ UNCHANGED <<git, baseline, command, state, entries, ghosts>>

ReadHead(o) ==
  /\ At(o, "head")
  /\ state' = [state EXCEPT ![o] = [head_oid |-> git[Place(o)].head_oid, worktree |-> None]]
  /\ shown' = [shown EXCEPT ![o] = {git[Place(o)]}]
  /\ Goto(o, "status")
  /\ UNCHANGED <<git, baseline, command, entries, stale, work, wipes>>

\* Mutant: while HEAD is that of the baseline the status is not asked for.
ReadStatusIfMoved(o) ==
  /\ At(o, "status")
  /\ state' = [state EXCEPT ![o].worktree =
       IF baseline[Path(o)] # None /\ baseline[Path(o)].head_oid = state[o].head_oid
       THEN baseline[Path(o)].worktree ELSE git[Place(o)].worktree]
  /\ Goto(o, "compare")
  /\ UNCHANGED <<git, baseline, command, entries, ghosts>>

ReadStatus(o) ==
  /\ At(o, "status")
  /\ state' = [state EXCEPT ![o].worktree = git[Place(o)].worktree]
  /\ Goto(o, "compare")
  /\ UNCHANGED <<git, baseline, command, entries, ghosts>>

\* Mutant: a status that fails is one that lists nothing.
StatusFailsEmpty(o) ==
  /\ At(o, "status")
  /\ Goto(o, "compare")
  /\ UNCHANGED <<git, baseline, command, state, entries, ghosts>>

\* Not a repository, no commit, no git, a time-out: unsupported.
GitFails(o) ==
  /\ pc[o] \in {"head", "status"}
  /\ Found(o, "unsupported", None)
  /\ UNCHANGED <<git, baseline, command, stale, work, wipes>>

BaselineEqual(o) ==
  /\ At(o, "compare")
  /\ baseline[Path(o)] = state[o]
  /\ Found(o, "unchanged", state[o])
  /\ UNCHANGED <<git, baseline, command, stale, work, wipes>>

\* Mutant: without a baseline there is no change.
NoBaselineUnchanged(o) ==
  /\ At(o, "compare")
  /\ baseline[Path(o)] = None
  /\ Found(o, "unchanged", state[o])
  /\ UNCHANGED <<git, baseline, command, stale, work, wipes>>

NoBaseline(o) ==
  /\ At(o, "compare")
  /\ baseline[Path(o)] = None
  /\ Goto(o, "bootstrap")
  /\ UNCHANGED <<git, baseline, command, state, entries, ghosts>>

BaselineDiffers(o) ==
  /\ At(o, "compare")
  /\ baseline[Path(o)] \notin {None, state[o]}
  /\ Goto(o, "changed")
  /\ UNCHANGED <<git, baseline, command, state, entries, ghosts>>

\* Observers that have read the baseline of the path and will replace it.
Replacing(path) == {o \in Observers : pc[o] \in {"bootstrap", "changed"} /\ Path(o) = path}

\* Mutant: the first baseline is stored, later ones are not.
SetBaselineOnce(o) ==
  /\ pc[o] \in {"bootstrap", "changed"}
  /\ baseline' = IF At(o, "bootstrap") THEN [baseline EXCEPT ![Path(o)] = state[o]] ELSE baseline
  /\ Found(o, pc[o], state[o])
  /\ stale' = (stale \cup Replacing(Path(o))) \ {o}
  /\ UNCHANGED <<git, command, work, wipes>>

\* set_baseline replaces whatever is there by now.
SetBaseline(o) ==
  /\ pc[o] \in {"bootstrap", "changed"}
  /\ baseline' = [baseline EXCEPT ![Path(o)] = state[o]]
  /\ Found(o, pc[o], state[o])
  /\ stale' = (stale \cup Replacing(Path(o))) \ {o}
  /\ UNCHANGED <<git, command, work, wipes>>

\* The process ends with nothing told; what it had captured goes with it.
Ends(o, end) ==
  /\ Goto(o, end)
  /\ state' = [state EXCEPT ![o] = None]
  /\ shown' = [shown EXCEPT ![o] = {}]
  /\ stale' = stale \ {o}

\* The store raises, at the binding of a job, at the read or at the write of a
\* baseline, and nothing catches it: the answer fails as a whole.
StoreFails(o) ==
  /\ \/ At(o, "next") /\ Len(entries[o]) < Len(scan[o])
     \/ pc[o] \in {"compare", "bootstrap", "changed"}
  /\ Ends(o, "failed")
  /\ UNCHANGED <<git, baseline, command, entries, work, wipes>>

Tell(o) ==
  /\ At(o, "next")
  /\ Len(entries[o]) = Len(scan[o])
  /\ Goto(o, "told")
  /\ UNCHANGED <<git, baseline, command, state, entries, ghosts>>

Crash(o) ==
  /\ pc[o] \notin {"told", "failed", "dead"}
  /\ Ends(o, "dead")
  /\ UNCHANGED <<git, baseline, command, entries, work, wipes>>

-----------------------------------------------------------------------------
(***************************************************************************)
(* The world.                                                              *)
(***************************************************************************)

\* A commit, a checkout, an edit: HEAD, what status lists, or both.
Work(w, g) ==
  /\ work < MaxWork
  /\ work' = work + 1
  /\ g # git[w]
  /\ git' = [git EXCEPT ![w] = g]
  /\ shown' = [o \in Observers |-> IF At(o, "status") /\ Place(o) = w THEN shown[o] \cup {g}
                                  ELSE shown[o]]
  /\ UNCHANGED <<baseline, command, answer, stale, wipes>>

\* The store's file is deleted; the next connection makes an empty one.
Wipe ==
  /\ wipes < MaxWipes
  /\ wipes' = wipes + 1
  /\ baseline' = [path \in Paths |-> None]
  /\ stale' = stale \cup UNION {Replacing(path) : path \in Paths}
  /\ UNCHANGED <<git, command, answer, shown, work>>

-----------------------------------------------------------------------------
Observe(o) ==
  \/ ComeTo(o) \/ ReadHead(o) \/ ReadStatus(o) \/ GitFails(o)
  \/ BaselineEqual(o) \/ NoBaseline(o) \/ BaselineDiffers(o)
  \/ SetBaseline(o) \/ StoreFails(o) \/ Tell(o)

Next ==
  \/ \E o \in Observers : Observe(o) \/ Crash(o)
  \/ \E w \in Workspaces, g \in Captures : Work(w, g)
  \/ Wipe

Spec == Init /\ [][Next]_vars

-----------------------------------------------------------------------------
(***************************************************************************)
(* Properties.                                                             *)
(***************************************************************************)
PCs == {"next", "head", "status", "compare", "bootstrap", "changed",
        "told", "failed", "dead"}

Entries == [workspace_path : Paths,
            change_signal : {"bootstrap", "unchanged", "changed", "unsupported"},
            captured : Captures \cup {None}, era : 0 .. MaxWipes]

\* Every variable has its type; an observer at work has a path to be at, and a
\* state has been captured where it is compared.
TypeOK ==
  /\ git \in [Workspaces -> Captures]
  /\ baseline \in [Paths -> Captures \cup {None}]
  /\ scan \in [Observers -> Lists]
  /\ leads \in [Observers -> Directories]
  /\ pc \in [Observers -> PCs]
  /\ state \in [Observers -> Readings \cup {None}]
  /\ entries \in [Observers -> Seq(Entries)]
  /\ stale \subseteq Observers
  /\ shown \in [Observers -> SUBSET Captures]
  /\ work \in 0 .. MaxWork /\ wipes \in 0 .. MaxWipes
  /\ \A o \in Observers :
       /\ pc[o] \in {"head", "status", "compare", "bootstrap", "changed"} =>
            Len(entries[o]) < Len(scan[o])
       /\ At(o, "status") => state[o] \in Readings
       /\ pc[o] \in {"compare", "bootstrap", "changed"} => state[o] \in Captures

\* The entry stands for c having been made the baseline of the path, since the
\* store was deleted for the e-th time.
Records(entry, path, c, e) ==
  /\ entry.workspace_path = path
  /\ entry.change_signal \in {"bootstrap", "changed"}
  /\ entry.captured = c
  /\ entry.era = e

\* "unchanged" is said only of a state that was captured under the very path
\* and recorded, as a change or as a first sight, by another answer or before
\* in the same one, since the store was last deleted: never over a wiped
\* store, however answers overlap, fail or die (R12, AE7).  It is the path as
\* given that counts: `activity ws ws` says unchanged of what it recorded
\* itself, and what was recorded under "." in one directory is what "." is
\* compared with in another (activity.py:315).
UnchangedWasSeen ==
  \A o \in Observers : \A k \in DOMAIN entries[o] :
    entries[o][k].change_signal = "unchanged" =>
      \E p \in Observers : \E m \in DOMAIN entries[p] :
        /\ p = o => m < k
        /\ Records(entries[p][m], entries[o][k].workspace_path,
                   entries[o][k].captured, entries[o][k].era)

\* HEAD and the status are read by two commands.  What they give together is
\* a state the workspace was in while they ran, never an older one nor one
\* put together from two, unless HEAD moved between them.
SnapshotUnlessMoved ==
  \A o \in Observers :
    pc[o] \in {"compare", "bootstrap", "changed"} =>
      state[o] \in shown[o] \/ \E g \in shown[o] : g.head_oid # state[o].head_oid

\* Every signal is what an observation that compares and replaces the baseline
\* of its path in one step would give, and only such observations and wipes
\* touch the baselines.  The one exception is the step of an observer that
\* replaces a baseline other than the one it compared with, because another
\* observer or a wipe came in between; what comes after such a step is exact
\* again.
Told(entry) == [path |-> entry.workspace_path, signal |-> entry.change_signal,
                saw |-> entry.captured]

Exact == INSTANCE ChangeBaseline WITH
  known <- baseline,
  said <- [o \in Observers |-> [k \in 1 .. Len(entries[o]) |-> Told(entries[o][k])]]

ExactUnlessStale ==
  /\ Exact!Init
  /\ [][(\E o \in stale : entries'[o] # entries[o]) \/ [Exact!Next]_Exact!baselineVars]_vars

\* docs/plans/2026-08-17-001-feat-workstream-dispatch-loop-plan.md:513: a failed
\* observation does not advance the baseline; the next successful observation
\* still reports the change.  A change that only a failed answer has found is
\* not told unchanged by another one.
ChangeSurvivesFailure ==
  \A o, p \in Observers : \A j \in DOMAIN entries[o], k \in DOMAIN entries[p] :
    LET found == entries[o][j]
        told  == entries[p][k]
    IN  /\ At(o, "failed") /\ found.change_signal = "changed"
        /\ At(p, "told") /\ told.change_signal = "unchanged"
        /\ told.workspace_path = found.workspace_path /\ told.captured = found.captured
        => \E q \in Observers \ {o} : \E m \in DOMAIN entries[q] :
             Records(entries[q][m], found.workspace_path, found.captured, told.era)
=============================================================================
