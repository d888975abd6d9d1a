------------------------------- MODULE Dispatch -------------------------------
(***************************************************************************)
(* Dispatching jobs into one workspace and answering what became of them   *)
(* (dispatch.py, records.py, store.py, activity.py and the calls of        *)
(* paseo_adapter.py).  A dispatch writes an immutable record, spawns an    *)
(* agent labelled with the job and stores a binding, in this order and in  *)
(* three places: the workspace, the agent daemon, a local store.  An       *)
(* answer puts the three together without a lock or a snapshot.            *)
(*                                                                         *)
(* A draft has one job id, and several sessions may dispatch it: nothing   *)
(* stores that it was confirmed.  A session that dies, or that an          *)
(* exception leaves, takes no further step.                                *)
(***************************************************************************)
EXTENDS Naturals, FiniteSets

CONSTANTS
  Drafts,      \* drafts, each with its job id
  Confirmers,  \* sessions of dispatch
  DraftOf,     \* the draft each of them was given
  Direct,      \* sessions of dispatch_without_confirmation, and their jobs
  Answerers,   \* sessions of answer_activity
  Idents,      \* workstream identities a marker of the workspace may have
  Statuses,    \* statuses agents take in a run
  None,        \* no readable marker, no agent, no answer
  MaxWorld     \* bound: steps of agents, operators and other programs

Jobs == Drafts \cup Direct

Dispatchers == Confirmers \cup Direct

\* The vocabulary of job-state.md.
JobStates == {"unreachable", "not-found", "never-dispatched", "needs-operator",
              "superseded", "running", "idle", "failed"}

\* Its states for an agent's status; an unknown one, here
\* "other", is for the operator.
StateOf == [running |-> "running", idle |-> "idle", error |-> "failed",
            closed |-> "superseded", other |-> "needs-operator"]

\* An agent as the daemon knows it.
Agents == [status : Statuses, archived : BOOLEAN, pending : BOOLEAN]
Fresh  == [status |-> "running", archived |-> FALSE, pending |-> FALSE]

ASSUME DispatchAssumption ==
  /\ DraftOf \in [Confirmers -> Drafts]
  /\ Drafts \cap Direct = {}
  /\ Confirmers \cap Direct = {}
  /\ Dispatchers \cap Answerers = {}
  /\ None \notin Idents \cup Jobs \cup Statuses \cup JobStates
  /\ None \notin Agents
  /\ "running" \in Statuses /\ Statuses \subseteq DOMAIN StateOf
  /\ MaxWorld \in Nat

\* The id of a direct dispatch is fresh: its session stands for it.
JobOf(s) == IF s \in Confirmers THEN DraftOf[s] ELSE s

NoRecord      == [form |-> "absent", identity |-> None]
PartRecord(i) == [form |-> "part", identity |-> i]
FullRecord(i) == [form |-> "full", identity |-> i]
Records       == {NoRecord} \cup [form : {"part", "full"}, identity : Idents]

VARIABLES
  marker,    \* the identity in the workspace's marker, or None
  record,    \* the record file of each job
  agent,     \* the agent labelled with each job, or None
  inflight,  \* jobs whose spawn call failed or was given up and may still
             \* take effect
  bound,     \* jobs with a binding in the local store
  pc,        \* where each session is
  identity,  \* the identity each session has resolved
  result,    \* what each dispatch reports
  heard,     \* what each answerer learnt from the listing: status or None
  reachable, \* whether its listing succeeded
  todo,      \* the jobs whose records it read and has not answered yet
  looking,   \* the job it is at
  binding,   \* whether it found a binding for that job
  answer,    \* the state it reports for each job, or None
  own,       \* the jobs it attributes to the workstream of the marker
  (* ghosts *)
  asked,     \* sessions that called spawn, to any effect
  ever,      \* jobs that ever had an agent
  lost,      \* jobs whose binding was not stored, or was wiped
  before,    \* the agents that were there when each answerer had them listed,
             \* those of them it could not read in what it was given, and the
             \* jobs reported dispatched by then
  world      \* steps of the outside world

sources == <<marker, record, agent, inflight, bound>>
answers == <<heard, reachable, todo, looking, binding, answer, own, before>>
outer   == <<asked, ever, lost, world>>
vars    == <<sources, pc, identity, result, answers, outer>>

Init ==
  /\ marker \in Idents \cup {None}
  /\ record = [j \in Jobs |-> NoRecord]
  /\ agent = [j \in Jobs |-> None]
  /\ inflight = {} /\ bound = {}
  /\ pc = [p \in Dispatchers \cup Answerers |->
             IF p \in Confirmers THEN "draft" ELSE IF p \in Direct THEN "resolve" ELSE "list"]
  /\ identity = [p \in Dispatchers \cup Answerers |-> None]
  /\ result = [s \in Dispatchers |-> "none"]
  /\ heard = [q \in Answerers |-> [j \in Jobs |-> None]]
  /\ reachable = [q \in Answerers |-> FALSE]
  /\ todo = [q \in Answerers |-> {}]
  /\ looking = [q \in Answerers |-> None]
  /\ binding = [q \in Answerers |-> FALSE]
  /\ answer = [q \in Answerers |-> [j \in Jobs |-> None]]
  /\ own = [q \in Answerers |-> {}]
  /\ asked = {} /\ ever = {} /\ lost = {}
  /\ before = [q \in Answerers |-> [there |-> {}, unread |-> {}, told |-> {}]]
  /\ world = 0

-----------------------------------------------------------------------------
At(p, step)   == pc[p] = step
Goto(p, step) == pc' = [pc EXCEPT ![p] = step]

Conclude(s, outcome) ==
  Goto(s, "done") /\ result' = [result EXCEPT ![s] = outcome]

-----------------------------------------------------------------------------
(***************************************************************************)
(* Dispatch.                                                               *)
(***************************************************************************)

\* The operator confirms the digest of the draft, or does not.  The digest
\* covers the instruction, not the identity the draft names.
Confirm(s) ==
  /\ At(s, "draft")
  /\ Goto(s, "resolve")
  /\ UNCHANGED <<sources, identity, result, answers, outer>>

Cancel(s) ==
  /\ At(s, "draft")
  /\ Conclude(s, "cancelled")
  /\ UNCHANGED <<sources, identity, answers, outer>>

\* _resolve_workstream reads the marker anew.
Resolve(s) ==
  /\ At(s, "resolve")
  /\ marker # None
  /\ identity' = [identity EXCEPT ![s] = marker]
  /\ Goto(s, "create")
  /\ UNCHANGED <<sources, result, answers, outer>>

\* The marker is absent or unreadable, or the read fails.
ResolveFails(s) ==
  /\ At(s, "resolve")
  /\ Conclude(s, "invalid-workspace")
  /\ UNCHANGED <<sources, identity, answers, outer>>

\* The instruction is refused by the guard, or its posture is incomplete.
DraftRefused(s) ==
  /\ s \in Direct /\ At(s, "create")
  /\ Conclude(s, "stopped")
  /\ UNCHANGED <<sources, identity, answers, outer>>

\* Mutant: the file is opened without O_EXCL.
CreateOverwriting(s) ==
  /\ At(s, "create")
  /\ record' = [record EXCEPT ![JobOf(s)] = PartRecord(identity[s])]
  /\ Goto(s, "fill")
  /\ UNCHANGED <<marker, agent, inflight, bound, identity, result, answers, outer>>

\* The exclusive create of write_job_record.
CreateRecord(s) ==
  /\ At(s, "create")
  /\ record[JobOf(s)] = NoRecord
  /\ record' = [record EXCEPT ![JobOf(s)] = PartRecord(identity[s])]
  /\ Goto(s, "fill")
  /\ UNCHANGED <<marker, agent, inflight, bound, identity, result, answers, outer>>

\* A collision, a record that is too long, or an open that fails.
CreateFails(s) ==
  /\ At(s, "create")
  /\ Conclude(s, "stopped")
  /\ UNCHANGED <<sources, identity, answers, outer>>

\* Every byte is written and synchronized.
FillRecord(s) ==
  /\ At(s, "fill")
  /\ record' = [record EXCEPT ![JobOf(s)] = FullRecord(identity[s])]
  /\ Goto(s, "readback")
  /\ UNCHANGED <<marker, agent, inflight, bound, identity, result, answers, outer>>

\* Mutant: a failed write is only a log line, and the spawn goes on.
FillFailsQuietly(s) ==
  /\ At(s, "fill")
  /\ Goto(s, "spawn")
  /\ UNCHANGED <<sources, identity, result, answers, outer>>

\* A write makes no progress: write-failed, and the file stays.
FillFails(s) ==
  /\ At(s, "fill")
  /\ Conclude(s, "stopped")
  /\ UNCHANGED <<sources, identity, answers, outer>>

ReadBack(s) ==
  /\ At(s, "readback")
  /\ Goto(s, "spawn")
  /\ UNCHANGED <<sources, identity, result, answers, outer>>

\* written-unverified.
ReadBackFails(s) ==
  /\ At(s, "readback")
  /\ Conclude(s, "stopped")
  /\ UNCHANGED <<sources, identity, answers, outer>>

StartAgent(j) ==
  /\ agent' = [agent EXCEPT ![j] = Fresh]
  /\ ever' = ever \cup {j}

Spawn(s) ==
  /\ At(s, "spawn")
  /\ StartAgent(JobOf(s))
  /\ asked' = asked \cup {s}
  /\ Goto(s, "bind")
  /\ UNCHANGED <<marker, record, inflight, bound, identity, result, answers, lost, world>>

\* Mutant: a refused spawn is bound and reported like any other.
SpawnRefusedBound(s) ==
  /\ At(s, "spawn")
  /\ Goto(s, "bind")
  /\ UNCHANGED <<sources, identity, result, answers, outer>>

\* The adapter is not there, or the CLI exits with an error, which does not
\* say that the daemon has not taken the request.
SpawnRefused(s) ==
  /\ At(s, "spawn")
  /\ asked' = asked \cup {s}
  /\ inflight' \in {inflight, inflight \cup {JobOf(s)}}
  /\ Conclude(s, "partial-success")
  /\ UNCHANGED <<marker, record, agent, bound, identity, answers, ever, lost, world>>

\* Mutant: a call that was given up counts as one that succeeded.
SpawnTimesOutBound(s) ==
  /\ At(s, "spawn")
  /\ inflight' = inflight \cup {JobOf(s)}
  /\ asked' = asked \cup {s}
  /\ Goto(s, "bind")
  /\ UNCHANGED <<marker, record, agent, bound, identity, result, answers, ever, lost, world>>

\* The CLI is killed at its timeout; the daemon may have the request.
SpawnTimesOut(s) ==
  /\ At(s, "spawn")
  /\ inflight' = inflight \cup {JobOf(s)}
  /\ asked' = asked \cup {s}
  /\ Conclude(s, "partial-success")
  /\ UNCHANGED <<marker, record, agent, bound, identity, answers, ever, lost, world>>

Bind(s) ==
  /\ At(s, "bind")
  /\ bound' = bound \cup {JobOf(s)}
  /\ Conclude(s, "dispatched")
  /\ UNCHANGED <<marker, record, agent, inflight, identity, answers, outer>>

\* The exception of bind_job is swallowed.
BindFails(s) ==
  /\ At(s, "bind")
  /\ lost' = lost \cup {JobOf(s)}
  /\ Conclude(s, "dispatched")
  /\ UNCHANGED <<sources, identity, answers, asked, ever, world>>

-----------------------------------------------------------------------------
(***************************************************************************)
(* The activity answer.                                                    *)
(***************************************************************************)
There == {j \in Jobs : agent[j] # None}

Told == {j \in Jobs : \E s \in Dispatchers : JobOf(s) = j /\ result[s] = "dispatched"}

Remember(q, unread) ==
  before' = [before EXCEPT ![q] = [there |-> There, unread |-> unread, told |-> Told]]

ListAgents(q) ==
  /\ At(q, "list")
  /\ heard' = [heard EXCEPT ![q] =
       [j \in Jobs |-> IF agent[j] = None THEN None ELSE agent[j].status]]
  /\ reachable' = [reachable EXCEPT ![q] = TRUE]
  /\ Remember(q, {})
  /\ Goto(q, "manifest")
  /\ UNCHANGED <<sources, identity, result, todo, looking, binding, answer, own, outer>>

\* Mutant: a daemon that does not answer has no agents.
ListFailsEmpty(q) ==
  /\ At(q, "list")
  /\ reachable' = [reachable EXCEPT ![q] = TRUE]
  /\ Remember(q, {})
  /\ Goto(q, "manifest")
  /\ UNCHANGED <<sources, identity, result, heard, todo, looking, binding, answer, own, outer>>

\* No adapter, no daemon, a timeout, output that is not JSON.
ListFails(q) ==
  /\ At(q, "list")
  /\ Remember(q, {})
  /\ Goto(q, "manifest")
  /\ UNCHANGED <<sources, identity, result, heard, reachable, todo, looking,
                 binding, answer, own, outer>>

\* JSON that is not a list is taken for a list without agents, and an entry
\* of another shape is passed over: to the answer those agents are not there.
ListMisread(q) ==
  /\ At(q, "list")
  /\ \E unread \in SUBSET There \ {{}} :
       /\ heard' = [heard EXCEPT ![q] =
            [j \in Jobs |-> IF j \in There \ unread THEN agent[j].status ELSE None]]
       /\ Remember(q, unread)
  /\ reachable' = [reachable EXCEPT ![q] = TRUE]
  /\ Goto(q, "manifest")
  /\ UNCHANGED <<sources, identity, result, todo, looking, binding, answer, own, outer>>

ReadManifest(q) ==
  /\ At(q, "manifest")
  /\ identity' = [identity EXCEPT ![q] = marker]
  /\ Goto(q, "records")
  /\ UNCHANGED <<sources, result, answers, outer>>

\* Records that do not parse or validate are skipped.
ReadRecords(q) ==
  /\ At(q, "records")
  /\ todo' = [todo EXCEPT ![q] = {j \in Jobs : record[j].form = "full"}]
  /\ Goto(q, "jobs")
  /\ UNCHANGED <<sources, identity, result, heard, reachable, looking, binding,
                 answer, own, before, outer>>

ReadBinding(q) ==
  /\ At(q, "jobs")
  /\ \E j \in todo[q] :
       /\ looking' = [looking EXCEPT ![q] = j]
       /\ binding' = [binding EXCEPT ![q] = j \in bound]
  /\ Goto(q, "inspect")
  /\ UNCHANGED <<sources, identity, result, heard, reachable, todo, answer, own, before, outer>>

\* Mutant: a store that cannot be read holds no binding.
StoreFailsQuietly(q) ==
  /\ At(q, "jobs")
  /\ \E j \in todo[q] : looking' = [looking EXCEPT ![q] = j]
  /\ binding' = [binding EXCEPT ![q] = FALSE]
  /\ Goto(q, "inspect")
  /\ UNCHANGED <<sources, identity, result, heard, reachable, todo, answer, own, before, outer>>

\* What the session remembered goes out of scope with the return.
Leave(q, step) ==
  /\ Goto(q, step)
  /\ identity' = [identity EXCEPT ![q] = None]
  /\ heard' = [heard EXCEPT ![q] = [j \in Jobs |-> None]]
  /\ reachable' = [reachable EXCEPT ![q] = FALSE]

\* The StoreError of get_binding leaves answer_activity without an answer.
StoreFails(q) ==
  /\ At(q, "jobs") /\ todo[q] # {}
  /\ Leave(q, "failed")
  /\ todo' = [todo EXCEPT ![q] = {}]
  /\ answer' = [answer EXCEPT ![q] = [j \in Jobs |-> None]]
  /\ own' = [own EXCEPT ![q] = {}]
  /\ UNCHANGED <<sources, result, looking, binding, before, outer>>

\* Mutant: a status is passed on as the daemon wrote it.
DeriveRaw(reached, hasBinding, status, archived, pending) ==
  IF ~reached THEN "unreachable"
  ELSE IF status = None THEN IF hasBinding THEN "not-found" ELSE "never-dispatched"
  ELSE status

\* _derive_job_state: the first row that applies.
Derive(reached, hasBinding, status, archived, pending) ==
  CASE ~reached                               -> "unreachable"
    [] reached /\ status = None /\ hasBinding  -> "not-found"
    [] reached /\ status = None /\ ~hasBinding -> "never-dispatched"
    [] reached /\ status # None /\ pending     -> "needs-operator"
    [] reached /\ status # None /\ ~pending /\ archived -> "superseded"
    [] OTHER                                  -> StateOf[status]

\* Mutant: the marker is read again for every job.
AttributableNow(q, j) == record[j].identity = marker

\* The identity the answer compares a record with is the one read at first.
Attributable(q, j) == record[j].identity = identity[q]

Answer(q, archived, pending) ==
  LET j == looking[q] IN
  /\ answer' = [answer EXCEPT ![q][j] =
       Derive(reachable[q], binding[q], heard[q][j], archived, pending)]
  /\ own' = IF Attributable(q, j) THEN [own EXCEPT ![q] = @ \cup {j}] ELSE own
  /\ todo' = [todo EXCEPT ![q] = @ \ {j}]
  /\ looking' = [looking EXCEPT ![q] = None]
  /\ binding' = [binding EXCEPT ![q] = FALSE]
  /\ Goto(q, "jobs")
  /\ UNCHANGED <<sources, identity, result, heard, reachable, before, outer>>

\* The listing has no agent for the job: nothing to inspect.
AnswerUnheard(q) ==
  /\ At(q, "inspect")
  /\ heard[q][looking[q]] = None
  /\ Answer(q, FALSE, FALSE)

\* The inspection is newer than the listing it completes.
AnswerInspected(q) ==
  /\ At(q, "inspect")
  /\ heard[q][looking[q]] # None
  /\ agent[looking[q]] # None
  /\ Answer(q, agent[looking[q]].archived, agent[looking[q]].pending)

\* inspect_agent answers None: not archived, nothing pending.
AnswerUninspected(q) ==
  /\ At(q, "inspect")
  /\ heard[q][looking[q]] # None
  /\ Answer(q, FALSE, FALSE)

Deliver(q) ==
  /\ At(q, "jobs")
  /\ todo[q] = {}
  /\ Leave(q, "answered")
  /\ UNCHANGED <<sources, result, todo, looking, binding, answer, own, before, outer>>

-----------------------------------------------------------------------------
(***************************************************************************)
(* Agents, operators and other programs.                                   *)
(***************************************************************************)
Outside ==
  /\ world < MaxWorld
  /\ world' = world + 1
  /\ UNCHANGED <<pc, identity, result, answers, asked, record>>

\* An agent goes on, ends, fails, asks for a permission, gets it, is archived
\* or restored.
AgentChanges(j) ==
  /\ agent[j] # None
  /\ Outside
  /\ \/ \E st \in Statuses \ {agent[j].status} : agent' = [agent EXCEPT ![j].status = st]
     \/ agent' = [agent EXCEPT ![j].pending = ~@]
     \/ agent' = [agent EXCEPT ![j].archived = ~@]
  /\ UNCHANGED <<marker, inflight, bound, ever, lost>>

DeleteAgent(j) ==
  /\ agent[j] # None
  /\ Outside
  /\ agent' = [agent EXCEPT ![j] = None]
  /\ UNCHANGED <<marker, inflight, bound, ever, lost>>

\* The daemon acts on a request whose caller saw it fail or gave up.
LateAgent(j) ==
  /\ j \in inflight
  /\ Outside
  /\ StartAgent(j)
  /\ inflight' = inflight \ {j}
  /\ UNCHANGED <<marker, bound, lost>>

\* The workspace is unregistered, registered anew, or edited.
MarkerChanges ==
  /\ Outside
  /\ marker' \in (Idents \cup {None}) \ {marker}
  /\ UNCHANGED <<agent, inflight, bound, ever, lost>>

\* DispatchStore.destroy, or the store directory is removed.
WipeStore ==
  /\ bound # {}
  /\ Outside
  /\ bound' = {}
  /\ lost' = lost \cup bound
  /\ UNCHANGED <<marker, agent, inflight, ever>>

Dispatching(s) ==
  \/ Confirm(s) \/ Cancel(s) \/ Resolve(s) \/ ResolveFails(s) \/ DraftRefused(s)
  \/ CreateRecord(s) \/ CreateFails(s) \/ FillRecord(s) \/ FillFails(s)
  \/ ReadBack(s) \/ ReadBackFails(s)
  \/ Spawn(s) \/ SpawnRefused(s) \/ SpawnTimesOut(s) \/ Bind(s) \/ BindFails(s)

Answering(q) ==
  \/ ListAgents(q) \/ ListFails(q) \/ ListMisread(q)
  \/ ReadManifest(q) \/ ReadRecords(q) \/ ReadBinding(q) \/ StoreFails(q)
  \/ AnswerUnheard(q) \/ AnswerInspected(q) \/ AnswerUninspected(q) \/ Deliver(q)

Next ==
  \/ \E s \in Dispatchers : Dispatching(s)
  \/ \E q \in Answerers : Answering(q)
  \/ \E j \in Jobs : AgentChanges(j) \/ DeleteAgent(j) \/ LateAgent(j)
  \/ MarkerChanges
  \/ WipeStore

Spec == Init /\ [][Next]_vars

-----------------------------------------------------------------------------
(***************************************************************************)
(* Properties.                                                             *)
(***************************************************************************)
Outcomes == {"none", "dispatched", "partial-success", "cancelled", "stopped",
             "invalid-workspace"}

PCs == {"draft", "resolve", "create", "fill", "readback", "spawn", "bind", "done",
        "list", "manifest", "records", "jobs", "inspect", "answered", "failed"}

\* Every variable has its type: an answer speaks the vocabulary of job-state.md.
TypeOK ==
  /\ marker \in Idents \cup {None}
  /\ record \in [Jobs -> Records]
  /\ agent \in [Jobs -> Agents \cup {None}]
  /\ inflight \subseteq Jobs /\ bound \subseteq Jobs
  /\ pc \in [Dispatchers \cup Answerers -> PCs]
  /\ identity \in [Dispatchers \cup Answerers -> Idents \cup {None}]
  /\ result \in [Dispatchers -> Outcomes]
  /\ heard \in [Answerers -> [Jobs -> Statuses \cup {None}]]
  /\ reachable \in [Answerers -> BOOLEAN]
  /\ todo \in [Answerers -> SUBSET Jobs]
  /\ looking \in [Answerers -> Jobs \cup {None}]
  /\ binding \in [Answerers -> BOOLEAN]
  /\ answer \in [Answerers -> [Jobs -> JobStates \cup {None}]]
  /\ own \in [Answerers -> SUBSET Jobs]
  /\ asked \subseteq Dispatchers
  /\ ever \subseteq Jobs /\ lost \subseteq Jobs
  /\ before \in [Answerers -> [there : SUBSET Jobs, unread : SUBSET Jobs,
                               told : SUBSET Jobs]]
  /\ world \in 0 .. MaxWorld

\* However often and at whatever time a draft is dispatched, and wherever its
\* sessions die, its agent is asked for once: the record file decides.
SpawnedOnce == \A s, t \in asked : JobOf(s) = JobOf(t) => s = t

\* Whatever may work for a job has a complete record of it in the workspace,
\* under the workstream its session resolved (dispatch.py:1-8).
RecordFirst == \A s \in asked : record[JobOf(s)] = FullRecord(identity[s])

\* What a session reports is so: dispatched, there was an agent; stopped,
\* cancelled or invalid-workspace, this session asked for none and none comes.
ResultHonest ==
  \A s \in Dispatchers :
    /\ result[s] = "dispatched" => JobOf(s) \in ever
    /\ result[s] \in {"stopped", "cancelled", "invalid-workspace"} => s \notin asked
    /\ result[s] = "partial-success" => JobOf(s) \notin bound

\* An answer calls an agent absent only if the daemon was reached, and then
\* only one that was not there when the daemon was asked (activity.py:51-54),
\* or one that the adapter passed over because what the daemon wrote was no
\* list or the entry had another shape (paseo_adapter.py:186-189): such an
\* agent is called absent although it is there.
AbsenceIsHeard ==
  \A q \in Answerers : \A j \in Jobs :
    answer[q][j] \in {"not-found", "never-dispatched"} =>
      j \notin before[q].there \ before[q].unread

\* A job that was reported dispatched before an answer began is called
\* never-dispatched only if its binding was not stored or has been wiped.
NeverDispatchedIsTrue ==
  \A q \in Answerers : \A j \in before[q].told :
    answer[q][j] = "never-dispatched" => j \in lost

\* Not-found says the job once had an agent.
NotFoundMeansDispatched ==
  \A q \in Answerers : \A j \in Jobs : answer[q][j] = "not-found" => j \in ever

\* The jobs an answer attributes to the workspace's workstream are of one
\* workstream, even if the workspace is registered anew in between (R31).
OneStreamPerAnswer ==
  \A q \in Answerers : \A j, k \in own[q] : record[j].identity = record[k].identity

\* What the sessions that asked for an agent of a job reported.
Outcome(j) == {result[s] : s \in {t \in asked : JobOf(t) = j}}

\* How far a job is, put together from the sessions and the daemon.
Stage(j) ==
  LET o == Outcome(j)
  IN  CASE o = {}                                   -> "open"
        [] o = {"none"}                             -> "started"
        [] o = {"dispatched"}                       -> "dispatched"
        [] o = {"partial-success"} /\ j \in inflight -> "pending"
        [] o = {"partial-success"} /\ j \in ever \ inflight -> "late"
        [] OTHER                                    -> "refused"

\* A record that is not complete counts for nothing.
Stream(j) == IF record[j].form = "full" THEN record[j].identity ELSE None

Ledger == INSTANCE JobLedger WITH
  stream  <- [j \in Jobs |-> Stream(j)],
  stage   <- [j \in Jobs |-> Stage(j)],
  working <- There

\* All the ledger is made of.  A step that leaves it alone leaves the ledger
\* alone, so to name it in KeepsLedger allows no step more; it spares TLC most.
entries == <<record, agent, inflight, bound, result, asked, ever>>

\* Whatever the sessions do and wherever they die, each job keeps to the ledger:
\* on record once and for good, an agent once at most, and told truly
\* (dispatch.py:1-8).
KeepsLedger ==
  /\ Ledger!Init
  /\ [][UNCHANGED entries \/ [Ledger!Next]_Ledger!ledgerVars]_vars
=============================================================================
