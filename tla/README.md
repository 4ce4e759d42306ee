# A specification of generic-coding-agent

`generic-coding-agent` runs a language-model coding agent on a repository and
publishes what it changed. Jobs arrive over HTTP (`POST /runs`, webhooks of GitHub
and GitLab) or from the command line, are kept in one SQLite file, are claimed by
worker processes, and end with a branch and a change request, a pause or an error.
This directory specifies it in TLA+: the job store, the workers and the API handlers
that act on the same jobs, the sessions of GitLab issues with the outbox that carries
out what they decide, one run of the agent, and the publication of what it did.

## The system

| Component (source) | State | Operations | What is hard | What makes it correct |
| --- | --- | --- | --- | --- |
| Job store (`src/gca/jobs/store.py`, `lifecycle.py`) | one row per job: columns for SQL, a JSON document, a version, lease, `not_before` | `create`, `save`, `load`, `list`, `claim`, `claim_next`, `requeue_expired`, `touch_lease`, `release_lease`, `force_requeue` | callers act on documents read earlier; columns and document are written apart; leases lapse under a live worker | one active job per repository; whoever may still save holds the lease; no update is lost; moves of the lifecycle only |
| Job queue (`jobs/queue.py`) | none | `enqueue`, `claim`, `claim_job` | two transactions each | nothing but what the store allows |
| Worker (`src/gca_service/worker.py`, `cli.py`) | the active job, the error of the lease thread, a stop flag | `run_once`, the lease thread, the signal handler | three threads of control on one job; `kill -9` anywhere | attempts bounded; every job comes to rest |
| Job runner (`jobs/runner.py`) | a job object, a clone, an agent session | `execute`, `_apply_result`, `_handle_failure` | a refused save inside the handler of a refused save; clean-up by what memory says | completed only after publication; nobody removes a clone under work |
| HTTP API (`gca_service/routes/runs.py`, `webhooks.py`) | a job object per request | create, cancel, resume, requeue | load, decide and save are separate transactions | nothing but what the store allows |
| Merge clean-up (`jobs/merge_cleanup.py`) | a list of job objects read at once | cancel and wipe each job of a merged change request | the list ages while it is worked through | the same |
| Webhook normaliser and actor policy (`integrations/gitlab_events.py`, `issue_sessions/ingestion.py`) | none; a registration | `normalize`, the decision about the actor | bots, edits, system notes, unknown members | only a deliberate request of somebody with a say starts a turn |
| Issue sessions (`src/gca/issue_sessions/`) | sessions, generations, turns, links, events, outbound actions | `ingest`, `apply`, remediation | events, turns and workers race; outcomes arrive for generations that are over | each status is backed by a turn, an action or a link |
| Outbox (`issue_sessions/outbox.py`) | pending, leased, succeeded and failed actions | `process_pending` | crash between an effect and its record; two processors | effects bounded; success only with effect |
| Orchestrator and agent (`orchestrator.py`, `agent.py`, `session.py`) | phases, budgets, session file | fast and feature workflows, resumption | death between any two saves; budgets shared by phases | no tool call twice; phases in order; the budget kept |
| Routing, complexity, fallback (`routing.py`, `complexity.py`, `providers/fallback.py`) | the index of the active provider | `choose`, `complete`, `set_state` | ties, exhausted chains, restored state | whoever answers qualifies; never back to a failed model |
| Tool policy (`tool_policy.py`, `tools/control.py`) | the manifest of the repository | the tools of a phase | manifests that override, extend and deny | reading phases do not write |
| Patch application (`tools/patch.py`) | files of the clone | parse, locate, apply | repeated lines, drift, several files | edits land where they belong; what does not fit whole changes nothing |
| Publication (`integrations/scm.py`, `git_ops.py`, `runner.py`) | clone, branch, change request at the forge, publication in the job row | `prepare_working_branch`, `publish`, `open_change_request` | retries repeat what was done; clones that were cut off; lost answers; people act on the branch | no second change request; sound commits; nothing lost |
| Retention, executor, configuration, credentials, skills, plugins, CLI | mostly none | I/O | – | – |

Workers and handlers never call each other: they meet in the `jobs` table (and, for
merge clean-up, in the directory of a job), and in the tables of issue sessions, which
are in the same SQLite file. An event of GitLab becomes a turn of a session and, in
the same transaction, a job; the worker that ran the job applies the outcome to the
session, which inserts outbound actions; a worker (any worker) drains them before and
after each job, and what it records there moves the session on. `save` is the only way
to change a job that one has read; it is let through if the row still has the version
that was read. A lease is a pair of columns that a thread beside the worker keeps
extending. Within a job the runner clones, makes and pushes a branch for a labeled
issue, runs the coordinator on the clone, and publishes. The coordinator keeps its
session in a file that a later attempt, or `gca resume`, starts from.

## Modules

* `JobLifecycle` – the statuses, the transition table, `transition_job`, the retry
  test. Constant-level; used by the modules about jobs.
* `JobStore` – the `jobs` table. `rows[j]` is the row of a job (`status`,
  `version`, `owner`, `lease`, `due`, `doc`, and `elders`, the rows that come before
  it in `ORDER BY created_at`); `copies[h]` are the job objects that holder `h` (a
  worker or a request handler) has in memory, of any age. One action per SQL
  transaction. `Save` takes *any* transition of the lifecycle from any copy, so the
  module stands for every caller that there is or may be.
* `JobContract` – the abstract store: a status, a holder and a number of tries per
  job, no versions, no copies. `JobStore!ImplementsContract` is the refinement.
* `JobWorker` – `run_once`, `execute`, the lease thread, the signal handler, crashes
  and restarts. `at[w]` is the program counter between two transactions or effects;
  `goal[w]` is the status that the job object in memory got although the row did not.
* `JobService` – the handlers of the API and of merge clean-up, statement by
  statement, composed with the workers on one store. Each of its statements conjoins an action
  of `JobStore` or leaves the table alone, so whatever is proved of the store holds of
  the service by construction. What the composition adds, and what can go wrong in it, is
  *when* a caller acts and with which copy: that is what `ActsUnderLease` (workers) and
  `TakenOnPurpose` (requests) are about.
* `IssueSessions` – the session of one GitLab issue: `session`, its generations
  (`gens`), turns, links to merge requests, outbound actions (`intents`, by
  `effect_key`) and recorded events (`inbox`). Each unit of work is one action:
  `ingest` (one action per early return), the operator's API, `apply`, the record of a
  publication, remediation. *When* an outcome is applied, and how often, is left open,
  so the module stands for every scheduling of workers.
* `GitLabEvents` – what a delivery of any type asks of a session, and what the ingestor
  decides about its actor, as functions of the delivery and the registration; with a
  reference (`Asks`, `Excluded`, `Deliberate`) for what the functions should return.
* `IssueService` – sessions with the workers: `proc[w]` is the main thread of a worker
  in `process_pending`, `process_one`, `run_once` and `_finalize_issue_turn`;
  `leased`, `succeeded`, `failed` are the statuses of actions, `posted` what happened at
  GitLab, `disk` the clone of each turn's job. Here too what it does to the session is an
  action of `IssueSessions`, whose invariants carry over; its own properties relate the
  merge requests and notes at GitLab to what the tables say of them.
* `Routing` – `classify_task`, `choose_workflow`, the strength a role needs, the
  selection of models and of the models that stand in for them, as functions of counts
  and profiles.
* `ToolPolicy` – the tools of a phase under a repository's manifest, and which
  manifests are refused.
* `AgentRun` – `RunCoordinator` with the agent of each phase, the chain of providers
  and the session file (`stored`, replaced at once by each save). A step is what lies
  between two effects outside the process; the process may die between any two.
* `Patch` – `normalize_diff_text`, `parse_unified_diff`, `_locate`, `apply_patch` on small
  files, with a reference: an edit of a text, the diff a tool prints for it, and the text
  after it. A write may fail, so applying a patch yields a set of outcomes.
* `Publication` – the steps of `execute` around a publication: clone, configuration,
  branch, link, first push, the agent, checks, commit, push, look-up and creation of the
  change request, the last save, clean-up. The clone (`clone`, `tree`, `local`, and
  `whole`: its `git clone` was not cut off), what configuration was read from it
  (`manifest`), the forge (`remote`, `requests`, `landed`) and the row (`job`) are its
  state; people merge, close and push at any moment.
* `MCJobStore`, `MCJobService`, `MCIssueSessions`, `MCIssueService`, `MCAgentRun`,
  `MCPublication` – the instances for TLC. `MCIssueSessions` puts deliveries
  (`GitLabEvents`) and sessions together, `MCPublication` patches and publication.
* `JobStoreProofs`, `JobServiceProofs`, `IssueSessionsProofs`, `GitLabEventsProofs`,
  `IssueServiceProofs`, `PatchProofs`, `PublicationProofs`, `AgentRunProofs` – the theorems.

Definitions called "faulty variant" state a plausible bug of the code next to the
definition that they falsify; each property is known to fail under one of them.
No action uses them.

### Abstractions

Jobs and workers:

* A request is its repository and its key: `RunSpec` equality is `RepoOf` equality.
* `create` looks a key up and inserts in two statements. The UNIQUE index refuses the
  second of two inserts, and the row that is there is returned, so the two statements are
  one step. In the same way the look-up, the insert and the indexes of `ingest` are one
  `BEGIN IMMEDIATE` transaction. That a key has one job, and a delivery one turn, is thus
  built into the actions, and no property repeats it.
* Leases are none, live or lapsed, `not_before` is due or delayed, and time may move
  them at any moment; the lengths (30, 120 and 600 s, `lease_seconds`) are left out.
* A row's place in the order of `created_at` is taken when it is inserted. Two
  processes that create jobs at the same moment may insert them the other way round;
  no property depends on the order, only which job a worker takes first.
* The agent returns any result, or raises a transient or a permanent error.
* A client is a handler that may be interleaved with any other process. In one API
  process handlers without an `await` run alone; a second API process or the command
  line gives the interleavings that are checked.
* A worker that is started again has the `worker_id` it had (`GCA_WORKER_ID`); with
  the default, which holds the process id, it would be one more element of `Workers`.
* SQLite's `BEGIN IMMEDIATE` makes a transaction atomic; a locked database (the
  retries of `sqlite_util.py`) only appears as an error of the lease thread.

Issue sessions:

* A GitLab event is a number with a kind (label, command, comment, merge, close, an
  operator's request, other), the decision about its actor and whether its actor is
  known to have no say; events are numbered in the order in which they are first
  delivered. A redelivery, and a second delivery about the same object and action, is an
  event that is in `inbox`.
* A question to the human has an `effect_key` of its own in the code; here all
  questions of one turn share one. A merge is keyed by its generation and commit in the
  code, here by the turn that was published.
* In `IssueService` the job of a turn is abstract: one worker at a time holds it, and a
  crash queues it again while attempts are left. That is what `JobStore` and `JobWorker`
  establish for leases renewed in time; a worker that lost its lease and finalizes all
  the same is covered by `IssueSessions`, where any outcome may come at any time.
* A turn without a clone names no workspace, and `Path("")` is the worker's own
  directory, which exists; `OpenRequest` lets that go through, as the code does. Commit,
  push and merge request are one step there (`Publication` has the steps of the other
  path); GitLab refuses a second open merge request for a branch.

The agent:

* A task is what `classify_task` counts in it. A reply of a model is a sequence of tool
  calls, of which only what steers the loop is kept; a text without a call is one reply.
* The messages of a run are its unanswered calls and what its parent reads from them.
  `SessionStore.save` writes a file beside and replaces, so it is atomic.
* A session that has a history but no workflow (`orchestrator.py:155-157`) was begun by
  an older version; every session here was begun by this one.
* Within `Replies` a model may answer anything at any step, so what a good model would
  say plays no part in a property.

Publication:

* A commit is a set of edits. Of an edit the model keeps what the gates, the policy and
  the properties tell apart: whether its Python parses (`Unparsed`), whether the syntax
  gate sees its path (`Unseen`: git quotes a path that is not ASCII, and `scm.py:362-376`
  reads the quoted name), whether a check fails on it, whether its path is protected
  (`_CORE_DENIED_PATHS`), or denied or not allowed by the manifest, and how many files and
  lines it changes. The files that a cut-off clone lacks are one more edit, `Emptied`.
* A kind of job says whether it is labeled, whether there is a manifest, whether that is
  at the protected path (`.gca/config.yaml`) or at another (`agent/config.yaml`, a root
  `AGENTS.md`), and whether its required checks only read or also write: a check is any
  command, and leaves any edits in the clone when it may write.
* Only the service commits and pushes: the command tools refuse `git commit`, `git push`
  and `git remote` in hosted runs (`safety.py`). The file tools cannot write
  `.gca/config.yaml` (`tools/base.py:54-70`). An agent that edits a manifest elsewhere, or
  restores files that its clone lacks, is left out.
* What a killed `git clone` or `git add` leaves is a state of the clone: no HEAD
  (`unborn`), an index but no files (`bare`), or a locked index (`locked`); from `bare` the
  later commands lead to `branched` (the new branch has no files), or `staged` (the
  deletions are in the index) when they break off in between. A `git commit` that is
  killed after it has moved HEAD is left out, and a clone with a locked index may check
  out its branch where git might refuse: the model allows more than git does.
* The draft flag, the linked issue, titles and bodies of change requests are left out.
* Leases are kept: two workers on one job are in `JobWorker`.

In `Patch` a line of a file is an element of `Lines`, a text a sequence of them; a line of a
diff is what it begins with and a content. What `strip` does to a line is a function
(`Trim`, `Blank`), and so is what makes an added or removed line look like the name of a
file (`Dashed`, `Plussed`, `Names`). Left out: a newline that is missing at the end of a
file, the line breaks other than newlines that `splitlines` knows, blanks before the first
line of a diff, a "+++" without "---" before it, binary files and modes.

## Runs

| Run | Instance | Question and answer |
| --- | --- | --- |
| `JobStore` | 3 requests for one repository (two share a key), 2 workers, 1 client, 2 attempts, 3 versions | Rows are consistent, active jobs alone in their repository, saves fenced and no update lost, with copies of every age, and the table refines `JobContract`. |
| `WorkerFaults` | 1 job to be published that is linked to a change request, 2 workers, 2 attempts, 1 fault (crash, SIGTERM or heartbeat error), leases that lapse at any time; fair | Attempts are bounded, a job is completed only after its publication, a worker saves and begins a phase of work only under a lease it holds, and the job comes to rest again and again. |
| `OperatorCalls` | 1 job, 1 worker, 2 concurrent requests of any kind, 1 attempt | Handlers, interleaved with each other and with the worker, take a job from a worker only where the request is meant to, except by `enqueue` (see below). |
| `Exclusive` | 2 jobs of one repository, 2 workers, 1 crash, 2 requests that create, cancel or resume, leases renewed in time | At most one worker works on a repository; nobody removes the clone under it. |
| `RetryHeartbeat` | 1 job, 1 worker, no fault | **Violated**: queuing a retry can end the worker process. |
| `IssueSessions` | 2 generations, 2 turns, 2 events that any delivery of two actors can be, 1 remediation, auto-merge, 3 outcomes | Every status is backed by a turn, an action, a link or a note; one active turn per generation; each turn was deliberately asked for, and is filed under the newest generation. |
| `IssueService` | 1 turn, 1 event, 2 workers, 2 attempts, auto-merge, 1 crash or API error | An action takes effect at most once per worker, success is never recorded without effect, and a merge request is linked, or can be told from its publication, before anybody hears of it. |
| `IssueTurns` | 1 turn, 2 events, 1 worker, 2 attempts, 1 API error, auto-merge, fair | Unless a worker dies, turns are concluded and actions succeed or fail. |
| `PublicationWiped` | 1 turn, 1 worker, no fault | **Violated**: the clone is gone when the outbox publishes from it. |
| `AgentRun` | a small, a medium and a large task, 3 models, a manifest that can be used and two that are refused, budgets of 3 and 5 steps, a reserve of 1, 1 rework, 2 starts, death anywhere; fair | No tool call runs twice, phases come in order, budget and reserve are kept, whoever answers qualifies and is not left for an earlier model, reading phases do not write, and every start ends. |
| `OutcomeLost` | the same | **Violated**: what an agent reported as its outcome is not in what is saved. |
| `Publication` | 3 kinds of job, 4 edits, a manifest's limit of 1 file and a default limit of 2 files and 2 lines in a repository of that size, 2 attempts, 2 resumptions, 1 act of a person; and patches over texts of up to 3 lines | One open change request, sound commits, retries that are not refused, complete delivery, no forgotten change request; patches land where they belong, and a failed write leaves no more than it must. |

### Bounds, and why they are enough

Two workers are the smallest number at which one can lose a job to the other, and two
attempts the smallest with a first, a retry and a last one. Two jobs of one repository
are what the serialization rule is about; jobs of different repositories do not meet.
`MaxWrites` (3 versions in the store run) covers claim, reclaim, claim again, with a
copy left behind at each. `MaxFaults` bounds crashes, signals and heartbeat errors
together. `MaxCalls` bounds requests. The safety properties of store and service do not
rest on these bounds: they are proved.

Two generations are the smallest number with one that was superseded, two turns with
one active and one over, two events with a redelivery of the first after the second;
`MaxOutcomes` (3) lets one turn come to an outcome twice and another once. In
`IssueService` one turn suffices, because turns of one repository do not run at the
same time; the actions that workers compete for are those of that turn and of its
events. The invariants of `IssueSessions`, what deliveries may start and the safety
properties of `IssueService` are proved for any bounds.

`StartedByOperator` (both runs of `IssueService`) leaves out the turns that an event
started: what started a turn plays no part in what becomes of it. The constraint cuts
off only steps of ingestion, which no fairness condition asks for, and a turn keeps
its cause, so no behaviour that the liveness properties speak of is cut short.
`WorkerSymmetry` is used for safety only.

In `AgentRun` three models give a chain with a first, a middle and a last one, of which
one lacks the strength or a capability for some role; a budget of 3 runs out in the
middle of the feature workflow and one of 5 lets it finish; one rework is the smallest
number at which planning, implementation, review, implementation, review occur; a second
start is what resumes after a death or a pause. The safety properties do not rest on
these bounds: they are proved.

In `Publication` the manifest's limit of one file is met by one edit and exceeded by two.
The default limit (2 files, 2 lines) is exactly the size of the repository, so a clone
that was cut off *can* be published as deletions by a job that has no manifest, while a
manifest's limit excludes it; and an edit of two lines meets the limit that two such edits
exceed. The three kinds of job are a labeled one with a protected manifest and checks, one
without a manifest, and one with a manifest that is not protected and checks that write.
Two attempts and two resumptions give up to four tries, so that one may be cut off, one
find what it left, and one follow; one act of a person is a merge, a close or a push, with
or without the branch. The safety properties do not rest on these bounds, on the size of
the repository or on its limits: they are proved for any. In `PatchesLand` three lines of
two kinds make files in which the same lines occur several times, a window of 2 does not
reach everywhere, and two edits with a line between them shift each other; four texts and
three inserts have a line that is blank, ends in a blank or reads "-- p" or "++ p", which a
diff shows as "--- p" or "+++ p". Its three parts are proved for texts of any length.

### Assumptions of single runs

* `Timely` (runs `Exclusive` and `RetryHeartbeat`): the lease of a worker whose lease
  thread is alive does not lapse. Without it exclusion of *work* fails, as with every
  lease; what remains without it is exclusion of *writes*, which is
  `FreshWorkerHoldsLease`.
* `Prompt` (`WorkerFaults`, `Exclusive`, `RetryHeartbeat`): the request that creates a
  job is served before a worker moves. Without it `enqueue` may take the job from its
  worker, see below. `OperatorCalls` checks `TakenOnPurpose` without it.

### Fairness

`FairSpec` (run `WorkerFaults`): weak fairness of the main thread of each worker (the
loop polls, the agent has a step budget, git and HTTP calls have timeouts), of the
restart of a dead process (a service manager is assumed; the repository does not
configure one), of the lapse of a lease that nobody renews, of the end of a retry's
delay, and of the handler that creates the job. None for heartbeats, signals, crashes or
further requests: the lease thread may be slow or fail.

`IssueServiceFair` (run `IssueTurns`) is weak fairness of the main thread of each
worker, and of nothing else: the loop polls, GitLab answers or the call times out, the
agent has a step budget. `TurnsConclude` and `ActionsSettle` assume that no worker
dies, because a crash between the end of a job and its outcome, or after an action was
leased, does strand the turn or the action: nothing looks for either again. They hold
through errors of the API, retries, pauses and resumptions. A turn whose job an
operator cancels is never concluded; the property says so.

`FairAgentSpec` (run `AgentRun`) is weak fairness of the process that runs: its steps are
local work, a call of a model or a tool with a timeout. Nothing makes anybody start a
session. `RunEnds` then says that phases, reworks and resumptions inside one start do not
go in circles.

## Proofs

`JobStoreProofs` proves, for any sets of jobs, workers and clients, any assignment of
repositories and keys and any `MaxAttempts` allowed by `create`:

* `TypeCorrect`   : `Spec => []TypeOK`
* `Invariance`    : `Spec => []IInv`
* `Serialized`    : `Spec => []OneActivePerRepository`
* `Fenced`        : `Spec => []FreshWorkerHoldsLease`
* `Consistent`    : `Spec => []RowsConsistent`
* `NoUpdateIsLost`: `Spec => []FreshCopyIsCurrent`
* `Respected`     : `Spec => LifecycleRespected`
* `Refinement`    : `Spec => ImplementsContract`

The only assumption is `StoreAssumption` (workers are not clients, `Nobody` is not a
worker, 1 to 20 attempts). Neither exclusion nor fencing is inductive alone. A claim
looks at the status *column* of the other rows, `release_lease` and the reclaims
decide by the *document*; so `IInv` needs `ColumnsMatchDocument`. A save writes the
status its copy leads to, so it preserves exclusion only because a copy that is let
through *is* the row's document (`FreshCopyIsCurrent`), and that is preserved by a
claim or a reclaim only because each of them counts the version on.
`LeasedWhileActive` makes an owner and a lease appear and vanish with the active
statuses; `WorkersOwnCopies` ties a worker's copies to its own name, and from the two
fencing follows. `RowsInPlace` and `CopiesOfRows` say that rows and copies are filed
under their own ids and that a row that does not exist has no copy. The proof has one
lemma per action; the lemmas share facts about a row that is rewritten, and the
refinement maps each action to one of `JobContract` or to a stutter. What the contract
allows of one job is a move of the lifecycle, which gives `Respected`.

`JobServiceProofs` proves of the whole service, for any jobs, workers and handlers, any
operations and any bounds on calls and faults:

* `ServiceInvariance`      : `ServiceSpec => []ServiceInv`
* `ServiceKeepsTable`      : `ServiceSpec => []P` for `RowsConsistent`, `OneActivePerRepository`,
  `FreshCopyIsCurrent` and `FreshWorkerHoldsLease`
* `ServiceKeepsContract`   : `ServiceSpec => LifecycleRespected /\ ImplementsContract`
* `AttemptsAreBounded`     : `ServiceSpec => []AttemptsBounded`
* `CompletedWhenShown`     : `ServiceSpec => CompletedAfterPublication`
* `ActionsAreUnderLease`   : `ServiceSpec => ActsUnderLease`
* `DecisionsAreKept`       : `ServiceSpec => []DecidedInv`
* `JobsAreTakenOnPurpose`  : `ServiceSpec => TakenOnPurpose`
* `CalmInvariance`         : `ASSUME Calm PROVE ServiceSpec => []CalmInv`
* `RepositoryToOneWorker`  : `ASSUME Calm PROVE ServiceSpec => []OneAtWork`
* `ClonesAreSafe`          : `ASSUME Calm PROVE ServiceSpec => []CloneUnderWork`

`ServiceInv` is the invariant of the store, which is an invariant of the service because
every step of it is one of the store or leaves the store alone, together with what the
places of the code mean: a worker that is busy has exactly the job object that it claimed or
read last, and a handler at a statement has the object that this statement works on
(`InHand`, `OwnStatement`). That every step is one of the store is by construction, and only
a lemma (`ServiceTakesStoreSteps`); with it all that is proved of the store holds
(`ServiceKeepsTable`, `ServiceKeepsContract`). `AttemptsBounded` follows from the effect
that each step of the store has on one row: only a start of an attempt counts, and only
`enqueue` puts back a job that had used its attempts up. For `CompletedAfterPublication`
only two saves can complete a publishing row, and a save is let through only by a copy that
is the row's document, so the worker that makes it is the one that showed the change
request.

`ActsUnderLease` says what a worker that lost its lease without knowing can still do: a
save of it is refused, because the copy in its hand (`InHand`) is of an active job and such
a copy is let through only with the lease (`SavesUnderLease`); and before each phase that
works in the clone or at the forge `touch_lease` tests the owner in the same statement.
`TakenOnPurpose` needs one fact about handlers: when one is about to save, the object that
it holds has a status that its request is meant for (`DecidedInv`). A save that is let
through then finds that status in the row too, so a cancel or a resume that was decided on
a queued or paused job cannot hit the worker that has claimed it since. `enqueue` is the
exception that the property names: it loads the row itself and queues whatever it finds.

Exclusion of work needs `Calm`: renewals come in time, a request is served before a worker
moves, no signal, no requeue by an operator and no merge clean-up. The code takes jobs
from live workers in each of the excluded ways, so nothing weaker will do;
cancellations and resumptions are not excluded. `CalmInv` then says that a worker holds,
from its claim to the save that ends its work, an active row, a live lease and no copy but
current ones (`Holds`), that no handler is about to save or to remove what a worker works
on (`StaysAway`), and that a completed job stays completed, without which `cancel`'s and
`execute`'s clean-up might remove the clone of a job that came back.
`OneActivePerRepository` of the store does the rest.

`IssueSessionsProofs` proves, for any numbers of generations, turns, events and remediations
(`SessionAssumption`), `Invariance` (`Spec => []IInv`) and from it `TypeCorrect`,
`QueuedIsServed`, `StatusesKept`, `Alone`, `SessionFollows` and the action property
`NewestGeneration`. The conjuncts that the properties need are about the order of rows:
turns and generations are filed under existing ones (`TurnsInPlace`, `GensInOrder`), the
active generation exists and is the newest (`ActiveIsNewest`), a publication is of a turn
that exists (`PublishedTurnsExist`), a reconciler has read a generation that exists
(`ReviewedExist`), and the event that started a turn is recorded and was let through
(`CausesRecorded`, `StartsAreAuthorized`). Every action has one of three shapes: it leaves
the rows alone (`Stays`), starts a turn (`Begins`), or moves one generation and at most one
turn to a new status that is backed (`Moves`); there is one lemma per shape and one per
action that maps it to its shape.

`GitLabEventsProofs` puts deliveries and sessions together, for any actors (`NoActor` is not
one of them) and any registrations: `CausesAreKnown` (`Spec => []CauseKinds`) and
`TurnsAreDeliberate` (`Spec => []StartsAreDeliberate`). `CauseKinds` is the sessions' half:
only a label, run, fix or note event or an operator's request starts a turn. The other half
is about one delivery at a time: a delivery that the normalizer takes for one of the four
kinds asks for something (`StartingAsks`), and whoever the ingestor lets through is not known
to have no say (`AuthorizedHaveSay`). To ask takes a label, or a comment that is not the
agent's own, since the normalizer drops those before anybody looks at the actor
(`gitlab_events.py:307-313`). A label that the agent's account has put on counts only if the
allow-list names that account, for `_authorize` looks at the list first
(`ingestion.py:530-533`).

`IssueServiceProofs` proves `ServiceInvariance`, and that what is proved of the sessions
holds with the workers too: `SessionsAreKept` says it (`QueuedHasTurn`, `StatusIsKept`,
`OneActiveTurn`, `SessionFollowsAGeneration` and `TurnsStartInNewestGeneration`); that each
step is one of the sessions' is a lemma (`ServiceTakesSessionSteps`). A worker acts on what
it has in memory: a turn and an outcome (`HoldsTurns`) and an effect, which is one of the
table's because only such an action is recorded. The invariant of the session is needed for
this last step, so both are proved together. `OutboxInvariance`, `ActionsAreBounded`
(`EffectsBounded`), `SuccessIsReal` (`SucceededWasPosted`) and `RequestsAccounted`
(`RequestsAreAccounted`) are about the outbox, for finitely many workers. `EffectsBounded`
is not inductive: two workers may have listed an action that neither has leased. `OutboxInv`
counts for every action what has happened and who still owes it (`Owing`: has it in its
list, or is about to make the call). Before the first lease nothing has happened; after it
nobody can list the action any more (`list_pending_outbound` reads the status), so the sum
never grows again and is at most the number of workers (`PaidFor`). A crash only takes a
worker off the list of those who owe, which is why crashes do not weaken the bound.
`SeenAtGitLab` says that whoever is past the call has seen it succeed, and that the merge
request it is about to link is there. For `RequestsAreAccounted` the invariant
(`RequestsInv`) is about the order of two transactions of different workers: the note about
a merge request and its merge are intended only where the link is made (`NotesFollowLinks`),
a worker that is done with a publication has linked it (`LinkedWhenDone`), and whatever
merge request there is belongs to a publication that was leased, so one that no link names
is found among the actions that are leased or failed.

`PublicationProofs` proves, for any edits, limits, numbers of attempts, resumptions and acts
of people (`PublicationAssumption`: finitely many edits, none of which is the mark of a
person's commit), `PublicationInvariant` and from it `OneRequestAtATime`,
`RetriesAreAccepted`, `WorkIsDelivered` and `RequestsAreRemembered`. The invariant is a
conjunction of five parts, each proved by one lemma over the actions: `ControlInv` (the
place of the worker determines the status of the row; only a publication without an error
can lead to "completed"; a missing clone has no commits), `RequestInv` (whoever is about to
create a change request has seen none open), `NamedInv` (a change request that the job or
the worker knows of comes with commits, so the next publication has something to look up),
`DeliveryInv` (once a push was acknowledged all commits of the clone have been on the
branch) and `ForwardInv` (while nobody else touches it, the branch is a prefix of the
clone). `NothingUnsoundIsPushed` needs an invariant of its own, `SoundInv`: the commits of
the clone are sound (`LocalSound`), what is about to be committed has passed the gates
(`TreeChecked`), and where files are missing (`CloneInv`). The last part is the work. A
clone that was killed before its checkout looks like a tree with every file deleted, and
`prepare.py:46` takes it for a finished one. Two things keep that from being published, and
neither is there for the purpose: a labeled job makes its branch before the agent runs,
which leaves the clone without index and lets the checkout before the commit bring the files
back; and a protected manifest is among the deleted files, so `_enforce_diff` refuses. In
any other job only the limits stand in the way, and `Sound` says no more of it than that the
commit is within one.

`PatchProofs` proves of `patch.py`, for any lines, paths and window (`PatchAssumption`: a
path or a text is not `/dev/null`, and a torn file is neither):

* `EditsAlwaysLand`        : `EditsLand(texts, inserts)` for any sets of texts
* `DriftedHunksAlwaysLand` : `DriftedHunksLand(texts, needles)` for any sets of texts
* `AlwaysAllOrNothing`     : `AllOrNothing(texts, hunks)` for any sets of texts and of
  sequences of hunks
* `AnyFilesAllOrNothing`   : the same for any number of different files, and what each
  of them is afterwards, also where a write has failed
* `AnyEditsLand`           : the diff of any number of edits, with a line between each and
  the next, turns a file into the one with all of them

That an edit lands has a condition, `AsPrinted`: no removed line begins with "-- ", which the
code reads as the name of a file, and the last line of the diff neither is blank nor ends
in blanks, which `normalize_diff_text` strips. And it has an alternative (`Lands`): the write
fails, and the file is as it was or `Torn`.

The first goes along the code. A diff that is `AsPrinted` and begins with the name of a file
(`Begins`) passes `normalize_diff_text` unchanged (`KeptIs`, `StrippedIs`, `NormalIs`). Its
reading is one step per line (`LineIsRead`); a stretch of lines with the same tag goes to
the sides of the hunk that the tag is for (`StretchReads`), so the five stretches of a hunk
make exactly the hunk of the edit (`HunkReads`), and the header of the next hunk, or the
end, closes it (`NextHunkReads`, `EndIsRead`). That gives `PatchParses` and
`PatchOfTwoParses`. A hunk whose surroundings are where its header and the hunks before it
say (`Awaits`) is applied there whatever else the file holds, because `_locate` tries the
expected place before it searches (`HunkFits`); the first hunk is awaited where it was made,
and the second as many lines further down as the first has added (`SecondAwaits`), which is
what `shift` is for. Replacing the lines with their context is replacing the lines
(`ContextStays`), and of two replacements apart from each other either may come first
(`SplicesCommute`). For a hunk that has drifted the first match of the window is the only
one (`LocatedOnce`). For all or nothing: a section that is planned is for the one file it
names and removes only a file that is there (`PlanIs`), so for two different files no
planned change is refused when the others have been made (`ChangeIsMade`), and whether it is
planned does not depend on them (`PlanIsLocal`). If one section does not fit, nothing is
written; if both fit, the outcomes are those of the two patches one after the other
(`BothOrNeither`): a write that fails ends the patch there, and nobody takes back what was
written before. It is false for a path that is named twice, see below.

`AnyEditsLand` and `AnyFilesAllOrNothing` go beyond what the run checks. The text with many
edits is the one in which they are made back to front, the last first, so that each is
made where it says (`Edited`); the code makes them front to back and counts the lines it has
added. That both come to the same is an induction over the edits: a replacement after
the first k of them may come before or after these (`Commutes`), and what follows the
first k stays as it is, only moved (`Lasting`, `KeepsTail`), so that the next hunk finds what
it awaits. The diff is one hunk after the other, each placed where the one before ends
(`BeginningsPlaced`, `ManyParse`). For files the invariant is that those written so far are
as planned and all others as before (`IsWritten`); a patch that breaks off leaves such a
state but for the one file whose write has failed (`IsBrokenOff`).

The recursive functions of `Patch` are taken apart by their equations, which
hold because the least place without a value would have one (`ReadingIs`, `AppliedIs`,
`WrittenIs`).

`PatchesAlwaysLand` in `PublicationProofs` (`PublicationSpec => []PatchesLand`) puts the
three together for the texts and hunks that TLC tries, which are lines
(`MCPublicationAssumption`).

`AgentRunProofs` begins with the selection of models: for any registry and any preferences
(`RoutingAssumption`) it proves what the functions of `Routing` promise their callers:
`SelectionQualifies` (whatever `Select` returns for a role has the capabilities and the
strength that the role needs, and is the first suitable preference if there are any) and
`StandInsQualify` (so does every model of a chain of fallbacks, and each comes after the
one it stands in for). `Select` takes the least candidate of a lexicographic order, so
the work is to show that there is a least one: `LeastNatural`, `LeastMeasure` and
`LeastOf` come from the well-foundedness of the naturals and are used again below.

Then it proves of `AgentRun`, for any models, manifests, tools, replies, tasks,
budgets and numbers of starts (`RoutingAssumption`, `AgentAssumption`):

* `CoordinatorInvariance` : `AgentSpec => []CoordinatorInv`
* `AgentTypeInvariance`   : `AgentSpec => []AgentTypeOK`
* `CallsHappenOnce`       : `AgentSpec => []NoCallTwice`
* `PhasesAreConfined`     : `AgentSpec => []PhasesConfined`
* `AnswersAreQualified`   : `AgentSpec => []AnswersQualify`
* `FailoverIsKept`        : `AgentSpec => NeverBack`
* `PhasesComeInOrder`     : `AgentSpec => []WorkflowInOrder`
* `BudgetIsKept`          : `AgentSpec => StepsWithinBudget`

The process works on a session in memory and may die at any step, so none of these is
inductive about the file alone. `CoordinatorInv` says how far memory may be ahead of the
file: not at all, by the status of the last run (`TakenUp`), or by one fresh run
(`Begun`); and what each place of the code has at hand (`AtHand`). Under it every step is
of one of seven `Kinds` (the agent saves its run, the process leaves, the session
advances, the workflow is chosen, a run is taken up, a completed one is found, nothing is
saved), and each further invariant has one lemma over the kinds. `CallsInv` is why a call
is not made twice: a call whose work was done belongs to an earlier run or reply, or has
been answered, or is the one the file marks as in flight, which the next process refuses
to begin. `ModelsInv` makes the chain in memory what is left of the chain of the model
that answered last. `PhasesInv` counts completed runs: before the current phase all that
were due are there, and a phase that is completed but not yet advanced has its run as the
last one, which `_resumable_record` finds instead of running the phase again.
`BudgetInv` relates two ways of counting: an agent compares the steps of its own run with
`limit`, the coordinator sums the steps of all runs. What the agent may still take is never
more than the sum leaves of the budget and, while the first implementation runs with steps
kept for its review, never more than what is left without them; from this follows
`StepsWithinBudget`. The sum is a recursive function over the runs. `SumsExist` and
`SumsAgree` show by least counterexamples that it exists and is determined, `StepsAdded`
that a run more adds its steps, so that memory and file count the same (`StepsInFile`).

Only model-checked: liveness, which is out of the prover's reach and stays with
`WorkerFaults`, `IssueTurns` and `AgentRun`. Every safety property of a run that is
expected to pass is a theorem. What `Patch` makes of an edit of a text without lines, of
hunks with more than one line of context, or of a diff that is not `AsPrinted`, is neither
proved nor checked, except that a section that does not fit keeps the others from being
written.

## What the violations mean

* `RetryHeartbeat`. The lease thread takes "queued" for a loss of the lease.
* `PublicationWiped`. `run_once` executes the job, applies the outcome and drains the
  outbox; a completed job has lost its clone by then, so publishing the changes of a
  turn fails whenever the job was completed, and a failed action is not tried again.
* `OutcomeLost`. `_hosted_outcome` puts the outcome into `session.provider_state`, and
  `_persist` replaces that by the state of the provider before it saves (`agent.py:86`);
  `worker.py:288` and `runner.py:268` look for it in vain.

Seen while modelling, and not run on their own. Jobs:

* `enqueue` says that it accepts queued and retryable jobs and lets a running one
  through (`queue.py:47`, `:51`); `create_run` inserts a row and calls it
  (`runs.py:66`), so a worker that polled in between loses its job, and its process ends
  when its next save is refused.
* Merge clean-up takes an invalid transition for a race (`merge_cleanup.py:67`, `:90`),
  but a publishing job can never be cancelled, and its directory is removed while it
  publishes. A `JobConcurrencyError` is caught by nobody and ends the clean-up of the
  other jobs.
* `execute` decides whether to remove the clone by the status in memory, which
  `transition_job` has set before `save` is refused: a superseded worker whose job
  then failed removes a clone that `should_wipe_workspace` promises to keep.
* The retention marker gets the status of the job, "paused" (`worker.py:254`), the
  janitor spares "paused_budget" (`issue_sessions/retention.py:85-90`), and nothing refreshes the marker
  when the job runs again.

Issue sessions:

* The repository's `README.md` (line 100) and the note about an exhausted budget
  (`outbox.py:456`) advise `/agent fix` after a pause; a paused turn is active, and
  `ingest` answers the command without queuing anything.
* A job that is queued for a retry is finalized as completed (`worker.py:279`): the
  turn is taken for `changes_ready` while the job goes on to run again.
* An outcome or a publication that is late overwrites the status of a session that was
  cancelled or completed in between; `create_issue_session` starts a turn in a
  completed session; `_complete_merge` completes the active generation, whichever
  generation's merge request was merged.
* The reconciler tests the cap on remediations on a generation read before its
  transaction. Nothing in the service calls it, so `IssueService` leaves it out.
* A label put on by somebody without a say uses up the key of that event; when somebody
  with a say puts it on again, the delivery is a duplicate. A membership that cannot be
  looked up lets a label start a session, where the comment speaks of sessions that
  exist (`ingestion.py:541-545`).

The agent:

* After a crash between the save of a failed child and that of its parent, the phase
  starts again with a fresh record. `_finish_arguments` reads the last finish call of a
  message, not the one that was executed. The reserve is at least one step per start
  (`max(1, ...)`), so repeated resumptions eat into it. The models chosen by a fast run
  are saved only at its end.

Patches (`patch.py`):

* The tool says of itself that a patch is "applied atomically; on any failure nothing is
  changed" (`patch.py:296-298`), and a comment calls the writes "atomic in aggregate"
  (`:275`). That holds of sections that do not fit. A write that fails (a directory that
  cannot be made, a full disk, a text that cannot be encoded) leaves the files before it
  written and its own perhaps empty, and an error that is no `PatchError` is not even
  reported as a failed patch (`:314`).
* `normalize_diff_text` strips the blanks at the end of the diff's last line (`:83`, `:98`),
  which may be a line of the file: the hunk is then not found, or adds the line without
  them. It drops any line that begins with "index " or "diff --git ".
* A removed line that begins with "-- " reads as the name of a file; the first match in the
  window is taken, not the nearest (line 199); an insertion without context is put one
  line early; a path that a patch names twice loses its first edit, and a double deletion
  is applied half.

Publication:

* A clone that was cut off before its checkout is published as deletions if the job is not
  labeled, the repository has no manifest at `.gca/config.yaml`, and it has at most
  `max_files` files (100 by default) and 5000 lines. Even when it is not, or the checkout
  brings the files back, the configuration was read while the manifest was missing: what
  the agent did in such a clone, of a labeled job too, is published under the default
  policy, without the manifest's required checks, limits and denied paths.
* Required checks run after the syntax gate and before `git add -A` (`scm.py:328-356`,
  `:190`), so what they write is committed though nobody has parsed it. It is still
  counted and looked at by `_enforce_diff`. A path that is not ASCII escapes the syntax gate
  altogether (`scm.py:362-376` reads the quoted name).
* A change request that was opened as a draft stays one when a later attempt completes
  the job (`runner.py:300`). The limits of the policy are checked per commit
  (`scm.py:192`), but on the whole branch by a retry that has nothing to stage, which may
  refuse what was accepted before. The `index.lock` of a killed git is never removed, so
  each later attempt is refused.

## Not modelled

* The retention janitor: one pass over directories that decides by one file and its age;
  the two observations above are all there is to say.
* The lock of the signal handler (`worker.py:200`): the handler runs in the main thread
  and takes a lock that is not reentrant; `run_once` holds it for an assignment. It would
  take the byte codes of the main thread to model what these two lines say.
* Deliveries of GitHub, other than as elements of `Jobs` with their idempotency key;
  signatures, authentication, authorization of HTTP routes.
* The wire formats of model providers, the executor with its Docker command lines,
  configuration, credentials, prompts, skills, plugins, personas, usage, search and
  command tools with their safety lists, redaction and formatting, the evaluation
  harness. They are sequential, or pure input and output.
* Comments on GitHub issues and the remote traces of pipeline jobs: posts whose answers
  nothing depends on.
