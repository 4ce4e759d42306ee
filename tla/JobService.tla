----------------------------- MODULE JobService -----------------------------
(***************************************************************************)
(* The job service: worker processes and the handlers of the HTTP API and  *)
(* of webhooks, on one job store.  A handler is a sequence of store        *)
(* operations; another process (a worker, a second API process, the gca    *)
(* command line) may act between any two of them, and the process that     *)
(* runs it may end there.                                                  *)
(*                                                                         *)
(* call[c] is the request that client c serves: its operation, the next    *)
(* statement of its handler, the job it is about, and for a merged change  *)
(* request the jobs still to be cleaned up.                                *)
(***************************************************************************)
EXTENDS JobWorker

CONSTANTS
  Ops,          \* the requests that clients make
  MaxCalls,     \* bound on their number
  Prompt        \* whether a request is served before a worker takes a step

ASSUME ServiceAssumption ==
  /\ Ops \subseteq {"run", "turn", "cancel", "requeue", "resume", "merge"}
  /\ Prompt \in BOOLEAN

VARIABLES
  call,         \* a request is at "load", "save", "enqueue", "requeue", "next",
                \*   "cancel", "wipe", "note" or "return"
  calls,
  revived       \* how often enqueue put a job back that was not queued

clientVars == <<call, calls, revived>>
serviceVars == <<vars, workerVars, clientVars>>

-----------------------------------------------------------------------------
NoCall == [op |-> "none", at |-> "return", job |-> NoJob, todo |-> {}]

ServiceInit == /\ Init
               /\ WorkerInit
               /\ call = [c \in Clients |-> NoCall]
               /\ calls = 0
               /\ revived = [j \in Jobs |-> 0]

-----------------------------------------------------------------------------
\* A client starts to serve a request.
Begin(c, op, stmt, j, todo) ==
  /\ op \in Ops /\ call[c] = NoCall /\ calls < MaxCalls
  /\ calls' = calls + 1
  /\ call' = [call EXCEPT ![c] = [op |-> op, at |-> stmt, job |-> j, todo |-> todo]]

\* The handler goes on to its next statement.
Step(c, stmt) == call' = [call EXCEPT ![c].at = stmt]

\* A request that is answered at its first statement changes nothing.
Answered(op) == op \in Ops /\ calls < MaxCalls /\ calls' = calls + 1 /\ UNCHANGED call

\* The client's job object.
Object(c) == {d \in copies[c] : d.id = call[c].job}

\* Faulty variant of ClientSave: a refused save is forced through.
ClientSaveForced(c, d, status, next) ==
  /\ \/ Save(c, d, status, rows[d.id].due)
     \/ /\ ~ Current(d)
        /\ rows' = [rows EXCEPT ![d.id].status = status, ![d.id].doc.status = status]
        /\ UNCHANGED copies
  /\ Step(c, next)

\* The handler saves its object; a refused save ends the request with an error.
ClientSave(c, d, status, next) ==
  \/ /\ Save(c, d, status, rows[d.id].due)
     /\ Step(c, next)
  \/ ~ Current(d) /\ Step(c, "return") /\ UNCHANGED vars

\* create_run and the webhook of a provider insert the job and, if what create
\* returned is queued, enqueue it; the turn of an issue session, which is never
\* published by the runner, is inserted only.
Submit(c) ==
  /\ \E op \in {"run", "turn"}, j \in Jobs :
     /\ op = "turn" => j \notin Publishing
     /\ \/ /\ Create(c, j)
          /\ Begin(c, op, IF op = "run" THEN "enqueue" ELSE "return", j, {})
        \/ \E i \in Jobs :
            /\ Replay(c, j, i)
            /\ Begin(c, op, IF op = "run" /\ rows[i].doc.status = "queued"
                            THEN "enqueue" ELSE "return", i, {})
  /\ UNCHANGED <<workerVars, revived>>

\* enqueue, first half: load the job; a finished one raises JobTransitionError.
Enqueue(c) ==
  /\ call[c].at = "enqueue"
  /\ Load(c, call[c].job)
  /\ Step(c, IF CanMove(rows[call[c].job].doc, "queued") THEN "requeue" ELSE "return")
  /\ UNCHANGED <<workerVars, calls, revived>>

\* enqueue, second half: queue it, due now.
Requeue(c) ==
  /\ call[c].at = "requeue"
  /\ \E d \in Object(c) :
       \/ /\ Save(c, d, "queued", "due")
          /\ revived' = IF d.status = "queued" THEN revived
                        ELSE [revived EXCEPT ![d.id] = @ + 1]
       \/ ~ Current(d) /\ UNCHANGED <<vars, revived>>
  /\ Step(c, "return")
  /\ UNCHANGED <<workerVars, calls>>

\* The statuses from which a handler serves a request; from others it refuses.
Serves == [cancel  |-> {"queued", "paused"},
           resume  |-> {"paused"},
           requeue |-> {"running", "publishing"}]

\* cancel_run, resume_run and requeue_run load the job, and then save it.
Ask(c) ==
  /\ \E op \in DOMAIN Serves, j \in Created :
       \/ /\ rows[j].doc.status \in Serves[op]
          /\ Load(c, j)
          /\ Begin(c, op, "save", j, {})
       \/ /\ rows[j].doc.status \notin Serves[op]
          /\ Answered(op)
          /\ UNCHANGED vars
  /\ UNCHANGED <<workerVars, revived>>

Serve(c) ==
  /\ call[c].at = "save"
  /\ \E d \in Object(c) :
       \/ call[c].op = "cancel" /\ ClientSave(c, d, "cancelled", "return")
       \/ call[c].op = "resume" /\ ClientSave(c, d, d.status, "enqueue")
       \/ call[c].op = "requeue"
          /\ ClientSave(c, d, ReclaimStatus(d, MaxAttempts), "return")
  /\ UNCHANGED <<workerVars, calls, revived>>

-----------------------------------------------------------------------------
(* cleanup_jobs_for_merged_change_request *)

\* The statuses from which it cancels a job.
MergeActive == {"queued", "running", "paused", "publishing"}

\* All jobs are read; any of them may be linked to the change request.
Merge(c) ==
  /\ List(c)
  /\ \E matched \in SUBSET Created : Begin(c, "merge", "next", NoJob, matched)
  /\ UNCHANGED <<workerVars, revived>>

\* The next job is cancelled first, unless it is over or the transition is
\* invalid (JobTransitionError is caught).
MergeNext(c) ==
  /\ call[c].at = "next"
  /\ \/ call[c].todo = {} /\ Step(c, "return")
     \/ \E d \in copies[c] :
          /\ d.id \in call[c].todo
          /\ call' = [call EXCEPT ![c].job = d.id, ![c].todo = @ \ {d.id},
                        ![c].at = IF d.status \in MergeActive /\ CanMove(d, "cancelled")
                                  THEN "cancel" ELSE "wipe"]
  /\ UNCHANGED <<vars, workerVars, calls, revived>>

MergeCancel(c) ==
  /\ call[c].at = "cancel"
  /\ \E d \in Object(c) : ClientSave(c, d, "cancelled", "wipe")
  /\ UNCHANGED <<workerVars, calls, revived>>

\* _wipe_job_workspace removes the whole directory of the job ...
MergeWipe(c) ==
  /\ call[c].at = "wipe"
  /\ Step(c, IF disk[call[c].job] = "none" THEN "next" ELSE "note")
  /\ disk' = [disk EXCEPT ![call[c].job] = "none"]
  /\ UNCHANGED <<vars, at, goal, own, sessions, published, outside, calls, revived>>

\* ... and the job, with no workspace_path, is saved again.
MergeNote(c) ==
  /\ call[c].at = "note"
  /\ \E d \in Object(c) : ClientSave(c, d, d.status, "next")
  /\ UNCHANGED <<workerVars, calls, revived>>

\* The handler returns, or the process that runs it dies.
Return(c) ==
  /\ call[c] # NoCall
  /\ Prompt => call[c].at = "return"
  /\ call' = [call EXCEPT ![c] = NoCall]
  /\ Forget(c) \/ (copies[c] = {} /\ UNCHANGED vars)
  /\ UNCHANGED <<workerVars, calls, revived>>

-----------------------------------------------------------------------------
ClientNext ==
  \E c \in Clients :
    \/ Submit(c) \/ Enqueue(c) \/ Requeue(c) \/ Ask(c) \/ Serve(c)
    \/ Merge(c) \/ MergeNext(c) \/ MergeCancel(c) \/ MergeWipe(c) \/ MergeNote(c)
    \/ Return(c)

\* A worker, a signal, a fault or the clock moves.
Served == Prompt => \A c \in Clients : call[c] = NoCall

ServiceNext == ClientNext \/ (Served /\ WorkerNext /\ UNCHANGED clientVars)

ServiceSpec == ServiceInit /\ [][ServiceNext]_serviceVars

(***************************************************************************)
(* Fairness: the main thread of a live worker goes on (the agent stops at  *)
(* its step limit), a process that died is started again, the lease of a   *)
(* job nobody works on runs out, the delay of a retry ends, and the        *)
(* handler of a new job comes to its end.  Nothing is assumed of new       *)
(* requests, heartbeats or signals.                                        *)
(***************************************************************************)
Fairness ==
  /\ \A w \in Workers :
       /\ WF_serviceVars(Served /\ Run(w) /\ UNCHANGED clientVars)
       /\ WF_serviceVars(Served /\ Restart(w) /\ UNCHANGED clientVars)
  /\ \A j \in Jobs :
       /\ WF_serviceVars(Served /\ ~ Attended(j) /\ Expire(j) /\ UNCHANGED clientVars)
       /\ WF_serviceVars(Served /\ Delay(j) /\ UNCHANGED clientVars)
  /\ \A c \in Clients : WF_serviceVars(Enqueue(c) \/ Requeue(c) \/ Return(c))

FairSpec == ServiceSpec /\ Fairness

-----------------------------------------------------------------------------
(* Properties *)

\* max_attempts bounds the attempts of a job across crashes, retries, shutdowns
\* and operator reclaims; only an enqueue of a job that was not queued adds one.
AttemptsBounded ==
  \A j \in Created :
    rows[j].doc.attempt + (IF rows[j].status = "queued" THEN 1 ELSE 0)
      <= MaxAttempts + revived[j]

\* A job leaves "publishing" as completed only after the final publication,
\* although a worker that lost it may still publish, and its save be refused.
CompletedAfterPublication ==
  [][\A j \in Jobs : rows[j].status = "publishing" /\ rows'[j].status = "completed"
                       => "final" \in published[j]]_serviceVars

\* A step that lets a save of w through, or takes w to a phase of the set.
Saved(w) == copies'[w] # copies[w]
Enters(w, phases) == at'[w] # at[w] /\ at'[w] \in phases

\* A worker whose lease was taken (it lapsed and the row was swept, its own signal
\* handler released it, an operator requeued the job) goes on executing until a
\* heartbeat tells it; another worker may run the same job meanwhile.  None of its
\* results gets into the table, and it begins no phase that works in the clone or
\* at the forge: both take the lease at that very moment, not when it was read.
ActsUnderLease ==
  [][\A w \in Workers :
       at[w] \in Busy /\ job'[w] = job[w] /\ (Saved(w) \/ Enters(w, Risky))
         => ActiveRow(job[w]) /\ rows[job[w]].owner = w]_serviceVars

\* A running or publishing job stops being so only on purpose: its lease has lapsed,
\* its owner moved it or was shut down, or a request that is meant for jobs at work
\* (requeue, merge) took it, the object of that request still being current.  The
\* cancel or resume of a job that was claimed after the request had loaded it, queued
\* or paused, does not; only the enqueue that ends a create or a resume may (it
\* queues whatever it loads, and "revived" counts that).
TakenOnPurpose ==
  [][\A j \in Jobs : ActiveRow(j) /\ ~ ActiveRow(j)' =>
       \/ rows[j].lease = "lapsed"
       \/ \E w \in Workers : /\ rows[j].owner = w /\ job[w] = j
                             /\ at'[w] # at[w] \/ w \in (stopping' \ stopping)
       \/ \E c \in Clients : /\ call[c].job = j /\ call'[c] # call[c]
                             /\ \/ call[c].op \in {"requeue", "merge"}
                                \/ revived'[j] > revived[j]]_serviceVars

\* Where a worker touches the clone of its job or the forge.
AtWork(w) == at[w] \in Busy \ {"claimed", "begin", "failing", "cleanup", "unwind"}

\* With timely leases, prompt requests, no signal and nobody who takes a job from
\* its worker (a requeue, a merge), at most one worker works on a repository at any
\* moment, through crashes, retries, cancellations and resumptions.
OneAtWork ==
  \A v, w \in Workers :
    v # w /\ AtWork(v) /\ AtWork(w) => RepoOf[job[v]] # RepoOf[job[w]]

\* ... and no other worker removes the clone it works in, which a retry finds
\* as the attempt before it left it.
CloneUnderWork ==
  \A w \in Workers : AtWork(w) /\ at[w] # "clone" => disk[job[w]] = "clone"

\* Every job keeps coming to rest, with a result or waiting for an operator,
\* whatever crashes: no job stays queued, running or publishing for ever.
EveryJobSettles ==
  \A j \in Jobs : []<>(rows[j].status \notin {"queued", "running", "publishing"})

\* worker.py says of run_forever: "Poll until ``stop`` is set."
PollsUntilStopped ==
  [][\A w \in Workers : at[w] # "dead" /\ at'[w] = "dead"
                         => w \in stopping \/ faults' # faults]_serviceVars
-----------------------------------------------------------------------------
(* Inductive invariants *)

Statements == {"load", "save", "enqueue", "requeue", "next", "cancel", "wipe", "note", "return"}

MergeStatements == {"next", "cancel", "wipe", "note"}

Call == [op : Ops \cup {"none"}, at : Statements, job : Jobs \cup {NoJob}, todo : SUBSET Jobs]

WorkerTypeOK ==
  /\ at \in [Workers -> Busy \cup {"idle", "swept", "dead"}]
  /\ job \in [Workers -> Jobs \cup {NoJob}]
  /\ goal \in [Workers -> Statuses]
  /\ hurt \subseteq Workers
  /\ disk \in [Jobs -> {"none", "meta", "clone"}]
  /\ published \in [Jobs -> SUBSET {"draft", "final"}]

ServiceTypeOK ==
  /\ WorkerTypeOK
  /\ call \in [Clients -> Call]
  /\ revived \in [Jobs -> Nat]

\* Before a publication starts, and while it goes on.
Early == {"claimed", "begin", "clone", "cloned", "branch", "branched", "session", "agent",
          "ran", "result"}
Late == {"publishing", "publish", "published"}

\* The job objects of a worker are those of its job, in the status that the place
\* where it is implies, and a final publication comes before its completion.
InHand(w) ==
  /\ at[w] \in Busy <=> job[w] \in Jobs
  /\ at[w] \notin Busy => copies[w] = {}
  /\ \A d \in copies[w] : d.id = job[w]
  /\ at[w] \in Early => \A d \in copies[w] : d.status = "running"
  /\ at[w] \in Late => /\ \A d \in copies[w] : d.status = "publishing"
                       /\ goal[w] \in {"completed", "paused"}
  /\ at[w] = "published" /\ goal[w] = "completed" => "final" \in published[job[w]]
  /\ at[w] = "failing" => \A d \in copies[w] : d.status \in Active

\* A request stands at a statement of its own handler, which may need a job.
OwnStatement(c) ==
  /\ call[c].at = "save" => call[c].op \in DOMAIN Serves
  /\ call[c].at \in MergeStatements => call[c].op = "merge"
  /\ call[c].at \in {"save", "enqueue"} => call[c].job \in Jobs

ServiceInv ==
  /\ IInv
  /\ ServiceTypeOK
  /\ \A w \in Workers : InHand(w)
  /\ \A c \in Clients : OwnStatement(c)

\* A handler that is about to save decided on the object that it still has.
Decided(c) == call[c].at = "save" => \A d \in Object(c) : d.status \in Serves[call[c].op]

DecidedInv == ServiceInv /\ \A c \in Clients : Decided(c)

\* What makes the leases of a service exclusive: renewals come in time, a request
\* is served before a worker moves, and no signal, operator's requeue or merge
\* takes a job out of a worker's hands.
Calm == Timely /\ Prompt /\ ~ Signals /\ Ops \cap {"requeue", "merge"} = {}

\* From its claim to the save that ends it, the worker holds a lease that is
\* renewed, on the row that its job object is a copy of.
Holds(w) ==
  /\ w \notin hurt
  /\ rows[job[w]].status \in Active
  /\ rows[job[w]].owner = w /\ rows[job[w]].lease = "live"
  /\ \A d \in copies[w] : Current(d)

Undisturbed(w) ==
  /\ at[w] # "unwind"
  /\ at[w] \in Busy \ {"cleanup"} => Holds(w)
  /\ at[w] \notin Busy => w \notin hurt
  /\ AtWork(w) /\ at[w] # "clone" => disk[job[w]] = "clone"

\* What a request is about to save or enqueue is not under work.
StaysAway(c) ==
  /\ call[c].at \in {"save", "requeue"} => \A d \in Object(c) : d.status \notin Active
  /\ call[c].at = "enqueue" => rows[call[c].job].status \notin Active

\* A job that a copy shows as completed stays completed.
CompletedForGood ==
  \A h \in Holders : \A d \in copies[h] :
    d.status = "completed" => rows[d.id].status = "completed"

CalmInv ==
  /\ ServiceInv
  /\ \A w \in Workers : Undisturbed(w)
  /\ \A c \in Clients : StaysAway(c)
  /\ CompletedForGood
=============================================================================
