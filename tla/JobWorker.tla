----------------------------- MODULE JobWorker ------------------------------
(***************************************************************************)
(* The worker process: ServiceWorker.run_once, the JobRunner it calls and  *)
(* the _LeaseKeeper thread beside it.  Each step is one transaction on the *)
(* job store or one effect outside it (a clone, the agent's run, a         *)
(* publication, the removal of a clone); between two steps other processes *)
(* may act, so the job object in the worker's memory may be out of date.   *)
(*                                                                         *)
(* The agent and the publisher are left open: what they return is chosen   *)
(* freely, and each of them may raise.  Issue turns and the outbox, which  *)
(* run_once also serves, are other components.                             *)
(***************************************************************************)
EXTENDS JobStore

CONSTANTS
  Publishing,   \* the jobs whose run_spec asks for a publication
  Linked,       \* those of them whose issue gets a branch before the agent runs
  NoJob,
  MaxFaults,    \* bound on kill -9, SIGTERM and errors of heartbeats
  Signals,      \* whether workers are sent SIGTERM
  Timely        \* whether the leases of workers at work are renewed in time

ASSUME WorkerAssumption ==
  /\ Linked \subseteq Publishing /\ Publishing \subseteq Jobs
  /\ NoJob \notin Jobs
  /\ Signals \in BOOLEAN /\ Timely \in BOOLEAN

VARIABLES
  at,           \* where the main thread of each worker is: in Busy, or "idle",
                \*   "swept" (requeue_expired is done) or "dead"
  job,          \* the job it works on
  goal,         \* the status its job object is to get, or got in memory only
  stopping,     \* the workers that received SIGTERM or SIGINT
  hurt,         \* the workers whose lease thread recorded an error
  sessions,     \* the jobs whose document names a session of the agent
  resumes,      \* the workers whose job object names one
  disk,         \* the directory of each job: "none", "meta" (.gca only), "clone"
  published,    \* what each job has shown outside the service: "draft", "final"
  faults

own == <<job, hurt, resumes>>
effects == <<sessions, disk, published>>
outside == <<stopping, faults>>
workerVars == <<at, goal, own, effects, outside>>

-----------------------------------------------------------------------------
\* JobRunner.execute alternates heartbeats and saves of the running job.
Beats == {"begin", "cloned", "branched", "ran", "publishing"}
AfterSave == [clone |-> "cloned", branch |-> "branched",
              session |-> "agent", agent |-> "ran"]

\* Where the code outside the store may raise: git, the configuration of the
\* repository, the models, the agent, the publisher.
Risky == {"clone", "branch", "session", "agent", "publish"}

\* Where run_once has an active job (_active_job_id).
Busy == Beats \cup DOMAIN AfterSave
        \cup {"claimed", "result", "publish", "published", "failing", "cleanup", "unwind"}

WorkerInit ==
  /\ at = [w \in Workers |-> "idle"]
  /\ job = [w \in Workers |-> NoJob]
  /\ goal = [w \in Workers |-> "running"]
  /\ stopping = {} /\ hurt = {}
  /\ sessions = {} /\ resumes = {}
  /\ disk = [j \in Jobs |-> "none"]
  /\ published = [j \in Jobs |-> {}]
  /\ faults = 0

-----------------------------------------------------------------------------
\* The worker goes on to the next phase with the same job.
Goto(w, phase) == at' = [at EXCEPT ![w] = phase]

Aims(w, status) == goal' = [goal EXCEPT ![w] = status]

\* The worker turns away from its job, and its job objects are gone.
Leave(w, phase) ==
  /\ Goto(w, phase)
  /\ job' = [job EXCEPT ![w] = NoJob]
  /\ Aims(w, "running")
  /\ hurt' = hurt \ {w} /\ resumes' = resumes \ {w}
  /\ Forget(w) \/ (copies[w] = {} /\ UNCHANGED vars)

\* The job object in the worker's memory.
Mine(w) == {d \in copies[w] : d.id = job[w]}

\* An exception reaches _handle_failure, which retries the transient ones.
Raises(w, transient) ==
  /\ Goto(w, "failing")
  /\ Aims(w, IF transient THEN "queued" ELSE "failed")

(***************************************************************************)
(* The worker moves its job object to a status and saves it.  If the store *)
(* lets it through, the worker goes on; otherwise JobConcurrencyError is   *)
(* raised, which is not transient, and the object keeps the status: one    *)
(* that is completed cannot be failed any more, so _handle_failure raises. *)
(***************************************************************************)
Saves(w, status, due, next) ==
  \E d \in Mine(w) :
    \/ /\ Save(w, d, status, due)
       /\ Goto(w, next)
       /\ UNCHANGED goal
    \/ /\ ~ Current(d)
       /\ IF status = "completed" THEN Goto(w, "unwind") /\ Aims(w, status)
                                  ELSE Raises(w, FALSE)
       /\ UNCHANGED vars

-----------------------------------------------------------------------------
(* run_once *)

\* queue.claim, first half: requeue_expired.
Sweep(w) ==
  /\ at[w] = "idle" /\ w \notin stopping
  /\ Goto(w, "swept")
  /\ RequeueExpired \/ (~ (\E j \in Jobs : Expired(j)) /\ UNCHANGED vars)
  /\ UNCHANGED <<goal, own, effects, outside>>

\* queue.claim, second half: claim_next finds a job, or none.
Claim(w) ==
  /\ at[w] = "swept"
  /\ \E j \in Jobs : /\ ClaimNext(w, j)
                    /\ job' = [job EXCEPT ![w] = j]
                    /\ resumes' = IF j \in sessions THEN resumes \cup {w} ELSE resumes
  /\ Goto(w, "claimed")
  /\ UNCHANGED <<goal, hurt, effects, outside>>

FindNone(w) ==
  /\ at[w] = "swept"
  /\ ~ \E j \in Jobs : Claimable(j)
  /\ Goto(w, "idle")
  /\ UNCHANGED <<vars, goal, own, effects, outside>>

\* Entering the lease keeper touches the lease; an error there ends the process.
Enter(w) ==
  /\ at[w] = "claimed"
  /\ \/ /\ TouchLease(w, job[w])
        /\ Goto(w, "begin")
        /\ disk' = [disk EXCEPT ![job[w]] = IF @ = "none" THEN "meta" ELSE @]
        /\ UNCHANGED <<goal, own>>
     \/ /\ ~ Touchable(w, job[w])
        /\ Leave(w, "dead")
        /\ UNCHANGED disk
  /\ UNCHANGED <<sessions, published, outside>>

-----------------------------------------------------------------------------
(* JobRunner.execute *)

\* Where a heartbeat leads: only an issue's job prepares a branch, and only a
\* job without a session creates one.
ToSession(w) == IF w \in resumes THEN "agent" ELSE "session"

\* Faulty variant of AfterBeat: nothing is published.
AfterBeatUnpublished(w) ==
  CASE at[w] = "begin"      -> "clone"
    [] at[w] = "cloned"     -> IF job[w] \in Linked THEN "branch" ELSE ToSession(w)
    [] at[w] = "branched"   -> ToSession(w)
    [] at[w] = "ran"        -> "result"
    [] at[w] = "publishing" -> "published"

AfterBeat(w) ==
  CASE at[w] = "begin"      -> "clone"
    [] at[w] = "cloned"     -> IF job[w] \in Linked THEN "branch" ELSE ToSession(w)
    [] at[w] = "branched"   -> ToSession(w)
    [] at[w] = "ran"        -> "result"
    [] at[w] = "publishing" -> "publish"

\* A heartbeat raises if the lease thread failed or the lease is lost.
Heartbeat(w) ==
  /\ at[w] \in Beats
  /\ \/ /\ w \notin hurt
        /\ TouchLease(w, job[w])
        /\ Goto(w, AfterBeat(w))
        /\ UNCHANGED goal
     \/ /\ w \in hurt \/ ~ Touchable(w, job[w])
        /\ Raises(w, FALSE)
        /\ UNCHANGED vars
  /\ UNCHANGED <<own, effects, outside>>

\* prepare_repository, prepare_working_branch, the creation of the session and
\* the agent's run each end with a save of the running job.
Progress(w) ==
  /\ at[w] \in DOMAIN AfterSave
  /\ Saves(w, "running", "due", AfterSave[at[w]])
  /\ disk' = IF at[w] = "clone" THEN [disk EXCEPT ![job[w]] = "clone"] ELSE disk
  /\ sessions' = IF at[w] = "session" /\ at'[w] = "agent"
                 THEN sessions \cup {job[w]} ELSE sessions
  /\ UNCHANGED <<own, published, outside>>

Raise(w) ==
  /\ at[w] \in Risky
  /\ \E transient \in BOOLEAN : Raises(w, transient)
  /\ UNCHANGED <<vars, own, effects, outside>>

\* _apply_result without a publication: the agent waits for a human (which
\* completes the job), pauses on its budget, fails, or has nothing to publish.
Conclude(w) ==
  /\ at[w] = "result"
  /\ \E status \in {"completed", "paused", "failed"} : Saves(w, status, "due", "cleanup")
  /\ UNCHANGED <<own, effects, outside>>

\* _apply_result with a publication: the final one of a completed run, or a
\* draft of what a run that pauses has finished.
StartPublish(w) ==
  /\ at[w] = "result" /\ job[w] \in Publishing
  /\ \E d \in Mine(w), status \in {"completed", "paused"} :
       \/ /\ Save(w, d, "publishing", "due")
          /\ Goto(w, "publishing")
          /\ Aims(w, status)
       \/ ~ Current(d) /\ Raises(w, FALSE) /\ UNCHANGED vars
  /\ UNCHANGED <<own, effects, outside>>

\* A PublicationError of a draft only changes the message of the pause.
Publish(w) ==
  /\ at[w] = "publish"
  /\ Goto(w, "published")
  /\ LET kind == IF goal[w] = "completed" THEN "final" ELSE "draft"
     IN  \/ published' = [published EXCEPT ![job[w]] = @ \cup {kind}]
         \/ kind = "draft" /\ UNCHANGED published
  /\ UNCHANGED <<vars, goal, own, disk, sessions, outside>>

Settle(w) ==
  /\ at[w] = "published"
  /\ Saves(w, goal[w], "due", "cleanup")
  /\ UNCHANGED <<own, effects, outside>>

\* Faulty variant of HandleFailure: the attempts are not looked at.
HandleFailureUnbounded(w) ==
  /\ at[w] = "failing"
  /\ \E d \in Mine(w) :
       LET retry == goal[w] = "queued"
       IN  \/ /\ Save(w, d, IF retry THEN "queued" ELSE "failed",
                       IF retry THEN "delayed" ELSE "due")
              /\ Goto(w, "cleanup")
              /\ UNCHANGED goal
           \/ ~ Current(d) /\ Goto(w, "unwind") /\ Aims(w, "failed") /\ UNCHANGED vars
  /\ UNCHANGED <<own, effects, outside>>

\* _handle_failure: a transient failure is retried after a delay while attempts
\* are left.  If its save is refused too, the exception leaves execute.
HandleFailure(w) ==
  /\ at[w] = "failing"
  /\ \E d \in Mine(w) :
       LET retry == goal[w] = "queued" /\ CanRetry(d, MaxAttempts)
       IN  \/ /\ Save(w, d, IF retry THEN "queued" ELSE "failed",
                       IF retry THEN "delayed" ELSE "due")
              /\ Goto(w, "cleanup")
              /\ UNCHANGED goal
           \/ ~ Current(d) /\ Goto(w, "unwind") /\ Aims(w, "failed") /\ UNCHANGED vars
  /\ UNCHANGED <<own, effects, outside>>

\* Faulty variant of Cleanup: the clone is removed whatever the status.
CleanupAlways(w) ==
  /\ at[w] \in {"cleanup", "unwind"}
  /\ disk' = IF disk[job[w]] = "clone" THEN [disk EXCEPT ![job[w]] = "meta"] ELSE disk
  /\ Leave(w, IF at[w] = "unwind" \/ w \in hurt THEN "dead" ELSE "idle")
  /\ UNCHANGED <<sessions, published, outside>>

\* The "finally" of execute removes the clone if the job object is completed;
\* then run_once returns, or the exception ends the process.
Cleanup(w) ==
  /\ at[w] \in {"cleanup", "unwind"}
  /\ LET status == IF at[w] = "unwind" THEN {goal[w]} ELSE {d.status : d \in Mine(w)}
     IN  disk' = IF "completed" \in status /\ disk[job[w]] = "clone"
                 THEN [disk EXCEPT ![job[w]] = "meta"] ELSE disk
  /\ Leave(w, IF at[w] = "unwind" \/ w \in hurt THEN "dead" ELSE "idle")
  /\ UNCHANGED <<sessions, published, outside>>

-----------------------------------------------------------------------------
(* The lease thread, signals, faults *)

\* The lease of a worker at work is renewed.
Renew(w) ==
  /\ at[w] \in Busy \ {"claimed"} /\ w \notin hurt
  /\ TouchLease(w, job[w])
  /\ UNCHANGED workerVars

\* The touch of the lease thread raises: the lease is lost, or the database did
\* not answer (a fault).  That is an error unless the job is over.
RenewFails(w) ==
  /\ at[w] \in Busy \ {"claimed"} /\ w \notin hurt
  /\ \/ ~ Touchable(w, job[w]) /\ UNCHANGED faults
     \/ ~ Timely /\ faults < MaxFaults /\ faults' = faults + 1
  /\ rows[job[w]].status \notin {"completed", "failed", "paused", "cancelled"}
  /\ hurt' = hurt \cup {w}
  /\ UNCHANGED <<vars, at, job, goal, resumes, effects, stopping>>

\* SIGTERM, SIGINT: the handler releases the lease of the active job (which may
\* not be noted yet when it has just been claimed), and the main thread goes on
\* where it was until run_once returns.
Shutdown(w) ==
  /\ Signals /\ at[w] # "dead" /\ w \notin stopping
  /\ faults < MaxFaults /\ faults' = faults + 1
  /\ stopping' = stopping \cup {w}
  /\ IF at[w] \in Busy /\ Releasable(w, job[w])
     THEN ReleaseLease(w, job[w]) \/ (at[w] = "claimed" /\ UNCHANGED vars)
     ELSE UNCHANGED vars
  /\ UNCHANGED <<at, goal, own, effects>>

Exit(w) ==
  /\ at[w] = "idle" /\ w \in stopping
  /\ Leave(w, "dead")
  /\ UNCHANGED <<effects, outside>>

Crash(w) ==
  /\ at[w] # "dead" /\ faults < MaxFaults
  /\ faults' = faults + 1
  /\ Leave(w, "dead")
  /\ UNCHANGED <<effects, stopping>>

\* The process is started again, under the worker_id it had.
Restart(w) ==
  /\ at[w] = "dead"
  /\ Goto(w, "idle")
  /\ stopping' = stopping \ {w}
  /\ UNCHANGED <<vars, goal, own, effects, faults>>

\* A lease lapses if nobody renews it, and even if somebody does unless Timely.
Attended(j) == \E w \in Workers :
                 job[w] = j /\ rows[j].owner = w /\ w \notin hurt

Expire(j) ==
  /\ Timely => ~ Attended(j)
  /\ Lapse(j)
  /\ UNCHANGED workerVars

Delay(j) == BecomeDue(j) /\ UNCHANGED workerVars

-----------------------------------------------------------------------------
\* The main thread of a worker.
Run(w) == \/ Sweep(w) \/ Claim(w) \/ FindNone(w) \/ Enter(w)
          \/ Heartbeat(w) \/ Progress(w) \/ Raise(w)
          \/ Conclude(w) \/ StartPublish(w) \/ Publish(w) \/ Settle(w)
          \/ HandleFailure(w) \/ Cleanup(w) \/ Exit(w)

WorkerNext ==
  \/ \E w \in Workers : Run(w) \/ Renew(w) \/ RenewFails(w)
                        \/ Shutdown(w) \/ Crash(w) \/ Restart(w)
  \/ \E j \in Jobs : Expire(j) \/ Delay(j)
=============================================================================
