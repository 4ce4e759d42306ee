---------------------------- MODULE IssueService ----------------------------
(***************************************************************************)
(* The session of one issue with the worker processes that serve it: each  *)
(* claims the job of a turn, runs the agent, applies the outcome, and      *)
(* carries out outbound actions (OutboxProcessor) between two jobs.        *)
(*                                                                         *)
(* The job of a turn is abstract here: one worker at a time holds it, and  *)
(* if that worker dies it is queued again while attempts are left, which   *)
(* is what JobStore and JobWorker establish for workers whose leases are   *)
(* renewed in time.  The jobs of a session share a repository, so at most  *)
(* one of them is under work.  The agent may come to any result.           *)
(***************************************************************************)
EXTENDS IssueSessions, Sequences

LOCAL INSTANCE SequencesExt

CONSTANTS
  Workers,
  MaxAttempts,      \* Job.max_attempts
  MaxFaults         \* bound on kill -9 of workers and on errors of GitLab's API

ASSUME IssueServiceAssumption ==
  IsFiniteSet(Workers) /\ MaxAttempts \in Nat /\ MaxFaults \in Nat

VARIABLES
  proc,             \* the main thread of each worker: "idle", "listed", "leased",
                    \*   "opened", "done", "erred", "working", "ended" or "dead"
  jobs,             \* the job of each turn: its status and attempts
  disk,             \* the repository in its workspace: "none", "clone", "wiped"
  leased, succeeded, failed,   \* the outbound actions with these statuses
  posted,           \* how often each action took effect at GitLab
  requests,         \* the generations whose merge request GitLab has
  order,            \* the outbound actions by created_at
  faults

rowVars == <<leased, succeeded, failed>>
worldVars == <<posted, requests>>
workVars == <<jobs, disk>>
issueVars == <<vars, proc, workVars, rowVars, worldVars, order, faults>>

-----------------------------------------------------------------------------
NoEffect == <<"none", 0>>

\* batch: the actions listed and not yet processed; effect: the one in process;
\* turn: the turn whose job the worker holds; outcome: what that came to.
Idle == [at |-> "idle", batch |-> {}, effect |-> NoEffect, turn |-> 0,
         outcome |-> "failed"]

IssueServiceInit ==
  /\ Init
  /\ proc = [w \in Workers |-> Idle]
  /\ jobs = [t \in Turns |-> [status |-> "queued", attempt |-> 0]]
  /\ disk = [t \in Turns |-> "none"]
  /\ leased = {} /\ succeeded = {} /\ failed = {}
  /\ posted = [f \in Effects |-> 0]
  /\ requests = {}
  /\ order = <<>>
  /\ faults = 0

Goto(w, phase) == proc' = [proc EXCEPT ![w].at = phase]

\* The status column of outbound_actions; save_outbound_action overwrites it.
Pending == intents \ (leased \cup succeeded \cup failed)

\* Actions are listed, and then processed, ORDER BY created_at.
Earlier(f, g) == \E i, j \in DOMAIN order : i < j /\ order[i] = f /\ order[j] = g
First(f, actions) == f \in actions /\ \A g \in actions \ {f} : Earlier(f, g)

\* New actions; the note about a merge request comes before its merge.
Logged == order' = order \o SetToSortSeq(intents' \ intents, LAMBDA f, g : g[1] = "merge")

Marked(f, status) ==
  /\ leased'    = IF status = "leased" THEN leased \cup {f} ELSE leased \ {f}
  /\ succeeded' = IF status = "succeeded" THEN succeeded \cup {f} ELSE succeeded \ {f}
  /\ failed'    = IF status = "failed" THEN failed \cup {f} ELSE failed \ {f}

-----------------------------------------------------------------------------
(* OutboxProcessor.process_pending, with which run_once starts and ends: the   *)
(* call at its end is the one at the start of the next                         *)

\* Faulty variant of List: actions of a worker that died are listed as well.
ListUnfinished(w) ==
  /\ proc[w].at = "idle"
  /\ proc' = [proc EXCEPT ![w].at = "listed", ![w].batch = Pending \cup leased]
  /\ UNCHANGED <<vars, order, workVars, rowVars, worldVars, faults>>

\* list_pending_outbound; its limit of 20 is not reached here.
List(w) ==
  /\ proc[w].at = "idle"
  /\ proc' = [proc EXCEPT ![w].at = "listed", ![w].batch = Pending]
  /\ UNCHANGED <<vars, order, workVars, rowVars, worldVars, faults>>

\* process_one leases the action it was given, whatever the row says by now.
Lease(w) ==
  /\ proc[w].at = "listed"
  /\ \E f \in proc[w].batch :
       /\ First(f, proc[w].batch)
       /\ proc' = [proc EXCEPT ![w].at = "leased", ![w].effect = f, ![w].batch = @ \ {f}]
       /\ Marked(f, "leased")
  /\ UNCHANGED <<vars, order, workVars, worldVars, faults>>

Fault == faults < MaxFaults /\ faults' = faults + 1

\* _post_issue_note and _merge_mr: one call, which may raise.
Post(w) ==
  LET f == proc[w].effect
  IN  /\ proc[w].at = "leased" /\ f[1] # "publish"
      /\ \/ Goto(w, "done") /\ posted' = [posted EXCEPT ![f] = @ + 1]
            /\ UNCHANGED faults
         \/ Goto(w, "erred") /\ Fault /\ UNCHANGED posted
      /\ UNCHANGED <<vars, order, workVars, rowVars, requests>>

\* _publish_changes up to the merge request: commit, push, and create or get the
\* merge request.  GitLab refuses a second open one for a branch.  A turn whose
\* job never had a clone names no path, and "" is the worker's own directory.
OpenRequest(w) ==
  LET f == proc[w].effect
      g == turns[f[2]].gen
  IN  /\ proc[w].at = "leased" /\ f[1] = "publish"
      /\ \/ /\ disk[f[2]] # "wiped"
            /\ g \in linked \/ g \notin requests
            /\ Goto(w, "opened")
            /\ posted' = [posted EXCEPT ![f] = @ + 1]
            /\ requests' = requests \cup {g}
            /\ UNCHANGED faults
         \/ /\ Goto(w, "erred")
            /\ IF disk[f[2]] = "clone" /\ (g \in linked \/ g \notin requests)
               THEN Fault ELSE UNCHANGED faults
            /\ UNCHANGED worldVars
      /\ UNCHANGED <<vars, order, workVars, rowVars>>

Record(w) ==
  /\ proc[w].at = "opened"
  /\ RecordPublication(proc[w].effect[2]) /\ Logged
  /\ Goto(w, "done")
  /\ UNCHANGED <<workVars, rowVars, worldVars, faults>>

\* Faulty variants of Finish: an error counts as a result, ...
FinishAnyhow(w) ==
  /\ proc[w].at \in {"done", "erred"}
  /\ Marked(proc[w].effect, "succeeded")
  /\ proc' = [proc EXCEPT ![w].at = "listed", ![w].effect = NoEffect]
  /\ UNCHANGED <<vars, order, workVars, worldVars, faults>>

\* ... or is only logged.
FinishPosted(w) ==
  /\ proc[w].at \in {"done", "erred"}
  /\ Marked(proc[w].effect, IF proc[w].at = "done" THEN "succeeded" ELSE "leased")
  /\ proc' = [proc EXCEPT ![w].at = "listed", ![w].effect = NoEffect]
  /\ UNCHANGED <<vars, order, workVars, worldVars, faults>>

\* The result of the action is saved.
Finish(w) ==
  /\ proc[w].at \in {"done", "erred"}
  /\ Marked(proc[w].effect, IF proc[w].at = "done" THEN "succeeded" ELSE "failed")
  /\ proc' = [proc EXCEPT ![w].at = "listed", ![w].effect = NoEffect]
  /\ UNCHANGED <<vars, order, workVars, worldVars, faults>>

-----------------------------------------------------------------------------
(* ServiceWorker.run_once *)

Claimable(t) == /\ turns[t].status # "absent"
                /\ jobs[t].status = "queued" /\ jobs[t].attempt < MaxAttempts
                /\ \A u \in Turns : jobs[u].status # "running"

Claim(w) ==
  /\ proc[w].at = "listed" /\ proc[w].batch = {}
  /\ \E t \in Turns :
       /\ Claimable(t)
       /\ jobs' = [jobs EXCEPT ![t] = [status |-> "running", attempt |-> @.attempt + 1]]
       /\ proc' = [proc EXCEPT ![w].at = "working", ![w].turn = t]
  /\ UNCHANGED <<vars, order, disk, rowVars, worldVars, faults>>

FindNone(w) ==
  /\ proc[w].at = "listed" /\ proc[w].batch = {}
  /\ ~ \E t \in Turns : Claimable(t)
  /\ Goto(w, "idle")
  /\ UNCHANGED <<vars, order, workVars, rowVars, worldVars, faults>>

\* The end of execute: the status of the job, what becomes of its clone, and the
\* outcome that _finalize_issue_turn will derive from both.  A job that is to be
\* tried again is neither paused nor failed, so its result counts as completed.
Ends == [completed |-> {"needs_human", "no_safe_change", "changes_ready"},
         paused    |-> {"budget_exhausted"},
         failed    |-> {"failed"},
         queued    |-> {"changes_ready"}]

Execute(w) ==
  LET t == proc[w].turn
  IN  /\ proc[w].at = "working"
      /\ \E status \in DOMAIN Ends, outcome \in Outcomes :
           /\ outcome \in Ends[status]
           /\ status = "queued" => jobs[t].attempt < MaxAttempts
           /\ jobs' = [jobs EXCEPT ![t].status = status]
           /\ disk' \in {[disk EXCEPT ![t] = new] :
                           new \in CASE status = "completed" -> {"wiped"}
                                     [] status = "paused" -> {"clone"}
                                     [] OTHER -> {disk[t], "clone"}}
           /\ proc' = [proc EXCEPT ![w].at = "ended", ![w].outcome = outcome]
      /\ UNCHANGED <<vars, order, rowVars, worldVars, faults>>

\* Faulty variant of Finalize: a failed job has no outcome.
FinalizeResults(w) ==
  /\ proc[w].at = "ended"
  /\ IF proc[w].outcome = "failed" THEN UNCHANGED <<vars, order>>
     ELSE Apply(proc[w].turn, proc[w].outcome) /\ Logged
  /\ proc' = [proc EXCEPT ![w] = Idle]
  /\ UNCHANGED <<workVars, rowVars, worldVars, faults>>

\* _finalize_issue_turn.  An exception from it ends the process.
Finalize(w) ==
  LET t == proc[w].turn
  IN  /\ proc[w].at = "ended"
      /\ \/ Apply(t, proc[w].outcome) /\ Logged /\ proc' = [proc EXCEPT ![w] = Idle]
         \/ /\ ~ (TurnAfter[proc[w].outcome] \in Active => ActiveTurns(turns[t].gen) \subseteq {t})
            /\ proc' = [proc EXCEPT ![w] = [Idle EXCEPT !.at = "dead"]]
            /\ UNCHANGED <<vars, order>>
      /\ UNCHANGED <<workVars, rowVars, worldVars, faults>>

\* kill -9; the job is reclaimed once its lease has run out.
Crash(w) ==
  /\ proc[w].at # "dead" /\ Fault
  /\ proc' = [proc EXCEPT ![w] = [Idle EXCEPT !.at = "dead"]]
  /\ jobs' = IF proc[w].at # "working" THEN jobs
             ELSE [jobs EXCEPT ![proc[w].turn].status =
                     IF jobs[proc[w].turn].attempt < MaxAttempts THEN "queued" ELSE "failed"]
  /\ UNCHANGED <<vars, order, disk, rowVars, worldVars>>

Restart(w) ==
  /\ proc[w].at = "dead"
  /\ Goto(w, "idle")
  /\ UNCHANGED <<vars, order, workVars, rowVars, worldVars, faults>>

\* POST /runs/{id}/resume and /cancel on the job of a turn.  A resumed job is
\* claimed again, here only while attempts are left (a bound).
Resume(t) ==
  /\ jobs[t].status = "paused" /\ jobs[t].attempt < MaxAttempts
  /\ jobs' = [jobs EXCEPT ![t].status = "queued"]
  /\ UNCHANGED <<vars, order, proc, disk, rowVars, worldVars, faults>>

CancelJob(t) ==
  /\ turns[t].status # "absent" /\ jobs[t].status \in {"queued", "paused"}
  /\ jobs' = [jobs EXCEPT ![t].status = "cancelled"]
  /\ UNCHANGED <<vars, order, proc, disk, rowVars, worldVars, faults>>

-----------------------------------------------------------------------------
Run(w) == \/ List(w) \/ Lease(w) \/ Post(w) \/ OpenRequest(w) \/ Record(w) \/ Finish(w)
          \/ Claim(w) \/ FindNone(w) \/ Execute(w) \/ Finalize(w)

IssueServiceNext ==
  \/ Handle /\ Logged /\ UNCHANGED <<proc, workVars, rowVars, worldVars, faults>>
  \/ \E w \in Workers : Run(w) \/ Crash(w) \/ Restart(w)
  \/ \E t \in Turns : Resume(t) \/ CancelJob(t)

IssueServiceSpec == IssueServiceInit /\ [][IssueServiceNext]_issueVars

\* The workers that are alive go on: GitLab answers or a call times out, and the
\* agent has a step budget.  Nothing is assumed of events, operators or crashes.
IssueServiceFair == IssueServiceSpec /\ \A w \in Workers : WF_issueVars(Run(w))

-----------------------------------------------------------------------------
(* Properties *)

\* Every worker carries out an action at most once, however the lists that
\* workers make overlap, how often they die and which calls raise.
EffectsBounded ==
  \A f \in Effects : posted[f] <= Cardinality(Workers)

\* What the outbox calls succeeded did happen at GitLab, and a link is never to a
\* merge request that is not there.
SucceededWasPosted ==
  /\ \A f \in succeeded : posted[f] > 0
  /\ linked \subseteq requests

\* Merge requests at GitLab and links in the table are made in different steps, by
\* workers whose lists overlap and who die in between.  Still a publication that is
\* called succeeded has left a link, a merge request without a link can be told from
\* its publication, which stays leased or failed, and nobody is told of a merge
\* request, nor is one merged, before it is linked.
PublishedTurns(g, actions) == {t \in Turns : turns[t].gen = g /\ <<"publish", t>> \in actions}

RequestsAreAccounted ==
  \A g \in Generations :
    /\ g \notin linked =>
         /\ PublishedTurns(g, succeeded) = {}
         /\ posted[<<"mr", g>>] = 0
         /\ \A t \in Turns : turns[t].gen = g => posted[<<"merge", t>>] = 0
    /\ g \in requests \ linked => PublishedTurns(g, leased \cup failed) # {}

\* If no worker dies, every queued turn comes to an outcome, unless an operator
\* cancels its job, ...
TurnsConclude ==
  [](\A w \in Workers : proc[w].at # "dead") =>
    \A t \in Turns : turns[t].status = "queued"
                       ~> (turns[t].status # "queued" \/ jobs[t].status = "cancelled")

\* ... and every outbound action is carried out or fails.
ActionsSettle ==
  [](\A w \in Workers : proc[w].at # "dead") => \A f \in Effects : f \in Pending \cup leased ~> f \in succeeded \cup failed

\* README.md of the repository: "Service-owned clone / commit / push / MR / merge".
\* _publish_changes commits what it finds in the workspace of the turn.
PublicationFindsClone ==
  \A w \in Workers :
    proc[w].at = "leased" /\ proc[w].effect[1] = "publish" => disk[proc[w].effect[2]] = "clone"
=============================================================================
