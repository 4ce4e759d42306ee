---------------------------- MODULE JobLifecycle ----------------------------
(***************************************************************************)
(* The job lifecycle of gca.jobs: the statuses, the transition table that  *)
(* transition_job consults, and the document of a job as the program holds *)
(* it in memory and in the "data" column.  The document keeps the fields   *)
(* that decide anything: the request, results, usage and time stamps are   *)
(* left out, and the two wall-clock fields (lease_expires_at, not_before)  *)
(* are columns of the table in JobStore.                                   *)
(***************************************************************************)
EXTENDS Naturals

Statuses == {"queued", "running", "paused", "publishing",
             "completed", "failed", "cancelled"}

\* The statuses under which a worker owns the job.
Active == {"running", "publishing"}

\* _TRANSITIONS: the statuses a job may move to.
Successors(status) ==
  CASE status = "queued"     -> {"running", "cancelled"}
    [] status = "running"    -> Statuses \ {"running"}
    [] status = "paused"     -> {"queued", "failed", "cancelled"}
    [] status = "publishing" -> {"queued", "completed", "failed", "paused"}
    [] status = "failed"     -> {"queued"}
    [] OTHER                 -> {}

\* transition_job raises JobTransitionError unless this holds.
CanMove(doc, status) == status \in {doc.status} \cup Successors(doc.status)

\* The job transition_job returns: a job that is not active has no owner.
Moved(doc, status, nobody) ==
  IF status = doc.status THEN doc
  ELSE [doc EXCEPT !.status = status,
                   !.owner  = IF status \in Active THEN @ ELSE nobody]

\* can_retry: another attempt is allowed.
CanRetry(doc, maxAttempts) == doc.attempt < maxAttempts

\* Where a job goes when its worker no longer holds it.
ReclaimStatus(doc, maxAttempts) ==
  IF CanRetry(doc, maxAttempts) THEN "queued" ELSE "failed"
=============================================================================
