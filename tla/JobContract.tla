---------------------------- MODULE JobContract -----------------------------
(***************************************************************************)
(* What the job store promises its callers, without rows, documents,       *)
(* versions or copies: a job has one status, one holder and a number of    *)
(* tries, and every operation acts on the job as it is at that instant.    *)
(* JobStore implements it although its callers act on copies that may be   *)
(* out of date by the time they write.                                     *)
(***************************************************************************)
EXTENDS JobLifecycle

CONSTANTS Jobs, Workers, Nobody, RepoOf, MaxAttempts

VARIABLES status, holder, tries

contract == <<status, holder, tries>>

Init == /\ status = [j \in Jobs |-> "absent"]
        /\ holder = [j \in Jobs |-> Nobody]
        /\ tries  = [j \in Jobs |-> 0]

Submit(j) ==
  /\ status[j] = "absent"
  /\ status' = [status EXCEPT ![j] = "queued"]
  /\ UNCHANGED <<holder, tries>>

\* A worker takes a job whose repository nobody works on.
Take(w, j) ==
  /\ status[j] = "queued"
  /\ \A k \in Jobs : RepoOf[k] = RepoOf[j] => status[k] \notin Active
  /\ status' = [status EXCEPT ![j] = "running"]
  /\ holder' = [holder EXCEPT ![j] = w]
  /\ tries'  = [tries EXCEPT ![j] = @ + 1]

\* A caller moves a job along the lifecycle, but never into "running".
Move(j, s) ==
  /\ status[j] # "absent"
  /\ s \in Successors(status[j]) \ {"running"}
  /\ status' = [status EXCEPT ![j] = s]
  /\ holder' = [holder EXCEPT ![j] = IF s \in Active THEN @ ELSE Nobody]
  /\ UNCHANGED tries

\* Jobs are taken back from their holders: queued while tries are left.
TakeBack(js) ==
  /\ \A j \in js : status[j] \in Active
  /\ status' = [j \in Jobs |-> IF j \notin js THEN status[j]
                               ELSE IF tries[j] < MaxAttempts THEN "queued" ELSE "failed"]
  /\ holder' = [j \in Jobs |-> IF j \in js THEN Nobody ELSE holder[j]]
  /\ UNCHANGED tries

Next == \/ \E j \in Jobs : Submit(j)
        \/ \E w \in Workers, j \in Jobs : Take(w, j)
        \/ \E j \in Jobs, s \in Statuses : Move(j, s)
        \/ \E js \in SUBSET Jobs : TakeBack(js)

Spec == Init /\ [][Next]_contract
=============================================================================
