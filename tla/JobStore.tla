------------------------------ MODULE JobStore ------------------------------
(***************************************************************************)
(* SqliteJobStore: one table of jobs shared by API handlers and workers.   *)
(* A row has columns, on which the SQL statements select, and a JSON       *)
(* document, which the Python code loads, changes in memory and writes     *)
(* back.  Each SQL transaction (BEGIN IMMEDIATE ... COMMIT) is one action. *)
(* A holder is any thread of a service process that has job objects in     *)
(* memory; those copies may be out of date, and save() lets a copy through *)
(* only if the row still has the version the copy was read at.             *)
(*                                                                         *)
(* What callers do between a load and a save is left open here: Save takes *)
(* any move of the lifecycle except the one into "running", which no       *)
(* caller of transition_job makes.  JobService models the callers.         *)
(*                                                                         *)
(* Time is abstract: a live lease may lapse and a delayed job may become   *)
(* due at any moment.                                                      *)
(***************************************************************************)
EXTENDS JobLifecycle

CONSTANTS
  Jobs,         \* one element per POST /runs request or webhook delivery
  Workers,      \* worker processes; the element is the worker_id as well
  Clients,      \* threads that serve HTTP requests
  Nobody,       \* lease_owner = None
  RepoOf,       \* the repository_url of the request
  KeyOf,        \* the idempotency key of the request, or NoKey
  NoKey,
  MaxAttempts   \* Job.max_attempts

ASSUME StoreAssumption ==
  /\ Workers \cap Clients = {}
  /\ Nobody \notin Workers
  /\ MaxAttempts \in 1 .. 20

Holders == Workers \cup Clients

VARIABLES
  rows,         \* the table: one row per element of Jobs
  copies        \* the job documents each holder has in memory

vars == <<rows, copies>>

-----------------------------------------------------------------------------
\* lease_expires_at and not_before, as they compare with the present.
Leases == {"none", "live", "lapsed"}
Dues == {"due", "delayed"}

Doc == [id      : Jobs,
        status  : Statuses,
        attempt : Nat,
        owner   : Workers \cup {Nobody},
        version : Nat]

Row == [status  : Statuses \cup {"absent"},
        version : Nat,
        owner   : Workers \cup {Nobody},
        lease   : Leases,
        due     : Dues,
        elders  : SUBSET Jobs,       \* the rows with an earlier created_at
        doc     : Doc]

TypeOK == /\ rows \in [Jobs -> Row]
          /\ copies \in [Holders -> SUBSET Doc]

NewDoc(j) == [id |-> j, status |-> "queued", attempt |-> 0,
              owner |-> Nobody, version |-> 0]

NoRow(j) == [status |-> "absent", version |-> 0, owner |-> Nobody,
             lease |-> "none", due |-> "due", elders |-> {}, doc |-> NewDoc(j)]

Created == {j \in Jobs : rows[j].status # "absent"}

ActiveRow(j) == rows[j].status \in Active

Init == /\ rows = [j \in Jobs |-> NoRow(j)]
        /\ copies = [h \in Holders |-> {}]

-----------------------------------------------------------------------------
\* The copies of h once it has read or written the document d.
Holding(h, d) == [copies EXCEPT ![h] = {c \in @ : c.id # d.id} \cup {d}]

\* Faulty variant of NextDoc: an attempt is given back with every save.
NextDocRefunded(d, status, owner) ==
  [id |-> d.id, status |-> status, attempt |-> d.attempt - 1, owner |-> owner,
   version |-> d.version + 1]

\* The document of the row's next version.
NextDoc(d, status, owner) ==
  [id |-> d.id, status |-> status, attempt |-> d.attempt, owner |-> owner,
   version |-> d.version + 1]

\* The document of a new attempt by w.
AttemptDoc(d, w) ==
  [id |-> d.id, status |-> "running", attempt |-> d.attempt + 1, owner |-> w,
   version |-> d.version + 1]

\* Faulty variant of Written: the owner column is forgotten.
WrittenWithoutOwner(row, d, owner, lease, due) ==
  [row EXCEPT !.status = d.status, !.version = d.version, !.doc = d,
              !.lease = lease, !.due = due]

\* The row that UPDATE jobs SET status, data, version, ... leaves.
Written(row, d, owner, lease, due) ==
  [row EXCEPT !.status = d.status, !.version = d.version, !.doc = d,
              !.owner = owner, !.lease = lease, !.due = due]

\* The row that INSERT makes of a blank; the rows of "elders" are older.
Inserted(row, elders) == [row EXCEPT !.status = "queued", !.elders = elders]

\* Only the lease or the due column of a row changes.
Leased(row, lease) == [row EXCEPT !.lease = lease]
MadeDue(row) == [row EXCEPT !.due = "due"]

SameKey(i, j) == KeyOf[i] # NoKey /\ KeyOf[i] = KeyOf[j]

(***************************************************************************)
(* create: insert a queued row.  The key is looked up first, and again     *)
(* when the UNIQUE index refuses the insert, so a replay yields the row    *)
(* that owns the key whichever of the two finds it.  A request is          *)
(* represented by its repository: a key reused for another one is refused  *)
(* (IdempotencyConflictError) and changes nothing.                         *)
(***************************************************************************)
Create(h, j) ==
  /\ j \notin Created
  /\ ~ \E i \in Created : SameKey(i, j)
  /\ rows' = [rows EXCEPT ![j] = Inserted(@, Created)]
  /\ copies' = Holding(h, rows[j].doc)

Replay(h, j, i) ==
  /\ i \in Created /\ SameKey(i, j) /\ RepoOf[i] = RepoOf[j]
  /\ copies' = Holding(h, rows[i].doc)
  /\ UNCHANGED rows

\* load, find_by_idempotency: read the document of a row.
Load(h, j) ==
  /\ j \in Created
  /\ copies' = Holding(h, rows[j].doc)
  /\ UNCHANGED rows

\* list: read the documents of all rows (the table stays below the limit).
List(h) ==
  /\ Created # {}
  /\ copies' = [copies EXCEPT ![h] = {rows[j].doc : j \in Created}]
  /\ UNCHANGED rows

\* Faulty variant of Current: save does not test the version.
CurrentAlways(d) == d.version \in Nat

\* The WHERE clause of save: the row still has the version the copy was read at.
Current(d) == rows[d.id].version = d.version

(***************************************************************************)
(* transition_job followed by save.  While the job stays active the lease  *)
(* columns keep what touch_lease wrote; otherwise they take the (cleared)  *)
(* lease of the document.                                                  *)
(***************************************************************************)
Save(h, d, status, due) ==
  /\ d \in copies[h]
  /\ status # "running" \/ d.status = "running"
  /\ CanMove(d, status)
  /\ Current(d)
  /\ LET row == rows[d.id]
         saved == NextDoc(d, status, Moved(d, status, Nobody).owner)
     IN  /\ rows' = [rows EXCEPT ![d.id] =
                       IF status \in Active
                       THEN Written(row, saved, row.owner, row.lease, due)
                       ELSE Written(row, saved, saved.owner, "none", due)]
         /\ copies' = Holding(h, saved)

\* A holder returns, or dies, and its job objects go with it.
Forget(h) ==
  /\ copies[h] # {}
  /\ copies' = [copies EXCEPT ![h] = {}]
  /\ UNCHANGED rows

-----------------------------------------------------------------------------
\* Faulty variant of Claimable: the other jobs of the repository are ignored.
ClaimableAlone(j) == rows[j].status = "queued" /\ rows[j].due = "due"

\* claim: a due queued job whose repository has no other active job.
Claimable(j) ==
  /\ rows[j].status = "queued" /\ rows[j].due = "due"
  /\ \A k \in Jobs \ {j} : RepoOf[k] = RepoOf[j] => ~ ActiveRow(k)

\* _claim_row: a new attempt, a new owner and a new lease.
ClaimRow(w, j) ==
  LET row == rows[j]
      d == AttemptDoc(row.doc, w)
  IN  /\ row.version = row.doc.version
      /\ rows' = [rows EXCEPT ![j] = Written(row, d, w, "live", row.due)]
      /\ copies' = Holding(w, d)

ClaimJob(w, j) == Claimable(j) /\ ClaimRow(w, j)

\* claim_next: ORDER BY created_at ASC LIMIT 1.
ClaimNext(w, j) ==
  /\ Claimable(j)
  /\ ~ \E k \in rows[j].elders : Claimable(k)
  /\ ClaimRow(w, j)

\* Faulty variant of Reclaimed: the version stays.
ReclaimedInPlace(row) ==
  LET d == [row.doc EXCEPT !.status = ReclaimStatus(row.doc, MaxAttempts), !.owner = Nobody]
  IN  Written(row, d, Nobody, "none", row.due)

\* Back to the queue, or failed after the last attempt, and without a lease.
Reclaimed(row) ==
  LET d == NextDoc(row.doc, ReclaimStatus(row.doc, MaxAttempts), Nobody)
  IN  Written(row, d, Nobody, "none", row.due)

\* Faulty variant of Expired: publishing jobs are never reclaimed.
ExpiredRunning(j) == rows[j].status = "running" /\ rows[j].lease = "lapsed"
                     /\ rows[j].version = rows[j].doc.version

Expired(j) == ActiveRow(j) /\ rows[j].lease = "lapsed"
              /\ rows[j].version = rows[j].doc.version

\* requeue_expired: every expired row, in one transaction.
RequeueExpired ==
  /\ \E j \in Jobs : Expired(j)
  /\ rows' = [j \in Jobs |-> IF Expired(j) THEN Reclaimed(rows[j]) ELSE rows[j]]
  /\ UNCHANGED copies

\* touch_lease: only the owner of an active row, and the version stays.
Touchable(w, j) == ActiveRow(j) /\ rows[j].owner = w

TouchLease(w, j) ==
  /\ Touchable(w, j)
  /\ rows' = [rows EXCEPT ![j] = Leased(@, "live")]
  /\ UNCHANGED copies

\* release_lease: judged on the document, guarded by version and owner columns.
Releasable(w, j) ==
  /\ rows[j].doc.status \in Active /\ rows[j].doc.owner = w
  /\ rows[j].version = rows[j].doc.version /\ rows[j].owner = w

ReleaseLease(w, j) ==
  /\ Releasable(w, j)
  /\ rows' = [rows EXCEPT ![j] = Reclaimed(@)]
  /\ UNCHANGED copies

\* Time passes the expiry of a lease, or the not_before of a delayed job.
Lapse(j) ==
  /\ rows[j].lease = "live"
  /\ rows' = [rows EXCEPT ![j] = Leased(@, "lapsed")]
  /\ UNCHANGED copies

BecomeDue(j) ==
  /\ rows[j].due = "delayed"
  /\ rows' = [rows EXCEPT ![j] = MadeDue(@)]
  /\ UNCHANGED copies

-----------------------------------------------------------------------------
SaveStep == \E h \in Holders : \E d \in copies[h] :
              \E status \in Statuses, due \in Dues : Save(h, d, status, due)

Next ==
  \/ \E h \in Clients, j \in Jobs : Create(h, j)
  \/ \E h \in Clients, i, j \in Jobs : Replay(h, j, i)
  \/ \E h \in Clients, j \in Jobs : Load(h, j)
  \/ \E h \in Clients : List(h)
  \/ SaveStep
  \/ \E h \in Holders : Forget(h)
  \/ \E w \in Workers, j \in Jobs : ClaimJob(w, j)
  \/ \E w \in Workers, j \in Jobs : ClaimNext(w, j)
  \/ RequeueExpired
  \/ \E w \in Workers, j \in Jobs : TouchLease(w, j)
  \/ \E w \in Workers, j \in Jobs : ReleaseLease(w, j)
  \/ \E j \in Jobs : Lapse(j)
  \/ \E j \in Jobs : BecomeDue(j)

Spec == Init /\ [][Next]_vars

-----------------------------------------------------------------------------
(* Safety *)

\* The columns the SQL statements select on agree with the document the code
\* acts on, although save, touch_lease and the reclaims write them apart.
ColumnsMatchDocument ==
  \A j \in Created : /\ rows[j].status = rows[j].doc.status
                     /\ rows[j].version = rows[j].doc.version
                     /\ rows[j].owner = rows[j].doc.owner

\* A row has an owner and a lease exactly while it is running or publishing:
\* otherwise requeue_expired and touch_lease would miss it, or revive it.
LeasedWhileActive ==
  \A j \in Jobs : /\ ActiveRow(j) <=> rows[j].owner # Nobody
                  /\ ActiveRow(j) <=> rows[j].lease # "none"

\* The columns that SQL selects on, the document that the code acts on and the
\* lease are written by different statements and never drift apart.
RowsConsistent == ColumnsMatchDocument /\ LeasedWhileActive

\* claim serializes the work on a repository: at most one of its jobs is
\* running or publishing, through reclaims, retries and late saves.
OneActivePerRepository ==
  \A i, j \in Jobs : i # j /\ RepoOf[i] = RepoOf[j] => ~ (ActiveRow(i) /\ ActiveRow(j))

\* No lost update: save writes a whole document, so whatever copy of whatever
\* holder its version test lets through must be the document of the row.  Every
\* statement that changes a document must give it a new version for that, the
\* reclaims and the release at a shutdown included.
FreshCopyIsCurrent ==
  \A h \in Holders : \A d \in copies[h] :
    /\ d.version <= rows[d.id].version
    /\ Current(d) => d = rows[d.id].doc

\* Fencing: a worker whose copy would still be let through holds the lease.
\* Whatever takes a lease away (expiry, shutdown, operator) outdates the copy.
FreshWorkerHoldsLease ==
  \A w \in Workers : \A d \in copies[w] :
    d.status \in Active /\ Current(d) => ActiveRow(d.id) /\ rows[d.id].owner = w

\* No step of any holder, however old its copy, moves a row off the table of
\* lifecycle.py, so completed and cancelled rows stay so; and an attempt is
\* counted exactly when the job starts to run, and never undone by a save.
LifecycleRespected ==
  [][\A j \in Created :
       /\ rows'[j].status \in {rows[j].status} \cup Successors(rows[j].status)
       /\ rows'[j].doc.attempt = rows[j].doc.attempt
            + (IF rows[j].status = "queued" /\ rows'[j].status = "running"
               THEN 1 ELSE 0)]_vars

-----------------------------------------------------------------------------
\* The abstract store that the table presents.
StatusOf == [j \in Jobs |-> rows[j].status]
HolderOf == [j \in Jobs |-> rows[j].owner]
TriesOf  == [j \in Jobs |-> rows[j].doc.attempt]

Contract == INSTANCE JobContract WITH
              status <- StatusOf, holder <- HolderOf, tries <- TriesOf

\* Refinement: version tests make operations on outdated copies act as if each
\* were applied, whole, to the current job, or not at all.
ImplementsContract == Contract!Spec

-----------------------------------------------------------------------------
(***************************************************************************)
(* The inductive invariant.  Beyond the invariants above it says that rows *)
(* and copies are filed under their own id, that a row not yet inserted is *)
(* blank and uncopied, and that a worker's active copies name that worker. *)
(***************************************************************************)
RowsInPlace == \A j \in Jobs : /\ rows[j].doc.id = j
                               /\ j \notin Created => rows[j] = NoRow(j)

CopiesOfRows == \A h \in Holders : \A d \in copies[h] : d.id \in Created

WorkersOwnCopies == \A w \in Workers : \A d \in copies[w] :
                      d.status \in Active => d.owner = w

IInv == /\ TypeOK
        /\ RowsInPlace
        /\ ColumnsMatchDocument
        /\ LeasedWhileActive
        /\ CopiesOfRows
        /\ FreshCopyIsCurrent
        /\ WorkersOwnCopies
        /\ OneActivePerRepository
=============================================================================
