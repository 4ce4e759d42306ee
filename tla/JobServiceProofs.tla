-------------------------- MODULE JobServiceProofs --------------------------
(***************************************************************************)
(* Proofs about the job service, for every set of jobs, workers and        *)
(* clients and every bound.  Three facts carry them: what a handler or a   *)
(* worker does to the table is a step of JobStore; a worker's job objects  *)
(* are those of its job, in the status its place implies (InHand); and if  *)
(* leases are renewed in time and nobody takes jobs away, a worker holds   *)
(* its lease from the claim to the save that ends its work (Undisturbed).  *)
(***************************************************************************)
EXTENDS JobService, JobStoreProofs

USE StoreAssumption, WorkerAssumption, ServiceAssumption DEF Holders

-----------------------------------------------------------------------------
(* What handlers and workers do to the table *)

\* Rows, documents and copies have their types and belong together.
LEMMA StoreFacts ==
  ASSUME IInv
  PROVE  /\ \A j \in Jobs : rows[j] \in Row /\ rows[j].doc \in Doc /\ rows[j].due \in Dues
         /\ \A h \in Holders : \A d \in copies[h] : d \in Doc /\ d.id \in Created /\ d.id \in Jobs
         /\ DOMAIN rows = Jobs /\ DOMAIN copies = Holders
BY DEF IInv, TypeOK, CopiesOfRows, Created, Row, Doc

\* The worker's save is a save of the store, or is refused and changes nothing.
LEMMA SavesMaps ==
  ASSUME NEW w \in Workers, NEW s \in Statuses, NEW u \in Dues, NEW next, Saves(w, s, u, next)
  PROVE  SaveStep \/ UNCHANGED vars
<1>1. PICK d \in Mine(w) : Save(w, d, s, u) \/ UNCHANGED vars
  BY DEF Saves
<1>2. QED
  BY <1>1 DEF Mine, SaveStep

\* A worker that turns away drops its copies, if it has any.
LEMMA LeaveMaps ==
  ASSUME NEW w \in Workers, NEW phase, Leave(w, phase)
  PROVE  [Next]_vars
BY DEF Leave, Next

LEMMA RunMaps ==
  ASSUME ServiceInv, NEW w \in Workers, Run(w)
  PROVE  [Next]_vars
<1>1. /\ "due" \in Dues /\ "delayed" \in Dues
      /\ {"queued", "running", "paused", "publishing", "completed", "failed"} \subseteq Statuses
      /\ goal[w] \in Statuses
  BY DEF Dues, Statuses, ServiceInv, ServiceTypeOK, WorkerTypeOK
<1>2. CASE Sweep(w)
  BY <1>2 DEF Sweep, Next
<1>3. CASE Claim(w)
  BY <1>3 DEF Claim, Next
<1>4. CASE FindNone(w) \/ Raise(w) \/ Publish(w)
  BY <1>4 DEF FindNone, Raise, Publish
<1>5. CASE Enter(w)
  <2>1. job[w] \in Jobs
    BY <1>5 DEF Enter, ServiceInv, InHand, Busy
  <2>2. CASE TouchLease(w, job[w])
    BY <2>1, <2>2 DEF Next
  <2>3. CASE Leave(w, "dead")
    BY <2>3, LeaveMaps
  <2>4. QED
    BY <1>5, <2>2, <2>3 DEF Enter
<1>6. CASE Heartbeat(w)
  <2>1. job[w] \in Jobs
    BY <1>6 DEF Heartbeat, ServiceInv, InHand, Busy
  <2>2. QED
    BY <1>6, <2>1 DEF Heartbeat, Next
<1>7. CASE Progress(w)
  BY <1>1, <1>7, SavesMaps DEF Progress, Next
<1>8. CASE Conclude(w)
  BY <1>1, <1>8, SavesMaps DEF Conclude, Next
<1>9. CASE StartPublish(w)
  <2>1. PICK d \in Mine(w) : Save(w, d, "publishing", "due") \/ UNCHANGED vars
    BY <1>9 DEF StartPublish
  <2>2. QED
    BY <1>1, <2>1 DEF Mine, SaveStep, Next
<1>10. CASE Settle(w)
  BY <1>1, <1>10, SavesMaps DEF Settle, Next
<1>11. CASE HandleFailure(w)
  <2>1. PICK d \in Mine(w), s \in {"queued", "failed"}, u \in {"due", "delayed"} :
          Save(w, d, s, u) \/ UNCHANGED vars
    BY <1>11 DEF HandleFailure
  <2>2. QED
    BY <1>1, <2>1 DEF Mine, SaveStep, Next
<1>12. CASE Cleanup(w)
  BY <1>12, LeaveMaps DEF Cleanup
<1>13. CASE Exit(w)
  BY <1>13, LeaveMaps DEF Exit
<1>14. QED
  BY <1>2, <1>3, <1>4, <1>5, <1>6, <1>7, <1>8, <1>9, <1>10, <1>11, <1>12, <1>13 DEF Run

LEMMA WorkerMaps ==
  ASSUME ServiceInv, WorkerNext
  PROVE  [Next]_vars
<1>1. ASSUME NEW w \in Workers, Run(w) PROVE [Next]_vars
  BY <1>1, RunMaps
<1>2. ASSUME NEW w \in Workers, Renew(w) PROVE [Next]_vars
  <2>1. job[w] \in Jobs
    BY <1>2 DEF Renew, ServiceInv, InHand
  <2>2. QED
    BY <1>2, <2>1 DEF Renew, Next
<1>3. ASSUME NEW w \in Workers, RenewFails(w) \/ Restart(w) PROVE [Next]_vars
  BY <1>3 DEF RenewFails, Restart
<1>4. ASSUME NEW w \in Workers, Shutdown(w) PROVE [Next]_vars
  <2>1. at[w] \in Busy => job[w] \in Jobs
    BY DEF ServiceInv, InHand
  <2>2. QED
    BY <1>4, <2>1 DEF Shutdown, Next
<1>5. ASSUME NEW w \in Workers, Crash(w) PROVE [Next]_vars
  BY <1>5, LeaveMaps DEF Crash
<1>6. ASSUME NEW j \in Jobs, Expire(j) \/ Delay(j) PROVE [Next]_vars
  BY <1>6 DEF Expire, Delay, Next
<1>7. QED
  BY <1>1, <1>2, <1>3, <1>4, <1>5, <1>6 DEF WorkerNext

\* A handler's save is a save of the store, or is refused and changes nothing.
LEMMA ClientSaveMaps ==
  ASSUME IInv, NEW c \in Clients, NEW d \in Object(c), NEW s \in Statuses, NEW next,
         ClientSave(c, d, s, next)
  PROVE  [Next]_vars
<1>1. d \in copies[c] /\ rows[d.id].due \in Dues
  BY StoreFacts DEF Object
<1>2. QED
  BY <1>1 DEF ClientSave, SaveStep, Next

ClientStep(c) ==
  \/ Submit(c) \/ Enqueue(c) \/ Requeue(c) \/ Ask(c) \/ Serve(c)
  \/ Merge(c) \/ MergeNext(c) \/ MergeCancel(c) \/ MergeWipe(c) \/ MergeNote(c)
  \/ Return(c)

LEMMA ClientMaps ==
  ASSUME ServiceInv, ClientNext
  PROVE  [Next]_vars
<1>1. /\ IInv /\ "due" \in Dues
      /\ {"queued", "cancelled", "failed"} \subseteq Statuses
  BY DEF Dues, Statuses, ServiceInv
<1>2. PICK c \in Clients : ClientStep(c)
  BY DEF ClientNext, ClientStep
<1>3. \A d \in Object(c) : d \in copies[c] /\ d \in Doc /\ d.status \in Statuses
  BY <1>1, StoreFacts DEF Object, Doc
<1>4. CASE Submit(c)
  BY <1>4 DEF Submit, Next
<1>5. CASE Enqueue(c)
  BY <1>5 DEF Enqueue, Load, Created, Next
<1>6. CASE Requeue(c)
  <2>1. PICK d \in Object(c) : Save(c, d, "queued", "due") \/ UNCHANGED vars
    BY <1>6 DEF Requeue
  <2>2. QED
    BY <1>1, <1>3, <2>1 DEF SaveStep, Next
<1>7. CASE Ask(c)
  BY <1>7 DEF Ask, Load, Created, Next
<1>8. CASE Serve(c)
  <2>1. PICK d \in Object(c) :
          \/ ClientSave(c, d, "cancelled", "return")
          \/ ClientSave(c, d, d.status, "enqueue")
          \/ ClientSave(c, d, ReclaimStatus(d, MaxAttempts), "return")
    BY <1>8 DEF Serve
  <2>2. ReclaimStatus(d, MaxAttempts) \in Statuses
    BY <1>1 DEF ReclaimStatus
  <2>3. QED
    BY <1>1, <1>3, <2>1, <2>2, ClientSaveMaps
<1>9. CASE Merge(c)
  BY <1>9 DEF Merge, Next
<1>10. CASE MergeNext(c) \/ MergeWipe(c)
  BY <1>10 DEF MergeNext, MergeWipe
<1>11. CASE MergeCancel(c)
  BY <1>1, <1>11, ClientSaveMaps DEF MergeCancel
<1>12. CASE MergeNote(c)
  BY <1>1, <1>3, <1>12, ClientSaveMaps DEF MergeNote
<1>13. CASE Return(c)
  BY <1>13 DEF Return, Next
<1>14. QED
  BY <1>2, <1>4, <1>5, <1>6, <1>7, <1>8, <1>9, <1>10, <1>11, <1>12, <1>13 DEF ClientStep

LEMMA ServiceMaps ==
  ASSUME ServiceInv, [ServiceNext]_serviceVars
  PROVE  [Next]_vars
BY WorkerMaps, ClientMaps DEF ServiceNext, serviceVars
-----------------------------------------------------------------------------
(* What each step leaves in the workers' hands *)

\* A holder that keeps a document has that one and its copies of other jobs.
LEMMA Keeps ==
  ASSUME IInv, NEW h \in Holders, NEW d, copies' = Holding(h, d)
  PROVE  /\ \A g \in Holders \ {h} : copies'[g] = copies[g]
         /\ copies'[h] = {c \in copies[h] : c.id # d.id} \cup {d}
<1>1. DOMAIN copies = Holders
  BY StoreFacts
<1>2. copies' = [copies EXCEPT ![h] = {c \in copies[h] : c.id # d.id} \cup {d}]
  BY DEF Holding
<1>3. QED
  BY <1>1, <1>2

\* What a save leaves in the saver's hands.
LEMMA SaveKeeps ==
  ASSUME IInv, NEW h \in Holders, NEW d \in copies[h], NEW s, NEW u, Save(h, d, s, u)
  PROVE  /\ \A g \in Holders \ {h} : copies'[g] = copies[g]
         /\ \A c \in copies'[h] : \/ c \in copies[h] /\ c.id # d.id
                                  \/ c.id = d.id /\ c.status = s
<1> DEFINE n == NextDoc(d, s, Moved(d, s, Nobody).owner)
<1>1. copies' = Holding(h, n)
  BY DEF Save
<1>2. n.id = d.id /\ n.status = s
  BY DEF NextDoc
<1> HIDE DEF n
<1>3. /\ \A g \in Holders \ {h} : copies'[g] = copies[g]
      /\ copies'[h] = {c \in copies[h] : c.id # n.id} \cup {n}
  BY <1>1, Keeps
<1>4. QED
  BY <1>2, <1>3

\* ... and what a worker's save leaves in the worker's.
LEMMA SavesKeep ==
  ASSUME ServiceInv, NEW w \in Workers, NEW s, NEW u, NEW next, Saves(w, s, u, next)
  PROVE  /\ \A g \in Holders \ {w} : copies'[g] = copies[g]
         /\ \A c \in copies'[w] : c.id = job[w]
         /\ \/ at' = [at EXCEPT ![w] = next] /\ \A c \in copies'[w] : c.status = s
            \/ at' = [at EXCEPT ![w] = "failing"] /\ copies' = copies
            \/ at' = [at EXCEPT ![w] = "unwind"]
         /\ \A v \in Workers \ {w} : goal'[v] = goal[v]
         /\ goal' \in [Workers -> Statuses]
         /\ goal'[w] = goal[w] \/ at'[w] \in {"failing", "unwind"}
<1>1. PICK d \in Mine(w) :
        \/ Save(w, d, s, u) /\ Goto(w, next) /\ UNCHANGED goal
        \/ /\ IF s = "completed" THEN Goto(w, "unwind") /\ Aims(w, s) ELSE Raises(w, FALSE)
           /\ UNCHANGED vars
  BY DEF Saves
<1>2. /\ d \in copies[w] /\ d.id = job[w]
      /\ \A c \in copies[w] : c.id = job[w]
      /\ DOMAIN at = Workers /\ goal \in [Workers -> Statuses]
      /\ "completed" \in Statuses /\ "failed" \in Statuses
  BY DEF Mine, ServiceInv, InHand, ServiceTypeOK, WorkerTypeOK, Statuses
<1>3. CASE Save(w, d, s, u) /\ Goto(w, next) /\ UNCHANGED goal
  <2>1. /\ \A g \in Holders \ {w} : copies'[g] = copies[g]
        /\ \A c \in copies'[w] : \/ c \in copies[w] /\ c.id # d.id
                                 \/ c.id = d.id /\ c.status = s
    BY <1>2, <1>3, SaveKeeps DEF ServiceInv
  <2>2. \A c \in copies'[w] : c.id = job[w] /\ c.status = s
    BY <1>2, <2>1
  <2>3. QED
    BY <1>2, <1>3, <2>1, <2>2 DEF Goto
<1>4. CASE UNCHANGED vars /\ s = "completed" /\ Goto(w, "unwind") /\ Aims(w, s)
  BY <1>2, <1>4 DEF Goto, Aims, vars
<1>5. CASE UNCHANGED vars /\ Raises(w, FALSE)
  BY <1>2, <1>5 DEF Raises, Goto, Aims, vars
<1>6. QED
  BY <1>1, <1>3, <1>4, <1>5

\* A worker that turns away has nothing left, and touches nothing of the others.
LEMMA LeaveKeeps ==
  ASSUME ServiceInv, NEW w \in Workers, NEW phase, Leave(w, phase)
  PROVE  /\ rows' = rows
         /\ copies'[w] = {} /\ \A g \in Holders \ {w} : copies'[g] = copies[g]
         /\ at' = [at EXCEPT ![w] = phase]
         /\ job' = [job EXCEPT ![w] = NoJob]
         /\ goal' = [goal EXCEPT ![w] = "running"]
         /\ hurt' = hurt \ {w}
         /\ resumes' = resumes \ {w}
<1>1. DOMAIN copies = Holders
  BY StoreFacts DEF ServiceInv
<1>2. CASE Forget(w)
  BY <1>1, <1>2 DEF Forget, Leave, Goto, Aims
<1>3. CASE copies[w] = {} /\ UNCHANGED vars
  BY <1>1, <1>3 DEF Leave, Goto, Aims, vars
<1>4. QED
  BY <1>2, <1>3 DEF Leave
-----------------------------------------------------------------------------
(* InHand is inductive *)

\* What a step of one worker may do to another.
Untouched(v) ==
  /\ at'[v] = at[v] /\ job'[v] = job[v] /\ goal'[v] = goal[v] /\ copies'[v] = copies[v]
  /\ v \in hurt' <=> v \in hurt
  /\ \A j \in Jobs : published[j] \subseteq published'[j]

LEMMA UntouchedInHand ==
  ASSUME NEW v \in Workers, InHand(v), Untouched(v)
  PROVE  InHand(v)'
BY DEF InHand, Untouched, Busy

\* What every step of worker w does.
StepOf(w) ==
  /\ WorkerTypeOK'
  /\ InHand(w)'
  /\ \A v \in Workers \ {w} : Untouched(v)

\* The effect of one step on the fields of a worker, as EXCEPT states it.
LEMMA WorkerFields ==
  ASSUME ServiceInv
  PROVE  /\ DOMAIN at = Workers /\ DOMAIN job = Workers /\ DOMAIN goal = Workers
         /\ DOMAIN copies = Holders /\ DOMAIN published = Jobs /\ DOMAIN disk = Jobs
         /\ \A w \in Workers : at[w] \in Busy => job[w] \in Jobs
BY StoreFacts DEF ServiceInv, ServiceTypeOK, WorkerTypeOK, InHand

\* Up to a failure or the end of the work, every place is early or late.
LEMMA Phases ==
  /\ Beats \cup Risky \cup {"clone", "branch", "session", "agent", "result", "published"}
       \subseteq Early \cup Late
  /\ "failing" \notin Early \cup Late
BY DEF Beats, Risky, Early, Late

\* A worker that turns away is without a job.
LEMMA LeaveStep ==
  ASSUME ServiceInv, NEW w \in Workers, NEW phase \in {"idle", "dead"}, Leave(w, phase),
         disk' \in [Jobs -> {"none", "meta", "clone"}], published' = published
  PROVE  StepOf(w)
<1>1. /\ copies'[w] = {} /\ \A v \in Workers \ {w} : copies'[v] = copies[v]
      /\ at' = [at EXCEPT ![w] = phase]
      /\ job' = [job EXCEPT ![w] = NoJob]
      /\ goal' = [goal EXCEPT ![w] = "running"]
      /\ hurt' = hurt \ {w}
  BY LeaveKeeps
<1>2. WorkerTypeOK'
  BY <1>1 DEF ServiceInv, ServiceTypeOK, WorkerTypeOK, Statuses
<1>3. at'[w] = phase /\ job'[w] = NoJob
  BY <1>1, WorkerFields
<1>4. phase \notin Busy /\ phase \notin Early \cup Late
  BY DEF Busy, Beats, AfterSave, Early, Late
<1>5. InHand(w)'
  BY <1>1, <1>3, <1>4 DEF InHand, Late
<1>6. \A v \in Workers \ {w} : Untouched(v)
  BY <1>1, WorkerFields DEF Untouched
<1>7. QED
  BY <1>2, <1>5, <1>6 DEF StepOf

\* A worker that only goes on, with the same job objects.
LEMMA GoOnStep ==
  ASSUME ServiceInv, NEW w \in Workers, NEW next \in Busy, at[w] \in Busy,
         at' = [at EXCEPT ![w] = next],
         \/ goal' = goal
         \/ next = "failing" /\ \E s \in Statuses : goal' = [goal EXCEPT ![w] = s],
         job' = job, hurt' = hurt, disk' \in [Jobs -> {"none", "meta", "clone"}],
         published' \in [Jobs -> SUBSET {"draft", "final"}],
         \A j \in Jobs : published[j] \subseteq published'[j],
         copies' = copies,
         next \in Early => at[w] \in Early,
         next \in Late => at[w] \in Late,
         next = "failing" => at[w] \in Early \cup Late,
         next = "published" /\ goal'[w] = "completed" => "final" \in published'[job[w]]
  PROVE  StepOf(w)
<1>1. WorkerTypeOK'
  BY DEF ServiceInv, ServiceTypeOK, WorkerTypeOK
<1>2. /\ at'[w] = next /\ \A v \in Workers \ {w} : at'[v] = at[v] /\ goal'[v] = goal[v]
      /\ next # "failing" => goal' = goal
  BY WorkerFields
<1>3. "failing" \notin Early \cup Late
  BY DEF Early, Late
<1>4. next = "failing" => \A d \in copies[w] : d.status \in Active
  BY DEF InHand, ServiceInv, Active
<1>5. InHand(w)'
  BY <1>2, <1>3, <1>4 DEF InHand, ServiceInv
<1>6. \A v \in Workers \ {w} : Untouched(v)
  BY <1>2 DEF Untouched
<1>7. QED
  BY <1>1, <1>5, <1>6 DEF StepOf
\* A worker that saves its job object.
LEMMA SavesStep ==
  ASSUME ServiceInv, NEW w \in Workers, NEW s, NEW u, NEW next \in Busy \ (Late \cup {"failing"}),
         at[w] \in Early \cup Late \cup {"failing"}, at[w] \in Busy, Saves(w, s, u, next),
         job' = job, hurt' = hurt, disk' \in [Jobs -> {"none", "meta", "clone"}],
         published' = published,
         next \in Early => s = "running"
  PROVE  StepOf(w)
<1>1. /\ \A g \in Holders \ {w} : copies'[g] = copies[g]
      /\ \A c \in copies'[w] : c.id = job[w]
      /\ \/ at' = [at EXCEPT ![w] = next] /\ \A c \in copies'[w] : c.status = s
         \/ at' = [at EXCEPT ![w] = "failing"] /\ copies' = copies
         \/ at' = [at EXCEPT ![w] = "unwind"]
      /\ \A v \in Workers \ {w} : goal'[v] = goal[v]
      /\ goal' \in [Workers -> Statuses]
  BY SavesKeep
<1>2. /\ {"failing", "unwind"} \subseteq Busy
      /\ {"failing", "unwind"} \cap (Early \cup Late) = {}
      /\ "published" \in Late
  BY DEF Busy, Early, Late
<1>3. WorkerTypeOK'
  BY <1>1, <1>2 DEF ServiceInv, ServiceTypeOK, WorkerTypeOK
<1>4. /\ at'[w] \in Busy /\ at'[w] \notin Late
      /\ at'[w] \in Early => \A c \in copies'[w] : c.status = "running"
      /\ \A v \in Workers \ {w} : at'[v] = at[v]
      /\ at'[w] = "failing" => copies' = copies
  BY <1>1, <1>2, WorkerFields
<1>5. InHand(w)'
  <2>1. \A d \in copies[w] : d.status \in Active
    BY DEF InHand, ServiceInv, Active
  <2>2. QED
    BY <1>1, <1>2, <1>4, <2>1, WorkerFields DEF InHand
<1>6. \A v \in Workers \ {w} : Untouched(v)
  BY <1>1, <1>4 DEF Untouched
<1>7. QED
  BY <1>3, <1>5, <1>6 DEF StepOf

\* A claim puts the row's new document into the empty hands of the worker.
LEMMA ClaimHands ==
  ASSUME ServiceInv, NEW w \in Workers, Claim(w)
  PROVE  StepOf(w)
<1>1. PICK j \in Jobs : ClaimNext(w, j) /\ job' = [job EXCEPT ![w] = j]
  BY DEF Claim
<1> DEFINE n == AttemptDoc(rows[j].doc, w)
<1>2. copies' = Holding(w, n) /\ copies[w] = {}
  BY <1>1 DEF ClaimNext, ClaimRow, Claim, ServiceInv, InHand, Busy, Beats, AfterSave
<1>3. n.id = j /\ n.status = "running"
  BY DEF AttemptDoc, ServiceInv, IInv, RowsInPlace
<1> HIDE DEF n
<1>4. copies'[w] = {n} /\ \A v \in Workers \ {w} : copies'[v] = copies[v]
  BY <1>2, Keeps DEF ServiceInv
<1>5. /\ at' = [at EXCEPT ![w] = "claimed"] /\ goal' = goal /\ hurt' = hurt
      /\ disk' = disk /\ published' = published
  BY DEF Claim, Goto, effects
<1>6. "claimed" \in Busy /\ "claimed" \notin Late
  BY DEF Busy, Late
<1>7. WorkerTypeOK'
  BY <1>1, <1>5, <1>6 DEF ServiceInv, ServiceTypeOK, WorkerTypeOK
<1>8. at'[w] = "claimed" /\ job'[w] = j
  BY <1>1, <1>5, WorkerFields
<1>9. InHand(w)'
  BY <1>3, <1>4, <1>6, <1>8 DEF InHand, Late
<1>10. \A v \in Workers \ {w} : Untouched(v)
  BY <1>1, <1>4, <1>5, WorkerFields DEF Untouched
<1>11. QED
  BY <1>7, <1>9, <1>10 DEF StepOf

\* Between its jobs the hands of a worker stay empty.
LEMMA IdleHands ==
  ASSUME ServiceInv, NEW w \in Workers, Sweep(w) \/ FindNone(w) \/ Restart(w)
  PROVE  StepOf(w)
<1>1. /\ copies' = copies /\ job' = job /\ goal' = goal /\ hurt' = hurt
      /\ disk' = disk /\ published' = published
      /\ \E next \in {"idle", "swept"} : at' = [at EXCEPT ![w] = next]
      /\ at[w] \in {"idle", "swept", "dead"}
  BY DEF Sweep, FindNone, Restart, RequeueExpired, Goto, own, effects, vars
<1>2. {"idle", "swept", "dead"} \cap (Busy \cup Early \cup Late) = {}
  BY DEF Busy, Beats, AfterSave, Early, Late
<1>3. WorkerTypeOK'
  BY <1>1 DEF ServiceInv, ServiceTypeOK, WorkerTypeOK
<1>4. at'[w] \in {"idle", "swept"} /\ \A v \in Workers \ {w} : at'[v] = at[v]
  BY <1>1, WorkerFields
<1>5. InHand(w)'
  BY <1>1, <1>2, <1>4 DEF InHand, ServiceInv, Late
<1>6. \A v \in Workers \ {w} : Untouched(v)
  BY <1>1, <1>4 DEF Untouched
<1>7. QED
  BY <1>3, <1>5, <1>6 DEF StepOf

LEMMA EnterHands ==
  ASSUME ServiceInv, NEW w \in Workers, Enter(w)
  PROVE  StepOf(w)
<1>1. at[w] = "claimed" /\ published' = published
  BY DEF Enter
<1>2. CASE TouchLease(w, job[w]) /\ Goto(w, "begin")
           /\ disk' = [disk EXCEPT ![job[w]] = IF @ = "none" THEN "meta" ELSE @]
           /\ UNCHANGED <<goal, own>>
  <2>1. "begin" \in Busy /\ at[w] \in Busy /\ "begin" \notin Late /\ at[w] \in Early
    BY <1>1 DEF Busy, Beats, Early, Late
  <2>2. disk' \in [Jobs -> {"none", "meta", "clone"}]
    BY <1>2, <2>1, WorkerFields DEF ServiceInv, ServiceTypeOK, WorkerTypeOK
  <2>3. /\ copies' = copies /\ goal' = goal /\ job' = job /\ hurt' = hurt
        /\ at' = [at EXCEPT ![w] = "begin"]
        /\ published' \in [Jobs -> SUBSET {"draft", "final"}]
    BY <1>1, <1>2 DEF TouchLease, Goto, own, ServiceInv, ServiceTypeOK, WorkerTypeOK
  <2>4. \A j \in Jobs : published[j] \subseteq published'[j]
    BY <1>1
  <2>5. QED
    BY <2>1, <2>2, <2>3, <2>4, GoOnStep
<1>3. CASE Leave(w, "dead") /\ UNCHANGED disk
  BY <1>1, <1>3, LeaveStep DEF ServiceInv, ServiceTypeOK, WorkerTypeOK
<1>4. QED
  BY <1>2, <1>3 DEF Enter
\* A heartbeat leaves the job object alone and keeps to the order of execute.
LEMMA HeartbeatHands ==
  ASSUME ServiceInv, NEW w \in Workers, Heartbeat(w)
  PROVE  StepOf(w)
<1>1. /\ copies' = copies /\ job' = job /\ hurt' = hurt /\ disk' = disk
      /\ published' = published /\ at[w] \in Beats
      /\ published' \in [Jobs -> SUBSET {"draft", "final"}]
      /\ disk' \in [Jobs -> {"none", "meta", "clone"}]
      /\ \A j \in Jobs : published[j] \subseteq published'[j]
  BY DEF Heartbeat, TouchLease, own, effects, vars, ServiceInv, ServiceTypeOK, WorkerTypeOK
<1>2. Beats \subseteq Busy /\ AfterBeat(w) \in Busy /\ "failing" \in Busy
  BY <1>1 DEF Busy, Beats, AfterSave, AfterBeat, ToSession
<1>3. CASE Goto(w, AfterBeat(w)) /\ goal' = goal
  <2>1. /\ AfterBeat(w) \in Early => at[w] \in Early
        /\ AfterBeat(w) \in Late => at[w] \in Late
        /\ AfterBeat(w) \notin {"published", "failing"}
    BY <1>1 DEF AfterBeat, ToSession, Beats, Early, Late
  <2>2. at' = [at EXCEPT ![w] = AfterBeat(w)] /\ at[w] \in Busy
    BY <1>1, <1>2, <1>3 DEF Goto
  <2>3. QED
    BY <1>1, <1>2, <1>3, <2>1, <2>2, GoOnStep
<1>4. CASE Raises(w, FALSE)
  <2>1. /\ "failing" \notin Early \cup Late /\ "failed" \in Statuses
        /\ at[w] \in Early \cup Late /\ "failing" # "published"
    BY <1>1, Phases DEF Statuses
  <2>2. at' = [at EXCEPT ![w] = "failing"] /\ goal' = [goal EXCEPT ![w] = "failed"]
        /\ at[w] \in Busy
    BY <1>1, <1>2, <1>4 DEF Raises, Goto, Aims
  <2>3. QED
    BY <1>1, <1>2, <2>1, <2>2, GoOnStep
<1>5. QED
  BY <1>3, <1>4 DEF Heartbeat

\* Saves of the running job lead from one early place to the next.
LEMMA ProgressHands ==
  ASSUME ServiceInv, NEW w \in Workers, Progress(w)
  PROVE  StepOf(w)
<1> DEFINE next == AfterSave[at[w]]
<1>1. Saves(w, "running", "due", next) /\ at[w] \in {"clone", "branch", "session", "agent"}
  BY DEF Progress, AfterSave
<1>2. /\ next \in Busy \ (Late \cup {"failing"}) /\ at[w] \in Busy
      /\ at[w] \in Early \cup Late \cup {"failing"}
  BY <1>1, Phases DEF AfterSave, Busy, Beats, Late
<1>3. job' = job /\ hurt' = hurt /\ published' = published
  BY DEF Progress, own
<1>4. disk' \in [Jobs -> {"none", "meta", "clone"}]
  BY DEF Progress, ServiceInv, ServiceTypeOK, WorkerTypeOK
<1> HIDE DEF next
<1>5. QED
  BY <1>1, <1>2, <1>3, <1>4, SavesStep

\* The other places where the object is saved.
LEMMA ConcludeHands ==
  ASSUME ServiceInv, NEW w \in Workers, Conclude(w) \/ Settle(w)
  PROVE  StepOf(w)
<1>1. PICK s : Saves(w, s, "due", "cleanup")
  BY DEF Conclude, Settle
<1>2. /\ "cleanup" \in Busy \ (Late \cup {"failing"}) /\ "cleanup" \notin Early
      /\ at[w] \in Busy /\ at[w] \in Early \cup Late \cup {"failing"}
  BY DEF Conclude, Settle, Busy, Beats, Early, Late
<1>3. /\ job' = job /\ hurt' = hurt /\ published' = published
      /\ disk' \in [Jobs -> {"none", "meta", "clone"}]
  BY DEF Conclude, Settle, own, effects, ServiceInv, ServiceTypeOK, WorkerTypeOK
<1>4. QED
  BY <1>1, <1>2, <1>3, SavesStep

LEMMA StartPublishHands ==
  ASSUME ServiceInv, NEW w \in Workers, StartPublish(w)
  PROVE  StepOf(w)
<1>1. PICK d \in Mine(w), s \in {"completed", "paused"} :
        \/ Save(w, d, "publishing", "due") /\ Goto(w, "publishing") /\ Aims(w, s)
        \/ Raises(w, FALSE) /\ UNCHANGED vars
  BY DEF StartPublish
<1>2. /\ job' = job /\ hurt' = hurt /\ published' = published /\ disk' = disk
      /\ disk' \in [Jobs -> {"none", "meta", "clone"}]
      /\ published' \in [Jobs -> SUBSET {"draft", "final"}]
      /\ \A j \in Jobs : published[j] \subseteq published'[j]
      /\ at[w] = "result"
  BY DEF StartPublish, own, effects, ServiceInv, ServiceTypeOK, WorkerTypeOK
<1>3. /\ {"result", "publishing", "failing"} \subseteq Busy
      /\ "publishing" \notin Early /\ "failing" \notin Early \cup Late
      /\ {"completed", "paused", "failed"} \subseteq Statuses
      /\ "result" \in Early /\ "failing" \notin {"publishing", "published"}
  BY DEF Busy, Beats, Early, Late, Statuses
<1>4. d \in copies[w] /\ d.id = job[w] /\ \A c \in copies[w] : c.id = job[w]
  BY DEF Mine, ServiceInv, InHand
<1>5. CASE Save(w, d, "publishing", "due") /\ Goto(w, "publishing") /\ Aims(w, s)
  <2>1. /\ \A g \in Holders \ {w} : copies'[g] = copies[g]
        /\ \A c \in copies'[w] : c.id = job[w] /\ c.status = "publishing"
    BY <1>4, <1>5, SaveKeeps DEF ServiceInv
  <2>2. at' = [at EXCEPT ![w] = "publishing"] /\ goal' = [goal EXCEPT ![w] = s]
    BY <1>5 DEF Goto, Aims
  <2>3. WorkerTypeOK'
    BY <1>2, <1>3, <2>2 DEF ServiceInv, ServiceTypeOK, WorkerTypeOK
  <2>4. at'[w] = "publishing" /\ goal'[w] = s
    BY <2>2, WorkerFields
  <2>5. InHand(w)'
    BY <1>2, <1>3, <2>1, <2>4, WorkerFields DEF InHand
  <2>6. \A v \in Workers \ {w} : Untouched(v)
    BY <1>2, <2>1, <2>2, WorkerFields DEF Untouched
  <2>7. QED
    BY <2>3, <2>5, <2>6 DEF StepOf
<1>6. CASE Raises(w, FALSE) /\ UNCHANGED vars
  <2>1. /\ at' = [at EXCEPT ![w] = "failing"] /\ goal' = [goal EXCEPT ![w] = "failed"]
        /\ copies' = copies
    BY <1>6 DEF Raises, Goto, Aims, vars
  <2>2. QED
    BY <1>2, <1>3, <2>1, GoOnStep
<1>7. QED
  BY <1>1, <1>5, <1>6

\* The final publication of a run that is to be completed is shown for good.
LEMMA PublishHands ==
  ASSUME ServiceInv, NEW w \in Workers, Publish(w)
  PROVE  StepOf(w)
<1>1. /\ copies' = copies /\ job' = job /\ goal' = goal /\ hurt' = hurt /\ disk' = disk
      /\ at[w] = "publish" /\ at' = [at EXCEPT ![w] = "published"]
      /\ disk' \in [Jobs -> {"none", "meta", "clone"}]
  BY DEF Publish, Goto, own, vars, ServiceInv, ServiceTypeOK, WorkerTypeOK
<1>2. /\ "publish" \in Busy /\ "published" \in Busy
      /\ "published" \notin Early /\ "publish" \in Late
  BY DEF Busy, Early, Late
<1>3. job[w] \in Jobs
  BY <1>1, <1>2, WorkerFields
<1> DEFINE kind == IF goal[w] = "completed" THEN "final" ELSE "draft"
<1>4. \/ published' = [published EXCEPT ![job[w]] = @ \cup {kind}]
      \/ goal[w] # "completed" /\ published' = published
  BY DEF Publish
<1>5. published' \in [Jobs -> SUBSET {"draft", "final"}]
  BY <1>3, <1>4 DEF ServiceInv, ServiceTypeOK, WorkerTypeOK
<1>6. \A j \in Jobs : published[j] \subseteq published'[j]
  BY <1>3, <1>4, WorkerFields
<1>7. goal'[w] = "completed" => "final" \in published'[job[w]]
  BY <1>1, <1>3, <1>4, WorkerFields
<1>8. QED
  BY <1>1, <1>2, <1>5, <1>6, <1>7, GoOnStep

LEMMA FailureHands ==
  ASSUME ServiceInv, NEW w \in Workers, HandleFailure(w) \/ Raise(w)
  PROVE  StepOf(w)
<1>1. /\ job' = job /\ hurt' = hurt /\ disk' = disk /\ published' = published
      /\ disk' \in [Jobs -> {"none", "meta", "clone"}]
      /\ published' \in [Jobs -> SUBSET {"draft", "final"}]
      /\ \A j \in Jobs : published[j] \subseteq published'[j]
  BY DEF HandleFailure, Raise, own, effects, ServiceInv, ServiceTypeOK, WorkerTypeOK
<1>2. /\ {"failing", "cleanup", "unwind"} \subseteq Busy /\ Risky \subseteq Busy
      /\ {"failing", "cleanup", "unwind"} \cap (Early \cup Late) = {}
      /\ {"queued", "failed"} \subseteq Statuses
  BY DEF Busy, Beats, AfterSave, Risky, Early, Late, Statuses
<1>3. CASE Raise(w)
  <2>1. /\ at' = [at EXCEPT ![w] = "failing"] /\ copies' = copies /\ at[w] \in Busy
        /\ \E s \in Statuses : goal' = [goal EXCEPT ![w] = s]
        /\ at[w] \in Early \cup Late /\ "failing" # "published"
    BY <1>2, <1>3, Phases DEF Raise, Raises, Goto, Aims, vars
  <2>2. QED
    BY <1>1, <1>2, <2>1, GoOnStep
<1>4. ASSUME NEW d \in Mine(w), NEW s, NEW u, Save(w, d, s, u), Goto(w, "cleanup"),
             goal' = goal, at[w] = "failing"
      PROVE  StepOf(w)
  <2>1. Saves(w, s, u, "cleanup")
    BY <1>4 DEF Saves
  <2>2. "cleanup" \in Busy \ (Late \cup {"failing"}) /\ "cleanup" \notin Early
    BY <1>2
  <2>3. QED
    BY <1>1, <1>2, <1>4, <2>1, <2>2, SavesStep
<1>5. CASE at[w] = "failing" /\ Goto(w, "unwind") /\ Aims(w, "failed") /\ UNCHANGED vars
  <2>1. /\ at' = [at EXCEPT ![w] = "unwind"] /\ goal' = [goal EXCEPT ![w] = "failed"]
        /\ copies' = copies
    BY <1>5 DEF Goto, Aims, vars
  <2>2. WorkerTypeOK'
    BY <1>1, <1>2, <2>1 DEF ServiceInv, ServiceTypeOK, WorkerTypeOK
  <2>3. at'[w] = "unwind"
    BY <2>1, WorkerFields
  <2>4. InHand(w)'
    BY <1>1, <1>2, <1>5, <2>1, <2>3, WorkerFields DEF InHand, Late, ServiceInv
  <2>5. \A v \in Workers \ {w} : Untouched(v)
    BY <1>1, <2>1, WorkerFields DEF Untouched
  <2>6. QED
    BY <2>2, <2>4, <2>5 DEF StepOf
<1>6. CASE HandleFailure(w)
  <2>1. PICK d \in Mine(w), s \in {"queued", "failed"}, u \in {"due", "delayed"} :
          \/ Save(w, d, s, u) /\ Goto(w, "cleanup") /\ UNCHANGED goal
          \/ Goto(w, "unwind") /\ Aims(w, "failed") /\ UNCHANGED vars
    BY <1>6 DEF HandleFailure
  <2>2. at[w] = "failing"
    BY <1>6 DEF HandleFailure
  <2>3. QED
    BY <1>4, <1>5, <2>1, <2>2
<1>7. QED
  BY <1>3, <1>6

\* The worker drops its job: at the end of its work, when it exits, when it dies.
LEMMA CleanupHands ==
  ASSUME ServiceInv, NEW w \in Workers, Cleanup(w) \/ Exit(w) \/ Crash(w)
  PROVE  StepOf(w)
<1>1. PICK phase \in {"idle", "dead"} : Leave(w, phase)
  BY DEF Cleanup, Exit, Crash
<1>2. published' = published
  BY DEF Cleanup, Exit, Crash, effects
<1>3. disk' \in [Jobs -> {"none", "meta", "clone"}]
  BY DEF Cleanup, Exit, Crash, effects, ServiceInv, ServiceTypeOK, WorkerTypeOK
<1>4. QED
  BY <1>1, <1>2, <1>3, LeaveStep
\* The lease thread, signals and the clock leave the job objects alone.
LEMMA BesideHands ==
  ASSUME ServiceInv, NEW w \in Workers, Renew(w) \/ RenewFails(w) \/ Shutdown(w)
  PROVE  StepOf(w)
<1>1. /\ copies' = copies /\ at' = at /\ job' = job /\ goal' = goal
      /\ disk' = disk /\ published' = published
  BY DEF Renew, RenewFails, Shutdown, TouchLease, ReleaseLease, workerVars, own, effects,
         outside, vars
<1>2. hurt' = hurt \/ hurt' = hurt \cup {w}
  BY DEF Renew, RenewFails, Shutdown, workerVars, own
<1>3. WorkerTypeOK'
  BY <1>1, <1>2 DEF ServiceInv, ServiceTypeOK, WorkerTypeOK
<1>4. InHand(w)'
  BY <1>1 DEF InHand, ServiceInv
<1>5. \A v \in Workers \ {w} : Untouched(v)
  BY <1>1, <1>2 DEF Untouched
<1>6. QED
  BY <1>3, <1>4, <1>5 DEF StepOf

LEMMA WorkerHands ==
  ASSUME ServiceInv, WorkerNext
  PROVE  WorkerTypeOK' /\ \A v \in Workers : InHand(v)'
<1>1. ASSUME NEW w \in Workers, StepOf(w)
      PROVE  WorkerTypeOK' /\ \A v \in Workers : InHand(v)'
  BY <1>1, UntouchedInHand DEF StepOf, ServiceInv
<1>2. ASSUME NEW w \in Workers, Run(w) PROVE StepOf(w)
  BY <1>2, ClaimHands, IdleHands, EnterHands, HeartbeatHands, ProgressHands, ConcludeHands,
     StartPublishHands, PublishHands, FailureHands, CleanupHands
  DEF Run
<1>3. ASSUME NEW w \in Workers,
             Renew(w) \/ RenewFails(w) \/ Shutdown(w) \/ Crash(w) \/ Restart(w)
      PROVE  StepOf(w)
  BY <1>3, BesideHands, CleanupHands, IdleHands
<1>4. ASSUME NEW j \in Jobs, Expire(j) \/ Delay(j)
      PROVE  WorkerTypeOK' /\ \A v \in Workers : InHand(v)'
  <2>1. copies' = copies /\ UNCHANGED workerVars
    BY <1>4 DEF Expire, Delay, Lapse, BecomeDue
  <2>2. /\ at' = at /\ job' = job /\ goal' = goal /\ hurt' = hurt /\ disk' = disk
        /\ published' = published
    BY <2>1 DEF workerVars, own, effects
  <2>3. QED
    BY <2>1, <2>2 DEF InHand, ServiceInv, ServiceTypeOK, WorkerTypeOK
<1>5. QED
  BY <1>1, <1>2, <1>3, <1>4 DEF WorkerNext

\* Handlers leave the workers alone, all but the clone.
LEMMA ClientHands ==
  ASSUME ServiceInv, NEW c \in Clients, ClientStep(c)
  PROVE  /\ \A h \in Holders \ {c} : copies'[h] = copies[h]
         /\ at' = at /\ job' = job /\ goal' = goal /\ hurt' = hurt /\ published' = published
         /\ disk' = disk \/ MergeWipe(c)
<1>1. ClientStep(c)
  OBVIOUS
<1>2. c \in Holders /\ DOMAIN copies = Holders /\ IInv
  BY StoreFacts DEF ServiceInv
<1>3. ASSUME NEW d, copies' = Holding(c, d) PROVE \A h \in Holders \ {c} : copies'[h] = copies[h]
  BY <1>2, <1>3, Keeps
<1>4. ASSUME NEW d, NEW s, NEW u, Save(c, d, s, u)
      PROVE  \A h \in Holders \ {c} : copies'[h] = copies[h]
  BY <1>3, <1>4 DEF Save
<1>5. ASSUME NEW d, NEW s, NEW next, ClientSave(c, d, s, next)
      PROVE  \A h \in Holders \ {c} : copies'[h] = copies[h]
  BY <1>4, <1>5 DEF ClientSave, vars
<1>6. CASE Submit(c) \/ Enqueue(c) \/ Ask(c)
  BY <1>3, <1>6 DEF Submit, Enqueue, Ask, Create, Replay, Load, workerVars, own, effects, vars
<1>7. CASE Requeue(c)
  BY <1>4, <1>7 DEF Requeue, workerVars, own, effects, vars
<1>8. CASE Serve(c) \/ MergeCancel(c) \/ MergeNote(c)
  BY <1>5, <1>8 DEF Serve, MergeCancel, MergeNote, workerVars, own, effects
<1>9. CASE Merge(c) \/ Return(c)
  BY <1>2, <1>9 DEF Merge, Return, List, Forget, workerVars, own, effects, vars
<1>10. CASE MergeNext(c)
  BY <1>10 DEF MergeNext, workerVars, own, effects, vars
<1>11. CASE MergeWipe(c)
  BY <1>11 DEF MergeWipe, own, vars
<1>12. QED
  BY <1>1, <1>6, <1>7, <1>8, <1>9, <1>10, <1>11 DEF ClientStep
-----------------------------------------------------------------------------
(* Requests keep to the statements of their handlers *)

CallsOK == call \in [Clients -> Call] /\ \A c \in Clients : OwnStatement(c)

\* A handler that goes on stays in its own code.
LEMMA StepCall ==
  ASSUME CallsOK, NEW c \in Clients, NEW stmt \in Statements, Step(c, stmt),
         stmt = "save" => call[c].op \in DOMAIN Serves,
         stmt \in MergeStatements => call[c].op = "merge",
         stmt \in {"save", "enqueue"} => call[c].job \in Jobs
  PROVE  CallsOK'
<1> DEFINE x == [call[c] EXCEPT !.at = stmt]
<1>1. call' = [call EXCEPT ![c] = x] /\ call[c] \in Call
  BY DEF Step, CallsOK
<1>2. x \in Call /\ x.at = stmt /\ x.op = call[c].op /\ x.job = call[c].job
  BY <1>1 DEF Call
<1> HIDE DEF x
<1>3. call'[c] = x /\ \A b \in Clients \ {c} : call'[b] = call[b]
  BY <1>1 DEF CallsOK
<1>4. call' \in [Clients -> Call]
  BY <1>1, <1>2 DEF CallsOK
<1>5. \A b \in Clients : OwnStatement(b)'
  BY <1>2, <1>3 DEF CallsOK, OwnStatement
<1>6. QED
  BY <1>4, <1>5 DEF CallsOK

\* A handler that starts does so at a statement of its own.
LEMMA BeginCall ==
  ASSUME CallsOK, NEW c \in Clients, NEW op, NEW stmt \in Statements,
         NEW j \in Jobs \cup {NoJob}, NEW todo \in SUBSET Jobs, Begin(c, op, stmt, j, todo),
         stmt = "save" => op \in DOMAIN Serves,
         stmt \in MergeStatements => op = "merge",
         stmt \in {"save", "enqueue"} => j \in Jobs
  PROVE  CallsOK'
<1> DEFINE x == [op |-> op, at |-> stmt, job |-> j, todo |-> todo]
<1>1. call' = [call EXCEPT ![c] = x] /\ op \in Ops
  BY DEF Begin
<1>2. x \in Call /\ x.at = stmt /\ x.op = op /\ x.job = j
  BY <1>1 DEF Call
<1> HIDE DEF x
<1>3. call'[c] = x /\ \A b \in Clients \ {c} : call'[b] = call[b]
  BY <1>1 DEF CallsOK
<1>4. call' \in [Clients -> Call]
  BY <1>1, <1>2 DEF CallsOK
<1>5. \A b \in Clients : OwnStatement(b)'
  BY <1>2, <1>3 DEF CallsOK, OwnStatement
<1>6. QED
  BY <1>4, <1>5 DEF CallsOK

LEMMA ClientCalls ==
  ASSUME ServiceInv, ClientNext
  PROVE  /\ CallsOK'
         /\ revived' \in [Jobs -> Nat]
         /\ disk' \in [Jobs -> {"none", "meta", "clone"}]
<1>1. PICK c \in Clients : ClientStep(c)
  BY DEF ClientNext, ClientStep
<1>2. /\ CallsOK /\ call[c] \in Call /\ OwnStatement(c)
      /\ revived \in [Jobs -> Nat] /\ disk \in [Jobs -> {"none", "meta", "clone"}]
      /\ IInv
  BY DEF ServiceInv, ServiceTypeOK, WorkerTypeOK, CallsOK
<1>3. /\ {"save", "enqueue", "requeue", "next", "cancel", "wipe", "note", "return"} \subseteq Statements
      /\ MergeStatements = {"next", "cancel", "wipe", "note"}
      /\ DOMAIN Serves = {"cancel", "resume", "requeue"}
  BY DEF Statements, MergeStatements, Serves
<1>4. CASE revived' = revived /\ disk' = disk /\ CallsOK'
  BY <1>2, <1>4
<1>5. CASE Submit(c)
  BY <1>2, <1>3, <1>4, <1>5, BeginCall DEF Submit, workerVars, effects
<1>6. CASE Enqueue(c)
  BY <1>2, <1>3, <1>4, <1>6, StepCall DEF Enqueue, workerVars, effects
<1>7. CASE Requeue(c)
  <2>1. CallsOK' /\ disk' = disk
    BY <1>2, <1>3, <1>7, StepCall DEF Requeue, workerVars, effects
  <2>2. PICK d \in Object(c) : \/ revived' = revived
                               \/ revived' = [revived EXCEPT ![d.id] = @ + 1]
    BY <1>7 DEF Requeue
  <2>3. QED
    BY <1>2, <2>1, <2>2
<1>8. CASE Ask(c)
  <2>1. PICK op \in DOMAIN Serves, j \in Created :
          \/ Begin(c, op, "save", j, {})
          \/ UNCHANGED call
    BY <1>8 DEF Ask, Answered
  <2>2. CallsOK'
    BY <1>2, <1>3, <2>1, BeginCall DEF Created, CallsOK, OwnStatement
  <2>3. QED
    BY <1>4, <1>8, <2>2 DEF Ask, workerVars, effects
<1>9. CASE Serve(c) \/ MergeCancel(c) \/ MergeNote(c)
  <2>1. \/ Step(c, "return")
        \/ Step(c, "enqueue") /\ call[c].at = "save"
        \/ /\ call[c].at \in MergeStatements
           /\ Step(c, "wipe") \/ Step(c, "next")
    BY <1>3, <1>9 DEF Serve, MergeCancel, MergeNote, ClientSave
  <2>2. CallsOK'
    BY <1>2, <1>3, <2>1, StepCall DEF OwnStatement
  <2>3. QED
    BY <1>4, <1>9, <2>2 DEF Serve, MergeCancel, MergeNote, workerVars, effects
<1>10. CASE Merge(c)
  <2>1. PICK matched \in SUBSET Created : Begin(c, "merge", "next", NoJob, matched)
    BY <1>10 DEF Merge
  <2>2. matched \in SUBSET Jobs
    BY <2>1 DEF Created
  <2>3. QED
    BY <1>2, <1>3, <1>4, <1>10, <2>1, <2>2, BeginCall DEF Merge, workerVars, effects
<1>11. CASE MergeNext(c)
  <2>1. call[c].at \in MergeStatements
    BY <1>3, <1>11 DEF MergeNext
  <2>2. CASE Step(c, "return")
    BY <1>2, <1>3, <1>4, <1>11, <2>2, StepCall DEF MergeNext, workerVars, effects
  <2>3. ASSUME NEW d \in copies[c], NEW stmt \in {"cancel", "wipe"}, d.id \in call[c].todo,
               call' = [call EXCEPT ![c].job = d.id, ![c].todo = @ \ {d.id}, ![c].at = stmt]
        PROVE  CallsOK'
    <3> DEFINE x == [op |-> call[c].op, at |-> stmt, job |-> d.id,
                     todo |-> call[c].todo \ {d.id}]
    <3>1. call' = [call EXCEPT ![c] = x]
      BY <1>2, <2>3 DEF Call, CallsOK
    <3>2. x \in Call /\ x.at = stmt /\ x.op = call[c].op
      BY <1>2, <1>3, <2>3 DEF Call
    <3> HIDE DEF x
    <3>3. call'[c] = x /\ \A b \in Clients \ {c} : call'[b] = call[b]
      BY <1>2, <3>1 DEF CallsOK
    <3>4. call' \in [Clients -> Call]
      BY <1>2, <3>1, <3>2 DEF CallsOK
    <3>5. \A b \in Clients : OwnStatement(b)'
      BY <1>2, <1>3, <2>1, <3>2, <3>3 DEF CallsOK, OwnStatement
    <3>6. QED
      BY <3>4, <3>5 DEF CallsOK
  <2>4. QED
    BY <1>4, <1>11, <2>2, <2>3 DEF MergeNext, workerVars, effects
<1>12. CASE MergeWipe(c)
  <2>1. call[c].at \in MergeStatements /\ (Step(c, "next") \/ Step(c, "note"))
    BY <1>3, <1>12 DEF MergeWipe
  <2>2. CallsOK'
    BY <1>2, <1>3, <2>1, StepCall DEF OwnStatement
  <2>3. QED
    BY <1>2, <1>12, <2>2 DEF MergeWipe
<1>13. CASE Return(c)
  <2>1. call' = [call EXCEPT ![c] = NoCall]
    BY <1>13 DEF Return
  <2>2. NoCall \in Call /\ NoCall.at = "return"
    BY DEF NoCall, Call, Statements
  <2>3. CallsOK'
    BY <1>2, <1>3, <2>1, <2>2 DEF CallsOK, OwnStatement
  <2>4. QED
    BY <1>4, <1>13, <2>3 DEF Return, workerVars, effects
<1>14. QED
  BY <1>1, <1>5, <1>6, <1>7, <1>8, <1>9, <1>10, <1>11, <1>12, <1>13 DEF ClientStep

-----------------------------------------------------------------------------
(* The invariant of the service, and the refinement *)

LEMMA InitServiceInv == ServiceInit => ServiceInv
<1> SUFFICES ASSUME ServiceInit PROVE ServiceInv
  OBVIOUS
<1>1. IInv
  BY InitIInv DEF ServiceInit
<1>2. NoCall \in Call /\ NoCall.at = "return"
  BY DEF NoCall, Call, Statements
<1>3. ServiceTypeOK
  BY <1>2 DEF ServiceInit, WorkerInit, ServiceTypeOK, WorkerTypeOK, Statuses
<1>4. "idle" \notin Busy \cup Early \cup Late
  BY DEF Busy, Beats, AfterSave, Early, Late
<1>5. \A w \in Workers : at[w] = "idle" /\ job[w] = NoJob /\ copies[w] = {}
  BY DEF ServiceInit, WorkerInit, Init
<1>6. \A w \in Workers : InHand(w)
  BY <1>4, <1>5 DEF InHand
<1>7. \A c \in Clients : OwnStatement(c)
  BY <1>2 DEF ServiceInit, OwnStatement, MergeStatements
<1>8. QED
  BY <1>1, <1>3, <1>6, <1>7 DEF ServiceInv

LEMMA NextServiceInv == ServiceInv /\ [ServiceNext]_serviceVars => ServiceInv'
<1> SUFFICES ASSUME ServiceInv, [ServiceNext]_serviceVars PROVE ServiceInv'
  OBVIOUS
<1>1. IInv'
  BY ServiceMaps, NextIInv DEF ServiceInv
<1>2. CASE ClientNext
  <2>1. /\ \A h \in Workers : copies'[h] = copies[h]
        /\ at' = at /\ job' = job /\ goal' = goal /\ hurt' = hurt /\ published' = published
    BY <1>2, ClientHands DEF ClientNext, ClientStep
  <2>2. \A w \in Workers : InHand(w)'
    BY <2>1 DEF InHand, ServiceInv
  <2>3. CallsOK' /\ revived' \in [Jobs -> Nat] /\ disk' \in [Jobs -> {"none", "meta", "clone"}]
    BY <1>2, ClientCalls
  <2>4. ServiceTypeOK'
    BY <2>1, <2>3 DEF ServiceInv, ServiceTypeOK, WorkerTypeOK, CallsOK
  <2>5. QED
    BY <1>1, <2>2, <2>3, <2>4 DEF ServiceInv, CallsOK
<1>3. CASE WorkerNext /\ UNCHANGED clientVars
  <2>1. WorkerTypeOK' /\ \A w \in Workers : InHand(w)'
    BY <1>3, WorkerHands
  <2>2. QED
    BY <1>1, <1>3, <2>1 DEF clientVars, ServiceInv, ServiceTypeOK, OwnStatement
<1>4. CASE UNCHANGED serviceVars
  BY <1>1, <1>4 DEF serviceVars, vars, workerVars, own, effects, clientVars, ServiceInv,
     ServiceTypeOK, WorkerTypeOK, InHand, OwnStatement
<1>5. QED
  BY <1>2, <1>3, <1>4 DEF ServiceNext

\* The job objects of workers, the places of the code they are at and the rows of
\* the table fit together in every state.
THEOREM ServiceInvariance == ServiceSpec => []ServiceInv
BY InitServiceInv, NextServiceInv, PTL DEF ServiceSpec

\* Whatever handlers, workers, signals, faults and the clock do to the table is a
\* step of JobStore, so its theorems hold of the whole service.
LEMMA ServiceTakesStoreSteps == ServiceSpec => Spec
<1>1. ServiceInit => Init
  BY DEF ServiceInit
<1>2. ServiceInv /\ [ServiceNext]_serviceVars => [Next]_vars
  BY ServiceMaps
<1>3. QED
  BY <1>1, <1>2, ServiceInvariance, PTL DEF ServiceSpec, Spec

\* With all its processes the service keeps what the store promises: at most one active
\* job of a repository, rows that agree with their documents, no lost update, and no
\* worker that saves without the lease.
THEOREM ServiceKeepsTable ==
  ServiceSpec => [](/\ RowsConsistent /\ OneActivePerRepository
                    /\ FreshCopyIsCurrent /\ FreshWorkerHoldsLease)
BY ServiceTakesStoreSteps, Consistent, Serialized, NoUpdateIsLost, Fenced, PTL

\* Whatever operators, workers and faults do to one job, its statuses follow the
\* lifecycle and the contract of a job queue holds of the whole service.
THEOREM ServiceKeepsContract == ServiceSpec => LifecycleRespected /\ ImplementsContract
BY ServiceTakesStoreSteps, Respected, Refinement, PTL

-----------------------------------------------------------------------------
(* What the saves of handlers and workers have in common *)

\* A job is queued again while it has attempts left, or by an enqueue, which is
\* counted; a job that was publishing is completed after its final publication.
Sound(d, s) ==
  /\ s = "queued" => \/ d.status = "queued" \/ CanRetry(d, MaxAttempts)
                     \/ revived'[d.id] = revived[d.id] + 1
  /\ s = "completed" /\ d.status = "publishing" => "final" \in published[d.id]

SoundSave == \E h \in Holders : \E d \in copies[h] : \E s \in Statuses, u \in Dues :
               Save(h, d, s, u) /\ Sound(d, s)

\* The steps of the table that the service takes.
TableStep ==
  \/ rows' = rows
  \/ SoundSave
  \/ \E c \in Clients, j \in Jobs : Create(c, j)
  \/ \E w \in Workers, j \in Jobs : ClaimNext(w, j) \/ TouchLease(w, j) \/ ReleaseLease(w, j)
  \/ RequeueExpired
  \/ \E j \in Jobs : Lapse(j) \/ BecomeDue(j)

\* A save by the main thread of a worker.
LEMMA SoundSaves ==
  ASSUME ServiceInv, NEW w \in Workers, NEW s \in Statuses, NEW u \in Dues, NEW next,
         Saves(w, s, u, next), s # "queued",
         s = "completed" => \/ \A d \in copies[w] : d.status = "running"
                            \/ "final" \in published[job[w]]
  PROVE  TableStep
<1>1. PICK d \in Mine(w) : Save(w, d, s, u) \/ rows' = rows
  BY DEF Saves, vars
<1>2. d \in copies[w] /\ d.id = job[w]
  BY DEF Mine
<1>3. Sound(d, s)
  BY <1>2 DEF Sound
<1>4. QED
  BY <1>1, <1>2, <1>3 DEF TableStep, SoundSave

LEMMA RunTable ==
  ASSUME ServiceInv, NEW w \in Workers, Run(w)
  PROVE  TableStep
<1>1. /\ "due" \in Dues /\ "delayed" \in Dues
      /\ {"queued", "running", "paused", "publishing", "completed", "failed"} \subseteq Statuses
      /\ InHand(w)
      /\ at[w] \in Busy => job[w] \in Jobs
  BY DEF Dues, Statuses, ServiceInv, InHand
<1>2. CASE Sweep(w) \/ FindNone(w) \/ Raise(w) \/ Publish(w)
  BY <1>2 DEF Sweep, FindNone, Raise, Publish, TableStep, vars
<1>3. CASE Claim(w)
  BY <1>3 DEF Claim, TableStep
<1>4. CASE Enter(w) \/ Cleanup(w) \/ Exit(w)
  <2>1. at[w] = "claimed" => job[w] \in Jobs
    BY <1>1 DEF Busy
  <2>2. QED
    BY <1>4, <2>1, LeaveKeeps DEF Enter, Cleanup, Exit, TableStep
<1>5. CASE Heartbeat(w)
  <2>1. job[w] \in Jobs
    BY <1>1, <1>5 DEF Heartbeat, Busy
  <2>2. QED
    BY <1>5, <2>1 DEF Heartbeat, TableStep, vars
<1>6. CASE Progress(w)
  <2>1. Saves(w, "running", "due", AfterSave[at[w]])
    BY <1>6 DEF Progress
  <2>2. QED
    BY <1>1, <2>1, SoundSaves
<1>7. CASE Conclude(w)
  <2>1. PICK s \in {"completed", "paused", "failed"} : Saves(w, s, "due", "cleanup")
    BY <1>7 DEF Conclude
  <2>2. \A d \in copies[w] : d.status = "running"
    BY <1>1, <1>7 DEF Conclude, InHand, Early
  <2>3. QED
    BY <1>1, <2>1, <2>2, SoundSaves
<1>8. CASE StartPublish(w)
  <2>1. PICK d \in Mine(w) : Save(w, d, "publishing", "due") \/ rows' = rows
    BY <1>8 DEF StartPublish, vars
  <2>2. Sound(d, "publishing") /\ d \in copies[w]
    BY DEF Sound, Mine
  <2>3. QED
    BY <1>1, <2>1, <2>2 DEF TableStep, SoundSave
<1>9. CASE Settle(w)
  <2>1. /\ goal[w] \in {"completed", "paused"}
        /\ goal[w] = "completed" => "final" \in published[job[w]]
        /\ Saves(w, goal[w], "due", "cleanup")
    BY <1>1, <1>9 DEF Settle, InHand, Late
  <2>2. QED
    BY <1>1, <2>1, SoundSaves
<1>10. CASE HandleFailure(w)
  <2>1. PICK d \in Mine(w), s \in {"queued", "failed"}, u \in {"due", "delayed"} :
          \/ Save(w, d, s, u) /\ (s = "queued" => CanRetry(d, MaxAttempts))
          \/ rows' = rows
    BY <1>10 DEF HandleFailure, vars
  <2>2. s = "queued" /\ CanRetry(d, MaxAttempts) => Sound(d, s)
    BY DEF Sound
  <2>3. s = "failed" => Sound(d, s)
    BY DEF Sound
  <2>4. d \in copies[w]
    BY DEF Mine
  <2>5. QED
    BY <1>1, <2>1, <2>2, <2>3, <2>4 DEF TableStep, SoundSave
<1>11. QED
  BY <1>2, <1>3, <1>4, <1>5, <1>6, <1>7, <1>8, <1>9, <1>10 DEF Run

LEMMA WorkerTable ==
  ASSUME ServiceInv, WorkerNext
  PROVE  TableStep
<1>1. ASSUME NEW w \in Workers, Run(w) PROVE TableStep
  BY <1>1, RunTable
<1>2. \A w \in Workers : at[w] \in Busy => job[w] \in Jobs
  BY DEF ServiceInv, InHand
<1>3. ASSUME NEW w \in Workers, Renew(w) \/ Shutdown(w) PROVE TableStep
  BY <1>2, <1>3 DEF Renew, Shutdown, TableStep, vars
<1>4. ASSUME NEW w \in Workers, RenewFails(w) \/ Restart(w) PROVE TableStep
  BY <1>4 DEF RenewFails, Restart, TableStep, vars
<1>5. ASSUME NEW w \in Workers, Crash(w) PROVE TableStep
  BY <1>5, LeaveKeeps DEF Crash, TableStep
<1>6. ASSUME NEW j \in Jobs, Expire(j) \/ Delay(j) PROVE TableStep
  BY <1>6 DEF Expire, Delay, TableStep
<1>7. QED
  BY <1>1, <1>3, <1>4, <1>5, <1>6 DEF WorkerNext

\* A handler that saves the status which the object has, cancels or reclaims.
LEMMA SoundClientSave ==
  ASSUME ServiceInv, NEW c \in Clients, NEW d \in Object(c), NEW next,
         NEW s \in {d.status, "cancelled", ReclaimStatus(d, MaxAttempts)},
         ClientSave(c, d, s, next)
  PROVE  TableStep
<1>1. d \in copies[c] /\ d.status \in Statuses /\ rows[d.id].due \in Dues
  BY StoreFacts DEF Object, Doc, ServiceInv
<1>2. s \in Statuses
  BY <1>1 DEF ReclaimStatus, Statuses
<1>3. Sound(d, s)
  BY DEF Sound, ReclaimStatus
<1>4. QED
  BY <1>1, <1>2, <1>3 DEF ClientSave, TableStep, SoundSave, vars

LEMMA ClientTable ==
  ASSUME ServiceInv, ClientNext
  PROVE  TableStep /\ \A j \in Jobs : revived'[j] >= revived[j]
<1>1. PICK c \in Clients : ClientStep(c)
  BY DEF ClientNext, ClientStep
<1>2. revived \in [Jobs -> Nat] /\ "due" \in Dues /\ "queued" \in Statuses
  BY DEF ServiceInv, ServiceTypeOK, Dues, Statuses
<1>3. CASE revived' = revived /\ TableStep
  BY <1>2, <1>3
<1>4. CASE Submit(c) \/ Enqueue(c) \/ Ask(c) \/ Merge(c) \/ MergeNext(c) \/ MergeWipe(c)
  BY <1>3, <1>4 DEF Submit, Enqueue, Ask, Merge, MergeNext, MergeWipe, Replay, Load, List,
                    TableStep, vars
<1>5. CASE Requeue(c)
  <2>1. PICK d \in Object(c) :
          \/ /\ Save(c, d, "queued", "due")
             /\ revived' = IF d.status = "queued" THEN revived
                           ELSE [revived EXCEPT ![d.id] = @ + 1]
          \/ rows' = rows /\ revived' = revived
    BY <1>5 DEF Requeue, vars
  <2>2. d \in copies[c] /\ d.id \in Jobs
    BY StoreFacts DEF Object, ServiceInv
  <2>3. \A j \in Jobs : revived'[j] >= revived[j]
    BY <1>2, <2>1
  <2>4. Save(c, d, "queued", "due") /\ rows' # rows => Sound(d, "queued")
    BY <1>2, <2>1, <2>2 DEF Sound
  <2>5. QED
    BY <1>2, <2>1, <2>2, <2>3, <2>4 DEF TableStep, SoundSave
<1>6. CASE Serve(c) \/ MergeCancel(c) \/ MergeNote(c)
  <2>1. revived' = revived
    BY <1>6 DEF Serve, MergeCancel, MergeNote
  <2>2. \E d \in Object(c) : \E next \in Statements :
          \E s \in {d.status, "cancelled", ReclaimStatus(d, MaxAttempts)} :
            ClientSave(c, d, s, next)
    BY <1>6 DEF Serve, MergeCancel, MergeNote, Statements
  <2>3. QED
    BY <1>3, <2>1, <2>2, SoundClientSave
<1>7. CASE Return(c)
  BY <1>3, <1>7 DEF Return, Forget, TableStep, vars
<1>8. QED
  BY <1>1, <1>4, <1>5, <1>6, <1>7 DEF ClientStep

LEMMA ServiceTable ==
  ASSUME ServiceInv, [ServiceNext]_serviceVars
  PROVE  TableStep /\ \A j \in Jobs : revived'[j] >= revived[j]
<1>1. CASE UNCHANGED clientVars
  <2>1. \A j \in Jobs : revived'[j] >= revived[j]
    BY <1>1 DEF clientVars, ServiceInv, ServiceTypeOK
  <2>2. WorkerNext \/ ClientNext \/ rows' = rows
    BY DEF ServiceNext, serviceVars, vars
  <2>3. QED
    BY <2>1, <2>2, WorkerTable, ClientTable DEF TableStep
<1>2. CASE ClientNext
  BY <1>2, ClientTable
<1>3. QED
  BY <1>1, <1>2 DEF ServiceNext, serviceVars

\* What such a step does to one row.
RowEffect(j) ==
  LET row == rows[j]
      new == rows'[j]
  IN  \/ new.status = row.status /\ new.doc.attempt = row.doc.attempt
      \/ j \notin Created /\ new.status = "queued" /\ new.doc.attempt = 0
      \/ row.status = "queued" /\ new.status = "running" /\ new.doc.attempt = row.doc.attempt + 1
      \/ j \in Created /\ new.doc.attempt = row.doc.attempt /\ Sound(row.doc, new.status)

LEMMA TableEffect ==
  ASSUME IInv, TableStep, NEW j \in Jobs
  PROVE  RowEffect(j)
<1>1. /\ \A k \in Jobs : rows[k] \in Row /\ rows[k].doc \in Doc /\ rows[k].due \in Dues
      /\ DOMAIN rows = Jobs
      /\ \A h \in Holders : \A d \in copies[h] : d \in Doc /\ d.id \in Jobs
  BY StoreFacts
<1>2. CASE rows'[j] = rows[j]
  BY <1>2 DEF RowEffect
<1>3. CASE SoundSave
  <2>1. PICK h \in Holders : \E d \in copies[h] : \E s \in Statuses, u \in Dues :
               Save(h, d, s, u) /\ Sound(d, s)
    BY <1>3 DEF SoundSave
  <2>2. PICK d \in copies[h], s \in Statuses, u \in Dues : Save(h, d, s, u) /\ Sound(d, s)
    BY <2>1
  <2>3. PICK k \in Jobs : k = d.id
    BY <1>1
  <2>4. /\ k \in Created /\ d = rows[k].doc
        /\ \A i \in Jobs \ {k} : rows'[i] = rows[i]
        /\ rows'[k].status = s /\ rows'[k].doc.attempt = rows[k].doc.attempt
    BY <2>2, <2>3, SaveEffect
  <2>5. QED
    BY <1>2, <2>2, <2>4 DEF RowEffect
<1>4. ASSUME NEW c \in Clients, NEW k \in Jobs, Create(c, k) PROVE RowEffect(j)
  <2>1. /\ rows' = [rows EXCEPT ![k] = Inserted(@, Created)] /\ k \notin Created
        /\ Created \in SUBSET Jobs
    BY <1>4 DEF Create, Created
  <2>2. rows[k].doc = NewDoc(k)
    BY <2>1, NoRowType DEF IInv, RowsInPlace
  <2>3. Inserted(rows[k], Created).status = "queued"
        /\ Inserted(rows[k], Created).doc = rows[k].doc
    BY <1>1, <2>1, InsertedType
  <2>4. NewDoc(k).attempt = 0
    BY DEF NewDoc
  <2>5. CASE j = k
    BY <1>1, <2>1, <2>2, <2>3, <2>4, <2>5 DEF RowEffect
  <2>6. QED
    BY <1>1, <1>2, <2>1, <2>5
<1>5. ASSUME NEW w \in Workers, NEW k \in Jobs, ClaimNext(w, k) PROVE RowEffect(j)
  <2> DEFINE n == AttemptDoc(rows[k].doc, w)
             r == Written(rows[k], n, w, "live", rows[k].due)
  <2>1. n \in Doc /\ n.status = "running" /\ n.attempt = rows[k].doc.attempt + 1
    BY <1>1, AttemptDocType
  <2>2. rows' = [rows EXCEPT ![k] = r] /\ rows[k].status = "queued"
    BY <1>5 DEF ClaimNext, ClaimRow, Claimable
  <2> HIDE DEF n
  <2>3. r.status = "running" /\ r.doc = n
    BY <1>1, <2>1, WrittenType, LeaseTypes
  <2> HIDE DEF r
  <2>4. CASE j = k
    BY <1>1, <2>1, <2>2, <2>3, <2>4 DEF RowEffect
  <2>5. QED
    BY <1>1, <1>2, <2>2, <2>4
<1>6. ASSUME rows'[j] = Reclaimed(rows[j]), j \in Created PROVE RowEffect(j)
  <2>1. /\ rows'[j].doc.attempt = rows[j].doc.attempt
        /\ rows'[j].status \in {"queued", "failed"}
        /\ rows'[j].status = ReclaimStatus(rows[j].doc, MaxAttempts)
    BY <1>1, <1>6, ReclaimedType
  <2>2. Sound(rows[j].doc, rows'[j].status)
    BY <2>1 DEF Sound, ReclaimStatus
  <2>3. QED
    BY <1>6, <2>1, <2>2 DEF RowEffect
<1>7. CASE RequeueExpired
  <2>1. Expired(j) => j \in Created
    BY DEF Expired, ActiveRow, Active, Created
  <2>2. QED
    BY <1>2, <1>6, <1>7, <2>1 DEF RequeueExpired
<1>8. ASSUME NEW w \in Workers, NEW k \in Jobs, ReleaseLease(w, k) PROVE RowEffect(j)
  <2>1. k \in Created
    BY <1>8, NoRowType DEF ReleaseLease, Releasable, IInv, RowsInPlace, Active
  <2>2. QED
    BY <1>1, <1>2, <1>6, <1>8, <2>1 DEF ReleaseLease
<1>9. ASSUME NEW k \in Jobs, NEW l \in Leases, NEW x \in {Leased(rows[k], l), MadeDue(rows[k])},
             rows' = [rows EXCEPT ![k] = x]
      PROVE  RowEffect(j)
  <2>1. x.status = rows[k].status /\ x.doc = rows[k].doc
    BY <1>1, <1>9, ColumnType
  <2>2. CASE j = k
    BY <1>1, <1>9, <2>1, <2>2 DEF RowEffect
  <2>3. QED
    BY <1>1, <1>2, <1>9, <2>2
<1>10. ASSUME NEW w \in Workers, NEW k \in Jobs, TouchLease(w, k) PROVE RowEffect(j)
  BY <1>9, <1>10, LeaseTypes DEF TouchLease
<1>11. ASSUME NEW k \in Jobs, Lapse(k) \/ BecomeDue(k) PROVE RowEffect(j)
  BY <1>9, <1>11, LeaseTypes DEF Lapse, BecomeDue
<1>12. QED
  BY <1>2, <1>3, <1>4, <1>5, <1>7, <1>8, <1>10, <1>11 DEF TableStep

\* However workers crash, are stopped or lose leases, a job is attempted at most
\* max_attempts times, and once more for every enqueue that put it back.
THEOREM AttemptsAreBounded == ServiceSpec => []AttemptsBounded
<1>1. ServiceInit => AttemptsBounded
  <2>1. Init => Created = {}
    BY NoRowType DEF Init, Created, NoRow
  <2>2. QED
    BY <2>1 DEF AttemptsBounded, ServiceInit
<1>2. ServiceInv /\ AttemptsBounded /\ [ServiceNext]_serviceVars => AttemptsBounded'
  <2> SUFFICES ASSUME ServiceInv, AttemptsBounded, [ServiceNext]_serviceVars, NEW j \in Created'
               PROVE  rows'[j].doc.attempt + (IF rows'[j].status = "queued" THEN 1 ELSE 0)
                        <= MaxAttempts + revived'[j]
    BY DEF AttemptsBounded
  <2>1. j \in Jobs /\ RowEffect(j) /\ revived'[j] >= revived[j]
    BY ServiceTable, TableEffect DEF Created, ServiceInv
  <2>2. /\ rows[j].doc.attempt \in Nat /\ rows[j].doc.id = j
        /\ rows[j].doc.status = rows[j].status \/ j \notin Created
        /\ revived[j] \in Nat /\ revived'[j] \in Nat /\ MaxAttempts \in Nat /\ MaxAttempts >= 1
    <3>1. ServiceInv'
      BY NextServiceInv
    <3>2. QED
      BY <2>1, <3>1 DEF ServiceInv, ServiceTypeOK, IInv, TypeOK, Row, Doc, RowsInPlace,
         ColumnsMatchDocument
  <2>3. CASE j \in Created
    <3>1. rows[j].doc.attempt + (IF rows[j].status = "queued" THEN 1 ELSE 0)
            <= MaxAttempts + revived[j]
      BY <2>3 DEF AttemptsBounded
    <3>2. rows[j].doc.status = rows[j].status
      BY <2>2, <2>3
    <3>3. QED
      BY <2>1, <2>2, <2>3, <3>1, <3>2 DEF RowEffect, Sound, CanRetry
  <2>4. CASE j \notin Created
    <3>1. rows[j].status = "absent" /\ rows'[j].status # "absent"
      BY <2>1, <2>4 DEF Created
    <3>2. rows'[j].status = "queued" /\ rows'[j].doc.attempt = 0
      BY <2>1, <2>4, <3>1 DEF RowEffect
    <3>3. QED
      BY <2>2, <3>2
  <2>5. QED
    BY <2>3, <2>4
<1>3. QED
  BY <1>1, <1>2, ServiceInvariance, PTL DEF ServiceSpec

\* A job whose publication was begun is completed only when its final change
\* request is shown, whoever lost its lease in between.
THEOREM CompletedWhenShown == ServiceSpec => CompletedAfterPublication
<1>1. ServiceInv /\ [ServiceNext]_serviceVars =>
        \A j \in Jobs : rows[j].status = "publishing" /\ rows'[j].status = "completed"
                          => "final" \in published[j]
  <2> SUFFICES ASSUME ServiceInv, [ServiceNext]_serviceVars, NEW j \in Jobs,
                      rows[j].status = "publishing", rows'[j].status = "completed"
               PROVE  "final" \in published[j]
    OBVIOUS
  <2>1. RowEffect(j)
    BY ServiceTable, TableEffect DEF ServiceInv
  <2>2. rows[j].doc.id = j /\ rows[j].doc.status = "publishing"
    BY DEF ServiceInv, IInv, RowsInPlace, ColumnsMatchDocument, Created
  <2>3. QED
    BY <2>1, <2>2 DEF RowEffect, Sound, Created
<1>2. QED
  BY <1>1, ServiceInvariance, PTL DEF ServiceSpec, CompletedAfterPublication
-----------------------------------------------------------------------------
(* Calm: a worker keeps its lease *)

\* The copies that a step leaves are old ones, or documents of the new rows.
LEMMA CopiesFromRows ==
  ASSUME IInv, [Next]_vars, NEW h \in Holders, NEW d \in copies'[h]
  PROVE  d \in copies[h] \/ d = rows'[d.id].doc
<1>1. DOMAIN copies = Holders /\ \A j \in Jobs : rows[j].doc.id = j
  BY StoreFacts DEF IInv, RowsInPlace
<1>2. IInv'
  BY NextIInv
<1>3. \A j \in Jobs : rows'[j].doc.id = j
  BY <1>2 DEF IInv, RowsInPlace
<1>4. ASSUME NEW g \in Holders, NEW j \in Jobs, copies' = Holding(g, rows'[j].doc)
      PROVE  d \in copies[h] \/ d = rows'[d.id].doc
  <2>1. /\ \A f \in Holders \ {g} : copies'[f] = copies[f]
        /\ copies'[g] = {c \in copies[g] : c.id # rows'[j].doc.id} \cup {rows'[j].doc}
    BY <1>4, Keeps
  <2>2. QED
    BY <1>3, <2>1
<1>5. ASSUME NEW c \in Clients, NEW j \in Jobs, Create(c, j)
      PROVE  d \in copies[h] \/ d = rows'[d.id].doc
  <2>1. Inserted(rows[j], Created).doc = rows[j].doc
    BY StoreFacts, InsertedType DEF Created
  <2>2. rows'[j].doc = rows[j].doc
    BY <1>5, <2>1, StoreFacts DEF Create
  <2>3. QED
    BY <1>4, <1>5, <2>2 DEF Create
<1>6. ASSUME NEW c \in Clients, NEW j \in Jobs, Load(c, j) \/ \E i \in Jobs : Replay(c, i, j)
      PROVE  d \in copies[h] \/ d = rows'[d.id].doc
  BY <1>4, <1>6 DEF Load, Replay
<1>7. ASSUME NEW c \in Clients, List(c) PROVE d \in copies[h] \/ d = rows'[d.id].doc
  BY <1>1, <1>7 DEF List, Created
<1>8. CASE SaveStep
  <2>1. PICK g \in Holders : \E e \in copies[g] : \E s \in Statuses, u \in Dues : Save(g, e, s, u)
    BY <1>8 DEF SaveStep
  <2>2. PICK e \in copies[g], s \in Statuses, u \in Dues : Save(g, e, s, u)
    BY <2>1
  <2>3. e.id \in Jobs
    BY StoreFacts
  <2>4. copies' = Holding(g, rows'[e.id].doc)
    BY <2>2, <2>3, SaveEffect
  <2>5. QED
    BY <1>4, <2>3, <2>4
<1>9. ASSUME NEW w \in Workers, NEW j \in Jobs, ClaimJob(w, j) \/ ClaimNext(w, j)
      PROVE  d \in copies[h] \/ d = rows'[d.id].doc
  <2> DEFINE n == AttemptDoc(rows[j].doc, w)
             r == Written(rows[j], n, w, "live", rows[j].due)
  <2>1. n \in Doc
    BY StoreFacts, AttemptDocType
  <2>2. rows' = [rows EXCEPT ![j] = r] /\ copies' = Holding(w, n)
    BY <1>9 DEF ClaimJob, ClaimNext, ClaimRow
  <2> HIDE DEF n
  <2>3. r.doc = n
    BY <2>1, StoreFacts, WrittenType, LeaseTypes
  <2> HIDE DEF r
  <2>4. rows'[j].doc = n
    BY <2>2, <2>3, StoreFacts
  <2>5. QED
    BY <1>4, <2>2, <2>4
<1>10. ASSUME NEW g \in Holders, Forget(g) PROVE d \in copies[h]
  BY <1>1, <1>10 DEF Forget
<1>11. ASSUME copies' = copies PROVE d \in copies[h]
  BY <1>11
<1>12. QED
  BY <1>5, <1>6, <1>7, <1>8, <1>9, <1>10, <1>11
  DEF Next, RequeueExpired, TouchLease, ReleaseLease, Lapse, BecomeDue, vars

\* Completed jobs stay completed, so a copy that says so stays right.
LEMMA StaysCompleted ==
  ASSUME IInv, [Next]_vars, CompletedForGood
  PROVE  CompletedForGood'
<1> SUFFICES ASSUME NEW h \in Holders, NEW d \in copies'[h], d.status = "completed"
             PROVE  rows'[d.id].status = "completed"
  BY DEF CompletedForGood
<1>1. IInv'
  BY NextIInv
<1>2. d.id \in Jobs /\ d.id \in Created'
  BY <1>1 DEF IInv, CopiesOfRows, Created
<1>3. CASE d = rows'[d.id].doc
  BY <1>1, <1>2, <1>3 DEF IInv, ColumnsMatchDocument
<1>4. CASE d \in copies[h]
  <2>1. d.id \in Created /\ rows[d.id].status = "completed"
    BY <1>4 DEF CompletedForGood, IInv, CopiesOfRows
  <2>2. rows'[d.id].status \in {"completed"} \cup Successors("completed")
    BY <2>1, NextContract, ContractRespects
  <2>3. QED
    BY <2>2 DEF Successors
<1>5. QED
  BY <1>3, <1>4, CopiesFromRows

\* What a step leaves of the hold that worker v has on its job.
Kept(v) ==
  /\ at'[v] = at[v] /\ job'[v] = job[v] /\ copies'[v] = copies[v] /\ (v \in hurt' <=> v \in hurt)
  /\ at[v] \in Busy \ {"cleanup"} =>
       /\ rows'[job[v]].status = rows[job[v]].status
       /\ rows'[job[v]].version = rows[job[v]].version
       /\ rows'[job[v]].owner = v /\ rows'[job[v]].lease = "live"
  /\ AtWork(v) /\ at[v] # "clone" => disk'[job[v]] = "clone"

LEMMA KeptUndisturbed ==
  ASSUME CalmInv, IInv', NEW v \in Workers, Kept(v)
  PROVE  Undisturbed(v)'
<1>1. \A d \in copies[v] : d.id = job[v]
  BY DEF CalmInv, ServiceInv, InHand
<1>2. Undisturbed(v)
  BY DEF CalmInv
<1>3. QED
  BY <1>1, <1>2 DEF Undisturbed, Kept, Holds, Current, AtWork, Busy

\* A step that changes only rows on which v holds no live lease, and takes no clone
\* that v may work in.
LEMMA OthersKept ==
  ASSUME CalmInv, NEW v \in Workers, Untouched(v),
         \A j \in Jobs : \/ rows'[j] = rows[j] \/ ~ ActiveRow(j)
                         \/ rows[j].lease # "live" \/ rows[j].owner # v,
         at[v] \in Busy \ {"cleanup"} /\ disk[job[v]] = "clone" => disk'[job[v]] = "clone"
  PROVE  Kept(v)
<1>1. at[v] \in Busy => job[v] \in Jobs
  BY DEF CalmInv, ServiceInv, InHand
<1>2. Undisturbed(v)
  BY DEF CalmInv
<1>3. at[v] \in Busy \ {"cleanup"} => rows'[job[v]] = rows[job[v]]
  BY <1>1, <1>2 DEF Undisturbed, Holds, ActiveRow
<1>4. AtWork(v) => at[v] \in Busy \ {"cleanup"}
  BY DEF AtWork
<1>5. QED
  BY <1>2, <1>3, <1>4 DEF Untouched, Undisturbed, Holds, Kept

\* A worker that holds its lease is never refused, and goes on holding it unless
\* the save ends its work.
LEMMA HeldSave ==
  ASSUME CalmInv, NEW w \in Workers, at[w] \in Busy \ {"cleanup"}, NEW d \in Mine(w),
         NEW s \in Statuses, NEW u \in Dues
  PROVE  /\ Current(d)
         /\ Save(w, d, s, u) =>
              /\ \A j \in Jobs \ {job[w]} : rows'[j] = rows[j]
              /\ s \in Active => /\ rows'[job[w]].status \in Active
                                 /\ rows'[job[w]].owner = w /\ rows'[job[w]].lease = "live"
                                 /\ \A c \in copies'[w] : c.version = rows'[c.id].version
<1>1. /\ Undisturbed(w) /\ InHand(w) /\ IInv /\ d \in copies[w] /\ d.id = job[w]
      /\ job[w] \in Jobs
  BY DEF CalmInv, ServiceInv, Mine, InHand
<1>2. Current(d)
  BY <1>1 DEF Undisturbed, Holds
<1>3. ASSUME Save(w, d, s, u)
      PROVE  /\ \A j \in Jobs \ {job[w]} : rows'[j] = rows[j]
             /\ s \in Active => /\ rows'[job[w]].status \in Active
                                /\ rows'[job[w]].owner = w /\ rows'[job[w]].lease = "live"
                                /\ \A c \in copies'[w] : c.version = rows'[c.id].version
  <2>1. /\ \A j \in Jobs \ {job[w]} : rows'[j] = rows[j]
        /\ rows'[job[w]].status = s
        /\ rows'[job[w]].owner = IF s \in Active THEN rows[job[w]].owner ELSE Nobody
        /\ rows'[job[w]].lease = IF s \in Active THEN rows[job[w]].lease ELSE "none"
        /\ rows'[job[w]].doc.id = job[w]
        /\ rows'[job[w]].version = rows[job[w]].version + 1
        /\ rows'[job[w]].doc.version = rows[job[w]].version + 1
        /\ copies' = Holding(w, rows'[job[w]].doc)
    BY <1>1, <1>3, SaveEffect
  <2>2. copies'[w] = {c \in copies[w] : c.id # rows'[job[w]].doc.id} \cup {rows'[job[w]].doc}
    BY <1>1, <2>1, Keeps
  <2>3. \A c \in copies'[w] : c = rows'[job[w]].doc
    BY <1>1, <2>1, <2>2 DEF InHand
  <2>4. QED
    BY <1>1, <2>1, <2>3 DEF Undisturbed, Holds
<1>4. QED
  BY <1>2, <1>3

\* What a calm step of worker w does: it keeps its own hold and that of the others.
CalmStep(w) == Undisturbed(w)' /\ \A v \in Workers \ {w} : Kept(v)

\* The other workers keep their leases when w writes no row but its own.
LEMMA OwnRowOnly ==
  ASSUME CalmInv, NEW w \in Workers, NEW v \in Workers \ {w}, Untouched(v),
         \A j \in Jobs : rows'[j] = rows[j] \/ ~ ActiveRow(j) \/ rows[j].owner = w,
         disk' = disk
  PROVE  Kept(v)
BY OthersKept

\* A worker that goes on with its lease as it was, or just renewed.
LEMMA CalmGoesOn ==
  ASSUME CalmInv, NEW w \in Workers, StepOf(w), NEW next \in Busy \ {"unwind"},
         Holds(w), at[w] \in Busy, at' = [at EXCEPT ![w] = next], job' = job,
         \/ rows' = rows
         \/ TouchLease(w, job[w]),
         copies' = copies, hurt' = hurt, disk' = disk,
         next \in {"claimed", "begin", "clone", "failing", "cleanup"} \/ disk[job[w]] = "clone"
  PROVE  CalmStep(w)
<1>1. /\ \A d \in copies[w] : d.id = job[w]
      /\ job[w] \in Jobs /\ DOMAIN rows = Jobs /\ rows[job[w]] \in Row
      /\ at'[w] = next
  BY StoreFacts, WorkerFields DEF CalmInv, ServiceInv, InHand
<1>2. CASE rows' = rows
  <2>1. Holds(w)'
    BY <1>1, <1>2 DEF Holds, Current
  <2>2. Undisturbed(w)'
    BY <1>1, <2>1 DEF Undisturbed, AtWork
  <2>3. QED
    BY <1>2, <2>2, OwnRowOnly DEF StepOf, CalmStep
<1>3. CASE TouchLease(w, job[w])
  <2>1. rows' = [rows EXCEPT ![job[w]] = Leased(@, "live")]
    BY <1>3 DEF TouchLease
  <2>2. /\ Leased(rows[job[w]], "live").status = rows[job[w]].status
        /\ Leased(rows[job[w]], "live").owner = rows[job[w]].owner
        /\ Leased(rows[job[w]], "live").version = rows[job[w]].version
        /\ Leased(rows[job[w]], "live").lease = "live"
    BY <1>1 DEF Leased, Row
  <2>3. Holds(w)'
    BY <1>1, <2>1, <2>2 DEF Holds, Current
  <2>4. Undisturbed(w)'
    BY <1>1, <2>3 DEF Undisturbed, AtWork
  <2>5. \A j \in Jobs : rows'[j] = rows[j] \/ rows[j].owner = w
    BY <1>1, <2>1 DEF Holds
  <2>6. QED
    BY <2>4, <2>5, OwnRowOnly DEF StepOf, CalmStep
<1>4. QED
  BY <1>2, <1>3

\* A worker that saves its job as active and goes on.
LEMMA CalmSave ==
  ASSUME CalmInv, IInv', NEW w \in Workers, StepOf(w), NEW next \in Busy \ {"unwind"},
         NEW s \in Statuses, NEW u \in Dues, NEW d \in Mine(w), Save(w, d, s, u),
         at[w] \in Busy \ {"cleanup"}, at' = [at EXCEPT ![w] = next], job' = job,
         hurt' = hurt, disk' \in [Jobs -> {"none", "meta", "clone"}],
         \A j \in Jobs : disk[j] = "clone" => disk'[j] = "clone",
         next # "cleanup" => s \in Active /\ disk'[job[w]] = "clone"
  PROVE  CalmStep(w)
<1>1. /\ \A c \in copies'[w] : c.id = job[w]
      /\ job[w] \in Jobs /\ at'[w] = next /\ Undisturbed(w)
      /\ \A v \in Workers : at[v] \in Busy => job[v] \in Jobs
  <2>1. at'[w] = next
    BY WorkerFields DEF CalmInv
  <2>2. QED
    BY <2>1 DEF CalmInv, ServiceInv, InHand, StepOf
<1>2. /\ \A j \in Jobs \ {job[w]} : rows'[j] = rows[j]
      /\ s \in Active => /\ rows'[job[w]].status \in Active
                         /\ rows'[job[w]].owner = w /\ rows'[job[w]].lease = "live"
                         /\ \A c \in copies'[w] : c.version = rows'[c.id].version
  BY HeldSave
<1>3. next # "cleanup" => Holds(w)'
  BY <1>1, <1>2 DEF Holds, Current, Undisturbed
<1>4. Undisturbed(w)'
  BY <1>1, <1>3 DEF Undisturbed, AtWork
<1>5. \A j \in Jobs : rows'[j] = rows[j] \/ rows[j].owner = w
  BY <1>1, <1>2 DEF Undisturbed, Holds
<1>6. \A v \in Workers \ {w} : Kept(v)
  <2> SUFFICES ASSUME NEW v \in Workers \ {w} PROVE Kept(v)
    OBVIOUS
  <2>1. /\ at[v] \in Busy \ {"cleanup"} /\ disk[job[v]] = "clone" => disk'[job[v]] = "clone"
        /\ \A j \in Jobs : rows'[j] = rows[j] \/ rows[j].owner # v
        /\ Untouched(v)
    BY <1>1, <1>5 DEF StepOf
  <2>2. QED
    BY <2>1, OthersKept
<1>7. QED
  BY <1>4, <1>6 DEF CalmStep

\* A worker that turns away, without taking a clone that another works in.
LEMMA CalmLeave ==
  ASSUME CalmInv, NEW w \in Workers, StepOf(w), NEW phase \in {"idle", "dead"}, Leave(w, phase),
         \/ disk' = disk
         \/ /\ rows[job[w]].status = "completed"
            /\ disk' = [disk EXCEPT ![job[w]] = "meta"]
  PROVE  CalmStep(w)
<1>1. rows' = rows /\ at'[w] = phase /\ w \notin hurt'
  BY LeaveKeeps, WorkerFields DEF CalmInv
<1>2. phase \notin Busy /\ ~ AtWork(w)'
  BY <1>1 DEF AtWork, Busy, Beats, AfterSave
<1>3. Undisturbed(w)'
  BY <1>1, <1>2 DEF Undisturbed
<1>4. ASSUME NEW v \in Workers \ {w} PROVE Kept(v)
  <2>1. Untouched(v) /\ \A j \in Jobs : rows'[j] = rows[j]
    BY <1>1 DEF StepOf
  <2>2. at[v] \in Busy \ {"cleanup"} =>
          job[v] \in Jobs /\ rows[job[v]].status \in Active
    BY DEF CalmInv, Undisturbed, Holds, ServiceInv, InHand
  <2>3. "completed" \notin Active /\ DOMAIN disk = Jobs
    BY WorkerFields DEF Active, CalmInv
  <2>4. at[v] \in Busy \ {"cleanup"} /\ disk[job[v]] = "clone" => disk'[job[v]] = "clone"
    BY <2>2, <2>3
  <2>5. QED
    BY <2>1, <2>4, OthersKept
<1>5. QED
  BY <1>3, <1>4 DEF CalmStep

\* A claim makes a lease of a row on which nobody holds one.
LEMMA CalmClaim ==
  ASSUME CalmInv, NEW w \in Workers, Claim(w), StepOf(w)
  PROVE  CalmStep(w)
<1>1. PICK j \in Jobs : ClaimNext(w, j) /\ job' = [job EXCEPT ![w] = j]
  BY DEF Claim
<1> DEFINE n == AttemptDoc(rows[j].doc, w)
           r == Written(rows[j], n, w, "live", rows[j].due)
<1>2. /\ IInv /\ ServiceInv /\ Undisturbed(w)
      /\ at[w] = "swept" /\ at' = [at EXCEPT ![w] = "claimed"] /\ hurt' = hurt /\ disk' = disk
  BY DEF Claim, Goto, effects, CalmInv, ServiceInv
<1>3. n \in Doc /\ n.status = "running" /\ n.id = j
  BY <1>2, StoreFacts, AttemptDocType DEF IInv, RowsInPlace
<1>4. /\ rows' = [rows EXCEPT ![j] = r] /\ rows[j].status = "queued"
      /\ copies' = Holding(w, n) /\ copies[w] = {}
  BY <1>1, <1>2 DEF ClaimNext, ClaimRow, Claimable, ServiceInv, InHand, Busy, Beats, AfterSave
<1> HIDE DEF n
<1>5. /\ r.status = "running" /\ r.version = n.version
      /\ r.owner = w /\ r.lease = "live"
  BY <1>2, <1>3, StoreFacts, WrittenType, LeaseTypes
<1> HIDE DEF r
<1>6. /\ rows'[j] = r /\ \A k \in Jobs \ {j} : rows'[k] = rows[k]
      /\ copies'[w] = {n} /\ at'[w] = "claimed" /\ job'[w] = j
  BY <1>1, <1>2, <1>4, StoreFacts, WorkerFields, Keeps
<1>7. Holds(w)'
  <2>1. w \notin hurt'
    BY <1>2 DEF Undisturbed, Busy, Beats, AfterSave
  <2>2. QED
    BY <1>3, <1>5, <1>6, <2>1 DEF Holds, Current, Active
<1>8. Undisturbed(w)'
  BY <1>6, <1>7 DEF Undisturbed, AtWork, Busy
<1>9. \A k \in Jobs : rows'[k] = rows[k] \/ ~ ActiveRow(k)
  BY <1>4, <1>6 DEF ActiveRow, Active
<1>10. QED
  BY <1>2, <1>8, <1>9, OwnRowOnly DEF StepOf, CalmStep

\* Sweeps reclaim lapsed leases, and no worker at work has one.
LEMMA CalmIdle ==
  ASSUME CalmInv, NEW w \in Workers, Sweep(w) \/ FindNone(w) \/ Restart(w), StepOf(w)
  PROVE  CalmStep(w)
<1>1. /\ \A j \in Jobs : rows'[j] = rows[j] \/ rows[j].lease # "live"
      /\ hurt' = hurt /\ disk' = disk
  BY DEF Sweep, FindNone, Restart, RequeueExpired, Expired, own, effects, vars
<1>2. at[w] \notin Busy /\ at'[w] \notin Busy /\ at'[w] # "unwind"
  BY WorkerFields DEF Sweep, FindNone, Restart, Goto, Busy, Beats, AfterSave, CalmInv
<1>3. Undisturbed(w)'
  BY <1>1, <1>2 DEF CalmInv, Undisturbed, AtWork
<1>4. QED
  BY <1>1, <1>3, OthersKept DEF StepOf, CalmStep

LEMMA CalmEnter ==
  ASSUME CalmInv, NEW w \in Workers, Enter(w), StepOf(w)
  PROVE  CalmStep(w)
<1>1. /\ at[w] = "claimed" /\ "claimed" \in Busy \ {"cleanup"}
      /\ Undisturbed(w) /\ Holds(w) /\ job[w] \in Jobs
  BY DEF Enter, Busy, CalmInv, Undisturbed, ServiceInv, InHand
<1>2. CASE TouchLease(w, job[w]) /\ Goto(w, "begin")
           /\ disk' = [disk EXCEPT ![job[w]] = IF @ = "none" THEN "meta" ELSE @]
           /\ UNCHANGED <<goal, own>>
  <2>1. rows' = [rows EXCEPT ![job[w]] = Leased(@, "live")] /\ copies' = copies
    BY <1>2 DEF TouchLease
  <2>2. /\ Leased(rows[job[w]], "live").status = rows[job[w]].status
        /\ Leased(rows[job[w]], "live").owner = rows[job[w]].owner
        /\ Leased(rows[job[w]], "live").version = rows[job[w]].version
        /\ Leased(rows[job[w]], "live").lease = "live"
    BY <1>1, StoreFacts DEF Leased, Row, CalmInv, ServiceInv
  <2>3. /\ at'[w] = "begin" /\ job' = job /\ hurt' = hurt
        /\ \A d \in copies[w] : d.id = job[w]
    BY <1>2, WorkerFields DEF Goto, own, CalmInv, ServiceInv, InHand
  <2>4. Holds(w)'
    BY <1>1, <2>1, <2>2, <2>3, StoreFacts DEF Holds, Current, CalmInv, ServiceInv
  <2>5. Undisturbed(w)'
    BY <2>3, <2>4 DEF Undisturbed, AtWork, Busy, Beats
  <2>6. \A j \in Jobs : rows'[j] = rows[j] \/ rows[j].owner = w
    BY <1>1, <2>1 DEF Holds
  <2>7. \A j \in Jobs : disk[j] = "clone" => disk'[j] = "clone"
    BY <1>1, <1>2, WorkerFields DEF CalmInv
  <2>8. \A v \in Workers : at[v] \in Busy => job[v] \in Jobs
    BY DEF CalmInv, ServiceInv, InHand
  <2>9. ASSUME NEW v \in Workers \ {w} PROVE Kept(v)
    <3>1. /\ Untouched(v) /\ \A j \in Jobs : rows'[j] = rows[j] \/ rows[j].owner # v
          /\ at[v] \in Busy \ {"cleanup"} /\ disk[job[v]] = "clone" => disk'[job[v]] = "clone"
      BY <2>6, <2>7, <2>8 DEF StepOf
    <3>2. QED
      BY <3>1, OthersKept
  <2>10. QED
    BY <2>5, <2>9 DEF CalmStep
<1>3. CASE Leave(w, "dead") /\ UNCHANGED disk
  BY <1>3, CalmLeave
<1>4. QED
  BY <1>2, <1>3 DEF Enter

\* Heartbeats, exceptions and publications leave the lease to the worker.
LEMMA CalmHeartbeat ==
  ASSUME CalmInv, NEW w \in Workers, Heartbeat(w), StepOf(w)
  PROVE  CalmStep(w)
<1>1. /\ at[w] \in Beats /\ Beats \subseteq Busy \ {"cleanup", "unwind"}
      /\ Undisturbed(w) /\ copies' = copies /\ job' = job /\ hurt' = hurt /\ disk' = disk
  BY DEF Heartbeat, TouchLease, Beats, Busy, CalmInv, own, effects, vars
<1>2. Holds(w)
  BY <1>1 DEF Undisturbed
<1>3. at[w] # "begin" => disk[job[w]] = "clone"
  BY <1>1 DEF Undisturbed, AtWork, Beats
<1>4. CASE TouchLease(w, job[w]) /\ Goto(w, AfterBeat(w))
  <2>1. /\ AfterBeat(w) \in Busy \ {"unwind"}
        /\ AfterBeat(w) = "clone" \/ disk[job[w]] = "clone"
    BY <1>1, <1>3 DEF AfterBeat, ToSession, Beats, Busy, AfterSave
  <2>2. at' = [at EXCEPT ![w] = AfterBeat(w)]
    BY <1>4 DEF Goto
  <2>3. QED
    BY <1>1, <1>2, <1>4, <2>1, <2>2, CalmGoesOn
<1>5. CASE Goto(w, "failing") /\ rows' = rows
  <2>1. "failing" \in Busy \ {"unwind"} /\ at' = [at EXCEPT ![w] = "failing"]
    BY <1>5 DEF Busy, Goto
  <2>2. QED
    BY <1>1, <1>2, <1>5, <2>1, CalmGoesOn
<1>6. QED
  BY <1>4, <1>5 DEF Heartbeat, Raises, vars

LEMMA CalmPublish ==
  ASSUME CalmInv, NEW w \in Workers, Raise(w) \/ Publish(w), StepOf(w)
  PROVE  CalmStep(w)
<1>1. /\ at[w] \in Risky /\ Risky \subseteq Busy \ {"cleanup", "unwind"}
      /\ Undisturbed(w) /\ copies' = copies /\ job' = job /\ hurt' = hurt /\ disk' = disk
      /\ rows' = rows
  BY DEF Raise, Publish, Risky, Busy, AfterSave, CalmInv, own, effects, vars
<1>2. Holds(w)
  BY <1>1 DEF Undisturbed
<1>3. \/ at' = [at EXCEPT ![w] = "failing"]
      \/ at' = [at EXCEPT ![w] = "published"] /\ at[w] = "publish"
  BY DEF Raise, Raises, Publish, Goto
<1>4. "failing" \in Busy \ {"unwind"} /\ "published" \in Busy \ {"unwind"}
  BY DEF Busy
<1>5. at[w] = "publish" => disk[job[w]] = "clone"
  BY <1>1 DEF Undisturbed, AtWork
<1>6. QED
  BY <1>1, <1>2, <1>3, <1>4, <1>5, CalmGoesOn

\* No save of a worker is refused.
LEMMA CalmSaves ==
  ASSUME CalmInv, NEW w \in Workers, at[w] \in Busy \ {"cleanup"},
         NEW s \in Statuses, NEW u \in Dues, NEW next, Saves(w, s, u, next)
  PROVE  \E d \in Mine(w) : Save(w, d, s, u) /\ at' = [at EXCEPT ![w] = next]
BY HeldSave DEF Saves, Goto

LEMMA CalmProgress ==
  ASSUME CalmInv, IInv', NEW w \in Workers, Progress(w), StepOf(w)
  PROVE  CalmStep(w)
<1>1. /\ at[w] \in DOMAIN AfterSave /\ DOMAIN AfterSave \subseteq Busy \ {"cleanup"}
      /\ AfterSave[at[w]] \in Busy \ {"unwind", "cleanup"}
      /\ "running" \in Statuses /\ "running" \in Active /\ "due" \in Dues
      /\ job' = job /\ hurt' = hurt
      /\ disk' \in [Jobs -> {"none", "meta", "clone"}]
      /\ Undisturbed(w) /\ job[w] \in Jobs
      /\ disk' = IF at[w] = "clone" THEN [disk EXCEPT ![job[w]] = "clone"] ELSE disk
  BY DEF Progress, AfterSave, Busy, Beats, Statuses, Active, Dues, own, CalmInv, StepOf,
         WorkerTypeOK, ServiceInv, InHand
<1>2. PICK d \in Mine(w) : Save(w, d, "running", "due") /\ at' = [at EXCEPT ![w] = AfterSave[at[w]]]
  <2>1. Saves(w, "running", "due", AfterSave[at[w]])
    BY DEF Progress
  <2>2. QED
    BY <1>1, <2>1, CalmSaves
<1>3. AtWork(w)
  BY <1>1 DEF AtWork, AfterSave
<1>4. /\ \A j \in Jobs : disk[j] = "clone" => disk'[j] = "clone"
      /\ disk'[job[w]] = "clone"
  BY <1>1, <1>3, WorkerFields DEF Undisturbed, CalmInv
<1>5. QED
  BY <1>1, <1>2, <1>4, CalmSave

LEMMA CalmConclude ==
  ASSUME CalmInv, IInv', NEW w \in Workers,
         Conclude(w) \/ Settle(w) \/ StartPublish(w) \/ HandleFailure(w), StepOf(w)
  PROVE  CalmStep(w)
<1>1. /\ at[w] \in {"result", "published", "failing"}
      /\ {"result", "published", "failing"} \subseteq Busy \ {"cleanup"}
      /\ {"cleanup", "publishing"} \subseteq Busy \ {"unwind"}
      /\ {"completed", "paused", "failed", "queued", "publishing"} \subseteq Statuses
      /\ goal[w] \in Statuses /\ "publishing" \in Active
      /\ "due" \in Dues /\ "delayed" \in Dues
      /\ job' = job /\ hurt' = hurt /\ disk' = disk
      /\ disk' \in [Jobs -> {"none", "meta", "clone"}]
      /\ Undisturbed(w)
  BY DEF Conclude, Settle, StartPublish, HandleFailure, Busy, Beats, Statuses, Active, Dues,
         own, effects, CalmInv, StepOf, WorkerTypeOK, ServiceInv, ServiceTypeOK
<1>2. \A d \in Mine(w) : Current(d)
  BY <1>1, HeldSave
<1>3. \E d \in Mine(w) : \E s \in Statuses, u \in Dues :
        /\ Save(w, d, s, u)
        /\ \/ at' = [at EXCEPT ![w] = "cleanup"]
           \/ at' = [at EXCEPT ![w] = "publishing"] /\ s = "publishing" /\ at[w] = "result"
  <2>1. CASE \E s \in Statuses : Saves(w, s, "due", "cleanup")
    BY <1>1, <2>1, CalmSaves
  <2>2. CASE Conclude(w) \/ Settle(w)
    BY <1>1, <2>1, <2>2 DEF Conclude, Settle
  <2>3. CASE StartPublish(w)
    BY <1>1, <1>2, <2>3 DEF StartPublish, Goto
  <2>4. CASE HandleFailure(w)
    BY <1>1, <1>2, <2>4 DEF HandleFailure, Goto
  <2>5. QED
    BY <2>2, <2>3, <2>4
<1>4. at[w] = "result" => disk[job[w]] = "clone"
  BY <1>1 DEF Undisturbed, AtWork
<1>5. QED
  BY <1>1, <1>3, <1>4, CalmSave

\* A worker that ends its work removes its clone only if the job is completed, and
\* then no other worker is at work on it.
LEMMA CalmCleanup ==
  ASSUME CalmInv, NEW w \in Workers, Cleanup(w) \/ Exit(w) \/ Crash(w), StepOf(w)
  PROVE  CalmStep(w)
<1>1. PICK phase \in {"idle", "dead"} : Leave(w, phase)
  BY DEF Cleanup, Exit, Crash
<1>2. CASE Exit(w) \/ Crash(w)
  BY <1>1, <1>2, CalmLeave DEF Exit, Crash, effects
<1>3. CASE Cleanup(w)
  <2>1. at[w] # "unwind"
    BY DEF CalmInv, Undisturbed
  <2>2. \/ disk' = disk
        \/ /\ \E d \in Mine(w) : d.status = "completed"
           /\ disk' = [disk EXCEPT ![job[w]] = "meta"]
    BY <1>3, <2>1 DEF Cleanup
  <2>3. (\E d \in Mine(w) : d.status = "completed") => rows[job[w]].status = "completed"
    BY DEF Mine, CalmInv, CompletedForGood
  <2>4. QED
    BY <1>1, <2>2, <2>3, CalmLeave
<1>4. QED
  BY <1>2, <1>3

LEMMA CalmBeside ==
  ASSUME Calm, CalmInv, NEW w \in Workers, Renew(w) \/ RenewFails(w), StepOf(w)
  PROVE  CalmStep(w)
<1>1. /\ at[w] \in Busy \ {"claimed"} /\ Undisturbed(w) /\ job[w] \in Jobs
  BY DEF Renew, RenewFails, CalmInv, ServiceInv, InHand
<1>2. CASE Renew(w)
  <2>1. /\ copies' = copies /\ at' = at /\ job' = job /\ hurt' = hurt /\ disk' = disk
        /\ TouchLease(w, job[w])
    BY <1>2 DEF Renew, workerVars, own, effects, TouchLease
  <2>2. /\ \A j \in Jobs \ {job[w]} : rows'[j] = rows[j]
        /\ rows[job[w]].owner = w
        /\ rows'[job[w]].status = rows[job[w]].status
        /\ rows'[job[w]].owner = rows[job[w]].owner
        /\ rows'[job[w]].version = rows[job[w]].version
        /\ rows'[job[w]].lease = "live"
    BY <1>1, <2>1, StoreFacts
    DEF TouchLease, Touchable, Leased, Row, CalmInv, ServiceInv
  <2>3. \A d \in copies[w] : d.id = job[w]
    BY DEF CalmInv, ServiceInv, InHand
  <2>4. Undisturbed(w)'
    BY <1>1, <2>1, <2>2, <2>3 DEF Undisturbed, Holds, Current, AtWork
  <2>5. QED
    BY <2>1, <2>2, <2>4, OwnRowOnly DEF StepOf, CalmStep
<1>3. CASE RenewFails(w)
  <2>1. /\ rows' = rows /\ copies' = copies /\ at' = at /\ job' = job /\ disk' = disk
        /\ ~ Touchable(w, job[w])
    BY <1>3 DEF RenewFails, Calm, vars, effects
  <2>2. at[w] = "cleanup"
    BY <1>1, <2>1 DEF Undisturbed, Holds, Touchable, ActiveRow
  <2>3. Undisturbed(w)'
    BY <2>1, <2>2 DEF Undisturbed, AtWork, Busy
  <2>4. QED
    BY <2>1, <2>3, OwnRowOnly DEF StepOf, CalmStep
<1>4. QED
  BY <1>2, <1>3

\* The clock takes no lease that is renewed in time.
LEMMA CalmClock ==
  ASSUME Calm, CalmInv, IInv', NEW j \in Jobs, Expire(j) \/ Delay(j)
  PROVE  \A w \in Workers : Undisturbed(w)'
<1> SUFFICES ASSUME NEW w \in Workers PROVE Kept(w)
  BY KeptUndisturbed
<1>1. /\ copies' = copies /\ at' = at /\ job' = job /\ hurt' = hurt /\ disk' = disk
      /\ Undisturbed(w)
      /\ at[w] \in Busy => job[w] \in Jobs
  BY DEF Expire, Delay, Lapse, BecomeDue, workerVars, own, effects, CalmInv, ServiceInv, InHand
<1>2. ASSUME at[w] \in Busy \ {"cleanup"}
      PROVE  /\ rows'[job[w]].status = rows[job[w]].status
             /\ rows'[job[w]].version = rows[job[w]].version
             /\ rows'[job[w]].owner = w /\ rows'[job[w]].lease = "live"
  <2>1. Holds(w) /\ job[w] \in Jobs
    BY <1>1, <1>2 DEF Undisturbed
  <2>2. CASE Expire(j)
    <3>1. job[w] # j
      BY <2>1, <2>2 DEF Expire, Calm, Attended, Holds
    <3>2. rows'[job[w]] = rows[job[w]]
      BY <2>1, <2>2, <3>1, StoreFacts DEF Expire, Lapse, CalmInv, ServiceInv
    <3>3. QED
      BY <2>1, <3>2 DEF Holds
  <2>3. CASE Delay(j)
    <3>1. rows' = [rows EXCEPT ![j] = MadeDue(@)]
      BY <2>3 DEF Delay, BecomeDue
    <3>2. /\ MadeDue(rows[j]).status = rows[j].status
          /\ MadeDue(rows[j]).version = rows[j].version
          /\ MadeDue(rows[j]).owner = rows[j].owner
          /\ MadeDue(rows[j]).lease = rows[j].lease
      BY StoreFacts DEF MadeDue, Row, CalmInv, ServiceInv
    <3>3. QED
      BY <2>1, <3>1, <3>2, StoreFacts DEF Holds, CalmInv, ServiceInv
  <2>4. QED
    BY <2>2, <2>3
<1>3. QED
  BY <1>1, <1>2 DEF Kept, Undisturbed

LEMMA CalmWorkers ==
  ASSUME Calm, CalmInv, WorkerNext
  PROVE  \A w \in Workers : Undisturbed(w)'
<1>1. ServiceInv /\ IInv'
  BY WorkerMaps, NextIInv DEF CalmInv, ServiceInv
<1>2. ASSUME NEW w \in Workers, CalmStep(w) PROVE \A v \in Workers : Undisturbed(v)'
  BY <1>1, <1>2, KeptUndisturbed DEF CalmStep
<1>3. ASSUME NEW w \in Workers, Run(w) PROVE CalmStep(w)
  <2>1. StepOf(w)
    BY <1>1, <1>3, ClaimHands, IdleHands, EnterHands, HeartbeatHands, ProgressHands,
       ConcludeHands, StartPublishHands, PublishHands, FailureHands, CleanupHands
    DEF Run
  <2>2. QED
    BY <1>1, <1>3, <2>1, CalmClaim, CalmIdle, CalmEnter, CalmHeartbeat, CalmPublish,
       CalmProgress, CalmConclude, CalmCleanup
    DEF Run
<1>4. ASSUME NEW w \in Workers, Renew(w) \/ RenewFails(w) \/ Crash(w) \/ Restart(w)
      PROVE  CalmStep(w)
  <2>1. StepOf(w)
    BY <1>1, <1>4, BesideHands, CleanupHands, IdleHands
  <2>2. QED
    BY <1>4, <2>1, CalmBeside, CalmCleanup, CalmIdle
<1>5. ASSUME NEW w \in Workers, Shutdown(w) PROVE FALSE
  BY <1>5 DEF Shutdown, Calm
<1>6. ASSUME NEW j \in Jobs, Expire(j) \/ Delay(j) PROVE \A v \in Workers : Undisturbed(v)'
  BY <1>1, <1>6, CalmClock
<1>7. QED
  BY <1>2, <1>3, <1>4, <1>5, <1>6 DEF WorkerNext

-----------------------------------------------------------------------------
(* Calm: requests stay away from jobs under work *)

\* A request takes no job from its worker, and puts none to work.
Aside == \A j \in Jobs : /\ ActiveRow(j) => rows'[j] = rows[j]
                         /\ ActiveRow(j)' => ActiveRow(j)

LEMMA AsideSave ==
  ASSUME IInv, NEW c \in Clients, NEW d \in copies[c], NEW s \in Statuses, NEW u \in Dues,
         Save(c, d, s, u), d.status \notin Active
  PROVE  Aside /\ d.id \in Jobs /\ rows'[d.id].status = s /\ s \notin Active
<1>1. d.id \in Jobs
  BY StoreFacts
<1>2. /\ d.id \in Created /\ d = rows[d.id].doc /\ rows'[d.id].status = s
      /\ s \in Active => ActiveRow(d.id)
      /\ \A k \in Jobs \ {d.id} : rows'[k] = rows[k]
  BY <1>1, SaveEffect
<1>3. ~ ActiveRow(d.id)
  BY <1>2 DEF IInv, ColumnsMatchDocument, ActiveRow
<1>4. QED
  BY <1>1, <1>2, <1>3 DEF Aside, ActiveRow

\* What the client has of its job after reading a document of it.
LEMMA Reads ==
  ASSUME IInv, NEW c \in Clients, NEW j \in Jobs, copies' = Holding(c, rows[j].doc),
         call'[c].job = j
  PROVE  \A d \in Object(c)' : d = rows[j].doc
<1>1. rows[j].doc.id = j
  BY DEF IInv, RowsInPlace
<1>2. copies'[c] = {d \in copies[c] : d.id # j} \cup {rows[j].doc}
  BY <1>1, Keeps
<1>3. QED
  BY <1>2 DEF Object

\* The statements that a step of c leaves to it, and the job they are about.
LEMMA CallFields ==
  ASSUME ServiceInv, NEW c \in Clients
  PROVE  /\ \A stmt : Step(c, stmt) => /\ call'[c].at = stmt /\ call'[c].job = call[c].job
                                      /\ \A b \in Clients \ {c} : call'[b] = call[b]
         /\ \A op, stmt, j, todo : Begin(c, op, stmt, j, todo) =>
              /\ call'[c].at = stmt /\ call'[c].job = j
              /\ \A b \in Clients \ {c} : call'[b] = call[b]
         /\ call[c].op \in Ops \cup {"none"} /\ call[c].job \in Jobs \cup {NoJob}
<1>1. call \in [Clients -> Call] /\ call[c] \in Call
  BY DEF ServiceInv, ServiceTypeOK
<1>2. ASSUME NEW stmt, Step(c, stmt)
      PROVE  /\ call'[c].at = stmt /\ call'[c].job = call[c].job
             /\ \A b \in Clients \ {c} : call'[b] = call[b]
  <2>1. call' = [call EXCEPT ![c] = [call[c] EXCEPT !.at = stmt]]
    BY <1>1, <1>2 DEF Step
  <2>2. QED
    BY <1>1, <2>1 DEF Call
<1>3. ASSUME NEW op, NEW stmt, NEW j, NEW todo, Begin(c, op, stmt, j, todo)
      PROVE  /\ call'[c].at = stmt /\ call'[c].job = j
             /\ \A b \in Clients \ {c} : call'[b] = call[b]
  BY <1>1, <1>3 DEF Begin
<1>4. QED
  BY <1>1, <1>2, <1>3 DEF Call

\* What every step of client c does to its own request and to others'.
AsideStep(c) ==
  /\ Aside
  /\ StaysAway(c)'
  /\ \A b \in Clients \ {c} : call'[b] = call[b]

LEMMA AsideSteps ==
  ASSUME Calm, CalmInv, NEW c \in Clients, ClientStep(c)
  PROVE  AsideStep(c) /\ ~ MergeWipe(c)
<1>1. /\ ServiceInv /\ IInv /\ StaysAway(c) /\ OwnStatement(c)
      /\ call[c].op \in Ops \cup {"none"} /\ call[c].job \in Jobs \cup {NoJob}
      /\ "queued" \notin Active /\ "cancelled" \notin Active /\ "paused" \notin Active
      /\ "queued" \in Statuses /\ "cancelled" \in Statuses /\ "due" \in Dues
  BY CallFields DEF CalmInv, ServiceInv, Active, Statuses, Dues
<1>2. \A j \in Jobs : rows[j] \in Row /\ rows[j].due \in Dues /\ rows[j].doc.id = j
                      /\ (j \in Created => rows[j].status = rows[j].doc.status)
  BY <1>1, StoreFacts DEF IInv, RowsInPlace, ColumnsMatchDocument
<1>3. \A d \in Object(c) : d \in copies[c] /\ d.id = call[c].job /\ d.id \in Jobs
                           /\ d.status \in Statuses /\ rows[d.id].due \in Dues
  BY <1>1, StoreFacts DEF Object, Doc
<1>4. /\ call[c].at \notin MergeStatements /\ "merge" \notin Ops /\ "requeue" \notin Ops
      /\ call[c].op # "requeue"
  BY <1>1 DEF Calm, OwnStatement
<1>5. rows' = rows => Aside
  BY DEF Aside, ActiveRow
<1>6. CASE Submit(c)
  <2>1. \/ \E op \in Ops, stmt \in {"enqueue", "return"}, j \in Jobs :
             Create(c, j) /\ Begin(c, op, stmt, j, {})
        \/ \E op \in Ops, stmt \in {"enqueue", "return"}, j, i \in Jobs :
             /\ Replay(c, j, i) /\ Begin(c, op, stmt, i, {})
             /\ stmt = "enqueue" => rows[i].doc.status = "queued"
    <3>1. PICK op \in {"run", "turn"}, j \in Jobs :
            \/ /\ Create(c, j)
               /\ Begin(c, op, IF op = "run" THEN "enqueue" ELSE "return", j, {})
            \/ \E i \in Jobs :
                 /\ Replay(c, j, i)
                 /\ Begin(c, op, IF op = "run" /\ rows[i].doc.status = "queued"
                                 THEN "enqueue" ELSE "return", i, {})
      BY <1>6 DEF Submit
    <3>2. \A stmt, i : Begin(c, op, stmt, i, {}) => op \in Ops
      BY DEF Begin
    <3>3. QED
      BY <3>1, <3>2
  <2>2. ASSUME NEW op, NEW stmt \in {"enqueue", "return"}, NEW j \in Jobs,
               Create(c, j), Begin(c, op, stmt, j, {})
        PROVE  AsideStep(c)
    <3>1. /\ rows[j].status = "absent" /\ Created \in SUBSET Jobs
          /\ rows' = [rows EXCEPT ![j] = Inserted(rows[j], Created)]
      BY <2>2 DEF Create, Created
    <3>2. Inserted(rows[j], Created).status = "queued"
      BY <1>2, <3>1, InsertedType
    <3>3. rows'[j].status = "queued" /\ \A k \in Jobs \ {j} : rows'[k] = rows[k]
      BY <1>1, <3>1, <3>2, StoreFacts
    <3>4. Aside
      BY <1>1, <3>1, <3>3 DEF Aside, ActiveRow, Active
    <3>5. call'[c].at = stmt /\ call'[c].job = j /\ \A b \in Clients \ {c} : call'[b] = call[b]
      BY <1>1, <2>2, CallFields
    <3>6. QED
      BY <1>1, <3>3, <3>4, <3>5 DEF AsideStep, StaysAway
  <2>3. ASSUME NEW op, NEW stmt \in {"enqueue", "return"}, NEW j \in Jobs, NEW i \in Jobs,
               Replay(c, j, i), Begin(c, op, stmt, i, {}),
               stmt = "enqueue" => rows[i].doc.status = "queued"
        PROVE  AsideStep(c)
    <3>1. rows' = rows /\ i \in Created
      BY <2>3 DEF Replay
    <3>2. call'[c].at = stmt /\ call'[c].job = i /\ \A b \in Clients \ {c} : call'[b] = call[b]
      BY <1>1, <2>3, CallFields
    <3>3. QED
      BY <1>1, <1>2, <1>5, <2>3, <3>1, <3>2 DEF AsideStep, StaysAway
  <2>4. ~ MergeWipe(c)
    BY <1>4 DEF MergeWipe, MergeStatements
  <2>5. QED
    BY <2>1, <2>2, <2>3, <2>4
<1>7. CASE Enqueue(c)
  <2>1. /\ rows' = rows /\ copies' = Holding(c, rows[call[c].job].doc)
        /\ call[c].job \in Created /\ call[c].job \in Jobs
        /\ Step(c, "requeue") \/ Step(c, "return")
        /\ call[c].at = "enqueue"
    BY <1>7 DEF Enqueue, Load, Created
  <2>2. /\ call'[c].at \in {"requeue", "return"} /\ call'[c].job = call[c].job
        /\ \A b \in Clients \ {c} : call'[b] = call[b]
    BY <1>1, <2>1, CallFields
  <2>3. \A d \in Object(c)' : d.status \notin Active
    BY <1>1, <1>2, <1>7, <2>1, <2>2, Reads DEF StaysAway, Enqueue
  <2>4. StaysAway(c)'
    BY <2>2, <2>3 DEF StaysAway
  <2>5. ~ MergeWipe(c)
    BY <1>4 DEF MergeWipe, MergeStatements
  <2>6. QED
    BY <1>5, <2>1, <2>2, <2>4, <2>5 DEF AsideStep
<1>8. CASE Requeue(c)
  <2>1. PICK d \in Object(c) : Save(c, d, "queued", "due") \/ rows' = rows
    BY <1>8 DEF Requeue, vars
  <2>2. d.status \notin Active
    BY <1>8 DEF Requeue, CalmInv, StaysAway
  <2>3. Aside
    BY <1>1, <1>3, <1>5, <2>1, <2>2, AsideSave
  <2>4. call'[c].at = "return" /\ \A b \in Clients \ {c} : call'[b] = call[b]
    BY <1>1, <1>8, CallFields DEF Requeue
  <2>5. ~ MergeWipe(c)
    BY <1>4 DEF MergeWipe, MergeStatements
  <2>6. QED
    BY <2>3, <2>4, <2>5 DEF AsideStep, StaysAway
<1>9. CASE Ask(c)
  <2>1. PICK op \in DOMAIN Serves, j \in Created :
          \/ rows[j].doc.status \in Serves[op] /\ Load(c, j) /\ Begin(c, op, "save", j, {})
          \/ Answered(op) /\ rows' = rows /\ copies' = copies
    BY <1>9 DEF Ask, vars
  <2>2. ~ MergeWipe(c)
    BY <1>4 DEF MergeWipe, MergeStatements
  <2>3. CASE rows[j].doc.status \in Serves[op] /\ Load(c, j) /\ Begin(c, op, "save", j, {})
    <3>1. op \in {"cancel", "resume"}
      BY <1>4, <2>3 DEF Begin, Serves
    <3>2. rows[j].doc.status \notin Active /\ j \in Jobs
      BY <1>1, <2>3, <3>1 DEF Serves, Created
    <3>3. call'[c].at = "save" /\ call'[c].job = j /\ \A b \in Clients \ {c} : call'[b] = call[b]
      BY <1>1, <2>3, CallFields
    <3>4. copies' = Holding(c, rows[j].doc) /\ rows' = rows
      BY <2>3 DEF Load
    <3>5. \A d \in Object(c)' : d.status \notin Active
      BY <1>1, <3>2, <3>3, <3>4, Reads
    <3>6. StaysAway(c)'
      BY <3>3, <3>5 DEF StaysAway
    <3>7. QED
      BY <1>5, <2>2, <3>3, <3>4, <3>6 DEF AsideStep
  <2>4. CASE Answered(op) /\ rows' = rows /\ copies' = copies
    BY <1>1, <1>5, <2>2, <2>4 DEF AsideStep, StaysAway, Answered, Object
  <2>5. QED
    BY <2>1, <2>3, <2>4
<1>10. CASE Serve(c)
  <2>1. PICK d \in Object(c) :
          \/ ClientSave(c, d, "cancelled", "return")
          \/ ClientSave(c, d, d.status, "enqueue")
    BY <1>1, <1>4, <1>10 DEF Serve
  <2>2. call[c].at = "save" /\ d.status \notin Active
    BY <1>10 DEF Serve, CalmInv, StaysAway
  <2>3. ~ MergeWipe(c)
    BY <1>4 DEF MergeWipe, MergeStatements
  <2>4. ASSUME NEW s \in Statuses, Save(c, d, s, rows[d.id].due)
        PROVE  Aside /\ rows'[d.id].status \notin Active
    BY <1>1, <1>3, <2>2, <2>4, AsideSave
  <2>5. CASE ClientSave(c, d, "cancelled", "return") \/ (rows' = rows /\ Step(c, "return"))
    <3>1. Aside /\ Step(c, "return")
      BY <1>1, <1>5, <2>4, <2>5 DEF ClientSave, vars
    <3>2. call'[c].at = "return" /\ \A b \in Clients \ {c} : call'[b] = call[b]
      BY <1>1, <3>1, CallFields
    <3>3. QED
      BY <2>3, <3>1, <3>2 DEF AsideStep, StaysAway
  <2>6. CASE Save(c, d, d.status, rows[d.id].due) /\ Step(c, "enqueue")
    <3>1. Aside /\ rows'[d.id].status \notin Active
      BY <1>3, <2>4, <2>6
    <3>2. /\ call'[c].at = "enqueue" /\ call'[c].job = d.id
          /\ \A b \in Clients \ {c} : call'[b] = call[b]
      BY <1>1, <1>3, <2>6, CallFields
    <3>3. QED
      BY <2>3, <3>1, <3>2 DEF AsideStep, StaysAway
  <2>7. QED
    BY <2>1, <2>5, <2>6 DEF ClientSave, vars
<1>11. CASE Merge(c) \/ MergeNext(c) \/ MergeCancel(c) \/ MergeWipe(c) \/ MergeNote(c)
  BY <1>4, <1>11 DEF Merge, Begin, MergeNext, MergeCancel, MergeWipe, MergeNote, MergeStatements
<1>12. CASE Return(c)
  <2>1. rows' = rows /\ call' = [call EXCEPT ![c] = NoCall]
    BY <1>12 DEF Return, Forget, vars
  <2>2. call'[c].at = "return" /\ \A b \in Clients \ {c} : call'[b] = call[b]
    BY <2>1 DEF CalmInv, ServiceInv, ServiceTypeOK, NoCall
  <2>3. ~ MergeWipe(c)
    BY <1>4 DEF MergeWipe, MergeStatements
  <2>4. QED
    BY <1>5, <2>1, <2>2, <2>3 DEF AsideStep, StaysAway
<1>13. QED
  BY <1>6, <1>7, <1>8, <1>9, <1>10, <1>11, <1>12 DEF ClientStep

LEMMA CalmClients ==
  ASSUME Calm, CalmInv, ClientNext
  PROVE  (\A w \in Workers : Undisturbed(w)') /\ (\A b \in Clients : StaysAway(b)')
<1>1. PICK c \in Clients : ClientStep(c)
  BY DEF ClientNext, ClientStep
<1>2. ServiceInv /\ IInv'
  BY ClientMaps, NextIInv DEF CalmInv, ServiceInv
<1>3. AsideStep(c) /\ ~ MergeWipe(c)
  BY <1>1, AsideSteps
<1>4. /\ \A h \in Holders \ {c} : copies'[h] = copies[h]
      /\ at' = at /\ job' = job /\ goal' = goal /\ hurt' = hurt /\ published' = published
      /\ disk' = disk
  BY <1>1, <1>2, <1>3, ClientHands
<1>5. ASSUME NEW w \in Workers PROVE Undisturbed(w)'
  <2>1. Undisturbed(w)
    BY DEF CalmInv
  <2>2. at[w] \in Busy => job[w] \in Jobs
    BY <1>2 DEF ServiceInv, InHand
  <2>3. at[w] \in Busy \ {"cleanup"} => rows'[job[w]] = rows[job[w]]
    BY <1>3, <2>1, <2>2 DEF AsideStep, Aside, ActiveRow, Undisturbed, Holds
  <2>4. Kept(w)
    BY <1>4, <2>1, <2>3 DEF Kept, Undisturbed, Holds
  <2>5. QED
    BY <1>2, <2>4, KeptUndisturbed
<1>6. ASSUME NEW b \in Clients PROVE StaysAway(b)'
  <2>1. CASE b = c
    BY <1>3, <2>1 DEF AsideStep
  <2>2. CASE b # c
    <3>1. call'[b] = call[b] /\ copies'[b] = copies[b] /\ StaysAway(b)
      BY <1>3, <1>4, <2>2 DEF AsideStep, CalmInv
    <3>2. call[b].at = "enqueue" => ~ ActiveRow(call[b].job)'
      BY <1>2, <1>3, <3>1 DEF AsideStep, Aside, StaysAway, ActiveRow, ServiceInv, OwnStatement
    <3>3. QED
      BY <3>1, <3>2 DEF StaysAway, Object, ActiveRow
  <2>3. QED
    BY <2>1, <2>2
<1>7. QED
  BY <1>5, <1>6

LEMMA InitCalm == ServiceInit => CalmInv
<1> SUFFICES ASSUME ServiceInit PROVE CalmInv
  OBVIOUS
<1>1. "idle" \notin Busy /\ NoCall.at = "return"
  BY DEF Busy, Beats, AfterSave, NoCall
<1>2. \A w \in Workers : Undisturbed(w)
  BY <1>1 DEF ServiceInit, WorkerInit, Undisturbed, AtWork
<1>3. \A c \in Clients : StaysAway(c)
  BY <1>1 DEF ServiceInit, StaysAway
<1>4. CompletedForGood
  BY DEF ServiceInit, Init, CompletedForGood
<1>5. QED
  BY <1>2, <1>3, <1>4, InitServiceInv DEF CalmInv

LEMMA NextCalm == Calm /\ CalmInv /\ [ServiceNext]_serviceVars => CalmInv'
<1> SUFFICES ASSUME Calm, CalmInv, [ServiceNext]_serviceVars PROVE CalmInv'
  OBVIOUS
<1>1. ServiceInv /\ ServiceInv'
  BY NextServiceInv DEF CalmInv
<1>2. CompletedForGood'
  BY <1>1, ServiceMaps, StaysCompleted DEF CalmInv, ServiceInv
<1>3. CASE ClientNext
  BY <1>1, <1>2, <1>3, CalmClients DEF CalmInv
<1>4. CASE Served /\ WorkerNext /\ UNCHANGED clientVars
  <2>1. \A w \in Workers : Undisturbed(w)'
    BY <1>4, CalmWorkers
  <2>2. \A c \in Clients : call'[c].at = "return"
    BY <1>4 DEF Served, Calm, clientVars, NoCall
  <2>3. \A c \in Clients : StaysAway(c)'
    BY <2>2 DEF StaysAway
  <2>4. QED
    BY <1>1, <1>2, <2>1, <2>3 DEF CalmInv
<1>5. CASE UNCHANGED serviceVars
  BY <1>1, <1>2, <1>5 DEF serviceVars, vars, workerVars, own, effects, clientVars, CalmInv,
     Undisturbed, AtWork, Holds, Current, StaysAway, Object
<1>6. QED
  BY <1>3, <1>4, <1>5 DEF ServiceNext

\* If leases are renewed in time and neither signals nor operators take jobs away,
\* every worker keeps its lease from its claim to the save that ends its work.
THEOREM CalmInvariance == ASSUME Calm PROVE ServiceSpec => []CalmInv
<1>1. CalmInv /\ [ServiceNext]_serviceVars => CalmInv'
  BY NextCalm
<1>2. QED
  BY <1>1, InitCalm, PTL DEF ServiceSpec

\* Then two workers are never at work on one repository, however many workers there
\* are, and whatever crashes, retries, cancellations and replays of requests occur.
THEOREM RepositoryToOneWorker == ASSUME Calm PROVE ServiceSpec => []OneAtWork
<1>1. CalmInv => OneAtWork
  <2> SUFFICES ASSUME CalmInv, NEW v \in Workers, NEW w \in Workers,
                      v # w, AtWork(v), AtWork(w)
               PROVE  RepoOf[job[v]] # RepoOf[job[w]]
    BY DEF OneAtWork
  <2>1. Holds(v) /\ Holds(w) /\ job[v] \in Jobs /\ job[w] \in Jobs
    BY DEF CalmInv, Undisturbed, AtWork, ServiceInv, InHand
  <2>2. job[v] # job[w] /\ ActiveRow(job[v]) /\ ActiveRow(job[w])
    BY <2>1 DEF Holds, ActiveRow
  <2>3. QED
    BY <2>1, <2>2 DEF CalmInv, ServiceInv, IInv, OneActivePerRepository
<1>2. QED
  BY <1>1, CalmInvariance, PTL

\* ... and no clone is removed under the worker that works in it.
THEOREM ClonesAreSafe == ASSUME Calm PROVE ServiceSpec => []CloneUnderWork
<1>1. CalmInv => CloneUnderWork
  BY DEF CalmInv, Undisturbed, CloneUnderWork
<1>2. QED
  BY <1>1, CalmInvariance, PTL

-----------------------------------------------------------------------------
(* What a worker does, it does under its lease *)

\* A save that the store lets through, before the work has ended.
LEMMA SavesUnderLease ==
  ASSUME ServiceInv, NEW w \in Workers, NEW d \in Mine(w), NEW s, NEW u, Save(w, d, s, u),
         at[w] \in Early \cup Late \cup {"failing"}
  PROVE  /\ ActiveRow(job[w]) /\ rows[job[w]].owner = w
         /\ \A j \in Jobs \ {job[w]} : rows'[j] = rows[j]
<1>1. d \in copies[w] /\ d.id = job[w] /\ d.status \in Active
  BY DEF Mine, ServiceInv, InHand, Active
<1>2. ActiveRow(d.id) /\ rows[d.id].owner = w
  BY <1>1, FencedNow DEF Save, ServiceInv, FreshWorkerHoldsLease
<1>3. \A j \in Jobs \ {d.id} : rows'[j] = rows[j]
  BY StoreFacts DEF Save, ServiceInv
<1>4. QED
  BY <1>1, <1>2, <1>3

\* A step of the worker that saves or enters a phase with risks.
Acts(w) == at[w] \in Busy /\ job'[w] = job[w] /\ (Saved(w) \/ Enters(w, Risky))

LEMMA RunActs ==
  ASSUME ServiceInv, NEW w \in Workers, Run(w), Acts(w)
  PROVE  ActiveRow(job[w]) /\ rows[job[w]].owner = w
<1>1. /\ at[w] \in Busy /\ job[w] \in Jobs /\ job'[w] = job[w]
      /\ DOMAIN at = Workers /\ DOMAIN job = Workers /\ NoJob \notin Jobs
  BY WorkerFields DEF Acts
<1>2. ASSUME copies' = copies, NEW p, at' = [at EXCEPT ![w] = p], p \notin Risky PROVE FALSE
  BY <1>1, <1>2 DEF Acts, Saved, Enters
<1>3. ASSUME NEW p, Leave(w, p) PROVE FALSE
  BY <1>1, <1>3, LeaveKeeps
<1>4. ASSUME NEW p \in {"failing", "unwind", "begin", "published"} PROVE p \notin Risky
  BY <1>4 DEF Risky
<1>5. ASSUME NEW s, NEW u, NEW next, Saves(w, s, u, next),
             at[w] \in Early \cup Late \cup {"failing"}
      PROVE  ActiveRow(job[w]) /\ rows[job[w]].owner = w
  <2>1. PICK d \in Mine(w) :
          \/ Save(w, d, s, u)
          \/ UNCHANGED vars /\ (Goto(w, "unwind") \/ Raises(w, FALSE))
    BY <1>5 DEF Saves
  <2>2. CASE Save(w, d, s, u)
    BY <1>5, <2>2, SavesUnderLease
  <2>3. CASE UNCHANGED vars /\ (Goto(w, "unwind") \/ Raises(w, FALSE))
    BY <1>2, <1>4, <2>3 DEF Raises, Goto, vars
  <2>4. QED
    BY <2>1, <2>2, <2>3
<1>6. CASE Sweep(w) \/ Claim(w) \/ FindNone(w) \/ Exit(w)
  BY <1>1, <1>6 DEF Sweep, Claim, FindNone, Exit, Busy, Beats, AfterSave
<1>7. CASE Enter(w)
  BY <1>2, <1>3, <1>4, <1>7 DEF Enter, TouchLease, Goto
<1>8. CASE Heartbeat(w)
  <2>1. CASE TouchLease(w, job[w])
    BY <2>1 DEF TouchLease, Touchable
  <2>2. CASE Raises(w, FALSE) /\ UNCHANGED vars
    BY <1>2, <1>4, <2>2 DEF Raises, Goto, vars
  <2>3. QED
    BY <1>8, <2>1, <2>2 DEF Heartbeat
<1>9. CASE Progress(w)
  <2>1. at[w] \in Early /\ Saves(w, "running", "due", AfterSave[at[w]])
    BY <1>9 DEF Progress, AfterSave, Early
  <2>2. QED
    BY <1>5, <2>1
<1>10. CASE Conclude(w) \/ Settle(w)
  <2>1. at[w] \in Early \cup Late /\ \E s : Saves(w, s, "due", "cleanup")
    BY <1>10 DEF Conclude, Settle, Early, Late
  <2>2. QED
    BY <1>5, <2>1
<1>11. CASE Raise(w) \/ Publish(w)
  BY <1>2, <1>4, <1>11 DEF Raise, Raises, Publish, Goto, vars
<1>12. CASE StartPublish(w)
  <2>1. PICK d \in Mine(w) : Save(w, d, "publishing", "due") \/ (Raises(w, FALSE) /\ UNCHANGED vars)
    BY <1>12 DEF StartPublish
  <2>2. at[w] \in Early
    BY <1>12 DEF StartPublish, Early
  <2>3. QED
    BY <1>2, <1>4, <2>1, <2>2, SavesUnderLease DEF Raises, Goto, vars
<1>13. CASE HandleFailure(w)
  <2>1. PICK d \in Mine(w) : \/ \E s, u : Save(w, d, s, u)
                             \/ Goto(w, "unwind") /\ UNCHANGED vars
    BY <1>13 DEF HandleFailure
  <2>2. at[w] = "failing"
    BY <1>13 DEF HandleFailure
  <2>3. QED
    BY <1>2, <1>4, <2>1, <2>2, SavesUnderLease DEF Goto, vars
<1>14. CASE Cleanup(w)
  BY <1>3, <1>14 DEF Cleanup
<1>15. QED
  BY <1>6, <1>7, <1>8, <1>9, <1>10, <1>11, <1>12, <1>13, <1>14 DEF Run

\* Only the worker's own thread saves its object or takes it to another phase.
LEMMA OwnActs ==
  ASSUME ServiceInv, [ServiceNext]_serviceVars, NEW w \in Workers, Acts(w)
  PROVE  Run(w)
<1>1. ASSUME copies'[w] = copies[w], at'[w] = at[w] PROVE FALSE
  BY <1>1 DEF Acts, Saved, Enters
<1>2. /\ at[w] \in Busy /\ job[w] \in Jobs /\ job'[w] = job[w] /\ NoJob \notin Jobs
  BY WorkerFields DEF Acts
<1>3. CASE ClientNext
  BY <1>1, <1>3, ClientHands DEF ClientNext, ClientStep
<1>4. ASSUME NEW v \in Workers \ {w}, StepOf(v) PROVE FALSE
  BY <1>1, <1>4 DEF StepOf, Untouched
<1>5. ASSUME NEW v \in Workers, Run(v), v # w PROVE FALSE
  BY <1>4, <1>5, ClaimHands, IdleHands, EnterHands, HeartbeatHands, ProgressHands,
     ConcludeHands, StartPublishHands, PublishHands, FailureHands, CleanupHands DEF Run
<1>6. ASSUME NEW v \in Workers, Renew(v) \/ RenewFails(v) \/ Shutdown(v) PROVE FALSE
  BY <1>1, <1>6 DEF Renew, RenewFails, Shutdown, TouchLease, ReleaseLease, workerVars, vars
<1>7. ASSUME NEW v \in Workers, Crash(v) \/ Restart(v) PROVE FALSE
  <2>1. CASE v = w /\ Crash(w)
    BY <1>2, <2>1, LeaveKeeps, WorkerFields DEF Crash
  <2>2. CASE v = w /\ Restart(w)
    BY <1>2, <2>2 DEF Restart, Busy, Beats, AfterSave
  <2>3. CASE v # w
    BY <1>4, <1>7, <2>3, CleanupHands, IdleHands
  <2>4. QED
    BY <1>7, <2>1, <2>2, <2>3
<1>8. ASSUME NEW j \in Jobs, Expire(j) \/ Delay(j) PROVE FALSE
  BY <1>1, <1>8 DEF Expire, Delay, Lapse, BecomeDue, workerVars
<1>9. CASE UNCHANGED serviceVars
  BY <1>1, <1>9 DEF serviceVars, vars, workerVars
<1>10. QED
  BY <1>3, <1>5, <1>6, <1>7, <1>8, <1>9 DEF ServiceNext, WorkerNext

\* Through shutdowns, lapsed and lost leases, operators and dead lease threads, every
\* result that gets into the table and every phase that touches clone or forge is of
\* the worker that holds the lease at that moment.
THEOREM ActionsAreUnderLease == ServiceSpec => ActsUnderLease
<1>1. ServiceInv /\ [ServiceNext]_serviceVars =>
        \A w \in Workers :
          at[w] \in Busy /\ job'[w] = job[w] /\ (Saved(w) \/ Enters(w, Risky))
            => ActiveRow(job[w]) /\ rows[job[w]].owner = w
  BY OwnActs, RunActs DEF Acts
<1>2. QED
  BY <1>1, ServiceInvariance, PTL DEF ServiceSpec, ActsUnderLease

-----------------------------------------------------------------------------
(* Who takes a job that is at work *)

\* Workers leave the objects of clients alone.
LEMMA ClientsKeep ==
  ASSUME ServiceInv, WorkerNext, NEW c \in Clients
  PROVE  copies'[c] = copies[c]
<1>1. IInv /\ c \in Holders /\ \A w \in Workers : c # w
  BY DEF ServiceInv
<1>2. ASSUME NEW w \in Workers, NEW d \in copies[w], NEW s, NEW u, Save(w, d, s, u)
      PROVE  copies'[c] = copies[c]
  BY <1>1, <1>2, SaveKeeps
<1>3. ASSUME NEW w \in Workers, NEW s, NEW u, NEW next, Saves(w, s, u, next)
      PROVE  copies'[c] = copies[c]
  BY <1>1, <1>3, SavesKeep
<1>4. ASSUME NEW w \in Workers, NEW phase, Leave(w, phase) PROVE copies'[c] = copies[c]
  BY <1>1, <1>4, LeaveKeeps
<1>5. ASSUME NEW w \in Workers, Run(w) PROVE copies'[c] = copies[c]
  <2>1. CASE Claim(w)
    BY <1>1, <2>1, Keeps DEF Claim, ClaimNext, ClaimRow
  <2>2. CASE Sweep(w) \/ FindNone(w) \/ Heartbeat(w) \/ Raise(w) \/ Publish(w)
    BY <2>2 DEF Sweep, RequeueExpired, FindNone, Heartbeat, TouchLease, Raise, Publish, vars
  <2>3. CASE Enter(w) \/ Cleanup(w) \/ Exit(w)
    BY <1>4, <2>3 DEF Enter, TouchLease, Cleanup, Exit
  <2>4. CASE Progress(w) \/ Conclude(w) \/ Settle(w)
    BY <1>3, <2>4 DEF Progress, Conclude, Settle
  <2>5. CASE StartPublish(w) \/ HandleFailure(w)
    <3>1. PICK d \in Mine(w) : (\E s, u : Save(w, d, s, u)) \/ UNCHANGED vars
      BY <2>5 DEF StartPublish, HandleFailure
    <3>2. d \in copies[w]
      BY DEF Mine
    <3>3. QED
      BY <1>2, <3>1, <3>2 DEF vars
  <2>6. QED
    BY <1>5, <2>1, <2>2, <2>3, <2>4, <2>5 DEF Run
<1>6. ASSUME NEW w \in Workers,
             Renew(w) \/ RenewFails(w) \/ Shutdown(w) \/ Crash(w) \/ Restart(w)
      PROVE  copies'[c] = copies[c]
  BY <1>4, <1>6 DEF Renew, RenewFails, Shutdown, Crash, Restart, TouchLease, ReleaseLease, vars
<1>7. QED
  BY <1>5, <1>6 DEF WorkerNext, Expire, Delay, Lapse, BecomeDue

\* The request of client c after its step.
LEMMA DecidedStep ==
  ASSUME ServiceInv, NEW c \in Clients, Decided(c), ClientStep(c)
  PROVE  Decided(c)' /\ \A b \in Clients \ {c} : call'[b] = call[b]
<1>1. IInv /\ OwnStatement(c) /\ call \in [Clients -> Call]
  BY DEF ServiceInv, ServiceTypeOK
<1>2. ASSUME NEW stmt, stmt # "save", Step(c, stmt)
      PROVE  Decided(c)' /\ \A b \in Clients \ {c} : call'[b] = call[b]
  BY <1>2, CallFields DEF Decided
<1>3. ASSUME NEW op, NEW stmt, NEW j, NEW todo, Begin(c, op, stmt, j, todo), stmt # "save"
      PROVE  Decided(c)' /\ \A b \in Clients \ {c} : call'[b] = call[b]
  BY <1>3, CallFields DEF Decided
<1>4. CASE Submit(c)
  <2>1. \E op, j : \E stmt \in {"enqueue", "return"} : Begin(c, op, stmt, j, {})
    BY <1>4 DEF Submit
  <2>2. QED
    BY <1>3, <2>1
<1>5. CASE Enqueue(c) \/ Requeue(c)
  <2>1. \E stmt \in {"requeue", "return"} : Step(c, stmt)
    BY <1>5 DEF Enqueue, Requeue
  <2>2. QED
    BY <1>2, <2>1
<1>6. CASE Ask(c)
  <2>1. PICK op \in DOMAIN Serves, j \in Created :
          \/ rows[j].doc.status \in Serves[op] /\ Load(c, j) /\ Begin(c, op, "save", j, {})
          \/ rows[j].doc.status \notin Serves[op] /\ Answered(op) /\ UNCHANGED vars
    BY <1>6 DEF Ask
  <2>2. CASE rows[j].doc.status \in Serves[op] /\ Load(c, j) /\ Begin(c, op, "save", j, {})
    <3>1. /\ call'[c].at = "save" /\ call'[c].job = j /\ call'[c].op = op
          /\ \A b \in Clients \ {c} : call'[b] = call[b]
      BY <1>1, <2>2, CallFields DEF Begin
    <3>2. copies' = Holding(c, rows[j].doc) /\ j \in Jobs
      BY <2>2 DEF Load, Created
    <3>3. \A d \in Object(c)' : d = rows[j].doc
      BY <1>1, <3>1, <3>2, Reads
    <3>4. QED
      BY <2>2, <3>1, <3>3 DEF Decided
  <2>3. CASE Answered(op) /\ UNCHANGED vars
    BY <2>3 DEF Answered, Decided, Object, vars
  <2>4. QED
    BY <2>1, <2>2, <2>3
<1>7. CASE Serve(c) \/ MergeCancel(c) \/ MergeNote(c)
  <2>1. \E stmt \in {"return", "enqueue", "wipe", "next"} : Step(c, stmt)
    BY <1>7 DEF Serve, MergeCancel, MergeNote, ClientSave
  <2>2. QED
    BY <1>2, <2>1
<1>8. CASE Merge(c)
  BY <1>3, <1>8 DEF Merge
<1>9. CASE MergeNext(c)
  <2>1. \/ Step(c, "return")
        \/ \E d \in copies[c] : \E stmt \in {"cancel", "wipe"} :
             call' = [call EXCEPT ![c].job = d.id, ![c].todo = @ \ {d.id}, ![c].at = stmt]
    BY <1>9 DEF MergeNext
  <2>2. ASSUME NEW d \in copies[c], NEW stmt \in {"cancel", "wipe"},
               call' = [call EXCEPT ![c].job = d.id, ![c].todo = @ \ {d.id}, ![c].at = stmt]
        PROVE  call'[c].at = stmt /\ \A b \in Clients \ {c} : call'[b] = call[b]
    BY <1>1, <2>2 DEF Call
  <2>3. QED
    BY <1>2, <2>1, <2>2 DEF Decided
<1>10. CASE MergeWipe(c)
  <2>1. Step(c, "next") \/ Step(c, "note")
    BY <1>10 DEF MergeWipe
  <2>2. QED
    BY <1>2, <2>1
<1>11. CASE Return(c)
  <2>1. call' = [call EXCEPT ![c] = NoCall] /\ NoCall.at = "return"
    BY <1>11 DEF Return, NoCall
  <2>2. QED
    BY <1>1, <2>1 DEF Decided
<1>12. QED
  BY <1>4, <1>5, <1>6, <1>7, <1>8, <1>9, <1>10, <1>11 DEF ClientStep

LEMMA NextDecided == DecidedInv /\ [ServiceNext]_serviceVars => DecidedInv'
<1> SUFFICES ASSUME DecidedInv, [ServiceNext]_serviceVars PROVE DecidedInv'
  OBVIOUS
<1>1. ServiceInv /\ ServiceInv'
  BY NextServiceInv DEF DecidedInv
<1>2. ASSUME NEW b \in Clients, copies'[b] = copies[b], call'[b] = call[b] PROVE Decided(b)'
  BY <1>2 DEF DecidedInv, Decided, Object
<1>3. CASE ClientNext
  <2>1. PICK c \in Clients : ClientStep(c)
    BY <1>3 DEF ClientNext, ClientStep
  <2>2. /\ Decided(c)' /\ \A b \in Clients \ {c} : call'[b] = call[b]
        /\ \A h \in Holders \ {c} : copies'[h] = copies[h]
    BY <1>1, <2>1, DecidedStep, ClientHands DEF DecidedInv
  <2>3. QED
    BY <1>1, <1>2, <2>2 DEF DecidedInv
<1>4. CASE WorkerNext /\ UNCHANGED clientVars
  BY <1>1, <1>2, <1>4, ClientsKeep DEF DecidedInv, clientVars
<1>5. CASE UNCHANGED serviceVars
  BY <1>1, <1>2, <1>5 DEF DecidedInv, serviceVars, clientVars, vars
<1>6. QED
  BY <1>3, <1>4, <1>5 DEF ServiceNext

\* A handler that is about to save still has the object, with the status, on which it
\* decided to serve the request.
THEOREM DecisionsAreKept == ServiceSpec => []DecidedInv
<1>1. ServiceInit => DecidedInv
  <2>1. ServiceInit => \A c \in Clients : Decided(c)
    BY DEF ServiceInit, Decided, NoCall
  <2>2. QED
    BY <2>1, InitServiceInv DEF DecidedInv
<1>2. QED
  BY <1>1, NextDecided, PTL DEF ServiceSpec

\* What takes job j away from those at work on it, by the reason for it.
Lost(j) == ActiveRow(j) /\ ~ ActiveRow(j)'

ByOwner(j) == \E w \in Workers : /\ rows[j].owner = w /\ job[w] = j
                                 /\ at'[w] # at[w] \/ w \in (stopping' \ stopping)

ByRequest(j) == \E c \in Clients : /\ call[c].job = j /\ call'[c] # call[c]
                                   /\ \/ call[c].op \in {"requeue", "merge"}
                                      \/ revived'[j] > revived[j]

\* A step that only moves a lease or a due column takes nothing.
LEMMA ColumnsTakeNothing ==
  ASSUME IInv, NEW j \in Jobs, NEW k \in Jobs, NEW l \in Leases,
         \E x \in {Leased(rows[k], l), MadeDue(rows[k])} : rows' = [rows EXCEPT ![k] = x]
  PROVE  ~ Lost(j)
<1>1. /\ Leased(rows[k], l).status = rows[k].status /\ MadeDue(rows[k]).status = rows[k].status
      /\ DOMAIN rows = Jobs
  BY StoreFacts, ColumnType
<1>2. rows'[j].status = rows[j].status
  BY <1>1
<1>3. QED
  BY <1>2 DEF Lost, ActiveRow

LEMMA RunTakes ==
  ASSUME ServiceInv, NEW w \in Workers, Run(w), NEW j \in Jobs, Lost(j)
  PROVE  rows[j].lease = "lapsed" \/ ByOwner(j)
<1>1. /\ IInv /\ DOMAIN at = Workers /\ DOMAIN rows = Jobs
      /\ at[w] \in Busy => job[w] \in Jobs
  BY StoreFacts, WorkerFields DEF ServiceInv
<1>2. rows'[j].status = rows[j].status => FALSE
  BY DEF Lost, ActiveRow
<1>3. ASSUME NEW d \in Mine(w), NEW s, NEW u, Save(w, d, s, u),
             at[w] \in Early \cup Late \cup {"failing"}, at'[w] # at[w]
      PROVE  ByOwner(j)
  <2>1. /\ rows[job[w]].owner = w
        /\ \A k \in Jobs \ {job[w]} : rows'[k] = rows[k]
    BY <1>3, SavesUnderLease
  <2>2. j = job[w]
    BY <1>2, <2>1
  <2>3. QED
    BY <1>3, <2>1, <2>2 DEF ByOwner
<1>4. ASSUME NEW s, NEW u, NEW next, Saves(w, s, u, next), next # at[w],
             at[w] \in Early \cup Late \cup {"failing"}
      PROVE  ByOwner(j)
  <2>1. PICK d \in Mine(w) : \/ Save(w, d, s, u) /\ Goto(w, next)
                             \/ rows' = rows
    BY <1>4 DEF Saves, vars
  <2>2. QED
    BY <1>1, <1>2, <1>3, <1>4, <2>1 DEF Goto
<1>5. CASE Sweep(w)
  <2>1. RequeueExpired
    BY <1>2, <1>5 DEF Sweep, vars
  <2>2. Expired(j)
    BY <1>2, <2>1 DEF RequeueExpired
  <2>3. QED
    BY <2>2 DEF Expired
<1>6. CASE Claim(w)
  <2>1. PICK k \in Jobs : ClaimNext(w, k)
    BY <1>6 DEF Claim
  <2>2. /\ rows[k].status = "queued" /\ \A i \in Jobs \ {k} : rows'[i] = rows[i]
    BY <1>1, <2>1 DEF ClaimNext, ClaimRow, Claimable
  <2>3. QED
    BY <1>2, <2>2 DEF Lost, ActiveRow, Active
<1>7. CASE FindNone(w) \/ Raise(w) \/ Publish(w)
  BY <1>2, <1>7 DEF FindNone, Raise, Publish, vars
<1>8. CASE Enter(w) \/ Heartbeat(w)
  <2>1. job[w] \in Jobs
    BY <1>1, <1>8 DEF Enter, Heartbeat, Busy
  <2>2. TouchLease(w, job[w]) \/ rows' = rows
    BY <1>8, LeaveKeeps DEF Enter, Heartbeat, vars
  <2>3. QED
    BY <1>1, <1>2, <2>1, <2>2, ColumnsTakeNothing, LeaseTypes DEF TouchLease
<1>9. CASE Cleanup(w) \/ Exit(w)
  BY <1>2, <1>9, LeaveKeeps DEF Cleanup, Exit
<1>10. CASE Progress(w)
  <2>1. /\ at[w] \in Early /\ AfterSave[at[w]] # at[w]
        /\ Saves(w, "running", "due", AfterSave[at[w]])
    BY <1>10 DEF Progress, AfterSave, Early
  <2>2. QED
    BY <1>4, <2>1
<1>11. CASE Conclude(w) \/ Settle(w)
  <2>1. /\ at[w] \in Early \cup Late /\ at[w] # "cleanup"
        /\ \E s : Saves(w, s, "due", "cleanup")
    BY <1>11 DEF Conclude, Settle, Early, Late
  <2>2. QED
    BY <1>4, <2>1
<1>12. CASE StartPublish(w) \/ HandleFailure(w)
  <2>1. PICK d \in Mine(w) :
          \/ \E s, u : Save(w, d, s, u) /\ (Goto(w, "publishing") \/ Goto(w, "cleanup"))
          \/ rows' = rows
    BY <1>12 DEF StartPublish, HandleFailure, vars
  <2>2. /\ at[w] \in Early \cup Late \cup {"failing"}
        /\ at[w] \notin {"publishing", "cleanup"}
    BY <1>12 DEF StartPublish, HandleFailure, Early
  <2>3. QED
    BY <1>1, <1>2, <1>3, <2>1, <2>2 DEF Goto
<1>13. QED
  BY <1>5, <1>6, <1>7, <1>8, <1>9, <1>10, <1>11, <1>12 DEF Run

LEMMA WorkerTakes ==
  ASSUME ServiceInv, WorkerNext, NEW j \in Jobs, Lost(j)
  PROVE  rows[j].lease = "lapsed" \/ ByOwner(j)
<1>1. IInv /\ DOMAIN rows = Jobs /\ \A w \in Workers : at[w] \in Busy => job[w] \in Jobs
  BY StoreFacts, WorkerFields DEF ServiceInv
<1>2. rows'[j].status = rows[j].status => FALSE
  BY DEF Lost, ActiveRow
<1>3. ASSUME NEW w \in Workers, Renew(w) PROVE FALSE
  BY <1>1, <1>3, ColumnsTakeNothing, LeaseTypes DEF Renew, TouchLease
<1>4. ASSUME NEW w \in Workers, Shutdown(w) PROVE ByOwner(j)
  <2>1. ReleaseLease(w, job[w]) /\ job[w] \in Jobs
    BY <1>1, <1>2, <1>4 DEF Shutdown, vars
  <2>2. /\ rows[job[w]].owner = w
        /\ \A k \in Jobs \ {job[w]} : rows'[k] = rows[k]
    BY <1>1, <2>1 DEF ReleaseLease, Releasable
  <2>3. j = job[w]
    BY <1>2, <2>2
  <2>4. w \in (stopping' \ stopping)
    BY <1>4 DEF Shutdown
  <2>5. QED
    BY <2>2, <2>3, <2>4 DEF ByOwner
<1>5. ASSUME NEW w \in Workers, RenewFails(w) \/ Crash(w) \/ Restart(w) PROVE FALSE
  BY <1>2, <1>5, LeaveKeeps DEF RenewFails, Crash, Restart, vars
<1>6. ASSUME NEW k \in Jobs, Expire(k) \/ Delay(k) PROVE FALSE
  BY <1>1, <1>6, ColumnsTakeNothing, LeaseTypes DEF Expire, Delay, Lapse, BecomeDue
<1>7. QED
  BY <1>3, <1>4, <1>5, <1>6, RunTakes DEF WorkerNext

\* A save by a handler can take only the job of its object, in the status it had.
LEMMA HandlerSaves ==
  ASSUME ServiceInv, NEW c \in Clients, NEW d \in Object(c), NEW s, NEW u, Save(c, d, s, u),
         s \in Statuses, u \in Dues, NEW j \in Jobs, Lost(j)
  PROVE  j = call[c].job /\ j = d.id /\ d.status \in Active /\ s \notin Active
<1>1. IInv /\ d \in copies[c] /\ d.id = call[c].job /\ d.id \in Jobs
  BY StoreFacts DEF Object, ServiceInv
<1>2. /\ d.id \in Created /\ d = rows[d.id].doc /\ rows'[d.id].status = s
      /\ \A k \in Jobs \ {d.id} : rows'[k] = rows[k]
  BY <1>1, SaveEffect
<1>3. j = d.id
  BY <1>2 DEF Lost, ActiveRow
<1>4. QED
  BY <1>1, <1>2, <1>3 DEF Lost, ActiveRow, IInv, ColumnsMatchDocument

LEMMA ClientTakes ==
  ASSUME DecidedInv, NEW c \in Clients, ClientStep(c), NEW j \in Jobs, Lost(j)
  PROVE  ByRequest(j)
<1>1. /\ ServiceInv /\ IInv /\ OwnStatement(c) /\ Decided(c) /\ DOMAIN rows = Jobs
      /\ revived \in [Jobs -> Nat]
      /\ {"queued", "cancelled", "failed"} \subseteq Statuses /\ "due" \in Dues
  BY StoreFacts DEF DecidedInv, ServiceInv, ServiceTypeOK, Statuses, Dues
<1>2. rows'[j].status = rows[j].status => FALSE
  BY DEF Lost, ActiveRow
<1>3. \A d \in Object(c) : rows[d.id].due \in Dues /\ d.status \in Statuses
                           /\ ReclaimStatus(d, MaxAttempts) \in Statuses
  BY <1>1, StoreFacts DEF Object, Doc, ReclaimStatus
<1>4. ASSUME NEW stmt, Step(c, stmt), stmt # call[c].at PROVE call'[c] # call[c]
  BY <1>1, <1>4, CallFields
<1>5. CASE Submit(c)
  <2>1. PICK k \in Jobs : Create(c, k)
    BY <1>2, <1>5 DEF Submit, Replay
  <2>2. rows[k].status = "absent" /\ \A i \in Jobs \ {k} : rows'[i] = rows[i]
    BY <1>1, <2>1 DEF Create, Created
  <2>3. QED
    BY <1>2, <2>2 DEF Lost, ActiveRow, Active
<1>6. CASE Enqueue(c) \/ Ask(c) \/ Merge(c) \/ MergeNext(c) \/ MergeWipe(c) \/ Return(c)
  BY <1>2, <1>6 DEF Enqueue, Ask, Merge, MergeNext, MergeWipe, Return, Load, List, Forget, vars
<1>7. CASE Requeue(c)
  <2>1. PICK d \in Object(c) :
          \/ /\ Save(c, d, "queued", "due")
             /\ revived' = IF d.status = "queued" THEN revived
                           ELSE [revived EXCEPT ![d.id] = @ + 1]
          \/ rows' = rows
    BY <1>7 DEF Requeue, vars
  <2>2. Save(c, d, "queued", "due")
    BY <1>2, <2>1
  <2>3. j = call[c].job /\ j = d.id /\ d.status \in Active
    BY <1>1, <2>2, HandlerSaves
  <2>4. revived'[j] > revived[j]
    BY <1>1, <1>2, <2>1, <2>3 DEF Active
  <2>5. call'[c] # call[c]
    BY <1>4, <1>7 DEF Requeue
  <2>6. QED
    BY <2>3, <2>4, <2>5 DEF ByRequest
<1>8. CASE Serve(c)
  <2>1. PICK d \in Object(c) :
          \/ call[c].op = "cancel" /\ ClientSave(c, d, "cancelled", "return")
          \/ call[c].op = "resume" /\ ClientSave(c, d, d.status, "enqueue")
          \/ call[c].op = "requeue"
             /\ ClientSave(c, d, ReclaimStatus(d, MaxAttempts), "return")
    BY <1>8 DEF Serve
  <2>2. /\ call[c].at = "save" /\ d.status \in Serves[call[c].op]
    BY <1>1, <1>8 DEF Serve, Decided
  <2>3. CASE call[c].op = "cancel" /\ ClientSave(c, d, "cancelled", "return")
    <3>1. d.status \notin Active
      BY <2>2, <2>3 DEF Serves, Active
    <3>2. QED
      BY <1>1, <1>2, <1>3, <2>3, <3>1, HandlerSaves DEF ClientSave, vars
  <2>4. CASE call[c].op = "resume" /\ ClientSave(c, d, d.status, "enqueue")
    BY <1>1, <1>2, <1>3, <2>4, HandlerSaves DEF ClientSave, vars
  <2>5. CASE call[c].op = "requeue"
             /\ ClientSave(c, d, ReclaimStatus(d, MaxAttempts), "return")
    <3>1. Save(c, d, ReclaimStatus(d, MaxAttempts), rows[d.id].due) /\ Step(c, "return")
      BY <1>2, <2>5 DEF ClientSave, vars
    <3>2. j = call[c].job
      BY <1>1, <1>3, <3>1, HandlerSaves
    <3>3. call'[c] # call[c]
      BY <1>4, <2>2, <3>1
    <3>4. QED
      BY <2>5, <3>2, <3>3 DEF ByRequest
  <2>6. QED
    BY <2>1, <2>3, <2>4, <2>5
<1>9. CASE MergeCancel(c) \/ MergeNote(c)
  <2>1. PICK d \in Object(c), s \in Statuses, stmt \in {"wipe", "next"} :
          ClientSave(c, d, s, stmt)
    BY <1>1, <1>3, <1>9 DEF MergeCancel, MergeNote
  <2>2. call[c].at \in {"cancel", "note"} /\ call[c].op = "merge"
    BY <1>1, <1>9 DEF MergeCancel, MergeNote, OwnStatement, MergeStatements
  <2>3. Save(c, d, s, rows[d.id].due) /\ Step(c, stmt)
    BY <1>2, <2>1 DEF ClientSave, vars
  <2>4. j = call[c].job
    BY <1>1, <1>3, <2>3, HandlerSaves
  <2>5. call'[c] # call[c]
    BY <1>4, <2>2, <2>3
  <2>6. QED
    BY <2>2, <2>4, <2>5 DEF ByRequest
<1>10. QED
  BY <1>5, <1>6, <1>7, <1>8, <1>9 DEF ClientStep

\* For any workers, requests and faults: a job at work is taken away by a lapsed lease,
\* its owner, a request meant for that, or an enqueue, which is counted; never by a
\* request that was decided when the job was not at work.
THEOREM JobsAreTakenOnPurpose == ServiceSpec => TakenOnPurpose
<1>1. DecidedInv /\ [ServiceNext]_serviceVars =>
        \A j \in Jobs : Lost(j) => rows[j].lease = "lapsed" \/ ByOwner(j) \/ ByRequest(j)
  <2> SUFFICES ASSUME DecidedInv, [ServiceNext]_serviceVars, NEW j \in Jobs, Lost(j)
               PROVE  rows[j].lease = "lapsed" \/ ByOwner(j) \/ ByRequest(j)
    OBVIOUS
  <2>1. CASE ClientNext
    BY <2>1, ClientTakes DEF ClientNext, ClientStep
  <2>2. CASE WorkerNext
    BY <2>2, WorkerTakes DEF DecidedInv
  <2>3. CASE UNCHANGED serviceVars
    BY <2>3 DEF serviceVars, vars, Lost, ActiveRow
  <2>4. QED
    BY <2>1, <2>2, <2>3 DEF ServiceNext
<1>2. DecidedInv /\ [ServiceNext]_serviceVars =>
        \A j \in Jobs : ActiveRow(j) /\ ~ ActiveRow(j)' =>
          \/ rows[j].lease = "lapsed"
          \/ \E w \in Workers : /\ rows[j].owner = w /\ job[w] = j
                                /\ at'[w] # at[w] \/ w \in (stopping' \ stopping)
          \/ \E c \in Clients : /\ call[c].job = j /\ call'[c] # call[c]
                                /\ \/ call[c].op \in {"requeue", "merge"}
                                   \/ revived'[j] > revived[j]
  BY <1>1 DEF Lost, ByOwner, ByRequest
<1>3. QED
  BY <1>2, DecisionsAreKept, PTL DEF ServiceSpec, TakenOnPurpose
=============================================================================
