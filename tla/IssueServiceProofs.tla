------------------------- MODULE IssueServiceProofs -------------------------
(***************************************************************************)
(* What is proved of one issue's session holds of the workers that serve   *)
(* it, for any workers and bounds: a step of theirs is one of the session, *)
(* or leaves it alone.                                                     *)
(*                                                                         *)
(* A worker acts on a turn and an outcome that it has in memory, and on an *)
(* effect that it has read before.  Each is one the session knows: this is *)
(* HoldsTurns for the first two, and for the third the guard of            *)
(* RecordPublication with the type of the table.                           *)
(*                                                                         *)
(* The second part is about the outbox: how often an action takes effect   *)
(* at GitLab, what its status says of that, and what becomes of a merge    *)
(* request that is there before it is linked.                              *)
(***************************************************************************)
EXTENDS IssueService, IssueSessionsProofs, FiniteSetTheorems

\* The workers and the fields of their records, ...
Shaped ==
  /\ DOMAIN proc = Workers
  /\ \A w \in Workers : DOMAIN proc[w] = DOMAIN Idle

\* ... and what Finalize finds in them.
HoldsTurns ==
  \A w \in Workers : /\ proc[w].at \in {"working", "ended"} => proc[w].turn \in Turns
                     /\ proc[w].at = "ended" => proc[w].outcome \in Outcomes

ServiceInv == IInv /\ Shaped /\ HoldsTurns

-----------------------------------------------------------------------------
\* Outbox and workers change a session only by recording a publication and by
\* applying an outcome, whatever they have read before.
LEMMA StepMaps ==
  ASSUME ServiceInv, [IssueServiceNext]_issueVars
  PROVE  [Next]_vars
<1>1. CASE Handle
  BY <1>1 DEF Next
<1>2. ASSUME NEW w \in Workers, Run(w)
      PROVE  [Next]_vars
  <2>1. CASE Record(w)
    <3>1. PICK t : t = proc[w].effect[2] /\ RecordPublication(t)
      BY <2>1 DEF Record
    <3>2. <<"publish", t>> \in Effects
      BY <3>1 DEF RecordPublication, ServiceInv, IInv, TypeOK
    <3>3. t \in Turns
      BY <3>2 DEF Effects, GenEffects, TurnEffects
    <3> QED
      BY <3>1, <3>3 DEF Next, Work
  <2>2. CASE Finalize(w)
    <3>1. proc[w].turn \in Turns /\ proc[w].outcome \in Outcomes
      BY <2>2 DEF Finalize, ServiceInv, HoldsTurns
    <3>2. Apply(proc[w].turn, proc[w].outcome) \/ UNCHANGED vars
      BY <2>2 DEF Finalize
    <3> QED
      BY <3>1, <3>2 DEF Next, Work
  <2>3. CASE List(w) \/ Lease(w) \/ Post(w) \/ OpenRequest(w) \/ Finish(w)
    BY <2>3 DEF List, Lease, Post, OpenRequest, Finish
  <2>4. CASE Claim(w) \/ FindNone(w) \/ Execute(w)
    BY <2>4 DEF Claim, FindNone, Execute
  <2> QED
    BY <1>2, <2>1, <2>2, <2>3, <2>4 DEF Run
<1>3. CASE \E w \in Workers : Crash(w) \/ Restart(w)
  BY <1>3 DEF Crash, Restart
<1>4. CASE \E t \in Turns : Resume(t) \/ CancelJob(t)
  BY <1>4 DEF Resume, CancelJob
<1> QED
  BY <1>1, <1>2, <1>3, <1>4 DEF IssueServiceNext, issueVars

\* One worker's record is replaced by another of the same fields.
LEMMA Replaced ==
  ASSUME ServiceInv, NEW w \in Workers, DOMAIN proc' = Workers,
         \A v \in Workers \ {w} : proc'[v] = proc[v],
         DOMAIN proc'[w] = DOMAIN Idle,
         proc'[w].at \in {"working", "ended"} => proc'[w].turn \in Turns,
         proc'[w].at = "ended" => proc'[w].outcome \in Outcomes
  PROVE  (Shaped /\ HoldsTurns)'
<1>1. Shaped'
  <2>1. DOMAIN Idle = DOMAIN Idle'
    BY DEF Idle, NoEffect
  <2> QED
    BY <2>1 DEF ServiceInv, Shaped
<1>2. HoldsTurns'
  BY DEF ServiceInv, HoldsTurns
<1> QED
  BY <1>1, <1>2

\* Only Claim and Execute lead to a phase in which a turn is held.
LEMMA ProcKept ==
  ASSUME ServiceInv, [IssueServiceNext]_issueVars
  PROVE  (Shaped /\ HoldsTurns)'
<1>1. CASE proc' = proc
  BY <1>1 DEF ServiceInv, Shaped, HoldsTurns, Idle, NoEffect
<1>2. ASSUME NEW w \in Workers, NEW phase, Goto(w, phase), phase \notin {"working", "ended"}
      PROVE  (Shaped /\ HoldsTurns)'
  <2>1. /\ DOMAIN proc' = Workers
        /\ \A v \in Workers \ {w} : proc'[v] = proc[v]
        /\ DOMAIN proc'[w] = DOMAIN Idle
        /\ proc'[w].at = phase
    BY <1>2 DEF Goto, ServiceInv, Shaped, Idle
  <2> QED
    BY <1>2, <2>1, Replaced
<1>3. ASSUME NEW w \in Workers, NEW phase, phase \in {"idle", "dead"},
             proc' = [proc EXCEPT ![w] = [Idle EXCEPT !.at = phase]]
      PROVE  (Shaped /\ HoldsTurns)'
  <2>1. /\ DOMAIN proc' = Workers
        /\ \A v \in Workers \ {w} : proc'[v] = proc[v]
        /\ DOMAIN proc'[w] = DOMAIN Idle
        /\ proc'[w].at = phase
    BY <1>3 DEF ServiceInv, Shaped, Idle
  <2> QED
    BY <1>3, <2>1, Replaced
<1>4. ASSUME NEW w \in Workers, List(w) \/ Lease(w) \/ Finish(w)
      PROVE  (Shaped /\ HoldsTurns)'
  <2>1. /\ DOMAIN proc' = Workers
        /\ \A v \in Workers \ {w} : proc'[v] = proc[v]
        /\ DOMAIN proc'[w] = DOMAIN Idle
        /\ proc'[w].at \in {"listed", "leased"}
    BY <1>4 DEF List, Lease, Finish, ServiceInv, Shaped, Idle
  <2> QED
    BY <2>1, Replaced
<1>5. ASSUME NEW w \in Workers, Claim(w)
      PROVE  (Shaped /\ HoldsTurns)'
  <2>1. /\ DOMAIN proc' = Workers
        /\ \A v \in Workers \ {w} : proc'[v] = proc[v]
        /\ DOMAIN proc'[w] = DOMAIN Idle
        /\ proc'[w].at = "working" /\ proc'[w].turn \in Turns
    BY <1>5 DEF Claim, ServiceInv, Shaped, Idle
  <2> QED
    BY <2>1, Replaced
<1>6. ASSUME NEW w \in Workers, Execute(w)
      PROVE  (Shaped /\ HoldsTurns)'
  <2>1. PICK outcome \in Outcomes :
          proc' = [proc EXCEPT ![w].at = "ended", ![w].outcome = outcome]
    BY <1>6 DEF Execute
  <2>2. proc[w].turn \in Turns
    BY <1>6 DEF Execute, ServiceInv, HoldsTurns
  <2>3. /\ DOMAIN proc' = Workers
        /\ \A v \in Workers \ {w} : proc'[v] = proc[v]
        /\ DOMAIN proc'[w] = DOMAIN Idle
        /\ proc'[w].turn \in Turns /\ proc'[w].outcome \in Outcomes
    BY <2>1, <2>2 DEF ServiceInv, Shaped, Idle
  <2> QED
    BY <2>3, Replaced
<1>7. ASSUME NEW w \in Workers, Finalize(w)
      PROVE  (Shaped /\ HoldsTurns)'
  <2>1. Idle = [Idle EXCEPT !.at = "idle"]
    BY DEF Idle
  <2> QED
    BY <1>3, <1>7, <2>1 DEF Finalize
<1>8. ASSUME NEW w \in Workers,
             Post(w) \/ OpenRequest(w) \/ Record(w) \/ FindNone(w) \/ Crash(w) \/ Restart(w)
      PROVE  (Shaped /\ HoldsTurns)'
  BY <1>2, <1>3, <1>8 DEF Post, OpenRequest, Record, FindNone, Crash, Restart
<1> QED
  BY <1>1, <1>4, <1>5, <1>6, <1>7, <1>8
     DEF IssueServiceNext, Run, Resume, CancelJob, issueVars

LEMMA ServiceInitHolds == IssueServiceInit => ServiceInv
<1> SUFFICES ASSUME IssueServiceInit PROVE ServiceInv
  OBVIOUS
<1>1. IInv
  BY InitHolds DEF IssueServiceInit
<1>2. proc = [w \in Workers |-> Idle] /\ Idle.at = "idle"
  BY DEF IssueServiceInit, Idle
<1>3. Shaped /\ HoldsTurns
  BY <1>2 DEF Shaped, HoldsTurns
<1> QED
  BY <1>1, <1>3 DEF ServiceInv

\* The invariants of the session hold with the workers, too.
THEOREM ServiceInvariance == IssueServiceSpec => []ServiceInv
<1>1. ServiceInv /\ [IssueServiceNext]_issueVars => ServiceInv'
  BY StepMaps, ProcKept, StepKeeps DEF ServiceInv
<1> QED
  BY <1>1, ServiceInitHolds, PTL DEF IssueServiceSpec

\* Workers and outbox, with crashes, overlapping lists and late outcomes, do to a
\* session only what IssueSessions allows.
LEMMA ServiceTakesSessionSteps == IssueServiceSpec => Spec
<1>1. IssueServiceInit => Init
  BY DEF IssueServiceInit
<1>2. ServiceInv /\ [IssueServiceNext]_issueVars => [Next]_vars
  BY StepMaps
<1> QED
  BY <1>1, <1>2, ServiceInvariance, PTL DEF IssueServiceSpec, Spec

\* So whatever workers and outbox do, no status of a session is a promise that nothing
\* keeps, at most one turn of a generation is active, the session shows the status of a
\* generation, and new turns are of the newest one.
THEOREM SessionsAreKept ==
  IssueServiceSpec =>
    /\ [](/\ QueuedHasTurn /\ StatusIsKept /\ OneActiveTurn
          /\ SessionFollowsAGeneration)
    /\ TurnsStartInNewestGeneration
BY ServiceTakesSessionSteps, QueuedIsServed, StatusesKept, Alone,
   SessionFollows, NewestGeneration, PTL

-----------------------------------------------------------------------------
(* The outbox.  What a worker is about to do with an action it has listed is   *)
(* counted as owing it: from the first lease on nobody lists the action again, *)
(* so every effect at GitLab is paid for by a worker that owed it.             *)

Handling == {"leased", "opened", "done", "erred"}
Taken == leased \cup succeeded \cup failed

\* Actions are those of the table; whoever handles one has leased it and has taken
\* it from its list.
OutboxShaped ==
  /\ posted \in [Effects -> Nat]
  /\ Taken \subseteq intents
  /\ \A w \in Workers :
       /\ proc[w].batch \subseteq intents
       /\ proc[w].at \in Handling =>
            proc[w].effect \in Taken /\ proc[w].effect \notin proc[w].batch

Owing(f) ==
  {w \in Workers : f \in proc[w].batch \/ (proc[w].at = "leased" /\ proc[w].effect = f)}

PaidFor(f) ==
  /\ f \notin Taken => posted[f] = 0
  /\ f \in Taken => posted[f] + Cardinality(Owing(f)) <= Cardinality(Workers)

\* Whoever is past the call has seen it succeed.
SeenAtGitLab(w) ==
  /\ proc[w].at \in {"opened", "done"} => posted[proc[w].effect] > 0
  /\ proc[w].at = "opened" =>
       /\ proc[w].effect = <<"publish", proc[w].effect[2]>>
       /\ turns[proc[w].effect[2]].gen \in requests

OutboxInv ==
  /\ OutboxShaped
  /\ \A f \in Effects : PaidFor(f)
  /\ \A w \in Workers : SeenAtGitLab(w)
  /\ SucceededWasPosted

\* The table of actions only grows, and a turn stays in its generation.
LEMMA SessionGrows ==
  ASSUME ServiceInv, [IssueServiceNext]_issueVars
  PROVE  /\ intents \subseteq intents' /\ intents' \subseteq Effects
         /\ \A t \in Turns : turns[t].status # "absent" => turns'[t].gen = turns[t].gen
<1>1. IInv /\ [Next]_vars
  BY StepMaps DEF ServiceInv
<1>2. turns \in [Turns -> Turn]
  BY <1>1 DEF IInv, TypeOK
<1>3. ASSUME NEW g \in Generations, NEW gen \in Gen, NEW t \in Turns, NEW cause,
             Begins(g, gen, t, cause)
      PROVE  Grows /\ \A u \in Turns : turns[u].status # "absent" => turns'[u] = turns[u]
  BY <1>2, <1>3 DEF Begins
<1>4. ASSUME NEW g \in Generations, NEW gen \in Gen, Moves(g, gen)
      PROVE  Grows /\ \A u \in Turns : turns'[u].gen = turns[u].gen
  <2>1. \A t \in Turns : DOMAIN turns[t] = {"status", "gen", "cause"}
    BY <1>2 DEF Turn
  <2> QED
    BY <1>2, <1>4, <2>1 DEF Moves
<1>5. Enters => Grows /\ \A u \in Turns : turns[u].status # "absent" => turns'[u] = turns[u]
  BY <1>3 DEF Enters
<1>6. Stays => Grows /\ turns' = turns
  BY DEF Stays
<1>7. Grows /\ \A t \in Turns : turns[t].status # "absent" => turns'[t].gen = turns[t].gen
  BY <1>1, <1>3, <1>4, <1>5, <1>6, Shapes
<1> QED
  BY <1>7 DEF Grows

\* Only the record of a publication links anything.
LEMMA LinksKept ==
  ASSUME Handle \/ \E t, outcome : Apply(t, outcome)
  PROVE  linked' = linked
<1>1. ASSUME NEW e, NEW k, NEW authorized, Ingest(e, k, authorized)
      PROVE  linked' = linked
  BY <1>1 DEF Ingest, StartSession, FollowUp, CommentStatus, Cancel, CompleteMerge,
              CloseMergeRequest, Ignore
<1>2. ForceStart \/ DropForced \/ CancelByApi \/ Retry => linked' = linked
  BY DEF ForceStart, DropForced, CancelByApi, Retry
<1>3. ASSUME NEW t, NEW outcome, Apply(t, outcome)
      PROVE  linked' = linked
  BY <1>3 DEF Apply
<1> QED
  BY <1>1, <1>2, <1>3 DEF Handle

LEMMA OwingFinite ==
  ASSUME NEW f
  PROVE  /\ IsFiniteSet(Owing(f)) /\ Cardinality(Owing(f)) \in Nat
         /\ Cardinality(Owing(f)) <= Cardinality(Workers)
         /\ Cardinality(Workers) \in Nat
         /\ \A W \in SUBSET Owing(f) : Cardinality(W) \in Nat
                                       /\ Cardinality(W) <= Cardinality(Owing(f))
<1>1. Owing(f) \in SUBSET Workers
  BY DEF Owing
<1>2. IsFiniteSet(Owing(f)) /\ Cardinality(Owing(f)) <= Cardinality(Workers)
  BY <1>1, FS_Subset, IssueServiceAssumption
<1>3. \A W \in SUBSET Owing(f) : IsFiniteSet(W) /\ Cardinality(W) <= Cardinality(Owing(f))
  BY <1>2, FS_Subset
<1> QED
  BY <1>2, <1>3, FS_CardinalityType, IssueServiceAssumption

LEMMA OwingFiniteNext ==
  ASSUME NEW f
  PROVE  Cardinality(Owing(f)') \in Nat /\ Cardinality(Owing(f)') <= Cardinality(Workers)
<1>1. Owing(f)' \in SUBSET Workers
  BY DEF Owing
<1> QED
  BY <1>1, FS_Subset, FS_CardinalityType, IssueServiceAssumption

\* A step that carries out nothing: lists and places may be left, an action that is
\* handled may fail, and a list may be made of what is pending.
Idles ==
  /\ UNCHANGED <<rowVars, worldVars>>
  /\ linked' = linked
  /\ \A w \in Workers :
       /\ proc'[w].batch \subseteq proc[w].batch \cup Pending
       /\ proc'[w].at \in Handling =>
            /\ proc'[w].effect = proc[w].effect /\ proc'[w].batch = proc[w].batch
            /\ proc[w].at \in Handling /\ proc'[w].at \in {proc[w].at, "erred"}

LEMMA IdlesKeeps ==
  ASSUME ServiceInv, [IssueServiceNext]_issueVars, OutboxInv, Idles
  PROVE  OutboxInv'
<1>1. /\ intents \subseteq intents' /\ intents' \subseteq Effects
      /\ \A t \in Turns : turns[t].status # "absent" => turns'[t].gen = turns[t].gen
  BY SessionGrows
<1>2. Taken' = Taken /\ posted' = posted /\ requests' = requests /\ succeeded' = succeeded
  BY DEF Idles, rowVars, worldVars, Taken
<1>3. Pending \subseteq intents /\ Pending \cap Taken = {}
  BY DEF Pending, Taken
<1>4. OutboxShaped'
  BY <1>1, <1>2, <1>3 DEF OutboxInv, OutboxShaped, Idles
<1>5. ASSUME NEW f \in Effects
      PROVE  PaidFor(f)'
  <2>1. f \in Taken => Owing(f)' \subseteq Owing(f)
    BY <1>3 DEF Owing, Idles, Handling
  <2> QED
    BY <1>2, <2>1, OwingFinite, OwingFiniteNext DEF OutboxInv, OutboxShaped, PaidFor
<1>6. ASSUME NEW w \in Workers
      PROVE  SeenAtGitLab(w)'
  <2>1. CASE proc'[w].at \in {"opened", "done"}
    <3>1. proc'[w].at = proc[w].at /\ proc'[w].effect = proc[w].effect
      BY <2>1 DEF Idles, Handling
    <3>2. ASSUME proc[w].at = "opened"
          PROVE  /\ proc[w].effect[2] \in Turns
                 /\ turns[proc[w].effect[2]].status # "absent"
      <4>1. proc[w].effect = <<"publish", proc[w].effect[2]>> /\ proc[w].effect \in intents
        BY <3>2 DEF OutboxInv, SeenAtGitLab, OutboxShaped, Handling
      <4>2. proc[w].effect[2] \in Turns
        BY <4>1, <1>1 DEF Effects, GenEffects, TurnEffects
      <4> QED
        BY <4>1, <4>2 DEF ServiceInv, IInv, PublishedTurnsExist
    <3> QED
      BY <1>1, <1>2, <3>1, <3>2 DEF OutboxInv, SeenAtGitLab
  <2> QED
    BY <2>1 DEF SeenAtGitLab
<1>7. SucceededWasPosted'
  BY <1>2 DEF OutboxInv, SucceededWasPosted, Idles
<1> QED
  BY <1>4, <1>5, <1>6, <1>7 DEF OutboxInv

\* One worker takes up an action, gets it done or is done with it.
LEMMA LeaseKeeps ==
  ASSUME ServiceInv, OutboxInv, NEW w \in Workers, Lease(w)
  PROVE  OutboxInv'
<1>1. PICK f \in proc[w].batch :
        /\ proc' = [proc EXCEPT ![w].at = "leased", ![w].effect = f, ![w].batch = @ \ {f}]
        /\ Marked(f, "leased")
  BY DEF Lease
<1>2. /\ posted' = posted /\ requests' = requests /\ linked' = linked
      /\ intents' = intents /\ turns' = turns
  BY DEF Lease, worldVars, vars
<1>3. /\ DOMAIN proc' = Workers
      /\ \A v \in Workers \ {w} : proc'[v] = proc[v]
      /\ proc'[w].at = "leased" /\ proc'[w].effect = f /\ proc'[w].batch = proc[w].batch \ {f}
  BY <1>1 DEF ServiceInv, Shaped, Idle
<1>4. Taken' = Taken \cup {f} /\ succeeded' \subseteq succeeded
  BY <1>1 DEF Marked, Taken
<1>5. f \in intents /\ intents \subseteq Effects
  BY <1>1 DEF OutboxInv, OutboxShaped, ServiceInv, IInv, TypeOK
<1>6. proc[w].at = "listed"
  BY DEF Lease
<1>7. OutboxShaped'
  <2>1. posted' \in [Effects -> Nat] /\ Taken' \subseteq intents'
    BY <1>2, <1>4, <1>5 DEF OutboxInv, OutboxShaped
  <2>2. ASSUME NEW v \in Workers
        PROVE  /\ proc'[v].batch \subseteq intents'
               /\ proc'[v].at \in Handling =>
                    proc'[v].effect \in Taken' /\ proc'[v].effect \notin proc'[v].batch
    BY <1>2, <1>3, <1>4 DEF OutboxInv, OutboxShaped
  <2> QED
    BY <2>1, <2>2 DEF OutboxShaped, Handling
<1>8. ASSUME NEW g \in Effects
      PROVE  PaidFor(g)'
  <2>1. Owing(g)' \subseteq Owing(g)
    BY <1>1, <1>3, <1>6 DEF Owing
  <2> QED
    BY <1>2, <1>4, <2>1, OwingFinite, OwingFiniteNext DEF OutboxInv, OutboxShaped, PaidFor
<1>9. \A v \in Workers : SeenAtGitLab(v)'
  BY <1>2, <1>3 DEF OutboxInv, SeenAtGitLab
<1>10. SucceededWasPosted'
  BY <1>2, <1>4 DEF OutboxInv, SucceededWasPosted
<1> QED
  BY <1>7, <1>8, <1>9, <1>10 DEF OutboxInv

LEMMA CallKeeps ==
  ASSUME ServiceInv, OutboxInv, NEW w \in Workers, NEW phase,
         proc[w].at = "leased", Goto(w, phase), phase \in {"opened", "done"},
         posted' = [posted EXCEPT ![proc[w].effect] = @ + 1],
         requests \subseteq requests',
         phase = "opened" => /\ proc[w].effect[1] = "publish"
                             /\ turns[proc[w].effect[2]].gen \in requests',
         UNCHANGED <<vars, rowVars>>
  PROVE  OutboxInv'
<1> DEFINE f == proc[w].effect
<1>1. /\ linked' = linked /\ intents' = intents /\ turns' = turns
      /\ Taken' = Taken /\ succeeded' = succeeded
  BY DEF vars, rowVars, Taken
<1>2. /\ \A v \in Workers \ {w} : proc'[v] = proc[v]
      /\ proc'[w].at = phase /\ proc'[w].effect = f /\ proc'[w].batch = proc[w].batch
  BY DEF Goto, ServiceInv, Shaped, Idle
<1>3. f \in Taken /\ f \notin proc[w].batch /\ f \in Effects
  BY DEF OutboxInv, OutboxShaped, Handling, ServiceInv, IInv, TypeOK
<1>4. /\ posted \in [Effects -> Nat]
      /\ posted' \in [Effects -> Nat]
      /\ posted'[f] = posted[f] + 1 /\ \A g \in Effects \ {f} : posted'[g] = posted[g]
  BY <1>3 DEF OutboxInv, OutboxShaped
<1>5. OutboxShaped'
  BY <1>1, <1>2, <1>3, <1>4 DEF OutboxInv, OutboxShaped, Handling
<1>6. ASSUME NEW g \in Effects
      PROVE  PaidFor(g)'
  <2>1. CASE g = f
    <3>1. Owing(g)' = Owing(g) \ {w} /\ w \in Owing(g)
      BY <1>2, <1>3, <2>1 DEF Owing
    <3>2. Cardinality(Owing(g)') = Cardinality(Owing(g)) - 1
      BY <3>1, OwingFinite, FS_RemoveElement
    <3>3. g \in Taken' /\ posted'[g] = posted[g] + 1 /\ posted[g] \in Nat
      BY <1>1, <1>3, <1>4, <2>1
    <3>4. posted[g] + Cardinality(Owing(g)) <= Cardinality(Workers)
      BY <1>3, <2>1 DEF OutboxInv, PaidFor
    <3> QED
      BY <3>2, <3>3, <3>4, OwingFinite DEF PaidFor
  <2>2. CASE g # f
    <3>1. Owing(g)' \subseteq Owing(g)
      BY <1>2, <2>2 DEF Owing
    <3> QED
      BY <1>1, <1>4, <2>2, <3>1, OwingFinite, OwingFiniteNext DEF OutboxInv, PaidFor
  <2> QED
    BY <2>1, <2>2
<1>7. ASSUME NEW v \in Workers
      PROVE  SeenAtGitLab(v)'
  <2>1. \A g \in Effects : posted[g] > 0 => posted'[g] > 0
    BY <1>4
  <2>2. proc[v].at \in {"opened", "done"} => proc[v].effect \in Effects
    BY DEF OutboxInv, OutboxShaped, Handling, ServiceInv, IInv, TypeOK
  <2>3. CASE v = w
    <3>1. f[1] = "publish" => f = <<"publish", f[2]>>
      BY <1>3 DEF Effects, TurnEffects, GenEffects
    <3> QED
      BY <1>1, <1>2, <1>4, <2>3, <3>1 DEF SeenAtGitLab
  <2>4. CASE v # w
    BY <1>1, <1>2, <2>1, <2>2, <2>4 DEF OutboxInv, SeenAtGitLab
  <2> QED
    BY <2>3, <2>4
<1>8. SucceededWasPosted'
  <2>1. succeeded \subseteq Effects
    BY DEF OutboxInv, OutboxShaped, Taken, ServiceInv, IInv, TypeOK
  <2> QED
    BY <1>1, <1>4, <2>1 DEF OutboxInv, SucceededWasPosted
<1> QED
  BY <1>5, <1>6, <1>7, <1>8 DEF OutboxInv

LEMMA RecordKeeps ==
  ASSUME ServiceInv, [IssueServiceNext]_issueVars, OutboxInv, NEW w \in Workers, Record(w)
  PROVE  OutboxInv'
<1> DEFINE f == proc[w].effect
<1>1. /\ intents \subseteq intents' /\ intents' \subseteq Effects
      /\ \A t \in Turns : turns[t].status # "absent" => turns'[t].gen = turns[t].gen
  BY SessionGrows
<1>2. /\ turns' = turns /\ linked' = linked \cup {turns[f[2]].gen}
      /\ requests' = requests /\ posted' = posted /\ succeeded' = succeeded
      /\ Taken' = Taken /\ proc[w].at = "opened"
  BY DEF Record, RecordPublication, worldVars, rowVars, Taken
<1>3. /\ \A v \in Workers \ {w} : proc'[v] = proc[v]
      /\ proc'[w].at = "done" /\ proc'[w].effect = f /\ proc'[w].batch = proc[w].batch
  BY DEF Record, Goto, ServiceInv, Shaped, Idle
<1>4. OutboxShaped'
  BY <1>1, <1>2, <1>3 DEF OutboxInv, OutboxShaped, Handling
<1>5. ASSUME NEW g \in Effects
      PROVE  PaidFor(g)'
  <2>1. Owing(g)' \subseteq Owing(g)
    BY <1>2, <1>3 DEF Owing
  <2> QED
    BY <1>2, <2>1, OwingFinite, OwingFiniteNext DEF OutboxInv, OutboxShaped, PaidFor
<1>6. \A v \in Workers : SeenAtGitLab(v)'
  BY <1>2, <1>3 DEF OutboxInv, SeenAtGitLab
<1>7. SucceededWasPosted'
  BY <1>2 DEF OutboxInv, SucceededWasPosted, SeenAtGitLab
<1> QED
  BY <1>4, <1>5, <1>6, <1>7 DEF OutboxInv

LEMMA FinishKeeps ==
  ASSUME ServiceInv, OutboxInv, NEW w \in Workers, Finish(w)
  PROVE  OutboxInv'
<1> DEFINE f == proc[w].effect
           status == IF proc[w].at = "done" THEN "succeeded" ELSE "failed"
<1>1. /\ turns' = turns /\ linked' = linked /\ intents' = intents
      /\ requests' = requests /\ posted' = posted
      /\ Marked(f, status) /\ proc[w].at \in {"done", "erred"}
  BY DEF Finish, worldVars, vars
<1>2. /\ \A v \in Workers \ {w} : proc'[v] = proc[v]
      /\ proc'[w].at = "listed" /\ proc'[w].batch = proc[w].batch
  BY DEF Finish, ServiceInv, Shaped, Idle
<1>3. f \in Taken
  BY <1>1 DEF OutboxInv, OutboxShaped, Handling
<1>4. Taken' = Taken
  BY <1>1, <1>3 DEF Marked, Taken
<1>5. \A g \in succeeded' : g \in succeeded \/ (g = f /\ proc[w].at = "done")
  BY <1>1 DEF Marked
<1>6. OutboxShaped'
  BY <1>1, <1>2, <1>4 DEF OutboxInv, OutboxShaped, Handling
<1>7. ASSUME NEW g \in Effects
      PROVE  PaidFor(g)'
  <2>1. Owing(g)' \subseteq Owing(g)
    BY <1>1, <1>2 DEF Owing
  <2> QED
    BY <1>1, <1>4, <2>1, OwingFinite, OwingFiniteNext DEF OutboxInv, OutboxShaped, PaidFor
<1>8. \A v \in Workers : SeenAtGitLab(v)'
  BY <1>1, <1>2 DEF OutboxInv, SeenAtGitLab
<1>9. SucceededWasPosted'
  BY <1>1, <1>5 DEF OutboxInv, SucceededWasPosted, SeenAtGitLab
<1> QED
  BY <1>6, <1>7, <1>8, <1>9 DEF OutboxInv

LEMMA OutboxStep ==
  ASSUME ServiceInv, [IssueServiceNext]_issueVars, OutboxInv
  PROVE  OutboxInv'
<1>1. \A w \in Workers : proc[w].batch \subseteq proc[w].batch \cup Pending
  OBVIOUS
<1>2. CASE UNCHANGED <<rowVars, worldVars>> /\ proc' = proc /\ linked' = linked
  BY <1>2, IdlesKeeps DEF Idles, Handling
<1>3. ASSUME NEW w \in Workers, NEW phase, Goto(w, phase),
             phase \notin Handling \/ (phase = "erred" /\ proc[w].at \in Handling),
             UNCHANGED <<rowVars, worldVars>>, linked' = linked
      PROVE  OutboxInv'
  <2>1. /\ \A v \in Workers \ {w} : proc'[v] = proc[v]
        /\ proc'[w].at = phase /\ proc'[w].effect = proc[w].effect
        /\ proc'[w].batch = proc[w].batch
    BY <1>3 DEF Goto, ServiceInv, Shaped, Idle
  <2> QED
    BY <1>3, <2>1, IdlesKeeps DEF Idles
<1>4. ASSUME NEW w \in Workers, \A v \in Workers \ {w} : proc'[v] = proc[v],
             proc'[w].at \notin Handling, proc'[w].batch \subseteq proc[w].batch \cup Pending,
             UNCHANGED <<rowVars, worldVars>>, linked' = linked
      PROVE  OutboxInv'
  BY <1>4, IdlesKeeps DEF Idles
<1>5. ASSUME NEW w \in Workers, List(w) \/ Claim(w) \/ Execute(w)
      PROVE  OutboxInv'
  <2>1. \/ proc' = [proc EXCEPT ![w].at = "listed", ![w].batch = Pending]
        \/ \E t : proc' = [proc EXCEPT ![w].at = "working", ![w].turn = t]
        \/ \E outcome : proc' = [proc EXCEPT ![w].at = "ended", ![w].outcome = outcome]
    BY <1>5 DEF List, Claim, Execute
  <2>2. /\ \A v \in Workers \ {w} : proc'[v] = proc[v]
        /\ proc'[w].at \notin Handling /\ proc'[w].batch \subseteq proc[w].batch \cup Pending
    BY <2>1 DEF ServiceInv, Shaped, Idle, Handling
  <2>3. UNCHANGED <<rowVars, worldVars>> /\ linked' = linked
    BY <1>5 DEF List, Claim, Execute, vars
  <2> QED
    BY <1>4, <2>2, <2>3
<1>6. ASSUME NEW w \in Workers, Finalize(w) \/ Crash(w)
      PROVE  OutboxInv'
  <2>1. UNCHANGED <<rowVars, worldVars>> /\ linked' = linked
    BY <1>6, LinksKept DEF Finalize, Crash, vars
  <2>2. \/ proc' = [proc EXCEPT ![w] = Idle]
        \/ proc' = [proc EXCEPT ![w] = [Idle EXCEPT !.at = "dead"]]
    BY <1>6 DEF Finalize, Crash
  <2>3. /\ \A v \in Workers \ {w} : proc'[v] = proc[v]
        /\ proc'[w].at \notin Handling /\ proc'[w].batch = {}
    BY <2>2 DEF ServiceInv, Shaped, Idle, Handling
  <2> QED
    BY <1>4, <2>1, <2>3
<1>7. ASSUME NEW w \in Workers, FindNone(w) \/ Restart(w)
      PROVE  OutboxInv'
  BY <1>3, <1>7 DEF FindNone, Restart, Handling, vars
<1>8. ASSUME NEW w \in Workers, Post(w)
      PROVE  OutboxInv'
  <2>1. proc[w].at = "leased" /\ UNCHANGED <<vars, rowVars>> /\ requests' = requests
    BY <1>8 DEF Post
  <2>2. CASE Goto(w, "done") /\ posted' = [posted EXCEPT ![proc[w].effect] = @ + 1]
    BY <2>1, <2>2, CallKeeps
  <2>3. CASE Goto(w, "erred") /\ posted' = posted
    BY <1>3, <2>1, <2>3 DEF Handling, vars, worldVars
  <2> QED
    BY <1>8, <2>2, <2>3 DEF Post
<1>9. ASSUME NEW w \in Workers, OpenRequest(w)
      PROVE  OutboxInv'
  <2>1. proc[w].at = "leased" /\ UNCHANGED <<vars, rowVars>> /\ proc[w].effect[1] = "publish"
    BY <1>9 DEF OpenRequest
  <2>2. CASE /\ Goto(w, "opened") /\ posted' = [posted EXCEPT ![proc[w].effect] = @ + 1]
             /\ requests' = requests \cup {turns[proc[w].effect[2]].gen}
    BY <2>1, <2>2, CallKeeps
  <2>3. CASE Goto(w, "erred") /\ UNCHANGED worldVars
    BY <1>3, <2>1, <2>3 DEF Handling, vars
  <2> QED
    BY <1>9, <2>2, <2>3 DEF OpenRequest
<1>10. CASE Handle /\ UNCHANGED <<proc, workVars, rowVars, worldVars, faults>>
  BY <1>2, <1>10, LinksKept
<1>11. CASE \E t \in Turns : Resume(t) \/ CancelJob(t)
  BY <1>2, <1>11 DEF Resume, CancelJob, vars
<1>12. CASE UNCHANGED issueVars
  BY <1>2, <1>12 DEF issueVars, vars
<1>13. ASSUME NEW w \in Workers, Lease(w) \/ Record(w) \/ Finish(w)
       PROVE  OutboxInv'
  BY <1>13, LeaseKeeps, RecordKeeps, FinishKeeps
<1> QED
  BY <1>5, <1>6, <1>7, <1>8, <1>9, <1>10, <1>11, <1>12, <1>13 DEF IssueServiceNext, Run

LEMMA OutboxInitHolds == IssueServiceInit => OutboxInv
<1> SUFFICES ASSUME IssueServiceInit PROVE OutboxInv
  OBVIOUS
<1>1. /\ \A w \in Workers : proc[w].at = "idle" /\ proc[w].batch = {}
      /\ posted = [f \in Effects |-> 0] /\ Taken = {} /\ succeeded = {} /\ linked = {}
  BY DEF IssueServiceInit, Init, Idle, Taken
<1> QED
  BY <1>1 DEF OutboxInv, OutboxShaped, PaidFor, SeenAtGitLab, SucceededWasPosted, Handling

\* Leases, calls and records keep the accounts of the outbox, through errors, crashes
\* and lists that overlap.
THEOREM OutboxInvariance == IssueServiceSpec => []OutboxInv
BY OutboxStep, OutboxInitHolds, ServiceInvariance, PTL DEF IssueServiceSpec

\* An action takes effect at most once per worker, however many workers list it and
\* however often they die: who dies after its lease never finds it pending again.
THEOREM ActionsAreBounded == IssueServiceSpec => []EffectsBounded
<1>1. OutboxInv => EffectsBounded
  <2> SUFFICES ASSUME OutboxInv, NEW f \in Effects
               PROVE  posted[f] <= Cardinality(Workers)
    BY DEF EffectsBounded
  <2> QED
    BY OwingFinite DEF OutboxInv, OutboxShaped, PaidFor
<1> QED
  BY <1>1, OutboxInvariance, PTL

\* What the outbox calls succeeded did happen at GitLab, and every link is to a merge
\* request that is there.
THEOREM SuccessIsReal == IssueServiceSpec => []SucceededWasPosted
<1>1. OutboxInv => SucceededWasPosted
  BY DEF OutboxInv
<1> QED
  BY <1>1, OutboxInvariance, PTL

-----------------------------------------------------------------------------
(* Merge requests.  One is opened by a worker that has leased a publication,   *)
(* and linked by the transaction that also intends what follows from it: the   *)
(* note and the merge.                                                         *)

NotesFollowLinks ==
  /\ \A g \in Generations : <<"mr", g>> \in intents => g \in linked
  /\ \A t \in Turns : <<"merge", t>> \in intents =>
                        turns[t].gen \in linked /\ <<"publish", t>> \in intents

LinkedWhenDone(w) ==
  proc[w].at = "done" /\ proc[w].effect[1] = "publish" =>
    turns[proc[w].effect[2]].gen \in linked

RequestsInv ==
  /\ NotesFollowLinks
  /\ \A w \in Workers : LinkedWhenDone(w)
  /\ \A t \in Turns : <<"publish", t>> \in succeeded => turns[t].gen \in linked
  /\ \A g \in requests : PublishedTurns(g, Taken) # {}

\* Events, operators and outcomes intend neither a note about a merge request nor a
\* merge.
LEMMA OtherIntents ==
  ASSUME Handle \/ \E t \in Turns, outcome \in Outcomes : Apply(t, outcome)
  PROVE  \A f \in intents' \ intents : f[1] \notin {"mr", "merge"}
<1>1. ASSUME NEW e, NEW k, NEW authorized, Ingest(e, k, authorized)
      PROVE  \A f \in intents' \ intents : f[1] \notin {"mr", "merge"}
  BY <1>1 DEF Ingest, StartSession, FollowUp, CommentStatus, Cancel, CompleteMerge,
              CloseMergeRequest, Ignore
<1>2. ForceStart \/ DropForced \/ CancelByApi \/ Retry => intents' = intents
  BY DEF ForceStart, DropForced, CancelByApi, Retry
<1>3. ASSUME NEW t, NEW outcome \in Outcomes, Apply(t, outcome)
      PROVE  \A f \in intents' \ intents : f[1] \notin {"mr", "merge"}
  <2> DEFINE template == Intent[outcome]
  <2>1. template \notin {"mr", "merge"}
    BY DEF Outcomes, Intent
  <2>2. \A f \in intents' \ intents : f = <<template, t>>
    BY <1>3 DEF Apply
  <2> HIDE DEF template
  <2> QED
    BY <2>1, <2>2
<1> QED
  BY <1>1, <1>2, <1>3 DEF Handle

\* A publication that is intended is of a turn, which stays in its generation.
LEMMA PublishedTurnStays ==
  ASSUME ServiceInv, [IssueServiceNext]_issueVars, NEW f \in intents, f[1] = "publish"
  PROVE  /\ f[2] \in Turns /\ f = <<"publish", f[2]>>
         /\ turns'[f[2]].gen = turns[f[2]].gen
<1>1. f \in Effects
  BY DEF ServiceInv, IInv, TypeOK
<1>2. f[2] \in Turns /\ f = <<"publish", f[2]>>
  BY <1>1 DEF Effects, TurnEffects, GenEffects
<1> QED
  BY <1>2, SessionGrows DEF ServiceInv, IInv, PublishedTurnsExist

\* The accounts are kept by a step that links before it tells, and that calls done or
\* succeeded only what is linked.
LEMMA RequestsKept ==
  ASSUME ServiceInv, [IssueServiceNext]_issueVars, OutboxInv, RequestsInv,
         linked \subseteq linked', Taken \subseteq Taken',
         NotesFollowLinks',
         \A w \in Workers : LinkedWhenDone(w)',
         \A f \in succeeded' \ succeeded :
           f \in intents /\ (f[1] = "publish" => turns[f[2]].gen \in linked),
         \A g \in requests' \ requests : PublishedTurns(g, Taken) # {}
  PROVE  RequestsInv'
<1>1. Taken \subseteq intents /\ succeeded \subseteq intents
  BY DEF OutboxInv, OutboxShaped, Taken
<1>2. \A t \in Turns : <<"publish", t>> \in intents => turns'[t].gen = turns[t].gen
  BY PublishedTurnStays
<1>3. \A t \in Turns : <<"publish", t>> \in succeeded' => turns'[t].gen \in linked'
  BY <1>1, <1>2 DEF RequestsInv
<1>4. ASSUME NEW g \in requests'
      PROVE  PublishedTurns(g, Taken)' # {}
  <2>1. PICK t \in PublishedTurns(g, Taken) : TRUE
    BY DEF RequestsInv
  <2>2. t \in Turns /\ turns[t].gen = g /\ <<"publish", t>> \in Taken
    BY <2>1 DEF PublishedTurns
  <2>3. turns'[t].gen = g /\ <<"publish", t>> \in Taken'
    BY <1>1, <1>2, <2>2
  <2> QED
    BY <2>2, <2>3 DEF PublishedTurns
<1> QED
  BY <1>3, <1>4 DEF RequestsInv

\* A step that intends no note about a merge request and no merge.
LEMMA NotesKept ==
  ASSUME ServiceInv, [IssueServiceNext]_issueVars, RequestsInv, linked' = linked,
         \A f \in intents' \ intents : f[1] \notin {"mr", "merge"}
  PROVE  NotesFollowLinks'
<1>1. intents \subseteq intents'
  BY SessionGrows
<1>2. \A t \in Turns : <<"publish", t>> \in intents => turns'[t].gen = turns[t].gen
  BY PublishedTurnStays
<1>3. \A g \in Generations : <<"mr", g>> \in intents' => <<"mr", g>> \in intents
  BY Z3
<1>4. \A t \in Turns : <<"merge", t>> \in intents' => <<"merge", t>> \in intents
  BY Z3
<1> QED
  BY <1>1, <1>2, <1>3, <1>4 DEF RequestsInv, NotesFollowLinks

LEMMA RequestsStep ==
  ASSUME ServiceInv, [IssueServiceNext]_issueVars, OutboxInv, RequestsInv
  PROVE  RequestsInv'
<1>1. \A w \in Workers : proc[w].at = "done" => proc[w].effect \in intents
  BY DEF OutboxInv, OutboxShaped, Handling
\* Most workers stay where they are, or are not done afterwards.
<1>2. ASSUME linked \subseteq linked',
             NEW w \in Workers, \A v \in Workers \ {w} : proc'[v] = proc[v],
             LinkedWhenDone(w)'
      PROVE  \A v \in Workers : LinkedWhenDone(v)'
  <2> SUFFICES ASSUME NEW v \in Workers, v # w
               PROVE  LinkedWhenDone(v)'
    BY <1>2
  <2> QED
    BY <1>1, <1>2, PublishedTurnStays DEF RequestsInv, LinkedWhenDone
<1>3. ASSUME linked' = linked, proc' = proc
      PROVE  \A v \in Workers : LinkedWhenDone(v)'
  BY <1>1, <1>3, PublishedTurnStays DEF RequestsInv, LinkedWhenDone
<1>4. CASE Handle /\ UNCHANGED <<proc, workVars, rowVars, worldVars, faults>>
  <2>1. linked' = linked /\ Taken' = Taken /\ succeeded' = succeeded /\ requests' = requests
    BY <1>4, LinksKept DEF rowVars, worldVars, Taken
  <2> QED
    BY <1>3, <1>4, <2>1, OtherIntents, NotesKept, RequestsKept
<1>5. CASE (\E t \in Turns : Resume(t) \/ CancelJob(t)) \/ UNCHANGED issueVars
  <2>1. /\ linked' = linked /\ Taken' = Taken /\ succeeded' = succeeded
        /\ requests' = requests /\ intents' = intents /\ proc' = proc
    BY <1>5 DEF Resume, CancelJob, issueVars, vars, rowVars, worldVars, Taken
  <2> QED
    BY <1>3, <2>1, NotesKept, RequestsKept
<1>6. ASSUME NEW w \in Workers, Finalize(w) \/ Crash(w)
      PROVE  RequestsInv'
  <2>1. linked' = linked /\ \A f \in intents' \ intents : f[1] \notin {"mr", "merge"}
    <3>1. CASE Finalize(w)
      <4>1. proc[w].turn \in Turns /\ proc[w].outcome \in Outcomes
        BY <3>1 DEF Finalize, ServiceInv, HoldsTurns
      <4>2. Apply(proc[w].turn, proc[w].outcome) \/ UNCHANGED vars
        BY <3>1 DEF Finalize
      <4> QED
        BY <4>1, <4>2, LinksKept, OtherIntents DEF vars
    <3>2. CASE Crash(w)
      BY <3>2 DEF Crash, vars
    <3> QED
      BY <1>6, <3>1, <3>2
  <2>2. Taken' = Taken /\ succeeded' = succeeded /\ requests' = requests
    BY <1>6 DEF Finalize, Crash, rowVars, worldVars, Taken
  <2>3. \/ proc' = [proc EXCEPT ![w] = Idle]
        \/ proc' = [proc EXCEPT ![w] = [Idle EXCEPT !.at = "dead"]]
    BY <1>6 DEF Finalize, Crash
  <2>4. proc'[w].at # "done" /\ \A v \in Workers \ {w} : proc'[v] = proc[v]
    BY <2>3 DEF ServiceInv, Shaped, Idle
  <2>5. \A v \in Workers : LinkedWhenDone(v)'
    BY <1>2, <2>1, <2>4 DEF LinkedWhenDone
  <2> QED
    BY <2>1, <2>2, <2>5, NotesKept, RequestsKept
\* Steps of a worker that leave the session alone.
<1>7. ASSUME NEW w \in Workers, UNCHANGED vars, \A v \in Workers \ {w} : proc'[v] = proc[v],
             proc'[w].at # "done" \/ proc[w].effect[1] # "publish",
             proc'[w].at = "done" => proc'[w].effect = proc[w].effect,
             Taken \subseteq Taken',
             \A f \in succeeded' \ succeeded :
               f \in intents /\ (f[1] = "publish" => turns[f[2]].gen \in linked),
             \A g \in requests' \ requests : PublishedTurns(g, Taken) # {}
      PROVE  RequestsInv'
  <2>1. linked' = linked /\ intents' = intents
    BY <1>7 DEF vars
  <2>2. \A v \in Workers : LinkedWhenDone(v)'
    BY <1>2, <1>7, <2>1 DEF LinkedWhenDone
  <2> QED
    BY <1>7, <2>1, <2>2, NotesKept, RequestsKept
<1>8. ASSUME NEW w \in Workers,
             List(w) \/ Claim(w) \/ Execute(w) \/ FindNone(w) \/ Restart(w) \/ Post(w)
      PROVE  RequestsInv'
  <2>1. /\ UNCHANGED vars /\ Taken' = Taken /\ succeeded' = succeeded /\ requests' = requests
    BY <1>8 DEF List, Claim, Execute, FindNone, Restart, Post, rowVars, worldVars, Taken
  <2>2. \/ proc' = [proc EXCEPT ![w].at = "listed", ![w].batch = Pending]
        \/ \E t : proc' = [proc EXCEPT ![w].at = "working", ![w].turn = t]
        \/ \E outcome : proc' = [proc EXCEPT ![w].at = "ended", ![w].outcome = outcome]
        \/ \E phase \in {"idle", "erred"} : proc' = [proc EXCEPT ![w].at = phase]
        \/ proc[w].effect[1] # "publish" /\ proc' = [proc EXCEPT ![w].at = "done"]
    BY <1>8 DEF List, Claim, Execute, FindNone, Restart, Post, Goto
  <2>3. /\ \A v \in Workers \ {w} : proc'[v] = proc[v]
        /\ proc'[w].at # "done" \/ proc[w].effect[1] # "publish"
        /\ proc'[w].at = "done" => proc'[w].effect = proc[w].effect
    BY <2>2 DEF ServiceInv, Shaped, Idle
  <2> QED
    BY <1>7, <2>1, <2>3
<1>9. ASSUME NEW w \in Workers, Lease(w)
      PROVE  RequestsInv'
  <2>1. PICK f \in proc[w].batch :
          /\ proc' = [proc EXCEPT ![w].at = "leased", ![w].effect = f, ![w].batch = @ \ {f}]
          /\ Marked(f, "leased")
    BY <1>9 DEF Lease
  <2>2. /\ \A v \in Workers \ {w} : proc'[v] = proc[v]
        /\ proc'[w].at = "leased"
    BY <2>1 DEF ServiceInv, Shaped, Idle
  <2>3. Taken \subseteq Taken' /\ succeeded' \subseteq succeeded
    BY <2>1 DEF Marked, Taken
  <2>4. UNCHANGED vars /\ requests' = requests
    BY <1>9 DEF Lease, worldVars
  <2> QED
    BY <1>7, <2>2, <2>3, <2>4
<1>10. ASSUME NEW w \in Workers, OpenRequest(w)
       PROVE  RequestsInv'
  <2> DEFINE f == proc[w].effect
  <2>1. /\ UNCHANGED vars /\ Taken' = Taken /\ succeeded' = succeeded
        /\ proc[w].at = "leased" /\ f[1] = "publish"
        /\ requests' \subseteq requests \cup {turns[f[2]].gen}
        /\ Goto(w, "opened") \/ Goto(w, "erred")
    BY <1>10 DEF OpenRequest, rowVars, worldVars, Taken
  <2>2. /\ \A v \in Workers \ {w} : proc'[v] = proc[v]
        /\ proc'[w].at # "done"
    BY <2>1 DEF Goto, ServiceInv, Shaped, Idle
  <2>3. f \in Taken /\ f \in intents
    BY <2>1 DEF OutboxInv, OutboxShaped, Handling
  <2>4. f[2] \in PublishedTurns(turns[f[2]].gen, Taken)
    BY <2>1, <2>3, PublishedTurnStays DEF PublishedTurns
  <2>5. \A g \in requests' \ requests : PublishedTurns(g, Taken) # {}
    BY <2>1, <2>4
  <2> QED
    BY <1>7, <2>1, <2>2, <2>5
<1>11. ASSUME NEW w \in Workers, Finish(w)
       PROVE  RequestsInv'
  <2> DEFINE f == proc[w].effect
             status == IF proc[w].at = "done" THEN "succeeded" ELSE "failed"
  <2>1. /\ UNCHANGED vars /\ requests' = requests
        /\ Marked(f, status) /\ proc[w].at \in {"done", "erred"}
    BY <1>11 DEF Finish, worldVars
  <2>2. /\ \A v \in Workers \ {w} : proc'[v] = proc[v]
        /\ proc'[w].at = "listed"
    BY <1>11 DEF Finish, ServiceInv, Shaped, Idle
  <2>3. f \in Taken /\ f \in intents
    BY <2>1 DEF OutboxInv, OutboxShaped, Handling
  <2>4. Taken \subseteq Taken'
    BY <2>1, <2>3 DEF Marked, Taken
  <2>5. \A e \in succeeded' \ succeeded :
          e \in intents /\ (e[1] = "publish" => turns[e[2]].gen \in linked)
    BY <2>1, <2>3 DEF Marked, RequestsInv, LinkedWhenDone
  <2> QED
    BY <1>7, <2>1, <2>2, <2>4, <2>5
<1>12. ASSUME NEW w \in Workers, Record(w)
       PROVE  RequestsInv'
  <2> DEFINE t == proc[w].effect[2]
             g == turns[t].gen
  <2>1. /\ turns' = turns /\ linked' = linked \cup {g} /\ requests' = requests
        /\ succeeded' = succeeded /\ Taken' = Taken
        /\ <<"publish", t>> \in intents
        /\ \A f \in intents' \ intents : f = <<"mr", g>> \/ f = <<"merge", t>>
    BY <1>12 DEF Record, RecordPublication, worldVars, rowVars, Taken
  <2>2. /\ \A v \in Workers \ {w} : proc'[v] = proc[v]
        /\ proc'[w].effect = proc[w].effect
    BY <1>12 DEF Record, Goto, ServiceInv, Shaped, Idle
  <2>3. \A v \in Workers : LinkedWhenDone(v)'
    BY <1>2, <2>1, <2>2 DEF LinkedWhenDone
  <2>4. intents \subseteq intents'
    BY SessionGrows
  <2>5. NotesFollowLinks'
    <3>1. ASSUME NEW h \in Generations, <<"mr", h>> \in intents'
          PROVE  h \in linked'
      BY <2>1, <3>1 DEF RequestsInv, NotesFollowLinks
    <3>2. ASSUME NEW u \in Turns, <<"merge", u>> \in intents'
          PROVE  turns'[u].gen \in linked' /\ <<"publish", u>> \in intents'
      <4>1. CASE <<"merge", u>> \in intents
        BY <2>1, <2>4, <4>1 DEF RequestsInv, NotesFollowLinks
      <4>2. CASE <<"merge", u>> = <<"merge", t>>
        BY <2>1, <2>4, <4>2
      <4>3. <<"merge", u>> # <<"mr", g>>
        OBVIOUS
      <4> QED
        BY <2>1, <3>2, <4>1, <4>2, <4>3
    <3> QED
      BY <3>1, <3>2 DEF NotesFollowLinks
  <2> QED
    BY <2>1, <2>3, <2>5, RequestsKept
<1> QED
  BY <1>4, <1>5, <1>6, <1>8, <1>9, <1>10, <1>11, <1>12 DEF IssueServiceNext, Run

LEMMA RequestsInitHolds == IssueServiceInit => RequestsInv
<1> SUFFICES ASSUME IssueServiceInit PROVE RequestsInv
  OBVIOUS
<1>1. /\ \A w \in Workers : proc[w].at = "idle"
      /\ requests = {} /\ intents = {} /\ succeeded = {}
  BY DEF IssueServiceInit, Init, Idle
<1> QED
  BY <1>1 DEF RequestsInv, NotesFollowLinks, LinkedWhenDone

\* Wherever workers die between the merge request and its link, and however often the
\* publication is listed, a publication that is called succeeded has left a link, an
\* unlinked request belongs to a publication that is leased or failed, and nothing is
\* said of a request, nor merged, before it is linked.
THEOREM RequestsAccounted == IssueServiceSpec => []RequestsAreAccounted
<1>1. ServiceInv /\ OutboxInv /\ RequestsInv => RequestsAreAccounted
  <2> SUFFICES ASSUME ServiceInv, OutboxInv, RequestsInv, NEW g \in Generations, g \notin linked
               PROVE  /\ PublishedTurns(g, succeeded) = {}
                      /\ posted[<<"mr", g>>] = 0
                      /\ \A t \in Turns : turns[t].gen = g => posted[<<"merge", t>>] = 0
                      /\ g \in requests => PublishedTurns(g, leased \cup failed) # {}
    BY DEF RequestsAreAccounted
  <2>1. PublishedTurns(g, succeeded) = {}
    BY DEF RequestsInv, PublishedTurns
  <2>2. \A f \in Effects \ intents : posted[f] = 0
    BY DEF OutboxInv, OutboxShaped, PaidFor
  <2>3. posted[<<"mr", g>>] = 0
    BY <2>2 DEF RequestsInv, NotesFollowLinks, Effects, GenEffects
  <2>4. \A t \in Turns : turns[t].gen = g => posted[<<"merge", t>>] = 0
    BY <2>2 DEF RequestsInv, NotesFollowLinks, Effects, TurnEffects
  <2>5. g \in requests => PublishedTurns(g, leased \cup failed) # {}
    BY <2>1 DEF RequestsInv, PublishedTurns, Taken
  <2> QED
    BY <2>1, <2>3, <2>4, <2>5
<1>2. IssueServiceSpec => []RequestsInv
  BY RequestsStep, RequestsInitHolds, ServiceInvariance, OutboxInvariance, PTL
     DEF IssueServiceSpec
<1> QED
  BY <1>1, <1>2, ServiceInvariance, OutboxInvariance, PTL
=============================================================================
