------------------------- MODULE GitLabEventsProofs -------------------------
(***************************************************************************)
(* A turn of an issue is only started by somebody who asked for it and may *)
(* ask, for any actors and registrations and whatever deliveries arrive:   *)
(* the sessions start turns for authorized events of five kinds only       *)
(* (CauseKinds), and of the deliveries that the normalizer and the         *)
(* ingestor turn into these, each is deliberate (StartingIsDeliberate).    *)
(***************************************************************************)
EXTENDS MCIssueSessions, IssueSessionsProofs

-----------------------------------------------------------------------------
(* The functions of a delivery *)

\* The kinds of event that start a turn, but for a request of an operator.
Starting == {"label", "run", "fix", "note"}

\* A delivery that is taken for one of these kinds puts the label on the issue or is a
\* new comment of somebody other than the agent.
LEMMA StartingAsks ==
  ASSUME NEW r \in Registration, NEW d \in Deliveries, KindOf(r, d) \in Starting
  PROVE  Asks(r, d)
<1>1. Relevant(r, d) /\ FindsSession(d)
  BY DEF KindOf, Starting
<1>2. CASE LabelAdded(d)
  BY <1>2 DEF LabelAdded, Asks
<1>3. CASE Command(d) # "none"
  <2>1. d.hook = "note" /\ d.action = "create" /\ ~ d.system /\ d.text # ""
    BY <1>3 DEF Command, AgentCommands
  <2>2. NoteRelevant(r, d)
    BY <1>1, <2>1 DEF Relevant, IssueRelevant, LabelAdded, MergeRequestRelevant,
                      PipelineRelevant
  <2> QED
    BY <2>1, <2>2 DEF NoteRelevant, Asks
<1>4. CASE ~ LabelAdded(d) /\ Command(d) = "none"
  <2>1. d.hook = "note" /\ d.text = "words"
    BY <1>1, <1>4 DEF KindOf, Starting
  <2>2. NoteRelevant(r, d)
    BY <1>1, <2>1 DEF Relevant, IssueRelevant, LabelAdded, MergeRequestRelevant,
                      PipelineRelevant
  <2> QED
    BY <2>1, <2>2 DEF NoteRelevant, Asks
<1> QED
  BY <1>2, <1>3, <1>4

\* An actor whose delivery is let through is not one who is known to have no say.
LEMMA AuthorizedHaveSay ==
  ASSUME NEW r \in Registration, NEW d \in Deliveries, Authorized(r, d)
  PROVE  ~ Excluded(r, d.actor)
<1>1. CASE d.actor = NoActor \/ d.actor \in r.listed
  BY <1>1, ActorAssumption DEF Excluded
<1>2. CASE /\ d.actor \in Actors \ {r.bot}
           /\ r.level[d.actor] = "enough" \/ Provisional(r, d)
  BY <1>2 DEF Excluded, Provisional
<1> QED
  BY <1>1, <1>2 DEF Authorized

\* No delivery of a starting kind that is let through asks for nothing.
LEMMA StartingIsDeliberate ==
  ASSUME NEW k \in Starting
  PROVE  <<k, TRUE>> \notin Undeliberate
<1> SUFFICES ASSUME <<k, TRUE>> \in Undeliberate
             PROVE  FALSE
  OBVIOUS
<1>1. PICK r \in Registration, d \in Deliveries :
        ~ Deliberate(r, d) /\ <<k, TRUE>> = <<KindOf(r, d), Authorized(r, d)>>
  BY DEF Undeliberate
<1>2. KindOf(r, d) \in Starting /\ Authorized(r, d)
  BY <1>1
<1> QED
  BY <1>1, <1>2, StartingAsks, AuthorizedHaveSay DEF Deliberate

-----------------------------------------------------------------------------
(* What starts a turn *)

\* The kinds of the events that have started turns.
CauseKinds ==
  \A t \in Turns : turns[t].cause.event # 0 =>
    turns[t].cause.kind \in Starting \cup {"api"}

LEMMA StartKeepsCauses ==
  ASSUME IInv, CauseKinds, NEW g, NEW cause, Starts(g, cause),
         cause.event # 0 => cause.kind \in Starting \cup {"api"}
  PROVE  CauseKinds'
<1>1. turns \in [Turns -> Turn]
  BY DEF IInv, TypeOK
<1>2. PICK t \in Turns :
        turns' = [turns EXCEPT ![t] = [status |-> "queued", gen |-> g, cause |-> cause]]
  BY DEF Starts
<1>3. \A u \in Turns : turns'[u].cause = turns[u].cause \/ turns'[u].cause = cause
  BY <1>1, <1>2
<1> QED
  BY <1>3 DEF CauseKinds

LEMMA CausesKept ==
  ASSUME IInv, CauseKinds, Next
  PROVE  CauseKinds'
<1>1. ASSUME NEW e \in Events, NEW k \in Kinds, NEW authorized \in BOOLEAN,
             Ingest(e, k, authorized)
      PROVE  CauseKinds'
  <2> DEFINE cause == [event |-> e, kind |-> k, authorized |-> authorized]
  <2>1. CASE StartSession(e, k, authorized)
    <3>1. cause.kind \in Starting \cup {"api"}
      BY <2>1 DEF StartSession, Response, Starting
    <3>2. \E g \in Generations : Starts(g, cause)
      BY <2>1 DEF StartSession
    <3> QED
      BY <3>1, <3>2, StartKeepsCauses
  <2>2. CASE FollowUp(e, k, authorized)
    <3>1. cause.kind \in Starting \cup {"api"}
      BY <2>2 DEF FollowUp, Response, ShouldQueueTurn, Starting
    <3>2. \E g \in Generations : Starts(g, cause)
      BY <2>2 DEF FollowUp
    <3> QED
      BY <3>1, <3>2, StartKeepsCauses
  <2>3. CASE \/ CommentStatus(e, k, authorized) \/ Cancel(e, k, authorized)
             \/ CompleteMerge(e, k, authorized) \/ CloseMergeRequest(e, k, authorized)
             \/ Ignore(e, k, authorized)
    BY <2>3 DEF CommentStatus, Cancel, CompleteMerge, CloseMergeRequest, Ignore, CauseKinds
  <2> QED
    BY <1>1, <2>1, <2>2, <2>3 DEF Ingest
<1>2. NoEvent.event = 0
  BY DEF NoEvent
<1>3. CASE ForceStart \/ Retry
  BY <1>2, <1>3, StartKeepsCauses DEF ForceStart, Retry
<1>4. CASE DropForced \/ CancelByApi
  BY <1>4 DEF DropForced, CancelByApi, CauseKinds
<1>5. ASSUME NEW g \in Generations, Review(g) \/ GiveUp(g) \/ Remediate(g)
      PROVE  CauseKinds'
  <2>1. CASE Remediate(g)
    BY <1>2, <2>1, StartKeepsCauses DEF Remediate
  <2> QED
    BY <1>5, <2>1 DEF Review, GiveUp, CauseKinds
<1>6. ASSUME NEW t \in Turns, NEW outcome \in Outcomes, Apply(t, outcome)
      PROVE  CauseKinds'
  <2>1. turns \in [Turns -> Turn]
    BY DEF IInv, TypeOK
  <2>2. turns' = [turns EXCEPT ![t].status = TurnAfter[outcome]]
    BY <1>6 DEF Apply
  <2>3. \A u \in Turns : turns'[u].cause = turns[u].cause
    BY <2>1, <2>2 DEF Turn
  <2> QED
    BY <2>3 DEF CauseKinds
<1>7. ASSUME NEW t \in Turns, RecordPublication(t)
      PROVE  CauseKinds'
  BY <1>7 DEF RecordPublication, CauseKinds
<1> QED
  BY <1>1, <1>3, <1>4, <1>5, <1>6, <1>7 DEF Next, Handle, Reconcile, Work

\* Turns are started by events of these kinds, by an operator or by the reconciler.
THEOREM CausesAreKnown == Spec => []CauseKinds
<1>1. Init => CauseKinds
  BY DEF Init, NoTurn, NoEvent, CauseKinds
<1>2. IInv /\ CauseKinds /\ [Next]_vars => CauseKinds'
  <2>1. CauseKinds /\ UNCHANGED vars => CauseKinds'
    BY DEF CauseKinds, vars
  <2> QED
    BY <2>1, CausesKept
<1> QED
  BY <1>1, <1>2, Invariance, PTL DEF Spec

\* Whatever deliveries arrive, a turn that an event has started was asked for by somebody
\* who is not known to have no say: by a comment that is not the agent's own, or by a
\* label, which is the agent's only where the allow-list names it.
THEOREM TurnsAreDeliberate == Spec => []StartsAreDeliberate
<1>1. IInv /\ CauseKinds => StartsAreDeliberate
  <2> SUFFICES ASSUME IInv, CauseKinds, NEW t \in Turns, turns[t].cause.event # 0,
                      turns[t].cause.kind # "api"
               PROVE  <<turns[t].cause.kind, turns[t].cause.authorized>> \notin Undeliberate
    BY DEF StartsAreDeliberate
  <2>1. turns[t].cause.kind \in Starting
    BY DEF CauseKinds
  <2>2. turns[t].cause.authorized = TRUE
    <3>1. turns[t].cause.authorized
      BY DEF IInv, StartsAreAuthorized
    <3>2. turns[t].cause \in Cause \cup {NoEvent}
      BY DEF IInv, TypeOK, Turn
    <3>3. turns[t].cause.authorized \in BOOLEAN
      BY <3>2 DEF Cause, NoEvent
    <3> QED
      BY <3>1, <3>3
  <2> QED
    BY <2>1, <2>2, StartingIsDeliberate
<1> QED
  BY <1>1, Invariance, CausesAreKnown, PTL

=============================================================================
