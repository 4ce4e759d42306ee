--------------------------- MODULE IssueSessions ----------------------------
(***************************************************************************)
(* The durable session of one GitLab issue: its generations (attempts),    *)
(* the turns of the agent in each of them, and the outbound actions that   *)
(* were decided but not necessarily carried out yet.  Each unit_of_work    *)
(* (BEGIN IMMEDIATE ... COMMIT) is one action: the ingestion of an event,  *)
(* a call of the operator's API, the outcome of a turn, the record of a    *)
(* publication, a reconciliation of a pipeline.                            *)
(*                                                                         *)
(* Which outcome a turn has, when it is applied and how often, and when    *)
(* the outbox gets to a publication, is left open here; IssueService adds  *)
(* the workers.  Sessions of other issues do not touch this one's rows.    *)
(***************************************************************************)
EXTENDS Integers, FiniteSets

CONSTANTS
  MaxGenerations,   \* bound on the generations of the session
  MaxTurns,         \* bound on its turns
  MaxEvents,        \* bound on the distinct GitLab events about the issue
  MaxRemediations,  \* IssueGeneration.max_remediation_attempts
  AutoMerge         \* whether both keys of auto-merge are given

ASSUME SessionAssumption ==
  /\ MaxGenerations \in Nat /\ MaxTurns \in Nat /\ MaxEvents \in Nat
  /\ MaxRemediations \in Nat
  /\ AutoMerge \in BOOLEAN

\* Rows are numbered in the order of their insertion; 0 stands for None.
Generations == 1 .. MaxGenerations
Turns == 1 .. MaxTurns
Events == 1 .. MaxEvents

VARIABLES
  session,    \* the row in issue_sessions
  gens,       \* issue_generations
  turns,      \* issue_turns
  linked,     \* the generations with a row in scm_links
  intents,    \* the outbound actions inserted so far, by effect_key
  inbox,      \* the events that have a row in inbound_events
  forcing,    \* whether create_issue_session is between its transactions
  reviewed    \* what reconcilers (of which there may be any number) have read

vars == <<session, gens, turns, linked, intents, inbox, forcing, reviewed>>

-----------------------------------------------------------------------------
\* No code path sets the status "running" of a generation or a turn.
GenStatuses == {"queued", "waiting_human", "publishing", "awaiting_merge",
                "completed", "failed", "cancelled"}
WaitReasons == {"none", "clarification", "no_safe_change", "budget_exhausted",
                "remediation_exhausted", "mr_closed"}
TurnStatuses == {"queued", "paused_budget", "succeeded", "failed"}

\* The statuses of the partial unique index issue_turns_one_active.
Active == {"queued", "paused_budget"}

Session == [status : GenStatuses \cup {"absent"}, active : Generations \cup {0}]

Gen == [status : GenStatuses \cup {"absent"},
        wait   : WaitReasons,
        cancel : BOOLEAN,                    \* cancel_requested
        tries  : Nat]                        \* remediation_attempts

\* What an event asks for, as the normalizer reports it: the trigger label, the
\* agent commands, a comment without a command, a merge or a close of a merge
\* request, an operator's POST /issue-sessions, or anything that starts nothing.
Kinds == {"label", "run", "fix", "status", "cancel", "note", "merge", "close",
          "api", "other"}

\* Why a turn was started: the event it consumed, with the decision about its
\* actor, or no event but the operator or the reconciler.
Cause == [event : Events, kind : Kinds, authorized : BOOLEAN]
NoEvent == [event |-> 0, kind |-> "other", authorized |-> TRUE]

Turn == [status : TurnStatuses \cup {"absent"},
         gen    : Generations \cup {0},
         cause  : Cause \cup {NoEvent}]

TurnEffects == {"question", "no_safe_change", "budget_exhausted", "failed", "publish",
                "merge"}
GenEffects == {"ack", "mr", "remediation_exhausted"}
Effects == (TurnEffects \X Turns) \cup (GenEffects \X Generations)
             \cup ({"status"} \X Events)

TypeOK == /\ session \in Session
          /\ gens \in [Generations -> Gen]
          /\ turns \in [Turns -> Turn]
          /\ linked \subseteq Generations
          /\ intents \subseteq Effects
          /\ inbox \subseteq Events
          /\ forcing \in BOOLEAN
          /\ reviewed \subseteq (Generations \X {"left", "exhausted"})

NoGen == [status |-> "absent", wait |-> "none", cancel |-> FALSE, tries |-> 0]
NoTurn == [status |-> "absent", gen |-> 0, cause |-> NoEvent]

Init == /\ session = [status |-> "absent", active |-> 0]
        /\ gens = [g \in Generations |-> NoGen]
        /\ turns = [t \in Turns |-> NoTurn]
        /\ linked = {} /\ intents = {} /\ inbox = {}
        /\ forcing = FALSE /\ reviewed = {}

-----------------------------------------------------------------------------
(* Parts of transactions *)

Cur == gens[session.active]

\* active_turn
ActiveTurns(g) == {t \in Turns : turns[t].gen = g /\ turns[t].status \in Active}

NewTurn(t) == /\ turns[t].status = "absent"
              /\ \A u \in Turns : u < t => turns[u].status # "absent"

NewGen(g) == /\ gens[g].status = "absent"
             /\ \A h \in Generations : h < g => gens[h].status # "absent"

\* save_generation and save_session with the same status.
Sets(g, gen) ==
  /\ gens' = [gens EXCEPT ![g] = gen]
  /\ session' = [session EXCEPT !.status = gen.status]

\* Faulty variant of Queues: the session keeps the status it had.
QueuesOnlyGeneration(g, gen) ==
  /\ gens' = [gens EXCEPT ![g] = [gen EXCEPT !.status = "queued"]]
  /\ session' = [session EXCEPT !.active = g]

\* A generation (perhaps a new one) becomes or stays the active one, queued.
Queues(g, gen) ==
  /\ gens' = [gens EXCEPT ![g] = [gen EXCEPT !.status = "queued"]]
  /\ session' = [status |-> "queued", active |-> g]

\* insert_turn and create_turn_job: the job is inserted with the turn.
Starts(g, cause) ==
  \E t \in Turns :
    /\ NewTurn(t)
    /\ turns' = [turns EXCEPT ![t] = [status |-> "queued", gen |-> g, cause |-> cause]]

\* An event that has no row yet.  A redelivery, or another delivery about the
\* same object and action, is answered as a duplicate and changes nothing.
Fresh(e) == e \notin inbox /\ \A f \in Events : f < e => f \in inbox

Recorded(e) == inbox' = inbox \cup {e}

-----------------------------------------------------------------------------
(* ingest *)

ShouldQueueTurn(k, authorized) ==
  /\ authorized
  /\ CASE k = "fix"  -> Cur.status = "awaiting_merge"
       [] k = "run"  -> Cur.status # "awaiting_merge" /\ Cur.wait # "clarification"
       [] k = "note" -> /\ Cur.status = "waiting_human"
                        /\ Cur.wait \notin {"none", "budget_exhausted"}
       [] OTHER      -> FALSE

\* What ingest does with a new event, in the order of its early returns.  Events
\* of a merge request find the session through a link.
Response(k, authorized) ==
  IF session.status = "absent" THEN
    IF k \in {"label", "run", "api"} /\ authorized THEN "start"
    ELSE IF k = "api" THEN "force" ELSE "ignore"
  ELSE IF session.status = "completed" THEN IF k = "api" THEN "force" ELSE "ignore"
  ELSE IF k = "status" THEN "status"
  ELSE IF k = "cancel" THEN IF authorized THEN "cancel" ELSE "ignore"
  ELSE IF k \in {"merge", "close"} THEN IF linked # {} THEN k ELSE "ignore"
  ELSE IF ActiveTurns(session.active) = {} /\ ShouldQueueTurn(k, authorized) THEN "turn"
  ELSE "ignore"

\* The first event of an issue: _start_session.
StartSession(e, k, authorized) ==
  /\ Fresh(e) /\ Response(k, authorized) = "start"
  /\ Recorded(e)
  /\ \E g \in Generations :
       /\ NewGen(g)
       /\ Queues(g, NoGen)
       /\ Starts(g, [event |-> e, kind |-> k, authorized |-> authorized])
       /\ intents' = intents \cup {<<"ack", g>>}
  /\ UNCHANGED <<linked, forcing, reviewed>>

\* Faulty variant of FollowUp: the turn is filed under the generation before.
FollowUpInPlace(e, k, authorized) ==
  /\ Fresh(e) /\ session.status \notin {"absent", "completed"} /\ k = "run" /\ authorized
  /\ Cur.status \in {"failed", "cancelled"} /\ ActiveTurns(session.active) = {}
  /\ Recorded(e)
  /\ \E g \in Generations : NewGen(g) /\ Queues(g, NoGen)
  /\ Starts(session.active, [event |-> e, kind |-> k, authorized |-> authorized])
  /\ UNCHANGED <<linked, intents, forcing, reviewed>>

\* A follow-up: "/agent run" after a failure or a cancellation starts another
\* generation unless this one has a merge request; all else goes on in this one.
Restarts(k) == /\ k = "run" /\ Cur.status \in {"failed", "cancelled"}
               /\ session.active \notin linked

FollowUp(e, k, authorized) ==
  /\ Fresh(e) /\ Response(k, authorized) = "turn"
  /\ Recorded(e)
  /\ \E g \in Generations :
       /\ IF Restarts(k) THEN NewGen(g) /\ Queues(g, NoGen)
          ELSE g = session.active /\ Queues(g, [Cur EXCEPT !.wait = "none"])
       /\ Starts(g, [event |-> e, kind |-> k, authorized |-> authorized])
  /\ UNCHANGED <<linked, intents, forcing, reviewed>>

CommentStatus(e, k, authorized) ==
  /\ Fresh(e) /\ Response(k, authorized) = "status"
  /\ Recorded(e)
  /\ intents' = intents \cup {<<"status", e>>}
  /\ UNCHANGED <<session, gens, turns, linked, forcing, reviewed>>

\* Cancellation leaves the active turn and its job alone.
Cancels == Sets(session.active, [Cur EXCEPT !.status = "cancelled", !.cancel = TRUE])

Cancel(e, k, authorized) ==
  /\ Fresh(e) /\ Response(k, authorized) = "cancel"
  /\ Recorded(e)
  /\ Cancels
  /\ UNCHANGED <<turns, linked, intents, forcing, reviewed>>

CompleteMerge(e, k, authorized) ==
  /\ Fresh(e) /\ Response(k, authorized) = "merge"
  /\ Recorded(e)
  /\ Sets(session.active,
          [Cur EXCEPT !.status = "completed", !.wait = "none", !.cancel = TRUE])
  /\ UNCHANGED <<turns, linked, intents, forcing, reviewed>>

CloseMergeRequest(e, k, authorized) ==
  /\ Fresh(e) /\ Response(k, authorized) = "close"
  /\ Recorded(e)
  /\ Sets(session.active, [Cur EXCEPT !.status = "waiting_human", !.wait = "mr_closed"])
  /\ UNCHANGED <<turns, linked, intents, forcing, reviewed>>

\* An event that is only recorded; create_issue_session goes on from there.
Ignore(e, k, authorized) ==
  /\ Fresh(e) /\ Response(k, authorized) \in {"ignore", "force"}
  /\ Recorded(e)
  /\ forcing' = (forcing \/ Response(k, authorized) = "force")
  /\ UNCHANGED <<session, gens, turns, linked, intents, reviewed>>

Ingest(e, k, authorized) ==
  \/ StartSession(e, k, authorized) \/ FollowUp(e, k, authorized)
  \/ CommentStatus(e, k, authorized) \/ Cancel(e, k, authorized)
  \/ CompleteMerge(e, k, authorized) \/ CloseMergeRequest(e, k, authorized)
  \/ Ignore(e, k, authorized)

-----------------------------------------------------------------------------
(* The operator's API *)

\* create_issue_session, second transaction, if ingest ignored the request: it
\* looks neither at the session's status nor at its active turn.
ForceStart ==
  /\ forcing /\ forcing' = FALSE
  /\ \E g \in Generations : NewGen(g) /\ Queues(g, NoGen) /\ Starts(g, NoEvent)
  /\ UNCHANGED <<linked, intents, inbox, reviewed>>

\* The process that serves the request dies between the transactions.
DropForced ==
  /\ forcing /\ forcing' = FALSE
  /\ UNCHANGED <<session, gens, turns, linked, intents, inbox, reviewed>>

\* Both refuse (400) or leave alone (200) a completed session.
Open == session.status \notin {"absent", "completed"}

CancelByApi ==
  /\ Open
  /\ Cancels
  /\ UNCHANGED <<turns, linked, intents, inbox, forcing, reviewed>>

\* Faulty variant of Retry: it does not look for an active turn (409).
RetryAnyway ==
  /\ Open
  /\ Queues(session.active, [Cur EXCEPT !.wait = "none", !.cancel = FALSE])
  /\ Starts(session.active, NoEvent)
  /\ UNCHANGED <<linked, intents, inbox, forcing, reviewed>>

Retry ==
  /\ Open /\ ActiveTurns(session.active) = {}
  /\ Queues(session.active, [Cur EXCEPT !.wait = "none", !.cancel = FALSE])
  /\ Starts(session.active, NoEvent)
  /\ UNCHANGED <<linked, intents, inbox, forcing, reviewed>>

-----------------------------------------------------------------------------
(* TurnOutcomeApplicator *)

Outcomes == {"needs_human", "no_safe_change", "budget_exhausted", "failed",
             "changes_ready"}

\* Faulty variant of GenAfter: a turn that is paused counts as queued.
GenAfterRequeued == [needs_human |-> "waiting_human", no_safe_change |-> "waiting_human",
                     budget_exhausted |-> "queued", failed |-> "failed",
                     changes_ready |-> "publishing"]

\* Faulty variant of Intent: a template is taken for another.
IntentSwapped == [needs_human |-> "no_safe_change", no_safe_change |-> "question",
                  budget_exhausted |-> "budget_exhausted", failed |-> "failed",
                  changes_ready |-> "publish"]

\* What an outcome does to the turn and the generation, and what it intends.  The
\* code gives each question an effect of its own; here they share the turn's.
TurnAfter == [needs_human |-> "succeeded", no_safe_change |-> "succeeded",
              budget_exhausted |-> "paused_budget", failed |-> "failed",
              changes_ready |-> "succeeded"]
GenAfter == [needs_human |-> "waiting_human", no_safe_change |-> "waiting_human",
             budget_exhausted |-> "waiting_human", failed |-> "failed",
             changes_ready |-> "publishing"]
Intent == [needs_human |-> "question", no_safe_change |-> "no_safe_change",
           budget_exhausted |-> "budget_exhausted", failed |-> "failed",
           changes_ready |-> "publish"]
WaitAfter(outcome, wait) ==
  CASE outcome = "needs_human" -> "clarification"
    [] outcome \in {"no_safe_change", "budget_exhausted"} -> outcome
    [] OTHER -> wait

\* The outcome of a turn, whatever has become of its generation in between.  The
\* unique index refuses a second active turn, and the transaction is rolled back.
Apply(t, outcome) ==
  LET g == turns[t].gen
  IN  /\ turns[t].status # "absent"
      /\ TurnAfter[outcome] \in Active => ActiveTurns(g) \subseteq {t}
      /\ turns' = [turns EXCEPT ![t].status = TurnAfter[outcome]]
      /\ Sets(g, [gens[g] EXCEPT !.status = GenAfter[outcome],
                                 !.wait = WaitAfter(outcome, @)])
      /\ intents' = intents \cup {<<Intent[outcome], t>>}
      /\ UNCHANGED <<linked, inbox, forcing, reviewed>>

-----------------------------------------------------------------------------
(* OutboxProcessor and IssueSessionReconciler, which the service does not call *)

\* Faulty variant of RecordPublication: the link is left to a later transaction.
RecordPublicationUnlinked(t) ==
  LET g == turns[t].gen
  IN  /\ <<"publish", t>> \in intents
      /\ Sets(g, [gens[g] EXCEPT !.status = "awaiting_merge"])
      /\ intents' = intents \cup {<<"mr", g>>}
      /\ UNCHANGED <<turns, linked, inbox, forcing, reviewed>>

\* The last transaction of _publish_changes, once the merge request is there.
RecordPublication(t) ==
  LET g == turns[t].gen
  IN  /\ <<"publish", t>> \in intents
      /\ linked' = linked \cup {g}
      /\ Sets(g, [gens[g] EXCEPT !.status = "awaiting_merge"])
      /\ \E merge \in SUBSET (IF AutoMerge THEN {<<"merge", t>>} ELSE {}) :
           intents' = intents \cup {<<"mr", g>>} \cup merge
      /\ UNCHANGED <<turns, inbox, forcing, reviewed>>

\* maybe_schedule_pipeline_remediation reads the generation and decides ...
Review(g) ==
  LET verdict == IF gens[g].tries >= MaxRemediations THEN "exhausted" ELSE "left"
  IN  /\ gens[g].status = "awaiting_merge" /\ <<g, verdict>> \notin reviewed
      /\ reviewed' = reviewed \cup {<<g, verdict>>}
      /\ UNCHANGED <<session, gens, turns, linked, intents, inbox, forcing>>

\* ... and later, in a transaction that does not look at the status or at the
\* attempts again, gives up ...
GiveUp(g) ==
  /\ <<g, "exhausted">> \in reviewed
  /\ Sets(g, [gens[g] EXCEPT !.status = "waiting_human", !.wait = "remediation_exhausted"])
  /\ intents' = intents \cup {<<"remediation_exhausted", g>>}
  /\ UNCHANGED <<turns, linked, inbox, forcing, reviewed>>

\* ... or starts a turn, unless there is nothing to remedy, or an active turn.
Remediate(g) ==
  /\ <<g, "left">> \in reviewed
  /\ ActiveTurns(g) = {}
  /\ Sets(g, [gens[g] EXCEPT !.status = "queued", !.tries = @ + 1])
  /\ Starts(g, NoEvent)
  /\ UNCHANGED <<linked, intents, inbox, forcing, reviewed>>

-----------------------------------------------------------------------------
Handle == \/ \E e \in Events, k \in Kinds, authorized \in BOOLEAN :
               Ingest(e, k, authorized)
          \/ ForceStart \/ DropForced \/ CancelByApi \/ Retry

Reconcile == \E g \in Generations :
               Review(g) \/ GiveUp(g) \/ Remediate(g)

Work == \E t \in Turns : \/ \E outcome \in Outcomes : Apply(t, outcome)
                         \/ RecordPublication(t)

Next == Handle \/ Reconcile \/ Work

Spec == Init /\ [][Next]_vars

-----------------------------------------------------------------------------
(* Properties *)

\* A status is never a promise without something that keeps it.  A generation
\* that says "queued" has a queued turn, whose job the workers will find, ...
QueuedHasTurn ==
  \A g \in Generations : gens[g].status = "queued" =>
    \E t \in Turns : turns[t].gen = g /\ turns[t].status = "queued"

\* ... one that is being published has the publication among its actions, ...
Told(kind, g) == \E t \in Turns : turns[t].gen = g /\ <<kind, t>> \in intents

PublishingHasIntent ==
  \A g \in Generations : gens[g].status = "publishing" => Told("publish", g)

\* ... one that awaits a merge is linked to its merge request, ...
AwaitingHasLink ==
  \A g \in Generations : gens[g].status = "awaiting_merge" => g \in linked

\* ... and one that waits for a human has told the human why; a pause on the
\* budget (TurnOutcomeApplicator) has a paused turn as well.
PausedTurn(g) == \E t \in Turns : turns[t].gen = g /\ turns[t].status = "paused_budget"

Explained(g) ==
  CASE gens[g].wait = "clarification"         -> Told("question", g)
    [] gens[g].wait = "no_safe_change"        -> Told("no_safe_change", g)
    [] gens[g].wait = "budget_exhausted"      -> Told("budget_exhausted", g) /\ PausedTurn(g)
    [] gens[g].wait = "remediation_exhausted" -> <<"remediation_exhausted", g>> \in intents
    [] gens[g].wait = "mr_closed"             -> linked # {}
    [] OTHER                                  -> FALSE

WaitingIsExplained ==
  \A g \in Generations : gens[g].status = "waiting_human" => Explained(g)

\* The statuses other than "queued", which OutboxProcessor and ingest rely on.
StatusIsKept == PublishingHasIntent /\ AwaitingHasLink /\ WaitingIsExplained

\* At most one turn of a generation is queued or paused, through retries,
\* reconciliations and outcomes that are applied late or twice.
OneActiveTurn ==
  \A t, u \in Turns :
    /\ turns[t].status \in Active /\ turns[u].status \in Active
    /\ turns[t].gen = turns[u].gen
    => t = u

\* The status of the session, by which sessions are listed, is the status of one
\* of its generations: of the only one while there is only one.
SessionFollowsAGeneration ==
  session.status # "absent" => \E g \in Generations : gens[g].status = session.status

\* New turns belong to the newest generation, unless a reconciler starts them.
TurnsStartInNewestGeneration ==
  [][\A t \in Turns :
       turns[t].status = "absent" /\ turns'[t].status # "absent"
         => \/ \E g \in Generations : Remediate(g)
            \/ \A g \in Generations : gens'[g].status # "absent" => g <= turns'[t].gen]_vars

=============================================================================
