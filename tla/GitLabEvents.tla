---------------------------- MODULE GitLabEvents ----------------------------
(***************************************************************************)
(* What a delivery of a GitLab webhook asks of the session of an issue:    *)
(* GitLabIssueEventNormalizer.normalize and the decision of the ingestor   *)
(* about its actor, as functions of the delivery and of the registration   *)
(* it came to.  The result is a kind of event of IssueSessions.            *)
(*                                                                         *)
(* Deliveries that are refused, because the signature, the project or the  *)
(* type of the event is not that of the registration, are left out.        *)
(***************************************************************************)
EXTENDS FiniteSets

CONSTANTS
  Actors,
  NoActor   \* a delivery without a user, a registration without a bot

ASSUME ActorAssumption == NoActor \notin Actors

\* actor_allowlist, bot_user_id, and what the membership checker says of an actor
\* compared with minimum_actor_access_level.
Registration ==
  [listed : SUBSET Actors, bot : Actors \cup {NoActor},
   level : [Actors -> {"unknown", "low", "enough"}]]

AgentCommands == {"run", "fix", "cancel", "status"}

\* had, has: whether the issue had the trigger label before, and has it now.
\* linked: whether the merge request is that of a session.
Sender == Actors \cup {NoActor}
IssueHook == [hook : {"issue"}, action : {"open", "update", "close", "reopen", "move"},
              had : BOOLEAN, has : BOOLEAN, actor : Sender]
NoteHook == [hook : {"note"}, action : {"create", "update"}, system : BOOLEAN,
             on : {"issue", "merge request", "commit"}, linked : BOOLEAN,
             text : AgentCommands \cup {"words", ""}, actor : Sender]
MergeRequestHook == [hook : {"merge request"}, linked : BOOLEAN, actor : Sender,
                     action : {"open", "merge", "close", "reopen", "update", "approved"}]
PipelineHook == [hook : {"pipeline"}, status : {"running", "success", "failed"},
                 linked : BOOLEAN, actor : Sender]

Deliveries == IssueHook \cup NoteHook \cup MergeRequestHook \cup PipelineHook

-----------------------------------------------------------------------------
\* Faulty variant of LabelAdded: any change of an issue with the label counts.
LabelPresent(d) == d.hook = "issue" /\ d.action \in {"open", "update"} /\ d.has

LabelAdded(d) ==
  /\ d.hook = "issue" /\ d.has
  /\ d.action = "open" \/ (d.action = "update" /\ ~ d.had)

\* A comment that is a command and nothing else.
Command(d) ==
  IF d.hook = "note" /\ d.action = "create" /\ ~ d.system /\ d.text \in AgentCommands
  THEN d.text ELSE "none"

IssueRelevant(d) == d.hook = "issue" /\ (LabelAdded(d) \/ d.action \in {"close", "reopen"})

\* Neither system notes nor the agent's own comments nor edits start anything.
NoteRelevant(r, d) ==
  /\ d.hook = "note" /\ d.on \in {"issue", "merge request"}
  /\ ~ d.system /\ d.action = "create"
  /\ r.bot # NoActor => d.actor # r.bot

MergeRequestRelevant(d) == d.hook = "merge request" /\ d.action # "open"

PipelineRelevant(d) == d.hook = "pipeline" /\ d.status # "running"

Relevant(r, d) ==
  IssueRelevant(d) \/ NoteRelevant(r, d) \/ MergeRequestRelevant(d) \/ PipelineRelevant(d)

\* _resolve_session: what is not about an issue finds its session by the link.
FindsSession(d) == d.hook = "issue" \/ (d.hook = "note" /\ d.on = "issue") \/ d.linked

\* The kind of event that IssueSessions knows it as.
KindOf(r, d) ==
  IF ~ Relevant(r, d) \/ ~ FindsSession(d) THEN "other" ELSE
  CASE LabelAdded(d)                         -> "label"
    [] Command(d) # "none"                   -> Command(d)
    [] d.hook = "note" /\ d.text = "words"   -> "note"
    [] d.hook = "merge request" /\ d.action \in {"merge", "close"} -> d.action
    [] OTHER                                 -> "other"

\* Where nobody's level is known, ordinary comments and labels are let through.
Provisional(r, d) ==
  /\ r.level[d.actor] = "unknown" /\ r.listed = {}
  /\ Command(d) \in {"none", "status"}

\* _authorize
Authorized(r, d) ==
  \/ d.actor = NoActor /\ LabelAdded(d)
  \/ d.actor \in r.listed
  \/ /\ d.actor \in Actors \ {r.bot}
     /\ r.level[d.actor] = "enough" \/ Provisional(r, d)

-----------------------------------------------------------------------------
(* What a delivery has to be to start a turn, said without the normalizer *)

\* Somebody has put the trigger label on the issue, or somebody other than the agent
\* has written a comment.
Asks(r, d) ==
  \/ d.hook = "issue" /\ d.action \in {"open", "update"} /\ d.has
       /\ (d.action = "update" => ~ d.had)
  \/ d.hook = "note" /\ d.action = "create" /\ ~ d.system /\ d.text # ""
       /\ (r.bot = NoActor \/ d.actor # r.bot)

\* The actor is known to have no say, or is the agent itself.  The allow-list comes
\* before the test for the agent: one that is on it may label issues, not comment.
Excluded(r, a) ==
  /\ a \in Actors \ r.listed
  /\ \/ a = r.bot \/ r.level[a] = "low"
     \/ r.level[a] = "unknown" /\ r.listed # {}

Deliberate(r, d) == Asks(r, d) /\ ~ Excluded(r, d.actor)

\* The kinds, with the decision about the actor, of deliveries that ask nothing.
Undeliberate ==
  UNION {{<<KindOf(r, d), Authorized(r, d)>> : d \in {e \in Deliveries : ~ Deliberate(r, e)}}
           : r \in Registration}
=============================================================================
