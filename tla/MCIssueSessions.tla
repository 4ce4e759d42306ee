-------------------------- MODULE MCIssueSessions ---------------------------
(***************************************************************************)
(* One issue for TLC.  The outcome of a turn may be applied again (a job   *)
(* that is retried or resumed); MaxOutcomes bounds the different outcomes  *)
(* of all turns together.  Its events are those that deliveries of two     *)
(* actors to any registration can be.                                      *)
(***************************************************************************)
EXTENDS IssueSessions, GitLabEvents

CONSTANT MaxOutcomes

OutcomeBound ==
  Cardinality({f \in intents : \E o \in Outcomes : f[1] = Intent[o]}) <= MaxOutcomes

\* A turn that an event has started was asked for: whatever delivery it was, it
\* put the trigger label on the issue or was a new comment, not an edit, a system
\* note, a notice of a merge request or a pipeline or the agent's own comment, and
\* its actor was not one who is known to have no say, which the agent has only
\* where the allow-list names it.
StartsAreDeliberate ==
  \A t \in Turns :
    LET cause == turns[t].cause
    IN  cause.event # 0 /\ cause.kind # "api" =>
          <<cause.kind, cause.authorized>> \notin Undeliberate
=============================================================================
