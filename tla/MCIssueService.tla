--------------------------- MODULE MCIssueService ---------------------------
(***************************************************************************)
(* One issue with its workers, for TLC.  What made a turn start plays no   *)
(* part in what becomes of it, so the operator starts them all; events may *)
(* come in too, as far as MaxEvents allows.                                *)
(***************************************************************************)
EXTENDS IssueService, TLC

StartedByOperator == \A t \in Turns : turns[t].cause = NoEvent

WorkerSymmetry == Permutations(Workers)
=============================================================================
