----------------------------- MODULE MCAgentRun -----------------------------
(***************************************************************************)
(* A session for TLC: a small, a medium and a large task, three models of  *)
(* which none may implement the large task, a manifest that can be used,   *)
(* one that leaves a command to planning and one that denies a control.    *)
(***************************************************************************)
EXTENDS AgentRun

Profile(strength, cost, capabilities) ==
  [strength |-> strength, speed |-> 3, cost |-> cost, capabilities |-> capabilities]

MCOrder == <<"cheap", "plain", "strong">>
MCRegistry ==
  [cheap  |-> Profile(2, 1, {"coding", "tool_use"}),
   plain  |-> Profile(2, 3, {"*"}),
   strong |-> Profile(5, 5, {"planning", "review", "tool_use"})]
MCPreferred ==
  [fast |-> <<"strong", "cheap", "plain">>, planning |-> <<>>,
   implementation |-> <<"cheap", "plain">>, review |-> <<"strong", "cheap", "plain">>]
MCMinimumStrength == [r \in Roles |-> 1]
MCThresholds == [medium |-> 3, large |-> 6]

MCTasks ==
  {[small |-> 1, feature |-> 0, strong |-> FALSE, large |-> 0, words |-> 10, paths |-> 0],
   [small |-> 2, feature |-> 1, strong |-> TRUE, large |-> 0, words |-> 30, paths |-> 0],
   [small |-> 3, feature |-> 0, strong |-> FALSE, large |-> 1, words |-> 59, paths |-> 2]}

MCCapabilities ==
  [read_file |-> {"read_fs"}, apply_patch |-> {"write_fs"}, run_command |-> {"execute"},
   run_tests |-> {"execute"}]
MCFixedIn == [run_tests |-> {"implementation", "review", "planning"}]

Manifest(deny, phases) == [hosted |-> TRUE, deny |-> deny, phases |-> phases]
MCConfigs ==
  {Manifest({}, [planning |-> {"read_file"}, execute |-> DOMAIN MCCapabilities]),
   Manifest({}, [review |-> {"read_file"}]),
   Manifest({"finish"}, [planning |-> {"read_file"}])}

MCReplies ==
  [execute        |-> {<<"apply_patch", "approved">>, <<"fail_turn">>, <<"needs_human">>},
   planning       |-> {<<"run_tests", "approved">>},
   implementation |-> {<<"apply_patch", "approved">>},
   review         |-> {<<"approved">>, <<"apply_patch", "changes_requested">>, <<"needs_human">>}]
=============================================================================
