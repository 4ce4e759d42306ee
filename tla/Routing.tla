------------------------------ MODULE Routing -------------------------------
(***************************************************************************)
(* How a run finds its workflow and its models: classify_task scores the   *)
(* task, RoutingPolicy resolves the workflow and the strength each role    *)
(* needs, ModelRegistry.select picks a model, and _provider_for_role lists *)
(* the models that may stand in for it.  The words of a task are counted   *)
(* outside; its kind is a record of those counts.                          *)
(***************************************************************************)
EXTENDS Integers, Sequences, SequencesExt, FiniteSetsExt

CONSTANTS
  Registry,          \* for each registered model: strength, speed, cost, capabilities
  Order,             \* the names of all models, in order
  Preferred,         \* for each role, its preferred models in order
  MinimumStrength,   \* for each role, the strength the policy asks of it
  Thresholds         \* the scores from which a task is medium and large

Roles == {"fast", "planning", "implementation", "review"}
Levels == {"small", "medium", "large"}

ASSUME RoutingAssumption ==
  /\ Order \in Seq(Range(Order)) /\ DOMAIN Registry \subseteq Range(Order)
  /\ \A m \in DOMAIN Registry :
       Registry[m].strength \in 1 .. 5 /\ Registry[m].cost \in 1 .. 5 /\ Registry[m].speed \in 1 .. 5
  /\ DOMAIN Preferred = Roles /\ \A r \in Roles : Preferred[r] \in Seq(Range(Order))
  /\ MinimumStrength \in [Roles -> 1 .. 5]
  /\ Thresholds.medium \in 0 .. 10 /\ Thresholds.large \in Thresholds.medium .. 10

-----------------------------------------------------------------------------
(* classify_task *)

\* The sum of the signals of a task: small, feature and large keywords found,
\* whether a feature keyword is more than add, build or create, words and paths.
Signals(task) ==
  LET small   == IF task.small = 0 THEN 0 ELSE Max({-4, -2 * task.small})
      feature == IF task.feature = 0 THEN 0 ELSE Min({5, 3 + 2 * (task.feature - 1)})
      large   == Min({9, 3 * task.large})
      words   == IF task.words >= 60 THEN 2 ELSE IF task.words >= 25 THEN 1 ELSE 0
      paths   == IF task.paths >= 2 THEN 1 ELSE 0
  IN  small + feature + large + words + paths

\* A large keyword, or else an explicit feature keyword, lifts the score to the
\* threshold of its level.
Floor(task) ==
  IF task.large > 0 THEN Thresholds.large
  ELSE IF task.feature > 0 /\ task.strong THEN Thresholds.medium ELSE 0

Score(task) == Min({10, Max({0, Floor(task), Signals(task)})})

LevelOf(task) ==
  IF Score(task) >= Thresholds.large THEN "large"
  ELSE IF Score(task) >= Thresholds.medium THEN "medium" ELSE "small"

\* choose_workflow: the request, then the policy, then the classifier.
ChooseWorkflow(requested, configured, level) ==
  LET recommended == IF level = "small" THEN "fast" ELSE "feature"
      wanted == IF requested # "none" THEN requested ELSE configured
  IN  IF wanted = "auto" THEN recommended ELSE wanted

-----------------------------------------------------------------------------
(* ModelRegistry.select *)

CapabilityOf(role) ==
  CASE role \in {"fast", "implementation"} -> "coding"
    [] role = "planning" -> "planning"
    [] role = "review" -> "review"

StrategyOf(role) == IF role \in {"fast", "implementation"} THEN "efficient" ELSE "strongest"

\* min_strength: a large task needs a model of strength 3 to implement it.
StrengthFor(role, level) ==
  IF role = "implementation" /\ level = "large"
  THEN Max({MinimumStrength[role], 3}) ELSE MinimumStrength[role]

Supports(m, capability) == {"*", capability} \cap Registry[m].capabilities # {}

Qualifies(m, role, level) ==
  /\ m \in DOMAIN Registry
  /\ Supports(m, CapabilityOf(role)) /\ Supports(m, "tool_use")
  /\ Registry[m].strength >= StrengthFor(role, level)

Place(m) == CHOOSE i \in DOMAIN Order : Order[i] = m

\* What a strategy minimizes, the first difference deciding.
Rank(m, strategy) ==
  LET p == Registry[m]
  IN  IF strategy = "strongest" THEN <<- p.strength, p.cost, - p.speed, Place(m)>>
                                ELSE <<p.cost, - p.speed, - p.strength, Place(m)>>

Before(a, b) ==
  \E i \in DOMAIN a : a[i] < b[i] /\ \A j \in 1 .. (i - 1) : a[j] = b[j]

\* The preferred models that _select_preferred accepts, ...
Suitable(role, level) == {m \in Range(Preferred[role]) : Qualifies(m, role, level)}

\* ... and where each was named first; any other model comes before them all.
Position(role, level, m) ==
  IF m \in Suitable(role, level)
  THEN Min({i \in DOMAIN Preferred[role] : Preferred[role][i] = m}) ELSE 0

\* Preferences that name no suitable model are an error, not a free choice.
Selectable(role, level) ==
  IF Preferred[role] # <<>> THEN Suitable(role, level) # {}
  ELSE \E m \in DOMAIN Registry : Qualifies(m, role, level)

Candidates(role, level) == {m \in DOMAIN Registry : Qualifies(m, role, level)}

Select(role, level) ==
  IF Preferred[role] # <<>>
  THEN CHOOSE m \in Suitable(role, level) : \A n \in Suitable(role, level) :
         Position(role, level, m) <= Position(role, level, n)
  ELSE CHOOSE m \in Candidates(role, level) : \A n \in Candidates(role, level) \ {m} :
         Before(Rank(m, StrategyOf(role)), Rank(n, StrategyOf(role)))

\* Faulty variant of ProviderChain: every preferred model stands in, also one
\* that does not qualify for the role.
ProviderChainUnchecked(role, level, bound) ==
  {bound} \cup {m \in Range(Preferred[role]) :
                  \E i, j \in DOMAIN Preferred[role] :
                    i < j /\ Preferred[role][i] = bound /\ Preferred[role][j] = m}

\* _provider_for_role: the bound model and the suitable ones that come after it, a
\* set whose order is that of their positions.
ProviderChain(role, level, bound) ==
  {bound} \cup {m \in Suitable(role, level) :
                  Position(role, level, m) > Position(role, level, bound)}

\* The models of a chain from one of them on.
Onward(role, level, chain, m) ==
  {n \in chain : Position(role, level, n) >= Position(role, level, m)}
=============================================================================
