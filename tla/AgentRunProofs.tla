--------------------------- MODULE AgentRunProofs ---------------------------
(***************************************************************************)
(* The safety of one run of the agent, for any models, preferences, tools, *)
(* manifests, replies, budgets and numbers of starts.                      *)
(*                                                                         *)
(* The process works on a session in memory that is ahead of the one in    *)
(* the file, and may die at any step.  So the invariant says first how far *)
(* ahead it may be (InMemory): not at all, by the status of the last run,  *)
(* or by one fresh run.  The other parts are about the file.               *)
(*                                                                         *)
(* Before it, what the selection of models guarantees, for any registry    *)
(* and any preferences: CHOOSE always has something to choose, whoever is  *)
(* selected or stands in qualifies, and the first suitable preference is   *)
(* taken.                                                                  *)
(***************************************************************************)
EXTENDS AgentRun, FiniteSetTheorems, WellFoundedInduction, TLAPS

-----------------------------------------------------------------------------
(* Least elements *)

LEMMA LessIsWellFounded ==
  \E Less : IsWellFoundedOn(Less, Nat) /\ \A k, n \in Nat : k < n => <<k, n>> \in Less
<1>1. OpToRel(<, Nat) = {p \in Nat \X Nat : p[1] < p[2]}
  BY DEF OpToRel
<1>2. IsWellFoundedOn({p \in Nat \X Nat : p[1] < p[2]}, Nat)
  BY <1>1, NatLessThanWellFounded
<1>3. \A k, n \in Nat : k < n => <<k, n>> \in {p \in Nat \X Nat : p[1] < p[2]}
  OBVIOUS
<1> QED
  BY <1>2, <1>3

LEMMA LeastNatural ==
  ASSUME NEW T \in SUBSET Nat, T # {}
  PROVE  \E n \in T : \A k \in T : n <= k
<1>1. PICK Less : /\ IsWellFoundedOn(Less, Nat)
                  /\ \A k, n \in Nat : k < n => <<k, n>> \in Less
  BY LessIsWellFounded
<1>2. IsWellFoundedOn(Less, Nat)
  BY <1>1
<1>3. PICK n \in T : \A k \in T : ~ (<<k, n>> \in Less)
  BY <1>2, WFMin
<1>4. \A k \in T : ~ (k < n)
  BY <1>1, <1>3
<1> QED
  BY <1>4

LEMMA LeastMeasure ==
  ASSUME NEW C, C # {}, NEW f \in [C -> Nat]
  PROVE  \E c \in C : \A d \in C : f[c] <= f[d]
<1> DEFINE T == {f[c] : c \in C}
<1>1. T # {} /\ T \in SUBSET Nat
  OBVIOUS
<1>2. PICK n \in T : \A k \in T : n <= k
  BY <1>1, LeastNatural
<1> QED
  BY <1>2

LEMMA LeastOf ==
  ASSUME NEW T \in SUBSET Nat, T # {}
  PROVE  Min(T) \in T /\ \A k \in T : Min(T) <= k
BY LeastNatural DEF Min

-----------------------------------------------------------------------------
(* The free choice *)

\* The first of four measures in which c and d differ decides for c.
Decides(f, g, h, p, c, d) ==
  \/ f[c] < f[d]
  \/ f[c] = f[d] /\ g[c] < g[d]
  \/ f[c] = f[d] /\ g[c] = g[d] /\ h[c] < h[d]
  \/ f[c] = f[d] /\ g[c] = g[d] /\ h[c] = h[d] /\ p[c] < p[d]

\* Among things that differ in the last of four measures, one comes before all others
\* when the first difference decides.
LEMMA LexicographicLeast ==
  ASSUME NEW C, C # {},
         NEW f \in [C -> Nat], NEW g \in [C -> Nat], NEW h \in [C -> Nat], NEW p \in [C -> Nat],
         \A c, d \in C : p[c] = p[d] => c = d
  PROVE  \E c \in C : \A d \in C \ {c} : Decides(f, g, h, p, c, d)
<1>1. ASSUME NEW D \in SUBSET C, D # {}, NEW m \in [C -> Nat]
      PROVE  \E c \in D : \A d \in D : m[c] <= m[d]
  <2> DEFINE r == [c \in D |-> m[c]]
  <2>1. r \in [D -> Nat]
    BY <1>1
  <2>2. \E c \in D : \A d \in D : r[c] <= r[d]
    BY <1>1, <2>1, LeastMeasure
  <2> QED
    BY <2>2
<1>2. PICK f0 \in C : \A d \in C : f[f0] <= f[d]
  BY <1>1
<1>3. PICK D \in SUBSET C : D = {c \in C : f[c] = f[f0]}
  OBVIOUS
<1>4. PICK g0 \in D : \A d \in D : g[g0] <= g[d]
  BY <1>1, <1>3
<1>5. PICK E \in SUBSET C : E = {c \in D : g[c] = g[g0]}
  OBVIOUS
<1>6. PICK h0 \in E : \A d \in E : h[h0] <= h[d]
  BY <1>1, <1>5
<1>7. PICK F \in SUBSET C : F = {c \in E : h[c] = h[h0]}
  OBVIOUS
<1>8. PICK c \in F : \A d \in F : p[c] <= p[d]
  BY <1>1, <1>7
<1>9. c \in C /\ f[c] = f[f0] /\ g[c] = g[g0] /\ h[c] = h[h0]
  BY <1>3, <1>5, <1>7, <1>8
<1>10. ASSUME NEW d \in C, d # c
       PROVE  Decides(f, g, h, p, c, d)
  <2>1. f[c] = f[d] => g[c] <= g[d] /\ d \in D
    BY <1>3, <1>4, <1>9
  <2>2. f[c] = f[d] /\ g[c] = g[d] => h[c] <= h[d] /\ d \in E
    BY <1>5, <1>6, <1>9, <2>1
  <2>3. f[c] = f[d] /\ g[c] = g[d] /\ h[c] = h[d] => p[c] <= p[d]
    BY <1>7, <1>8, <1>9, <2>2
  <2>4. f[c] <= f[d] /\ p[c] # p[d]
    BY <1>2, <1>9, <1>10
  <2> QED
    BY <1>9, <2>1, <2>2, <2>3, <2>4 DEF Decides
<1> QED
  BY <1>9, <1>10

LEMMA FirstDifference ==
  ASSUME NEW a, NEW b, DOMAIN a = 1 .. 4,
         \/ a[1] < b[1]
         \/ a[1] = b[1] /\ a[2] < b[2]
         \/ a[1] = b[1] /\ a[2] = b[2] /\ a[3] < b[3]
         \/ a[1] = b[1] /\ a[2] = b[2] /\ a[3] = b[3] /\ a[4] < b[4]
  PROVE  Before(a, b)
<1>1. /\ \A j \in 1 .. (1 - 1) : a[j] = b[j]
      /\ \A j \in 1 .. (2 - 1) : j = 1
      /\ \A j \in 1 .. (3 - 1) : j = 1 \/ j = 2
      /\ \A j \in 1 .. (4 - 1) : j = 1 \/ j = 2 \/ j = 3
  OBVIOUS
<1>2. \E i \in 1 .. 4 : a[i] < b[i] /\ \A j \in 1 .. (i - 1) : a[j] = b[j]
  <2>1. CASE a[1] < b[1]
    BY <1>1, <2>1
  <2>2. CASE a[1] = b[1] /\ a[2] < b[2]
    BY <1>1, <2>2
  <2>3. CASE a[1] = b[1] /\ a[2] = b[2] /\ a[3] < b[3]
    BY <1>1, <2>3
  <2>4. CASE a[1] = b[1] /\ a[2] = b[2] /\ a[3] = b[3] /\ a[4] < b[4]
    BY <1>1, <2>4
  <2> QED
    BY <2>1, <2>2, <2>3, <2>4
<1> QED
  BY <1>2 DEF Before

LEMMA Places ==
  ASSUME NEW m \in DOMAIN Registry
  PROVE  Place(m) \in Nat /\ Order[Place(m)] = m
<1>1. \E i \in DOMAIN Order : Order[i] = m
  BY RoutingAssumption DEF Range
<1>2. DOMAIN Order \subseteq Nat
  BY RoutingAssumption
<1> QED
  BY <1>1, <1>2 DEF Place

\* The strategy decides between any two models, so a choice is always there.
LEMMA SomeoneIsFirst ==
  ASSUME NEW C \in SUBSET DOMAIN Registry, C # {}, NEW strategy
  PROVE  \E m \in C : \A n \in C \ {m} : Before(Rank(m, strategy), Rank(n, strategy))
<1>1. \A m \in C : /\ Registry[m].strength \in 1 .. 5 /\ Registry[m].cost \in 1 .. 5
                   /\ Registry[m].speed \in 1 .. 5 /\ Place(m) \in Nat
  BY RoutingAssumption, Places
<1>2. PICK p \in [C -> Nat] : \A m \in C : p[m] = Place(m)
  <2>1. [m \in C |-> Place(m)] \in [C -> Nat]
    BY <1>1
  <2> QED
    BY <2>1
<1>3. PICK weak \in [C -> Nat], cost \in [C -> Nat], slow \in [C -> Nat] :
        \A m \in C : /\ weak[m] = 5 - Registry[m].strength
                     /\ cost[m] = Registry[m].cost
                     /\ slow[m] = 5 - Registry[m].speed
  <2>1. /\ [m \in C |-> 5 - Registry[m].strength] \in [C -> Nat]
        /\ [m \in C |-> Registry[m].cost] \in [C -> Nat]
        /\ [m \in C |-> 5 - Registry[m].speed] \in [C -> Nat]
    BY <1>1
  <2> QED
    BY <2>1
<1>4. \A m, n \in C : p[m] = p[n] => m = n
  BY <1>2, Places
<1>5. CASE strategy = "strongest"
  <2>1. PICK m \in C : \A n \in C \ {m} : Decides(weak, cost, slow, p, m, n)
    BY <1>4, LexicographicLeast
  <2>2. \A k \in C : /\ DOMAIN Rank(k, strategy) = 1 .. 4
                    /\ Rank(k, strategy)[1] = - Registry[k].strength
                    /\ Rank(k, strategy)[2] = Registry[k].cost
                    /\ Rank(k, strategy)[3] = - Registry[k].speed
                    /\ Rank(k, strategy)[4] = Place(k)
    BY <1>5 DEF Rank
  <2>3. ASSUME NEW n \in C \ {m}
        PROVE  Before(Rank(m, strategy), Rank(n, strategy))
    BY <1>1, <1>2, <1>3, <2>1, <2>2, FirstDifference DEF Decides
  <2> QED
    BY <2>3
<1>6. CASE strategy # "strongest"
  <2>1. PICK m \in C : \A n \in C \ {m} : Decides(cost, slow, weak, p, m, n)
    BY <1>4, LexicographicLeast
  <2>2. \A k \in C : /\ DOMAIN Rank(k, strategy) = 1 .. 4
                    /\ Rank(k, strategy)[1] = Registry[k].cost
                    /\ Rank(k, strategy)[2] = - Registry[k].speed
                    /\ Rank(k, strategy)[3] = - Registry[k].strength
                    /\ Rank(k, strategy)[4] = Place(k)
    BY <1>6 DEF Rank
  <2>3. ASSUME NEW n \in C \ {m}
        PROVE  Before(Rank(m, strategy), Rank(n, strategy))
    BY <1>1, <1>2, <1>3, <2>1, <2>2, FirstDifference DEF Decides
  <2> QED
    BY <2>3
<1> QED
  BY <1>5, <1>6

-----------------------------------------------------------------------------
(* Preferences *)

LEMMA Positions ==
  ASSUME NEW role \in Roles, NEW level, NEW m \in Suitable(role, level)
  PROVE  /\ Position(role, level, m) \in DOMAIN Preferred[role]
         /\ Position(role, level, m) \in Nat \ {0}
         /\ Preferred[role][Position(role, level, m)] = m
<1> DEFINE S == {i \in DOMAIN Preferred[role] : Preferred[role][i] = m}
<1>1. DOMAIN Preferred[role] \subseteq Nat \ {0}
  BY RoutingAssumption
<1>2. S # {} /\ S \in SUBSET Nat
  BY <1>1 DEF Suitable, Range
<1>3. Min(S) \in S
  BY <1>2, LeastOf
<1>4. Position(role, level, m) = Min(S)
  BY DEF Position
<1> QED
  BY <1>1, <1>3, <1>4

LEMMA PositionType ==
  ASSUME NEW role \in Roles, NEW level, NEW m
  PROVE  /\ Position(role, level, m) \in Nat
         /\ Position(role, level, m) = 0 <=> m \notin Suitable(role, level)
<1>1. CASE m \in Suitable(role, level)
  BY <1>1, Positions
<1>2. CASE m \notin Suitable(role, level)
  BY <1>2 DEF Position
<1> QED
  BY <1>1, <1>2

\* The model that is selected for a role qualifies for it; if the role has preferences
\* it is the first suitable one.
THEOREM SelectionQualifies ==
  ASSUME NEW role \in Roles, NEW level, Selectable(role, level)
  PROVE  /\ Qualifies(Select(role, level), role, level)
         /\ Preferred[role] # <<>> =>
              /\ Select(role, level) \in Suitable(role, level)
              /\ \A m \in Suitable(role, level) :
                   Position(role, level, Select(role, level)) <= Position(role, level, m)
<1>1. CASE Preferred[role] # <<>>
  <2>1. Suitable(role, level) # {}
    BY <1>1 DEF Selectable
  <2>2. PICK f \in [Suitable(role, level) -> Nat] :
          \A m \in Suitable(role, level) : f[m] = Position(role, level, m)
    <3>1. [m \in Suitable(role, level) |-> Position(role, level, m)]
            \in [Suitable(role, level) -> Nat]
      BY PositionType
    <3> QED
      BY <3>1
  <2>3. \E m \in Suitable(role, level) : \A n \in Suitable(role, level) : f[m] <= f[n]
    BY <2>1, LeastMeasure
  <2>4. \E m \in Suitable(role, level) : \A n \in Suitable(role, level) :
          Position(role, level, m) <= Position(role, level, n)
    BY <2>2, <2>3
  <2>5. /\ Select(role, level) \in Suitable(role, level)
        /\ \A m \in Suitable(role, level) :
             Position(role, level, Select(role, level)) <= Position(role, level, m)
    BY <1>1, <2>4 DEF Select
  <2> QED
    BY <2>5 DEF Suitable
<1>2. CASE Preferred[role] = <<>>
  <2>1. Candidates(role, level) # {} /\ Candidates(role, level) \in SUBSET DOMAIN Registry
    BY <1>2 DEF Selectable, Candidates
  <2>2. \E m \in Candidates(role, level) : \A n \in Candidates(role, level) \ {m} :
          Before(Rank(m, StrategyOf(role)), Rank(n, StrategyOf(role)))
    BY <2>1, SomeoneIsFirst
  <2>3. Select(role, level) \in Candidates(role, level)
    BY <1>2, <2>2 DEF Select
  <2> QED
    BY <1>2, <2>3 DEF Candidates
<1> QED
  BY <1>1, <1>2

\* Whoever stands in for a model that qualifies does so, too, and comes after it.
THEOREM StandInsQualify ==
  ASSUME NEW role \in Roles, NEW level, NEW bound, Qualifies(bound, role, level),
         NEW m \in ProviderChain(role, level, bound)
  PROVE  /\ Qualifies(m, role, level)
         /\ m # bound => Position(role, level, m) > Position(role, level, bound)
BY DEF ProviderChain, Suitable

-----------------------------------------------------------------------------
(* The inductive invariant *)

Acting == {"agent", "tool", "ok", "error", "fatal"}
Running == {"tool", "ok", "error", "fatal"}
FeaturePhases == Phases \ {"execute"}

Said == {"none", "text"} \cup Finishes
Outcome == {"none", "budget_exhausted", "failed"} \cup ControlTools

RunRecord ==
  [phase : Phases, model : DOMAIN Registry, status : Statuses, steps : Nat,
   calls : Seq(Calls), inflight : BOOLEAN, says : Said, outcome : Outcome]

SessionRecord ==
  [workflow : {"none", "fast", "feature"}, phase : {"none"} \cup Phases,
   level : {"none"} \cup Levels, status : Statuses, runs : Seq(RunRecord),
   cycles : 0 .. MaxCycles, implemented : BOOLEAN,
   bound : [Roles -> {"none"} \cup DOMAIN Registry]]

\* The phases of a session are those of its workflow, whose roles have models.
WellFormed(s) ==
  /\ s.workflow = "none" => s.runs = <<>> /\ s.cycles = 0
  /\ s.workflow = "fast" =>
       s.phase = "execute" /\ \A i \in DOMAIN s.runs : s.runs[i].phase = "execute"
  /\ s.workflow = "feature" =>
       s.phase \in FeaturePhases /\ \A i \in DOMAIN s.runs : s.runs[i].phase \in FeaturePhases
  /\ s.workflow # "none" => \A r \in RolesIn(s.workflow) : s.bound[r] \in DOMAIN Registry

TypeInv ==
  /\ session \in SessionRecord /\ WellFormed(session)
  /\ stored \in SessionRecord /\ WellFormed(stored)
  /\ pc \in {"out", "enter", "loop", "agent", "tool", "ok", "error", "fatal", "decide"}
  /\ chain \subseteq DOMAIN Registry
  /\ pc # "out" => Sound(config)

\* The session in memory is that of the file, but while an agent is about to answer
\* its run may have been taken up again, or begun, and not saved yet; and a completed
\* run that is found there is decided upon as it is.
TakenUp ==
  /\ stored.runs # <<>>
  /\ session.runs = [stored.runs EXCEPT ![Len(stored.runs)].status = "active"]

Begun ==
  /\ session.workflow = "fast" => stored.runs = <<>>
  /\ session.runs = Append(stored.runs, NewRun(session.phase, session.bound[RoleOf(session.phase)]))

InMemory ==
  /\ session.workflow = stored.workflow /\ session.phase = stored.phase
  /\ session.level = stored.level /\ session.cycles = stored.cycles
  /\ session.implemented = stored.implemented /\ session.bound = stored.bound
  /\ pc \notin {"agent", "decide"} => session = stored
  /\ pc = "decide" => session.runs = stored.runs
  /\ pc = "decide" /\ Run.status # "completed" => session = stored
  /\ pc = "agent" => TakenUp \/ Begun

\* What the places of the process say of the run at hand.
AtHand ==
  /\ pc \in Acting \cup {"loop", "decide"} => session.workflow # "none"
  /\ pc \in Acting \cup {"decide"} =>
       /\ session.runs # <<>> /\ Run.phase = session.phase
       /\ session.workflow = "feature" => Run.model = session.bound[session.phase]
                                          /\ session.status = "active"
  /\ pc \in Acting => Run.status = "active"
  /\ pc \in Running => Run.inflight /\ Run.calls # <<>>
  /\ pc \in Acting \cup {"loop", "decide"} /\ session.workflow = "feature" =>
       stored.status \notin Terminal /\ session.status \notin Terminal

CoordinatorInv == TypeInv /\ InMemory /\ AtHand

\* A model that may answer for a role: it qualifies, and is preferred if any is.
Fits(m, role, level) ==
  /\ Qualifies(m, role, level)
  /\ Preferred[role] # <<>> => m \in Suitable(role, level)

\* Bindings and answers fit, and a fast run has moved along the chain of its binding.
Fitted(s) ==
  /\ \A i \in DOMAIN s.runs : Fits(s.runs[i].model, RoleOf(s.runs[i].phase), s.level)
  /\ s.workflow # "none" => \A r \in RolesIn(s.workflow) : Fits(s.bound[r], r, s.level)
  /\ s.workflow = "fast" /\ s.runs # <<>> =>
       Last(s.runs).model \in ProviderChain("fast", s.level, s.bound["fast"])

ModelsInv ==
  /\ Fitted(session) /\ Fitted(stored)
  /\ pc \in Acting =>
       chain \subseteq ProviderChain(RoleOf(session.phase), session.level, Run.model)

\* A call whose work was done belongs to an earlier run or reply, or has been answered,
\* or is the one that the file marks as in flight.
Past(c) ==
  \/ c.run < Len(stored.runs)
  \/ /\ c.run = Len(stored.runs)
     /\ \/ c.reply < Last(stored.runs).steps
        \/ c.reply = Last(stored.runs).steps /\ c.left > Len(Last(stored.runs).calls)

Interrupts(c) ==
  /\ stored.runs # <<>> /\ Last(stored.runs).inflight
  /\ c.run = Len(stored.runs) /\ c.reply = Last(stored.runs).steps
  /\ c.left = Len(Last(stored.runs).calls)

CallRecord == [run : Nat, reply : Nat, left : Nat, tool : DOMAIN Capabilities]

CallsInv ==
  /\ ran \subseteq CallRecord
  /\ \A c \in ran : /\ c.run \in DOMAIN stored.runs
                    /\ Past(c) \/ (Interrupts(c) /\ pc # "tool")

\* How many runs are completed when the current phase starts.
DueCount(s) ==
  CASE s.phase = "planning"       -> 0
    [] s.phase = "implementation" -> 1 + 2 * s.cycles
    [] s.phase = "review"         -> 2 + 2 * s.cycles

InOrder(s) ==
  \A i \in Completed(s) : s.runs[i].phase = Due(CompletedBefore(s, i))

\* The current phase is not completed, or its completed run is the last one.
Counted(s) ==
  \/ Cardinality(Completed(s)) = DueCount(s)
  \/ /\ Cardinality(Completed(s)) = DueCount(s) + 1
     /\ Last(s.runs).status = "completed"
     /\ Last(s.runs).model = s.bound[s.phase]

PhasesInv ==
  stored.workflow = "feature" =>
    /\ stored.phase = "planning" => stored.cycles = 0
    /\ InOrder(stored) /\ Counted(stored)
    /\ pc \in Acting => /\ Completed(session) = Completed(stored)
                        /\ Cardinality(Completed(stored)) = DueCount(stored)
    /\ pc = "decide" /\ Run.status = "completed" =>
         Cardinality(Completed(stored)) = DueCount(stored) + 1
    /\ stored.status = "completed" =>
         /\ Cardinality(Completed(stored)) = DueCount(stored) + 1
         /\ stored.phase = "review" /\ Last(stored.runs).says = "approved"

\* Where steps are kept for the review of the first implementation.
Keeps ==
  /\ session.workflow = "feature" /\ session.phase = "implementation" /\ session.cycles = 0
  /\ budget - before > Reserve

\* A fast session has one run at most.  An agent may take no more steps than the budget
\* leaves, and in the first implementation none of those that are kept.
BudgetInv ==
  /\ budget \in Nat /\ limit \in Nat /\ before \in Nat
  /\ stored.workflow = "fast" => Len(stored.runs) <= 1
  /\ pc \in Acting => limit - Run.steps <= budget - Steps(session)
  /\ pc \in Acting /\ Keeps => limit - Run.steps <= budget - Reserve - Steps(session)
  /\ pc \in Acting \cup {"decide"} /\ Keeps => Steps(session) <= budget - Reserve

-----------------------------------------------------------------------------
(* Sessions and runs *)

LEMMA RunType ==
  ASSUME NEW s \in SessionRecord, s.runs # <<>>
  PROVE  /\ Last(s.runs) \in RunRecord
         /\ Len(s.runs) \in DOMAIN s.runs /\ DOMAIN s.runs = 1 .. Len(s.runs)
         /\ Len(s.runs) \in Nat \ {0}
BY DEF SessionRecord, Last

LEMMA WithRunType ==
  ASSUME NEW s \in SessionRecord, s.runs # <<>>, NEW run \in RunRecord
  PROVE  /\ WithRun(s, run) \in SessionRecord
         /\ WithRun(s, run) = [s EXCEPT !.runs = [s.runs EXCEPT ![Len(s.runs)] = run]]
         /\ DOMAIN WithRun(s, run).runs = DOMAIN s.runs
         /\ Len(WithRun(s, run).runs) = Len(s.runs)
         /\ Last(WithRun(s, run).runs) = run
         /\ \A i \in DOMAIN s.runs : i # Len(s.runs) => WithRun(s, run).runs[i] = s.runs[i]
<1>1. WithRun(s, run) = [s EXCEPT !.runs = [s.runs EXCEPT ![Len(s.runs)] = run]]
  BY DEF WithRun, SessionRecord
<1>2. [s.runs EXCEPT ![Len(s.runs)] = run] \in Seq(RunRecord)
  BY DEF SessionRecord
<1>3. WithRun(s, run).runs = [s.runs EXCEPT ![Len(s.runs)] = run]
  BY <1>1 DEF SessionRecord
<1>4. Len(WithRun(s, run).runs) = Len(s.runs)
  BY <1>2, <1>3 DEF SessionRecord
<1>5. Last(WithRun(s, run).runs) = run
  BY <1>3, <1>4, RunType DEF Last, SessionRecord
<1> QED
  BY <1>1, <1>2, <1>3, <1>4, <1>5 DEF SessionRecord

\* What a save of the run at hand makes of the session.
Saved(run) ==
  /\ stored' = session' /\ session' \in SessionRecord
  /\ session'.runs = [session.runs EXCEPT ![Len(session.runs)] = Persist(run)]
  /\ session'.runs # <<>> /\ Len(session'.runs) = Len(session.runs)
  /\ DOMAIN session'.runs = DOMAIN session.runs
  /\ Last(session'.runs) = Persist(run)
  /\ \A i \in DOMAIN session.runs : i # Len(session.runs) => session'.runs[i] = session.runs[i]
  /\ session'.workflow = session.workflow /\ session'.phase = session.phase
  /\ session'.level = session.level /\ session'.cycles = session.cycles
  /\ session'.implemented = session.implemented
  /\ IF session.workflow = "fast"
     THEN session'.bound = session.bound /\ session'.status = run.status
     ELSE /\ session'.bound = [session.bound EXCEPT ![RoleOf(run.phase)] = run.model]
          /\ session'.status = session.status

LEMMA SaveIsSaved ==
  ASSUME session \in SessionRecord, session.runs # <<>>, NEW run \in RunRecord, Save(run)
  PROVE  Saved(run)
<1> DEFINE w == WithRun(session, Persist(run))
<1>1. Persist(run) \in RunRecord
  BY DEF Persist, RunRecord, Outcome
<1>2. /\ w \in SessionRecord
      /\ w = [session EXCEPT !.runs = [session.runs EXCEPT ![Len(session.runs)] = Persist(run)]]
      /\ DOMAIN w.runs = DOMAIN session.runs
      /\ Len(w.runs) = Len(session.runs)
      /\ Last(w.runs) = Persist(run)
      /\ \A i \in DOMAIN session.runs : i # Len(session.runs) => w.runs[i] = session.runs[i]
  BY <1>1, WithRunType
<1>3. w.runs # <<>>
  BY <1>2, RunType DEF SessionRecord
<1> HIDE DEF w
<1>4. session' = stored'
      /\ session' = IF session.workflow = "fast"
                    THEN [w EXCEPT !.status = run.status]
                    ELSE [w EXCEPT !.bound[RoleOf(run.phase)] = run.model]
  BY DEF Save, Store, w
<1>5. CASE session.workflow = "fast"
  <2>1. session' = [w EXCEPT !.status = run.status]
    BY <1>4, <1>5
  <2>2. session' \in SessionRecord /\ session'.runs = w.runs
    BY <1>2, <2>1 DEF SessionRecord, RunRecord
  <2>3. /\ session'.runs = w.runs /\ session'.workflow = session.workflow
        /\ session'.phase = session.phase /\ session'.level = session.level
        /\ session'.cycles = session.cycles /\ session'.implemented = session.implemented
        /\ session'.bound = session.bound /\ session'.status = run.status
    BY <1>2, <2>1 DEF SessionRecord
  <2>4. w.runs = [session.runs EXCEPT ![Len(session.runs)] = Persist(run)]
    BY <1>2 DEF SessionRecord
  <2> QED
    BY <1>2, <1>3, <1>4, <1>5, <2>2, <2>3, <2>4 DEF Saved
<1>6. CASE session.workflow # "fast"
  <2>1. session' = [w EXCEPT !.bound[RoleOf(run.phase)] = run.model]
    BY <1>4, <1>6
  <2>2. run.model \in DOMAIN Registry
    BY DEF RunRecord
  <2>3. session' \in SessionRecord /\ session'.runs = w.runs
    BY <1>2, <2>1, <2>2 DEF SessionRecord
  <2>4. /\ session'.runs = w.runs /\ session'.workflow = session.workflow
        /\ session'.phase = session.phase /\ session'.level = session.level
        /\ session'.cycles = session.cycles /\ session'.implemented = session.implemented
        /\ session'.bound = [session.bound EXCEPT ![RoleOf(run.phase)] = run.model]
        /\ session'.status = session.status
    BY <1>2, <2>1 DEF SessionRecord
  <2>5. w.runs = [session.runs EXCEPT ![Len(session.runs)] = Persist(run)]
    BY <1>2 DEF SessionRecord
  <2> QED
    BY <1>2, <1>3, <1>4, <1>6, <2>3, <2>4, <2>5 DEF Saved
<1> QED
  BY <1>5, <1>6

-----------------------------------------------------------------------------
(* The steps of a session *)

\* g holds the sums of the first n values of f.
Sums(f, n, g) == g = [k \in 0 .. n |-> IF k = 0 THEN 0 ELSE g[k - 1] + f[k]]

Total(f, n) == (CHOOSE g : Sums(f, n, g))[n]

HasSums(f, n) == \E g \in [0 .. n -> Nat] : Sums(f, n, g)

LEMMA SumsGoOn ==
  ASSUME NEW N \in Nat, NEW f \in [1 .. N -> Nat], NEW m \in 0 .. N, m # N, HasSums(f, m)
  PROVE  HasSums(f, m + 1)
<1>1. PICK g \in [0 .. m -> Nat] : Sums(f, m, g)
  BY DEF HasSums
<1> DEFINE h == [k \in 0 .. (m + 1) |-> IF k = m + 1 THEN g[m] + f[m + 1] ELSE g[k]]
<1>2. h \in [0 .. (m + 1) -> Nat]
  BY <1>1
<1>3. \A k \in 0 .. m : g[k] = IF k = 0 THEN 0 ELSE g[k - 1] + f[k]
  BY <1>1 DEF Sums
<1>4. h[m + 1] = h[m] + f[m + 1] /\ m + 1 # 0 /\ (m + 1) - 1 = m
  OBVIOUS
<1>5. \A k \in 0 .. m : h[k] = IF k = 0 THEN 0 ELSE h[k - 1] + f[k]
  BY <1>3
<1>7. h = [k \in 0 .. (m + 1) |-> h[k]]
  OBVIOUS
<1> HIDE DEF h
<1>6. \A k \in 0 .. (m + 1) : h[k] = IF k = 0 THEN 0 ELSE h[k - 1] + f[k]
  <2>1. \A k \in 0 .. (m + 1) : k = m + 1 \/ k \in 0 .. m
    OBVIOUS
  <2>2. h[m + 1] = IF m + 1 = 0 THEN 0 ELSE h[(m + 1) - 1] + f[m + 1]
    BY <1>4
  <2> QED
    BY <1>5, <2>1, <2>2
<1>8. Sums(f, m + 1, h)
  BY <1>6, <1>7 DEF Sums
<1> QED
  BY <1>2, <1>8 DEF HasSums

LEMMA SumsExist ==
  ASSUME NEW N \in Nat, NEW f \in [1 .. N -> Nat]
  PROVE  \A n \in 0 .. N : HasSums(f, n)
<1> DEFINE Bad == {m \in 0 .. N : ~ HasSums(f, m)}
<1>1. HasSums(f, 0)
  <2>1. Sums(f, 0, [k \in 0 .. 0 |-> 0])
    BY DEF Sums
  <2>2. [k \in 0 .. 0 |-> 0] \in [0 .. 0 -> Nat]
    OBVIOUS
  <2> QED
    BY <2>1, <2>2 DEF HasSums
<1>2. SUFFICES ASSUME Bad # {} PROVE FALSE
  OBVIOUS
<1>3. Bad \in SUBSET Nat
  OBVIOUS
<1>4. PICK m \in Bad : \A k \in Bad : m <= k
  BY <1>2, <1>3, LeastNatural
<1>5. m # 0 /\ m \in 0 .. N /\ ~ HasSums(f, m)
  BY <1>1
<1>6. m - 1 \in 0 .. N /\ HasSums(f, m - 1)
  BY <1>4, <1>5
<1>7. HasSums(f, (m - 1) + 1)
  BY <1>5, <1>6, SumsGoOn
<1> QED
  BY <1>5, <1>7

Agree(f, e, n) == \A k \in 1 .. n : f[k] = e[k]

\* The sums of values that agree on 1 .. n agree.
LEMMA SumsAgree ==
  ASSUME NEW n \in Nat, NEW m \in Nat, n <= m, NEW f, NEW e, Agree(f, e, n),
         NEW g, NEW h, Sums(f, n, g), Sums(e, m, h)
  PROVE  \A k \in 0 .. n : g[k] = h[k]
<1> DEFINE Bad == {k \in 0 .. n : g[k] # h[k]}
<1>1. SUFFICES ASSUME Bad # {} PROVE FALSE
  OBVIOUS
<1>2. Bad \in SUBSET Nat
  OBVIOUS
<1>3. PICK k \in Bad : \A j \in Bad : k <= j
  BY <1>1, <1>2, LeastNatural
<1>4. /\ g[k] = IF k = 0 THEN 0 ELSE g[k - 1] + f[k]
      /\ h[k] = IF k = 0 THEN 0 ELSE h[k - 1] + e[k]
  BY <1>3 DEF Sums
<1>5. k # 0 => g[k - 1] = h[k - 1] /\ f[k] = e[k]
  BY <1>3 DEF Agree
<1> QED
  BY <1>3, <1>4, <1>5

LEMMA TotalIsSum ==
  ASSUME NEW n \in Nat, NEW f \in [1 .. n -> Nat]
  PROVE  Total(f, n) \in Nat /\ \E g : Sums(f, n, g) /\ Total(f, n) = g[n]
<1>1. PICK g \in [0 .. n -> Nat] : Sums(f, n, g)
  <2>1. \A k \in 0 .. n : HasSums(f, k)
    BY SumsExist
  <2>2. n \in 0 .. n
    OBVIOUS
  <2> QED
    BY <2>1, <2>2 DEF HasSums
<1>2. Sums(f, n, CHOOSE h : Sums(f, n, h))
  BY <1>1
<1>3. Total(f, n) = g[n]
  BY <1>1, <1>2, SumsAgree DEF Total, Agree
<1> QED
  BY <1>1, <1>3

LEMMA TotalGrows ==
  ASSUME NEW m \in Nat, NEW n \in Nat, n = m + 1,
         NEW f \in [1 .. n -> Nat], NEW e \in [1 .. m -> Nat], Agree(e, f, m)
  PROVE  Total(f, n) = Total(e, m) + f[n]
<1>1. m <= n /\ m \in 0 .. m /\ n \in 0 .. n /\ n # 0 /\ n - 1 = m
  OBVIOUS
<1>2. PICK g : Sums(f, n, g) /\ Total(f, n) = g[n]
  BY TotalIsSum
<1>3. PICK h : Sums(e, m, h) /\ Total(e, m) = h[m]
  BY TotalIsSum
<1>4. \A k \in 0 .. m : h[k] = g[k]
  BY <1>1, <1>2, <1>3, SumsAgree
<1>5. g[n] = IF n = 0 THEN 0 ELSE g[n - 1] + f[n]
  BY <1>1, <1>2 DEF Sums
<1> QED
  BY <1>1, <1>2, <1>3, <1>4, <1>5

StepsIn(runs) == [k \in 1 .. Len(runs) |-> runs[k].steps]

LEMMA StepsAreTotal ==
  ASSUME NEW s \in SessionRecord
  PROVE  /\ Len(s.runs) \in Nat /\ StepsIn(s.runs) \in [1 .. Len(s.runs) -> Nat]
         /\ Steps(s) = Total(StepsIn(s.runs), Len(s.runs))
<1> DEFINE f == StepsIn(s.runs)
           n == Len(s.runs)
           T(h) == [k \in 0 .. n |-> IF k = 0 THEN 0 ELSE h[k - 1] + s.runs[k].steps]
<1>1. n \in Nat /\ f \in [1 .. n -> Nat]
  <2>1. s.runs \in Seq(RunRecord)
    BY DEF SessionRecord
  <2>2. \A k \in 1 .. n : s.runs[k] \in RunRecord
    BY <2>1
  <2>3. \A r \in RunRecord : r.steps \in Nat
    BY DEF RunRecord
  <2> QED
    BY <2>1, <2>2, <2>3 DEF StepsIn
<1>2. \A k \in 0 .. n : k # 0 => f[k] = s.runs[k].steps
  BY <1>1 DEF StepsIn
<1>3. \A h : [k \in 0 .. n |-> IF k = 0 THEN 0 ELSE h[k - 1] + f[k]] = T(h)
  BY <1>2
<1>4. \A h : Sums(f, n, h) <=> h = T(h)
  BY <1>3 DEF Sums
<1>5. Steps(s) = (CHOOSE h : h = T(h))[n]
  BY DEF Steps
<1> HIDE DEF T
<1>6. (CHOOSE h : Sums(f, n, h)) = (CHOOSE h : h = T(h))
  BY <1>4
<1> QED
  BY <1>1, <1>5, <1>6 DEF Total

LEMMA StepsAreNatural ==
  ASSUME NEW s \in SessionRecord
  PROVE  Steps(s) \in Nat
<1> DEFINE n == Len(s.runs)
<1>1. n \in Nat /\ StepsIn(s.runs) \in [1 .. n -> Nat] /\ Steps(s) = Total(StepsIn(s.runs), n)
  BY StepsAreTotal
<1>2. Total(StepsIn(s.runs), n) \in Nat
  BY <1>1, TotalIsSum
<1> QED
  BY <1>1, <1>2

LEMMA StepsAdded ==
  ASSUME NEW s \in SessionRecord, NEW t \in SessionRecord,
         Len(s.runs) = Len(t.runs) + 1,
         \A i \in DOMAIN t.runs : t.runs[i].steps = s.runs[i].steps
  PROVE  Steps(s) = Steps(t) + Last(s.runs).steps
<1> DEFINE m == Len(t.runs)
           n == Len(s.runs)
           f == StepsIn(s.runs)
           e == StepsIn(t.runs)
<1>1. m \in Nat /\ n \in Nat /\ n = m + 1 /\ DOMAIN t.runs = 1 .. m
  BY DEF SessionRecord
<1>2. /\ f \in [1 .. n -> Nat] /\ Steps(s) = Total(f, n)
      /\ e \in [1 .. m -> Nat] /\ Steps(t) = Total(e, m)
  BY StepsAreTotal
<1>3. \A k \in 1 .. n : f[k] = s.runs[k].steps
  BY DEF StepsIn
<1>4. \A k \in 1 .. m : e[k] = t.runs[k].steps
  BY DEF StepsIn
<1>5. n \in 1 .. n /\ \A k \in 1 .. m : k \in 1 .. n
  BY <1>1
<1>6. f[n] = Last(s.runs).steps /\ Agree(e, f, m)
  BY <1>1, <1>3, <1>4, <1>5 DEF Last, Agree
<1> HIDE DEF m, n, f, e
<1>7. Total(f, n) = Total(e, m) + f[n]
  BY <1>1, <1>2, <1>6, TotalGrows
<1> QED
  BY <1>2, <1>6, <1>7

\* The session without its last run.
Prefix(s) == [s EXCEPT !.runs = SubSeq(s.runs, 1, Len(s.runs) - 1)]

LEMMA PrefixType ==
  ASSUME NEW s \in SessionRecord, s.runs # <<>>
  PROVE  /\ Prefix(s) \in SessionRecord
         /\ Len(s.runs) = Len(Prefix(s).runs) + 1
         /\ \A i \in DOMAIN Prefix(s).runs : i \in DOMAIN s.runs /\ Prefix(s).runs[i] = s.runs[i]
<1>1. s.runs \in Seq(RunRecord) /\ Len(s.runs) \in Nat \ {0}
  BY RunType DEF SessionRecord
<1> DEFINE p == SubSeq(s.runs, 1, Len(s.runs) - 1)
<1>2. /\ p \in Seq(RunRecord) /\ Len(p) = Len(s.runs) - 1 /\ DOMAIN p = 1 .. (Len(s.runs) - 1)
      /\ \A i \in 1 .. (Len(s.runs) - 1) : p[i] = s.runs[i]
  BY <1>1
<1>3. Prefix(s) \in SessionRecord /\ Prefix(s).runs = p
  BY <1>2 DEF Prefix, SessionRecord
<1>4. \A i \in 1 .. (Len(s.runs) - 1) : i \in DOMAIN s.runs
  BY <1>1
<1> QED
  BY <1>1, <1>2, <1>3, <1>4

\* Two sessions whose runs took the same steps but for the last one.
LEMMA StepsDiffer ==
  ASSUME NEW s \in SessionRecord, NEW t \in SessionRecord,
         s.runs # <<>>, Len(s.runs) = Len(t.runs),
         \A i \in DOMAIN s.runs : i # Len(s.runs) => s.runs[i].steps = t.runs[i].steps
  PROVE  /\ Steps(s) \in Nat /\ Steps(t) \in Nat
         /\ Steps(s) - Last(s.runs).steps = Steps(t) - Last(t.runs).steps
         /\ Last(s.runs).steps <= Steps(s)
<1>1. t.runs # <<>>
  BY RunType DEF SessionRecord
<1> DEFINE p == Prefix(s)
<1>2. /\ p \in SessionRecord /\ Len(s.runs) = Len(p.runs) + 1
      /\ \A i \in DOMAIN p.runs : i \in DOMAIN s.runs /\ p.runs[i] = s.runs[i]
  BY PrefixType
<1>3. \A i \in DOMAIN p.runs : i # Len(s.runs)
  BY <1>2 DEF SessionRecord
<1>4. /\ Steps(s) = Steps(p) + Last(s.runs).steps
      /\ Steps(t) = Steps(p) + Last(t.runs).steps
  BY <1>2, <1>3, StepsAdded
<1>5. Last(s.runs).steps \in Nat /\ Last(t.runs).steps \in Nat
  BY <1>1, RunType DEF RunRecord
<1>6. Steps(p) \in Nat
  BY <1>2, StepsAreNatural
<1> QED
  BY <1>4, <1>5, <1>6

LEMMA StepsOfSame ==
  ASSUME NEW s \in SessionRecord, NEW t \in SessionRecord, s.runs = t.runs
  PROVE  Steps(s) = Steps(t)
BY StepsAreTotal

-----------------------------------------------------------------------------
(* The process, its memory and the file *)

LEMMA LeavingKeeps ==
  ASSUME stored' \in SessionRecord, WellFormed(stored)', Leaves
  PROVE  CoordinatorInv'
BY DEF Leaves, Goto, CoordinatorInv, TypeInv, InMemory, AtHand, Acting, Running

LEMMA LoopingKeeps ==
  ASSUME stored' \in SessionRecord, WellFormed(stored)', session' = stored',
         stored'.workflow # "none",
         stored'.workflow = "feature" => stored'.status \notin Terminal,
         TypeInv, pc # "out", Goto("loop"), UNCHANGED <<chain, config>>
  PROVE  CoordinatorInv'
<1>1. TypeInv'
  BY DEF TypeInv, Goto, WellFormed
<1>2. InMemory'
  BY DEF InMemory, Goto
<1>3. AtHand'
  BY DEF AtHand, Goto, Acting, Running
<1> QED
  BY <1>1, <1>2, <1>3 DEF CoordinatorInv

LEMMA SavingKeeps ==
  ASSUME CoordinatorInv, pc \in Acting, NEW run \in RunRecord, Save(run),
         run.phase = session.phase,
         pc' \in Acting \cup {"decide"},
         pc' \in Acting => run.status = "active",
         pc' \in Running => run.inflight /\ run.calls # <<>>,
         chain' \subseteq DOMAIN Registry, config' = config
  PROVE  CoordinatorInv' /\ Saved(run)
<1>1. /\ session \in SessionRecord /\ WellFormed(session) /\ session.runs # <<>>
      /\ session.workflow # "none"
      /\ session.workflow = "feature" => session.status = "active"
  BY DEF CoordinatorInv, TypeInv, AtHand, Acting
<1>2. Saved(run)
  BY <1>1, SaveIsSaved
<1>3. /\ Persist(run) \in RunRecord
      /\ \A f \in {"phase", "model", "status", "inflight", "calls"} : Persist(run)[f] = run[f]
  BY DEF Persist, RunRecord, Outcome
<1>4. /\ stored' = session' /\ session' \in SessionRecord
      /\ session'.runs # <<>> /\ Run' = Persist(run)
      /\ session'.workflow = session.workflow /\ session'.phase = session.phase
  BY <1>2 DEF Saved, Run
<1>5. session.workflow = "feature" =>
        /\ session.phase \in FeaturePhases /\ RoleOf(run.phase) = run.phase
        /\ session.phase \in Roles /\ run.phase \in Roles
        /\ session'.bound = [session.bound EXCEPT ![run.phase] = run.model]
        /\ session'.bound[run.phase] = run.model
        /\ session'.status = "active"
  <2> SUFFICES ASSUME session.workflow = "feature"
               PROVE  /\ session.phase \in FeaturePhases /\ RoleOf(run.phase) = run.phase
                      /\ session.phase \in Roles /\ run.phase \in Roles
                      /\ session'.bound = [session.bound EXCEPT ![run.phase] = run.model]
                      /\ session'.bound[run.phase] = run.model
                      /\ session'.status = "active"
    OBVIOUS
  <2>1. session.phase \in FeaturePhases
    BY <1>1 DEF WellFormed
  <2>2. RoleOf(run.phase) = run.phase /\ session.phase \in Roles
    BY <2>1 DEF RoleOf, FeaturePhases, Phases, Roles
  <2>3. session'.bound = [session.bound EXCEPT ![run.phase] = run.model]
        /\ session'.status = "active"
    BY <1>1, <1>2, <2>2 DEF Saved
  <2> QED
    BY <1>1, <2>1, <2>2, <2>3 DEF SessionRecord
<1>6. WellFormed(session)'
  <2>1. \A i \in DOMAIN session'.runs :
          session'.runs[i].phase = run.phase
            \/ (i \in DOMAIN session.runs /\ session'.runs[i] = session.runs[i])
    BY <1>1, <1>2, <1>3, RunType DEF Saved, Last, SessionRecord
  <2>2. CASE session.workflow = "fast"
    BY <1>1, <1>2, <2>1, <2>2 DEF Saved, WellFormed
  <2>3. CASE session.workflow = "feature"
    <3>1. \A r \in RolesIn("feature") : session'.bound[r] \in DOMAIN Registry
      BY <1>1, <1>5, <2>3 DEF WellFormed, SessionRecord, RunRecord, RolesIn, Roles
    <3> QED
      BY <1>1, <1>4, <1>5, <2>1, <2>3, <3>1 DEF WellFormed
  <2> QED
    BY <1>1, <2>2, <2>3 DEF SessionRecord
<1>7. TypeInv'
  BY <1>4, <1>6 DEF TypeInv, CoordinatorInv, Acting, WellFormed
<1>8. pc' = "agent" => TakenUp'
  <2> SUFFICES ASSUME pc' = "agent"
               PROVE  TakenUp'
    OBVIOUS
  <2>1. Last(session'.runs).status = "active" /\ Last(session'.runs) \in RunRecord
    BY <1>3, <1>4 DEF Run, Acting
  <2>2. [Last(session'.runs) EXCEPT !.status = "active"] = Last(session'.runs)
    BY <2>1 DEF RunRecord
  <2>3. session'.runs = [session'.runs EXCEPT ![Len(session'.runs)].status = "active"]
    BY <1>4, <2>2 DEF SessionRecord, Last
  <2> QED
    BY <1>4, <2>3 DEF TakenUp
<1>9. InMemory'
  BY <1>4, <1>8 DEF InMemory
<1>10. AtHand'
  <2>1. Run'.phase = session'.phase /\ session'.runs # <<>> /\ session'.workflow # "none"
    BY <1>1, <1>3, <1>4
  <2>2. session'.workflow = "feature" =>
          Run'.model = session'.bound[session'.phase] /\ session'.status = "active"
    BY <1>1, <1>3, <1>4, <1>5
  <2>3. pc' \in Acting => Run'.status = "active"
    BY <1>3, <1>4
  <2>4. pc' \in Running => Run'.inflight /\ Run'.calls # <<>>
    BY <1>3, <1>4
  <2> QED
    BY <1>4, <2>1, <2>2, <2>3, <2>4 DEF AtHand, Terminal
<1> QED
  BY <1>2, <1>7, <1>9, <1>10 DEF CoordinatorInv

-----------------------------------------------------------------------------
(* The steps of an agent *)

\* What an agent saves of its run: that it stops, the answer of a model, the beginning
\* of a call, and the answer to it.
Stops(run) ==
  /\ pc = "agent" /\ pc' = "decide" /\ chain' = chain
  /\ \A f \in {"phase", "model", "steps", "calls", "inflight", "says"} : run[f] = Run[f]
  /\ run.status \in {"paused", "failed"}

Answers(run) ==
  /\ pc = "agent" /\ ~ Run.inflight /\ Run.calls = <<>> /\ Run.steps < limit
  /\ run.phase = Run.phase /\ run.steps = Run.steps + 1 /\ ~ run.inflight
  /\ run.model \in chain
  /\ chain' = Onward(RoleOf(Run.phase), session.level, chain, run.model)
  /\ \/ pc' = "agent" /\ run.status = Run.status
     \/ pc' = "decide" /\ run.status = "completed" /\ run.calls = <<>>

Begins(run) ==
  /\ pc = "agent" /\ ~ Run.inflight /\ Run.calls # <<>>
  /\ pc' = "tool" /\ run.inflight /\ chain' = chain
  /\ \A f \in {"phase", "model", "steps", "calls", "status", "says"} : run[f] = Run[f]

Closes(run) ==
  /\ pc \in {"ok", "error", "fatal"} /\ chain' = chain
  /\ \A f \in {"phase", "model", "steps"} : run[f] = Run[f]
  /\ run.calls = Tail(Run.calls) /\ ~ run.inflight
  /\ pc' = "decide" \/ (pc' = "agent" /\ run.status = Run.status)

AgentSaves ==
  /\ UNCHANGED <<ran, budget, limit, before>>
  /\ \E run \in RunRecord :
       Saved(run) /\ (Stops(run) \/ Answers(run) \/ Begins(run) \/ Closes(run))

LEMMA RunAtHand ==
  ASSUME CoordinatorInv, pc \in Acting \cup {"decide"}
  PROVE  /\ session \in SessionRecord /\ session.runs # <<>> /\ session.workflow # "none"
         /\ Run \in RunRecord /\ Run.phase = session.phase
         /\ chain \subseteq DOMAIN Registry
         /\ pc \in Acting => Run.status = "active"
         /\ pc \in Running => Run.inflight /\ Run.calls # <<>>
BY RunType DEF CoordinatorInv, TypeInv, AtHand, Run

LEMMA OnwardShrinks ==
  ASSUME NEW role, NEW level, NEW c, NEW m
  PROVE  Onward(role, level, c, m) \subseteq c
BY DEF Onward

LEMMA RunChanges ==
  ASSUME NEW run \in RunRecord
  PROVE  /\ \A status \in Statuses, outcome \in Outcome :
              [run EXCEPT !.status = status, !.outcome = outcome] \in RunRecord
         /\ [run EXCEPT !.inflight = TRUE] \in RunRecord
         /\ run.calls # <<>> => Closed(run) \in RunRecord
         /\ \A says \in Said : [run EXCEPT !.says = says] \in RunRecord
<1>1. \A status \in Statuses, outcome \in Outcome :
        [run EXCEPT !.status = status, !.outcome = outcome] \in RunRecord
  BY DEF RunRecord
<1>2. [run EXCEPT !.inflight = TRUE] \in RunRecord
  BY DEF RunRecord
<1>3. ASSUME run.calls # <<>>
      PROVE  Closed(run) \in RunRecord
  <2>1. run.calls \in Seq(Calls)
    BY DEF RunRecord
  <2>2. Tail(run.calls) \in Seq(Calls)
    BY <1>3, <2>1
  <2> QED
    BY <2>2 DEF RunRecord, Closed
<1>4. \A says \in Said : [run EXCEPT !.says = says] \in RunRecord
  BY DEF RunRecord
<1> QED
  BY <1>1, <1>2, <1>3, <1>4

LEMMA AnswerChanges ==
  ASSUME NEW run \in RunRecord, NEW m \in DOMAIN Registry,
         NEW calls \in Seq(Calls), NEW says \in Said
  PROVE  /\ [run EXCEPT !.model = m, !.steps = @ + 1, !.calls = calls, !.says = says] \in RunRecord
         /\ [run EXCEPT !.model = m, !.steps = @ + 1, !.says = says] \in RunRecord
<1>1. run.steps + 1 \in Nat
  BY DEF RunRecord
<1>2. ASSUME NEW n \in Nat
      PROVE  [run EXCEPT !.model = m, !.steps = n, !.calls = calls, !.says = says] \in RunRecord
  BY DEF RunRecord
<1>3. ASSUME NEW n \in Nat
      PROVE  [run EXCEPT !.model = m, !.steps = n, !.says = says] \in RunRecord
  BY DEF RunRecord
<1> QED
  BY <1>1, <1>2, <1>3

LEMMA SaysIsSaid ==
  ASSUME NEW run \in RunRecord, NEW reply \in Seq(Calls)
  PROVE  SaysAfter(run, reply) \in Said
<1> DEFINE finishes == {i \in DOMAIN reply : reply[i] \in Finishes}
<1>1. CASE finishes = {}
  BY <1>1 DEF SaysAfter, RunRecord
<1>2. CASE finishes # {}
  <2>1. \E i \in finishes : \A k \in finishes : i >= k
    <3>1. [i \in finishes |-> Len(reply) - i] \in [finishes -> Nat]
      OBVIOUS
    <3>2. PICK f \in [finishes -> Nat] : \A i \in finishes : f[i] = Len(reply) - i
      BY <3>1
    <3>3. PICK i \in finishes : \A k \in finishes : f[i] <= f[k]
      BY <1>2, <3>2, LeastMeasure
    <3> QED
      BY <3>2, <3>3
  <2>2. Max(finishes) \in finishes
    BY <2>1 DEF Max
  <2> QED
    BY <1>2, <2>2 DEF SaysAfter, Said
<1> QED
  BY <1>1, <1>2

LEMMA AgentActs ==
  ASSUME CoordinatorInv,
         \/ Interrupted \/ Exhausted \/ AnswerCalls \/ AnswerText
         \/ BeginCall \/ ToolAnswered
  PROVE  CoordinatorInv' /\ AgentSaves
<1>1. UNCHANGED <<ran, budget, limit, before>>
  BY DEF Interrupted, Exhausted, AnswerCalls, AnswerText, AnsweredBy, BeginCall, ToolAnswered, local
<1>2. CASE Interrupted
  <2> DEFINE run == [Run EXCEPT !.status = "failed", !.outcome = "none"]
  <2>1. pc \in Acting /\ Save(run) /\ pc' = "decide" /\ UNCHANGED <<chain, config>>
    BY <1>2 DEF Interrupted, Ends, Goto, local, Acting
  <2>2. Run \in RunRecord /\ Run.phase = session.phase /\ chain \subseteq DOMAIN Registry
    BY <2>1, RunAtHand
  <2>3. run \in RunRecord /\ run.phase = session.phase
    BY <2>2, RunChanges DEF Statuses, Outcome, RunRecord
  <2>4. CoordinatorInv' /\ Saved(run)
    BY <2>1, <2>2, <2>3, SavingKeeps DEF Acting, Running
  <2>5. Stops(run)
    BY <1>2, <2>1, <2>2 DEF Stops, Interrupted, RunRecord
  <2> QED
    BY <2>3, <2>4, <2>5, <1>1 DEF AgentSaves
<1>3. CASE Exhausted
  <2> DEFINE run == [Run EXCEPT !.status = "paused", !.outcome = "budget_exhausted"]
  <2>1. pc \in Acting /\ Save(run) /\ pc' = "decide" /\ UNCHANGED <<chain, config>>
    BY <1>3 DEF Exhausted, Ends, Goto, local, Acting
  <2>2. Run \in RunRecord /\ Run.phase = session.phase /\ chain \subseteq DOMAIN Registry
    BY <2>1, RunAtHand
  <2>3. run \in RunRecord /\ run.phase = session.phase
    BY <2>2, RunChanges DEF Statuses, Outcome, RunRecord
  <2>4. CoordinatorInv' /\ Saved(run)
    BY <2>1, <2>2, <2>3, SavingKeeps DEF Acting, Running
  <2>5. Stops(run)
    BY <1>3, <2>1, <2>2 DEF Stops, Exhausted, RunRecord
  <2> QED
    BY <2>3, <2>4, <2>5, <1>1 DEF AgentSaves
<1>4. CASE AnswerCalls
  <2>1. PICK m \in chain, reply \in Replies[Run.phase] :
          /\ AnsweredBy(m)
          /\ Save([Run EXCEPT !.model = m, !.steps = @ + 1, !.calls = reply,
                              !.says = SaysAfter(Run, reply)])
    BY <1>4 DEF AnswerCalls
  <2> DEFINE run == [Run EXCEPT !.model = m, !.steps = @ + 1, !.calls = reply,
                                !.says = SaysAfter(Run, reply)]
  <2>2. pc = "agent" /\ pc \in Acting /\ pc' = "agent" /\ config' = config
        /\ ~ Run.inflight /\ Run.calls = <<>> /\ Run.steps < limit
    BY <1>4, <2>1 DEF AnswerCalls, Asks, AnsweredBy, Goto, Acting
  <2>3. Run \in RunRecord /\ Run.phase = session.phase /\ chain \subseteq DOMAIN Registry
        /\ Run.status = "active"
    BY <2>2, RunAtHand
  <2>4. reply \in Seq(Calls)
    BY <2>3, AgentAssumption DEF RunRecord
  <2>5. run \in RunRecord /\ run.phase = session.phase /\ run.status = Run.status
        /\ run.steps = Run.steps + 1 /\ run.model = m /\ run.inflight = Run.inflight
    <3>1. run \in RunRecord
      BY <2>3, <2>4, SaysIsSaid, AnswerChanges
    <3> QED
      BY <2>3, <3>1 DEF RunRecord
  <2>6. chain' = Onward(RoleOf(Run.phase), session.level, chain, m)
        /\ chain' \subseteq DOMAIN Registry
    BY <2>1, <2>3, OnwardShrinks DEF AnsweredBy
  <2>7. CoordinatorInv' /\ Saved(run)
    BY <2>1, <2>2, <2>3, <2>5, <2>6, SavingKeeps DEF Acting, Running
  <2>8. Answers(run)
    BY <2>1, <2>2, <2>3, <2>5, <2>6 DEF Answers
  <2> QED
    BY <2>5, <2>7, <2>8, <1>1 DEF AgentSaves
<1>5. CASE AnswerText
  <2>1. PICK m \in chain, text \in {"text", "nothing"} :
          /\ AnsweredBy(m)
          /\ Ends("completed", "none", [Run EXCEPT !.model = m, !.steps = @ + 1,
                                           !.says = IF @ = "none" THEN text ELSE @])
    BY <1>5 DEF AnswerText
  <2> DEFINE says == IF Run.says = "none" THEN text ELSE Run.says
             told == [Run EXCEPT !.model = m, !.steps = @ + 1, !.says = says]
             run == [told EXCEPT !.status = "completed", !.outcome = "none"]
  <2>2. pc = "agent" /\ pc \in Acting /\ pc' = "decide" /\ config' = config
        /\ ~ Run.inflight /\ Run.calls = <<>> /\ Run.steps < limit /\ Save(run)
    BY <1>5, <2>1 DEF AnswerText, Asks, AnsweredBy, Ends, Goto, Acting
  <2>3. Run \in RunRecord /\ Run.phase = session.phase /\ chain \subseteq DOMAIN Registry
    BY <2>2, RunAtHand
  <2>4. told \in RunRecord
    <3>1. says \in Said
      BY <2>3 DEF RunRecord, Said, Finishes
    <3> HIDE DEF says
    <3> QED
      BY <2>3, <3>1, AnswerChanges DEF RunRecord
  <2>5. run \in RunRecord /\ run.phase = session.phase /\ run.status = "completed"
        /\ run.steps = Run.steps + 1 /\ run.model = m /\ run.inflight = Run.inflight
        /\ run.calls = Run.calls
    <3>1. run \in RunRecord
      BY <2>4, RunChanges DEF Statuses, Outcome
    <3> QED
      BY <2>3, <3>1 DEF RunRecord
  <2>6. chain' = Onward(RoleOf(Run.phase), session.level, chain, m)
        /\ chain' \subseteq DOMAIN Registry
    BY <2>1, <2>3, OnwardShrinks DEF AnsweredBy
  <2>7. CoordinatorInv' /\ Saved(run)
    BY <2>2, <2>3, <2>5, <2>6, SavingKeeps DEF Acting, Running
  <2>8. Answers(run)
    BY <2>1, <2>2, <2>3, <2>5, <2>6 DEF Answers
  <2> QED
    BY <2>5, <2>7, <2>8, <1>1 DEF AgentSaves
<1>6. CASE BeginCall
  <2> DEFINE run == [Run EXCEPT !.inflight = TRUE]
  <2>1. pc \in Acting /\ Save(run) /\ pc' = "tool" /\ UNCHANGED <<chain, config>>
    BY <1>6 DEF BeginCall, Goto, local, Acting
  <2>2. Run \in RunRecord /\ Run.phase = session.phase /\ chain \subseteq DOMAIN Registry
        /\ Run.status = "active"
    BY <2>1, RunAtHand
  <2>3. run \in RunRecord /\ run.inflight
        /\ \A f \in {"phase", "model", "steps", "calls", "status", "says"} : run[f] = Run[f]
    BY <2>2, RunChanges DEF RunRecord
  <2>4. Begins(run)
    BY <1>6, <2>1, <2>3 DEF Begins, BeginCall
  <2>5. CoordinatorInv' /\ Saved(run)
    BY <2>1, <2>2, <2>3, <2>4, SavingKeeps DEF Acting, Running, Begins
  <2> QED
    BY <2>3, <2>4, <2>5, <1>1 DEF AgentSaves
<1>7. CASE ToolAnswered
  <2> DEFINE call == Head(Run.calls)
             told == [Closed(Run) EXCEPT !.says = IF @ = "none" THEN "text" ELSE @]
  <2>1. pc \in Acting /\ pc \in {"ok", "error", "fatal"} /\ pc \in Running
        /\ UNCHANGED <<chain, config>>
    BY <1>7 DEF ToolAnswered, local, Acting, Running
  <2>2. Run \in RunRecord /\ Run.phase = session.phase /\ chain \subseteq DOMAIN Registry
        /\ Run.status = "active" /\ Run.calls # <<>>
    BY <2>1, RunAtHand
  <2>3. /\ Closed(Run) \in RunRecord /\ Closed(Run).calls = Tail(Run.calls)
        /\ Closed(Run).inflight = FALSE
        /\ \A f \in {"phase", "model", "steps", "status", "says"} : Closed(Run)[f] = Run[f]
    BY <2>2, RunChanges DEF RunRecord, Closed
  <2>4. /\ told \in RunRecord /\ told.calls = Tail(Run.calls) /\ told.inflight = FALSE
        /\ \A f \in {"phase", "model", "steps", "status"} : told[f] = Run[f]
    BY <2>3, RunChanges DEF RunRecord, Said, Closed
  <2>5. ASSUME NEW run \in RunRecord, NEW status \in Statuses, NEW outcome \in Outcome,
               run.calls = Tail(Run.calls), run.inflight = FALSE,
               \A f \in {"phase", "model", "steps", "status"} : run[f] = Run[f],
               Ends(status, outcome, run)
        PROVE  CoordinatorInv' /\ AgentSaves
    <3> DEFINE ended == [run EXCEPT !.status = status, !.outcome = outcome]
    <3>1. Save(ended) /\ pc' = "decide"
      BY <2>5 DEF Ends, Goto
    <3>2. ended \in RunRecord /\ ended.calls = run.calls /\ ended.inflight = run.inflight
          /\ \A f \in {"phase", "model", "steps"} : ended[f] = run[f]
      BY <2>5, RunChanges DEF RunRecord
    <3>3. Closes(ended)
      BY <2>1, <2>5, <3>1, <3>2 DEF Closes
    <3>4. CoordinatorInv' /\ Saved(ended)
      BY <2>1, <2>2, <2>5, <3>1, <3>2, SavingKeeps DEF Acting, Running
    <3> QED
      BY <3>2, <3>3, <3>4, <1>1 DEF AgentSaves
  <2>6. \A c \in Calls : StatusOf(c) \in Statuses /\ (ToolOf(c) \in ControlTools => OutcomeOf(c) \in Outcome)
    BY DEF StatusOf, OutcomeOf, Statuses, Outcome, ToolOf, ControlTools
  <2>7. call \in Calls
    BY <2>2 DEF RunRecord
  <2>8. \/ pc = "fatal" /\ Ends("failed", "failed", Closed(Run))
        \/ pc = "ok" /\ ToolOf(call) \in ControlTools /\ Ends(StatusOf(call), OutcomeOf(call), told)
        \/ Save(Closed(Run)) /\ pc' = "agent"
    BY <1>7 DEF ToolAnswered, Goto
  <2>9. CASE Save(Closed(Run)) /\ pc' = "agent"
    <3>1. CoordinatorInv' /\ Saved(Closed(Run))
      BY <2>1, <2>2, <2>3, <2>9, SavingKeeps DEF Acting, Running
    <3>2. Closes(Closed(Run))
      BY <2>1, <2>3, <2>9 DEF Closes
    <3> QED
      BY <2>3, <3>1, <3>2, <1>1 DEF AgentSaves
  <2>10. CASE pc = "fatal" /\ Ends("failed", "failed", Closed(Run))
    BY <2>3, <2>5, <2>10 DEF Statuses, Outcome
  <2>11. CASE pc = "ok" /\ ToolOf(call) \in ControlTools /\ Ends(StatusOf(call), OutcomeOf(call), told)
    BY <2>4, <2>5, <2>6, <2>7, <2>11
  <2> QED
    BY <2>8, <2>9, <2>10, <2>11
<1> QED
  BY <1>2, <1>3, <1>4, <1>5, <1>6, <1>7

-----------------------------------------------------------------------------
(* The steps of the coordinator *)

\* What a process leaves in the file when it returns or dies, and what it goes on with
\* after a save: the session with a status, a phase and cycles, and the runs it had.
Returns ==
  /\ Leaves
  /\ \/ UNCHANGED stored
     \/ \E status \in Statuses :
          /\ pc # "agent"
          /\ stored' = [session EXCEPT !.status = status]
          /\ status = "completed" =>
               /\ pc = "decide" /\ session.workflow = "feature" /\ session.phase = "review"
               /\ Run.status = "completed" /\ Run.says = "approved"
     \/ /\ pc = "decide" /\ session.workflow = "fast"
        /\ stored' \in {session, [session EXCEPT !.bound["fast"] = Run.model]}

Advances ==
  /\ pc = "decide" /\ session.workflow = "feature" /\ Run.status = "completed"
  /\ Goto("loop") /\ UNCHANGED <<local, ran>>
  /\ \E phase \in FeaturePhases, cycles \in 0 .. MaxCycles, implemented \in BOOLEAN :
       /\ stored' = [session EXCEPT !.phase = phase, !.cycles = cycles,
                                    !.implemented = implemented, !.status = "active"]
       /\ session' = stored'
       /\ \/ session.phase = "planning" /\ phase = "implementation" /\ cycles = session.cycles
          \/ session.phase = "implementation" /\ phase = "review" /\ cycles = session.cycles
          \/ session.phase = "review" /\ phase = "implementation" /\ cycles = session.cycles + 1

\* The choice of the workflow, the level and the models.
Chooses ==
  /\ pc = "enter" /\ Goto("loop") /\ UNCHANGED <<local, ran>>
  /\ session.workflow = "none"
  /\ session' = stored' /\ session' \in SessionRecord /\ session'.runs = <<>>
  /\ session'.cycles = 0 /\ session'.status = "active"
  /\ session'.level \in Levels /\ session'.workflow \in {"fast", "feature"}
  /\ session'.phase = IF session'.workflow = "fast" THEN "execute" ELSE "planning"
  /\ \A r \in RolesIn(session'.workflow) :
       Selectable(r, session'.level) /\ session'.bound[r] = Select(r, session'.level)

LEMMA LevelIsLevel ==
  ASSUME NEW task
  PROVE  LevelOf(task) \in Levels
BY DEF LevelOf, Levels

LEMMA Deciding ==
  ASSUME CoordinatorInv, pc = "decide"
  PROVE  /\ session \in SessionRecord /\ session.runs # <<>> /\ session.runs = stored.runs
         /\ Run \in RunRecord /\ Run.phase = session.phase /\ WellFormed(session)
         /\ session.workflow \in {"fast", "feature"}
         /\ session.workflow = "feature" =>
              /\ session.phase \in FeaturePhases /\ session.status = "active"
              /\ Run.model = session.bound[session.phase]
<1>1. session \in SessionRecord /\ WellFormed(session)
  BY DEF CoordinatorInv, TypeInv
<1>2. session.runs # <<>> /\ Run \in RunRecord /\ Run.phase = session.phase
      /\ session.workflow # "none"
  BY RunAtHand
<1> QED
  BY <1>1, <1>2 DEF CoordinatorInv, InMemory, AtHand, SessionRecord, WellFormed

LEMMA CoordinatorReturns ==
  ASSUME CoordinatorInv,
         \/ ReturnTerminal \/ OutOfSteps \/ FinishFast \/ PausePhase \/ FailPhase
         \/ NoContent \/ NoVerdict \/ Approved \/ TooManyCycles \/ Crash
         \/ Initialize /\ Leaves /\ UNCHANGED stored
  PROVE  CoordinatorInv' /\ Returns
<1>1. stored \in SessionRecord /\ WellFormed(stored) /\ session \in SessionRecord
      /\ WellFormed(session)
  BY DEF CoordinatorInv, TypeInv
<1>2. CASE Leaves /\ UNCHANGED stored
  BY <1>1, <1>2, LeavingKeeps DEF Returns, WellFormed
<1>3. ASSUME NEW status \in Statuses, stored' = [session EXCEPT !.status = status], Leaves,
             pc # "agent",
             status = "completed" =>
               /\ pc = "decide" /\ session.workflow = "feature" /\ session.phase = "review"
               /\ Run.status = "completed" /\ Run.says = "approved"
      PROVE  CoordinatorInv' /\ Returns
  <2>1. stored' \in SessionRecord
    BY <1>1, <1>3 DEF SessionRecord
  <2>2. WellFormed(stored)'
    BY <1>1, <1>3 DEF SessionRecord, WellFormed
  <2> QED
    BY <1>3, <2>1, <2>2, LeavingKeeps DEF Returns
<1>4. CASE OutOfSteps
  BY <1>3, <1>4 DEF OutOfSteps, Statuses
<1>5. CASE FinishFast
  <2>1. /\ pc = "decide" /\ session.workflow = "fast" /\ Leaves
        /\ stored' \in {session, [session EXCEPT !.bound["fast"] = Run.model]}
    <3>1. session = [session EXCEPT !.bound["fast"] = session.bound["fast"]]
      BY <1>1 DEF SessionRecord
    <3> QED
      BY <1>5, <3>1 DEF FinishFast
  <2>2. Run.model \in DOMAIN Registry
    BY <2>1, Deciding DEF RunRecord
  <2>3. stored' \in SessionRecord /\ WellFormed(stored)'
    <3>1. CASE stored' = session
      BY <1>1, <3>1 DEF WellFormed
    <3>2. CASE stored' = [session EXCEPT !.bound["fast"] = Run.model]
      <4>1. stored' \in SessionRecord
        BY <1>1, <2>2, <3>2 DEF SessionRecord
      <4>2. WellFormed(stored)'
        BY <1>1, <2>1, <2>2, <3>2 DEF SessionRecord, WellFormed, RolesIn, Roles
      <4> QED
        BY <4>1, <4>2
    <3> QED
      BY <2>1, <3>1, <3>2
  <2> QED
    BY <2>1, <2>3, LeavingKeeps DEF Returns
<1>6. CASE PausePhase
  BY <1>3, <1>6 DEF PausePhase, InFeature, Return, Statuses
<1>7. CASE FailPhase \/ NoContent \/ NoVerdict \/ TooManyCycles
  BY <1>3, <1>7 DEF FailPhase, NoContent, NoVerdict, TooManyCycles, InFeature, Return, Statuses
<1>8. CASE Approved
  BY <1>3, <1>8 DEF Approved, InFeature, Return, Statuses
<1> QED
  BY <1>2, <1>4, <1>5, <1>6, <1>7, <1>8 DEF ReturnTerminal, Crash

LEMMA CoordinatorAdvances ==
  ASSUME CoordinatorInv, PlanDone \/ ImplementationDone \/ Rework
  PROVE  CoordinatorInv' /\ Advances
<1>1. pc = "decide" /\ session.workflow = "feature" /\ Run.status = "completed"
  BY DEF PlanDone, ImplementationDone, Rework, InFeature
<1>2. /\ session \in SessionRecord /\ WellFormed(session) /\ session.runs # <<>>
      /\ session.cycles \in 0 .. MaxCycles /\ session.implemented \in BOOLEAN
      /\ session.phase \in FeaturePhases
  BY <1>1, Deciding DEF SessionRecord
<1>3. ASSUME NEW phase \in FeaturePhases, NEW cycles \in 0 .. MaxCycles, NEW implemented \in BOOLEAN,
             Store([session EXCEPT !.phase = phase, !.cycles = cycles,
                                   !.implemented = implemented, !.status = "active"]),
             Goto("loop"), UNCHANGED <<local, ran, starts>>,
             \/ session.phase = "planning" /\ phase = "implementation" /\ cycles = session.cycles
             \/ session.phase = "implementation" /\ phase = "review" /\ cycles = session.cycles
             \/ session.phase = "review" /\ phase = "implementation"
                                         /\ cycles = session.cycles + 1
      PROVE  CoordinatorInv' /\ Advances
  <2>1. /\ session' = [session EXCEPT !.phase = phase, !.cycles = cycles,
                                      !.implemented = implemented, !.status = "active"]
        /\ stored' = session' /\ UNCHANGED <<local, ran>> /\ UNCHANGED <<chain, config>>
    BY <1>3 DEF Store, local
  <2>2. phase \in {"none"} \cup Phases
    BY DEF FeaturePhases
  <2>3. stored' \in SessionRecord
    BY <1>2, <1>3, <2>1, <2>2 DEF SessionRecord, Statuses
  <2>4. stored'.workflow = session.workflow /\ stored'.phase = phase
        /\ stored'.runs = session.runs /\ stored'.bound = session.bound
        /\ stored'.status = "active"
    BY <1>2, <2>1 DEF SessionRecord
  <2>5. WellFormed(stored)'
    BY <1>1, <1>2, <2>4 DEF WellFormed
  <2>6. CoordinatorInv'
    BY <1>1, <1>3, <2>1, <2>3, <2>4, <2>5, LoopingKeeps DEF CoordinatorInv, Terminal
  <2>7. Advances
    BY <1>1, <1>3, <2>1 DEF Advances
  <2> QED
    BY <2>6, <2>7
<1>4. CASE PlanDone
  <2>1. Advance([session EXCEPT !.phase = "implementation"]) /\ session.phase = "planning"
    BY <1>4 DEF PlanDone
  <2>2. [[session EXCEPT !.phase = "implementation"] EXCEPT !.status = "active"]
          = [session EXCEPT !.phase = "implementation", !.cycles = session.cycles,
                            !.implemented = session.implemented, !.status = "active"]
    BY <1>2 DEF SessionRecord
  <2>3. /\ Store([session EXCEPT !.phase = "implementation", !.cycles = session.cycles,
                                 !.implemented = session.implemented, !.status = "active"])
        /\ Goto("loop") /\ UNCHANGED <<local, ran, starts>>
    BY <2>1, <2>2 DEF Advance
  <2>4. "implementation" \in FeaturePhases
    BY DEF FeaturePhases, Phases
  <2> QED
    BY <1>2, <1>3, <2>1, <2>3, <2>4
<1>5. CASE ImplementationDone
  <2>1. Advance([session EXCEPT !.phase = "review", !.implemented = TRUE])
        /\ session.phase = "implementation"
    BY <1>5 DEF ImplementationDone
  <2>2. [[session EXCEPT !.phase = "review", !.implemented = TRUE] EXCEPT !.status = "active"]
          = [session EXCEPT !.phase = "review", !.cycles = session.cycles,
                            !.implemented = TRUE, !.status = "active"]
    BY <1>2 DEF SessionRecord
  <2> QED
    BY <1>2, <1>3, <2>1, <2>2 DEF Advance, FeaturePhases, Phases
<1>6. CASE Rework
  <2>1. Advance([session EXCEPT !.phase = "implementation", !.cycles = @ + 1])
        /\ session.phase = "review" /\ session.cycles < MaxCycles
    BY <1>6 DEF Rework
  <2>2. [[session EXCEPT !.phase = "implementation", !.cycles = @ + 1] EXCEPT !.status = "active"]
          = [session EXCEPT !.phase = "implementation", !.cycles = session.cycles + 1,
                            !.implemented = session.implemented, !.status = "active"]
    BY <1>2 DEF SessionRecord
  <2>3. session.cycles + 1 \in 0 .. MaxCycles
    BY <1>2, <2>1, AgentAssumption
  <2>4. /\ Store([session EXCEPT !.phase = "implementation", !.cycles = session.cycles + 1,
                                 !.implemented = session.implemented, !.status = "active"])
        /\ Goto("loop") /\ UNCHANGED <<local, ran, starts>>
    BY <2>1, <2>2 DEF Advance
  <2>5. "implementation" \in FeaturePhases
    BY DEF FeaturePhases, Phases
  <2> QED
    BY <1>2, <1>3, <2>1, <2>3, <2>4, <2>5
<1> QED
  BY <1>4, <1>5, <1>6

\* A run that is begun or taken up again, and one that is found completed.
TakesUp ==
  /\ pc = "loop" /\ pc' = "agent" /\ UNCHANGED <<stored, config, ran, budget>>
  /\ before' = Steps(session)
  /\ session.workflow = "fast" => limit' = budget
  /\ session.workflow = "feature" =>
       Steps(session) < budget /\ limit' = Run'.steps + Allowance(session)
  /\ \/ TakenUp' /\ (session.workflow = "feature" => Last(stored.runs).status # "completed")
     \/ Begun' /\ (session.workflow = "feature" => ~ Resumable(session))
  /\ chain' = IF session.workflow = "fast"
              THEN Onward("fast", session.level,
                          ProviderChain("fast", session.level, session.bound["fast"]), Run'.model)
              ELSE ProviderChain(session.phase, session.level, Run'.model)

Finds ==
  /\ pc = "loop" /\ pc' = "decide" /\ UNCHANGED <<stored, chain, config, ran, budget>>
  /\ before' = Steps(session) /\ limit' = limit
  /\ session.workflow = "feature" /\ session.runs # <<>>
  /\ Run.status = "completed" /\ Run.model = session.bound[session.phase]
  /\ session' = [session EXCEPT !.status = "active"]

LEMMA FreshRun ==
  ASSUME NEW s \in SessionRecord, NEW run \in RunRecord
  PROVE  LET t == [s EXCEPT !.runs = Append(s.runs, run)]
         IN  /\ t \in SessionRecord /\ t.runs = Append(s.runs, run) /\ t.runs # <<>>
             /\ Len(t.runs) = Len(s.runs) + 1 /\ Last(t.runs) = run
             /\ \A i \in DOMAIN t.runs :
                  t.runs[i] = run \/ (i \in DOMAIN s.runs /\ t.runs[i] = s.runs[i])
<1>1. /\ s.runs \in Seq(RunRecord) /\ Append(s.runs, run) \in Seq(RunRecord)
      /\ Len(Append(s.runs, run)) = Len(s.runs) + 1
      /\ Append(s.runs, run)[Len(s.runs) + 1] = run
      /\ \A i \in DOMAIN Append(s.runs, run) :
           i = Len(s.runs) + 1 \/ (i \in DOMAIN s.runs /\ Append(s.runs, run)[i] = s.runs[i])
  BY DEF SessionRecord
<1>2. [s EXCEPT !.runs = Append(s.runs, run)] \in SessionRecord
      /\ [s EXCEPT !.runs = Append(s.runs, run)].runs = Append(s.runs, run)
  BY <1>1 DEF SessionRecord
<1> QED
  BY <1>1, <1>2 DEF Last

LEMMA NewRunType ==
  ASSUME NEW phase \in Phases, NEW m \in DOMAIN Registry
  PROVE  /\ NewRun(phase, m) \in RunRecord
         /\ NewRun(phase, m).phase = phase /\ NewRun(phase, m).model = m
         /\ NewRun(phase, m).status = "active"
BY DEF NewRun, RunRecord, Statuses, Said, Outcome

\* The process goes to an agent with a session that differs from the file in its last run.
LEMMA ActingKeeps ==
  ASSUME CoordinatorInv, pc = "loop", pc' = "agent", UNCHANGED <<stored, config>>,
         chain' \subseteq DOMAIN Registry, session' \in SessionRecord,
         NEW run \in RunRecord, run.phase = session.phase, run.status = "active",
         \A i \in DOMAIN session'.runs :
           session'.runs[i] = run \/ (i \in DOMAIN session.runs /\ session'.runs[i] = session.runs[i]),
         session'.runs # <<>>, Last(session'.runs) = run,
         TakenUp' \/ Begun',
         session'.workflow = session.workflow, session'.phase = session.phase,
         session'.level = session.level, session'.cycles = session.cycles,
         session'.implemented = session.implemented, session'.bound = session.bound,
         session.workflow = "feature" =>
           session'.status = "active" /\ run.model = session.bound[session.phase]
  PROVE  CoordinatorInv'
<1>1. session \in SessionRecord /\ WellFormed(session) /\ session = stored
      /\ session.workflow # "none"
  BY DEF CoordinatorInv, TypeInv, InMemory, AtHand
<1>2. WellFormed(session)'
  BY <1>1 DEF WellFormed
<1>3. TypeInv'
  BY <1>1, <1>2 DEF CoordinatorInv, TypeInv, WellFormed
<1>4. InMemory'
  BY <1>1 DEF InMemory
<1>5. AtHand'
  <2>1. session.workflow = "feature" => stored.status \notin Terminal
    BY DEF CoordinatorInv, AtHand
  <2> QED
    BY <1>1, <2>1 DEF AtHand, Run, Running, Terminal
<1> QED
  BY <1>3, <1>4, <1>5 DEF CoordinatorInv

LEMMA ChainsAreRegistered ==
  ASSUME NEW role, NEW level, NEW m \in DOMAIN Registry
  PROVE  ProviderChain(role, level, m) \subseteq DOMAIN Registry
BY DEF ProviderChain, Suitable, Qualifies

LEMMA FastStarts ==
  ASSUME CoordinatorInv, StartFast
  PROVE  CoordinatorInv' /\ TakesUp
<1>1. /\ pc = "loop" /\ pc' = "agent" /\ UNCHANGED <<stored, config, ran, budget>>
      /\ session.workflow = "fast" /\ before' = Steps(session) /\ limit' = budget
      /\ chain' = Onward("fast", session.level,
                         ProviderChain("fast", session.level, session.bound["fast"]), Run'.model)
  BY DEF StartFast, Goto, Restored, Run
<1>2. /\ session \in SessionRecord /\ WellFormed(session) /\ session = stored
      /\ session.phase = "execute" /\ session.phase \in Phases
      /\ session.bound["fast"] \in DOMAIN Registry
  BY <1>1 DEF CoordinatorInv, TypeInv, InMemory, WellFormed, RolesIn, Phases
<1>3. chain' \subseteq DOMAIN Registry
  BY <1>1, <1>2, OnwardShrinks, ChainsAreRegistered
<1>4. CASE session.runs = <<>>
  <2> DEFINE run == NewRun("execute", session.bound["fast"])
  <2>1. run \in RunRecord /\ run.phase = session.phase /\ run.status = "active"
    BY <1>2, NewRunType
  <2>2. session' = [session EXCEPT !.runs = Append(session.runs, run)]
    BY <1>4 DEF StartFast
  <2> HIDE DEF run
  <2>3. /\ session' \in SessionRecord /\ session'.runs = Append(session.runs, run)
        /\ session'.runs # <<>> /\ Last(session'.runs) = run
        /\ \A i \in DOMAIN session'.runs : session'.runs[i] = run
              \/ (i \in DOMAIN session.runs /\ session'.runs[i] = session.runs[i])
    BY <1>2, <2>1, <2>2, FreshRun
  <2>4. /\ session'.workflow = session.workflow /\ session'.phase = session.phase
        /\ session'.level = session.level /\ session'.cycles = session.cycles
        /\ session'.implemented = session.implemented /\ session'.bound = session.bound
    BY <1>2, <2>2 DEF SessionRecord
  <2>5. Begun'
    BY <1>1, <1>2, <1>4, <2>3, <2>4 DEF Begun, RoleOf, run
  <2> QED
    BY <1>1, <1>3, <2>1, <2>3, <2>4, <2>5, ActingKeeps DEF TakesUp
<1>5. CASE session.runs # <<>>
  <2> DEFINE run == [Run EXCEPT !.status = "active"]
  <2>1. Run \in RunRecord /\ Len(session.runs) \in DOMAIN session.runs
    BY <1>2, <1>5, RunType DEF Run
  <2>2. run \in RunRecord /\ run.phase = session.phase /\ run.status = "active"
    BY <1>1, <1>2, <2>1 DEF RunRecord, Statuses, WellFormed, Run, Last
  <2>3. session' = WithRun(session, run)
    BY <1>5 DEF StartFast
  <2> HIDE DEF run
  <2>4. /\ session' \in SessionRecord
        /\ session' = [session EXCEPT !.runs = [session.runs EXCEPT ![Len(session.runs)] = run]]
        /\ Last(session'.runs) = run /\ Len(session'.runs) = Len(session.runs)
        /\ DOMAIN session'.runs = DOMAIN session.runs
        /\ \A i \in DOMAIN session.runs :
             i # Len(session.runs) => session'.runs[i] = session.runs[i]
    BY <1>2, <1>5, <2>2, <2>3, WithRunType
  <2>5. /\ session'.workflow = session.workflow /\ session'.phase = session.phase
        /\ session'.level = session.level /\ session'.cycles = session.cycles
        /\ session'.implemented = session.implemented /\ session'.bound = session.bound
        /\ session'.runs = [session.runs EXCEPT ![Len(session.runs)] = run]
    BY <1>2, <2>4 DEF SessionRecord
  <2>6. \A i \in DOMAIN session'.runs :
          session'.runs[i] = run \/ (i \in DOMAIN session.runs /\ session'.runs[i] = session.runs[i])
    BY <2>1, <2>4, <2>5
  <2>7. TakenUp'
    BY <1>1, <1>2, <1>5, <2>5 DEF TakenUp, run, Run, Last
  <2>8. session'.runs # <<>>
    BY <2>1, <2>4
  <2> QED
    BY <1>1, <1>3, <2>2, <2>4, <2>5, <2>6, <2>7, <2>8, ActingKeeps DEF TakesUp
<1> QED
  BY <1>4, <1>5

LEMMA PhaseStarts ==
  ASSUME CoordinatorInv, StartPhase
  PROVE  CoordinatorInv' /\ (TakesUp \/ Finds)
<1> DEFINE s == [session EXCEPT !.status = "active"]
           fresh == NewRun(s.phase, s.bound[s.phase])
<1>1. /\ pc = "loop" /\ UNCHANGED <<stored, config, ran, budget>>
      /\ session.workflow = "feature" /\ Steps(session) < budget /\ before' = Steps(session)
  BY DEF StartPhase
<1>2. /\ session \in SessionRecord /\ WellFormed(session) /\ session = stored
      /\ session.phase \in FeaturePhases /\ session.phase \in Phases /\ session.phase \in Roles
      /\ RoleOf(session.phase) = session.phase
      /\ session.bound[session.phase] \in DOMAIN Registry
  <2>1. session \in SessionRecord /\ WellFormed(session) /\ session = stored
    BY <1>1 DEF CoordinatorInv, TypeInv, InMemory
  <2>2. session.phase \in FeaturePhases
    BY <1>1, <2>1 DEF WellFormed
  <2>3. session.phase \in Phases /\ session.phase \in RolesIn("feature") /\ session.phase \in Roles
        /\ RoleOf(session.phase) = session.phase
    BY <2>2 DEF FeaturePhases, Phases, RolesIn, Roles, RoleOf
  <2> QED
    BY <1>1, <2>1, <2>2, <2>3 DEF WellFormed
<1>3. /\ s \in SessionRecord /\ s.status = "active" /\ s.runs = session.runs
      /\ s.workflow = session.workflow /\ s.phase = session.phase
      /\ s.level = session.level /\ s.cycles = session.cycles
      /\ s.implemented = session.implemented /\ s.bound = session.bound
  BY <1>2 DEF SessionRecord, Statuses
<1>4. \/ /\ Resumable(s) /\ Last(s.runs).status = "completed"
         /\ session' = s /\ pc' = "decide" /\ chain' = chain /\ limit' = limit
      \/ /\ Resumable(s) /\ Last(s.runs).status # "completed" /\ pc' = "agent"
         /\ session' = WithRun(s, [Last(s.runs) EXCEPT !.status = "active"])
         /\ chain' = ProviderChain(s.phase, s.level, [Last(s.runs) EXCEPT !.status = "active"].model)
         /\ limit' = [Last(s.runs) EXCEPT !.status = "active"].steps + Allowance(s)
      \/ /\ ~ Resumable(s) /\ pc' = "agent"
         /\ session' = [s EXCEPT !.runs = Append(s.runs, fresh)]
         /\ chain' = ProviderChain(s.phase, s.level, fresh.model)
         /\ limit' = fresh.steps + Allowance(s)
  BY DEF StartPhase, Goto
<1> HIDE DEF s
<1>8. Allowance(s) = Allowance(session)
  BY <1>2, <1>3, StepsOfSame DEF Allowance
<1>5. CASE /\ Resumable(s) /\ Last(s.runs).status = "completed"
           /\ session' = s /\ pc' = "decide" /\ chain' = chain /\ limit' = limit
  <2>1. /\ session.runs # <<>> /\ Run.status = "completed" /\ Run.phase = session.phase
        /\ Run.model = session.bound[session.phase]
    BY <1>3, <1>5 DEF Resumable, Run
  <2>2. Finds
    BY <1>1, <1>5, <2>1 DEF Finds, s
  <2>3. TypeInv'
    BY <1>1, <1>2, <1>3, <1>5 DEF CoordinatorInv, TypeInv, WellFormed
  <2>4. InMemory'
    BY <1>1, <1>2, <1>3, <1>5, <2>1 DEF InMemory, Run
  <2>5. AtHand'
    <3>1. stored.status \notin Terminal
      BY <1>1 DEF CoordinatorInv, AtHand
    <3> QED
      BY <1>1, <1>3, <1>5, <2>1, <3>1 DEF AtHand, Run, Acting, Running, Terminal
  <2> QED
    BY <2>2, <2>3, <2>4, <2>5 DEF CoordinatorInv
<1>6. CASE /\ Resumable(s) /\ Last(s.runs).status # "completed" /\ pc' = "agent"
           /\ session' = WithRun(s, [Last(s.runs) EXCEPT !.status = "active"])
           /\ chain' = ProviderChain(s.phase, s.level, [Last(s.runs) EXCEPT !.status = "active"].model)
           /\ limit' = [Last(s.runs) EXCEPT !.status = "active"].steps + Allowance(s)
  <2> DEFINE run == [Last(s.runs) EXCEPT !.status = "active"]
  <2>1. s.runs # <<>> /\ Last(s.runs).phase = s.phase /\ Last(s.runs).model = s.bound[s.phase]
    BY <1>6 DEF Resumable
  <2>2. Last(s.runs) \in RunRecord /\ Len(s.runs) \in DOMAIN s.runs
    BY <1>3, <2>1, RunType
  <2>3. run \in RunRecord /\ run.phase = session.phase /\ run.status = "active"
        /\ run.model = session.bound[session.phase]
    BY <1>3, <2>1, <2>2 DEF RunRecord, Statuses
  <2>4. session' = WithRun(s, run) /\ chain' = ProviderChain(session.phase, session.level, run.model)
        /\ limit' = run.steps + Allowance(session)
    BY <1>3, <1>6, <1>8
  <2> HIDE DEF run
  <2>5. /\ session' \in SessionRecord
        /\ session' = [s EXCEPT !.runs = [s.runs EXCEPT ![Len(s.runs)] = run]]
        /\ Last(session'.runs) = run /\ Len(session'.runs) = Len(s.runs)
        /\ DOMAIN session'.runs = DOMAIN s.runs
        /\ \A i \in DOMAIN s.runs : i # Len(s.runs) => session'.runs[i] = s.runs[i]
    BY <1>3, <2>1, <2>3, <2>4, WithRunType
  <2>6. /\ session'.workflow = session.workflow /\ session'.phase = session.phase
        /\ session'.level = session.level /\ session'.cycles = session.cycles
        /\ session'.implemented = session.implemented /\ session'.bound = session.bound
        /\ session'.runs = [session.runs EXCEPT ![Len(session.runs)] = run]
        /\ session'.status = "active"
    BY <1>3, <2>5 DEF SessionRecord
  <2>7. \A i \in DOMAIN session'.runs :
          session'.runs[i] = run \/ (i \in DOMAIN session.runs /\ session'.runs[i] = session.runs[i])
    BY <1>3, <2>2, <2>5, <2>6
  <2>8. TakenUp'
    BY <1>1, <1>2, <1>3, <2>1, <2>6 DEF TakenUp, run, Last
  <2>9. session'.runs # <<>> /\ chain' \subseteq DOMAIN Registry /\ Run' = run
    BY <1>2, <2>2, <2>3, <2>4, <2>5, ChainsAreRegistered DEF Run
  <2>10. TakesUp
    BY <1>1, <1>2, <1>3, <1>6, <2>4, <2>8, <2>9 DEF TakesUp
  <2> QED
    BY <1>1, <1>6, <2>3, <2>5, <2>6, <2>7, <2>8, <2>9, <2>10, ActingKeeps
<1>7. CASE /\ ~ Resumable(s) /\ pc' = "agent"
           /\ session' = [s EXCEPT !.runs = Append(s.runs, fresh)]
           /\ chain' = ProviderChain(s.phase, s.level, fresh.model)
           /\ limit' = fresh.steps + Allowance(s)
  <2>1. /\ fresh \in RunRecord /\ fresh.phase = session.phase /\ fresh.status = "active"
        /\ fresh.model = session.bound[session.phase]
    BY <1>2, <1>3, NewRunType
  <2>2. fresh = NewRun(session.phase, session.bound[RoleOf(session.phase)])
    BY <1>2, <1>3
  <2> HIDE DEF fresh
  <2>3. /\ session' \in SessionRecord /\ session'.runs = Append(session.runs, fresh)
        /\ session'.runs # <<>> /\ Last(session'.runs) = fresh
        /\ \A i \in DOMAIN session'.runs : session'.runs[i] = fresh
              \/ (i \in DOMAIN session.runs /\ session'.runs[i] = session.runs[i])
    <3>1. s \in SessionRecord /\ session' = [s EXCEPT !.runs = Append(s.runs, fresh)]
      BY <1>3, <1>7
    <3>2. /\ session' \in SessionRecord /\ session'.runs = Append(s.runs, fresh)
          /\ session'.runs # <<>> /\ Last(session'.runs) = fresh
          /\ \A i \in DOMAIN session'.runs :
               session'.runs[i] = fresh \/ (i \in DOMAIN s.runs /\ session'.runs[i] = s.runs[i])
      BY <2>1, <3>1, FreshRun
    <3> QED
      BY <1>3, <3>2
  <2>4. /\ session'.workflow = session.workflow /\ session'.phase = session.phase
        /\ session'.level = session.level /\ session'.cycles = session.cycles
        /\ session'.implemented = session.implemented /\ session'.bound = session.bound
        /\ session'.status = "active"
    BY <1>3, <1>7 DEF SessionRecord
  <2>5. Begun'
    BY <1>1, <1>2, <2>2, <2>3, <2>4 DEF Begun
  <2>6. chain' \subseteq DOMAIN Registry /\ Run' = fresh
    BY <1>2, <1>3, <1>7, <2>1, <2>3, ChainsAreRegistered DEF Run
  <2>7. TakesUp
    BY <1>1, <1>3, <1>7, <1>8, <2>5, <2>6 DEF TakesUp, Resumable
  <2> QED
    BY <1>1, <1>7, <2>1, <2>3, <2>4, <2>5, <2>6, <2>7, ActingKeeps
<1> QED
  BY <1>4, <1>5, <1>6, <1>7

LEMMA WorkflowIsChosen ==
  ASSUME CoordinatorInv, Initialize
  PROVE  CoordinatorInv' /\ (Chooses \/ Returns)
<1>1. pc = "enter" /\ session.workflow = "none" /\ session \in SessionRecord
      /\ session.runs = <<>> /\ session.cycles = 0
  BY DEF Initialize, CoordinatorInv, TypeInv, WellFormed
<1>2. CASE Leaves /\ UNCHANGED stored
  BY <1>2, CoordinatorReturns
<1>3. CASE ~ (Leaves /\ UNCHANGED stored)
  <2>1. PICK task \in Tasks, requested \in Requested :
          LET level == LevelOf(task)
              workflow == ChooseWorkflow(requested, Configured, level)
          IN  /\ \A r \in RolesIn(workflow) : Selectable(r, level)
              /\ Store([session EXCEPT
                          !.workflow = workflow, !.level = level, !.status = "active",
                          !.phase = IF workflow = "fast" THEN "execute" ELSE "planning",
                          !.bound = [r \in Roles |-> IF r \in RolesIn(workflow)
                                                     THEN Select(r, level) ELSE "none"]])
              /\ Goto("loop")
              /\ UNCHANGED <<local, ran, starts>>
    BY <1>3 DEF Initialize
  <2> DEFINE level == LevelOf(task)
             workflow == ChooseWorkflow(requested, Configured, level)
  <2>2. level \in Levels /\ workflow \in {"fast", "feature"}
    BY LevelIsLevel, AgentAssumption DEF ChooseWorkflow
  <2> DEFINE binding == [r \in Roles |-> IF r \in RolesIn(workflow) THEN Select(r, level) ELSE "none"]
             phase == IF workflow = "fast" THEN "execute" ELSE "planning"
  <2>3. session' = [session EXCEPT !.workflow = workflow, !.level = level, !.status = "active",
                                   !.phase = phase, !.bound = binding]
        /\ stored' = session' /\ Goto("loop") /\ UNCHANGED <<local, ran>>
        /\ UNCHANGED <<chain, config>>
        /\ \A r \in RolesIn(workflow) : Selectable(r, level)
    BY <2>1 DEF Store, local
  <2> HIDE DEF level, workflow
  <2>4. RolesIn(workflow) \subseteq Roles
    BY <2>2 DEF RolesIn, Roles
  <2>5. \A r \in RolesIn(workflow) : Select(r, level) \in DOMAIN Registry
    BY <2>3, <2>4, SelectionQualifies DEF Qualifies
  <2>6. binding \in [Roles -> {"none"} \cup DOMAIN Registry]
        /\ \A r \in RolesIn(workflow) : binding[r] = Select(r, level)
    BY <2>4, <2>5
  <2>7. phase \in {"none"} \cup Phases
    BY DEF Phases
  <2> HIDE DEF binding, phase
  <2>8. session' \in SessionRecord
    BY <1>1, <2>2, <2>3, <2>6, <2>7 DEF SessionRecord, Statuses
  <2>9. /\ session'.workflow = workflow /\ session'.level = level /\ session'.status = "active"
        /\ session'.phase = phase /\ session'.bound = binding /\ session'.runs = <<>>
        /\ session'.cycles = 0
    BY <1>1, <2>3 DEF SessionRecord
  <2>10. WellFormed(session)'
    BY <2>2, <2>5, <2>6, <2>9 DEF WellFormed, phase, FeaturePhases, Phases
  <2>11. CoordinatorInv'
    <3>1. WellFormed(stored)'
      BY <2>3, <2>10 DEF WellFormed
    <3> QED
      BY <1>1, <2>2, <2>3, <2>8, <2>9, <3>1, LoopingKeeps DEF CoordinatorInv, Terminal
  <2>12. Chooses
    BY <1>1, <2>2, <2>3, <2>6, <2>8, <2>9 DEF Chooses, phase
  <2> QED
    BY <2>11, <2>12
<1> QED
  BY <1>2, <1>3

\* The steps that leave the session and the file alone, but for the memory of a process
\* that starts.
Idles ==
  /\ UNCHANGED <<stored, limit, before>>
  /\ budget' = budget \/ (pc = "out" /\ budget' \in Budgets)
  /\ \/ pc = "out" /\ pc' \in {"out", "enter"} /\ session' = stored' /\ UNCHANGED <<chain, ran>>
     \/ pc \in {"enter", "decide"} /\ pc' = "loop" /\ UNCHANGED <<session, chain, config, ran>>
     \/ pc = "tool" /\ pc' \in {"ok", "error", "fatal"} /\ UNCHANGED <<session, chain, config>>
        /\ (ran' = ran \/ (/\ ran' = ran \cup {Call}
                           /\ Head(Run.calls) \in DOMAIN Capabilities /\ Allowed))

LEMMA SomeIdle ==
  ASSUME CoordinatorInv, Start \/ Resume \/ AutoResume \/ RunTool
  PROVE  CoordinatorInv' /\ Idles
<1>5. /\ UNCHANGED <<stored, limit, before>>
      /\ budget' = budget \/ (pc = "out" /\ budget' \in Budgets)
  BY DEF Start, Resume, AutoResume, RunTool, local
<1>1. CASE Start
  <2>1. /\ pc = "out" /\ pc' \in {"out", "enter"} /\ session' = stored /\ UNCHANGED <<stored, chain, ran>>
        /\ pc' # "out" => Sound(config')
    BY <1>1 DEF Start, Goto
  <2>2. CoordinatorInv'
    BY <2>1 DEF CoordinatorInv, TypeInv, InMemory, AtHand, Acting, Running, WellFormed
  <2> QED
    BY <2>1, <2>2, <1>5 DEF Idles
<1>2. CASE Resume
  <2>1. pc = "enter" /\ pc' = "loop" /\ UNCHANGED <<session, stored, chain, config, ran>>
        /\ session.workflow # "none" /\ session.status \notin Terminal
    BY <1>2 DEF Resume, Goto, local
  <2>2. CoordinatorInv'
    BY <2>1 DEF CoordinatorInv, TypeInv, InMemory, AtHand, Acting, Running, WellFormed
  <2> QED
    BY <2>1, <2>2, <1>5 DEF Idles
<1>3. CASE AutoResume
  <2>1. pc = "decide" /\ pc' = "loop" /\ UNCHANGED <<session, stored, chain, config, ran>>
        /\ Run.status = "paused"
    BY <1>3 DEF AutoResume, InFeature, Goto, local
  <2>2. CoordinatorInv'
    BY <2>1 DEF CoordinatorInv, TypeInv, InMemory, AtHand, Acting, Running, WellFormed
  <2> QED
    BY <2>1, <2>2, <1>5 DEF Idles
<1>4. CASE RunTool
  <2>1. pc = "tool" /\ pc' \in {"ok", "error", "fatal"} /\ UNCHANGED <<session, stored, chain, config>>
        /\ (ran' = ran \/ (/\ ran' = ran \cup {Call}
                           /\ Head(Run.calls) \in DOMAIN Capabilities /\ Allowed))
    BY <1>4 DEF RunTool, Goto, local
  <2>2. CoordinatorInv'
    BY <2>1 DEF CoordinatorInv, TypeInv, InMemory, AtHand, Acting, Running, WellFormed, Run
  <2> QED
    BY <2>1, <2>2, <1>5 DEF Idles
<1> QED
  BY <1>1, <1>2, <1>3, <1>4

\* Every step of the run is of one of these kinds.
Kinds ==
  AgentSaves \/ Returns \/ Advances \/ Chooses \/ TakesUp \/ Finds \/ Idles

LEMMA StepsAreKinds ==
  ASSUME CoordinatorInv, AgentNext
  PROVE  CoordinatorInv' /\ Kinds
<1>1. CASE Interrupted \/ Exhausted \/ AnswerCalls \/ AnswerText \/ BeginCall \/ ToolAnswered
  BY <1>1, AgentActs DEF Kinds
<1>2. CASE \/ ReturnTerminal \/ OutOfSteps \/ FinishFast \/ PausePhase \/ FailPhase
           \/ NoContent \/ NoVerdict \/ Approved \/ TooManyCycles \/ Crash
  BY <1>2, CoordinatorReturns DEF Kinds
<1>3. CASE PlanDone \/ ImplementationDone \/ Rework
  BY <1>3, CoordinatorAdvances DEF Kinds
<1>4. CASE Initialize
  BY <1>4, WorkflowIsChosen DEF Kinds
<1>5. CASE StartFast
  BY <1>5, FastStarts DEF Kinds
<1>6. CASE StartPhase
  BY <1>6, PhaseStarts DEF Kinds
<1>7. CASE Start \/ Resume \/ AutoResume \/ RunTool
  BY <1>7, SomeIdle DEF Kinds
<1> QED
  BY <1>1, <1>2, <1>3, <1>4, <1>5, <1>6, <1>7 DEF AgentNext, Works

LEMMA NewSessionType ==
  NewSession \in SessionRecord /\ WellFormed(NewSession)
<1>1. [r \in Roles |-> "none"] \in [Roles -> {"none"} \cup DOMAIN Registry]
  OBVIOUS
<1>2. NewSession \in SessionRecord
  BY <1>1, AgentAssumption DEF NewSession, SessionRecord, Statuses
<1>3. WellFormed(NewSession)
  BY DEF NewSession, WellFormed
<1> QED
  BY <1>2, <1>3

LEMMA CoordinatorInit ==
  AgentInit => CoordinatorInv
BY NewSessionType DEF AgentInit, CoordinatorInv, TypeInv, InMemory, AtHand, Acting, Running

LEMMA CoordinatorStutters ==
  CoordinatorInv /\ UNCHANGED vars => CoordinatorInv'
BY DEF CoordinatorInv, TypeInv, WellFormed, InMemory, TakenUp, Begun, AtHand, Run, vars, local

\* The session in memory is never further ahead of the file than by the status of its last
\* run or a fresh one, and where the process is says what run it has at hand.
THEOREM CoordinatorInvariance == AgentSpec => []CoordinatorInv
<1>1. CoordinatorInv /\ [AgentNext]_vars => CoordinatorInv'
  BY StepsAreKinds, CoordinatorStutters
<1> QED
  BY <1>1, CoordinatorInit, PTL DEF AgentSpec

LEMMA RecordsAreTyped ==
  ASSUME NEW s \in SessionRecord
  PROVE  RunsOK(s)
<1>1. \A i \in DOMAIN s.runs : s.runs[i] \in RunRecord
  BY DEF SessionRecord
<1>2. \A r \in RunRecord : /\ r.phase \in Phases /\ r.status \in Statuses
                           /\ r.model \in DOMAIN Registry /\ r.calls \in Seq(Calls)
                           /\ r.steps \in Nat
  BY DEF RunRecord
<1> QED
  BY <1>1, <1>2 DEF RunsOK

\* The type invariant of a run of the agent.
THEOREM AgentTypeInvariance == AgentSpec => []AgentTypeOK
<1>1. CoordinatorInv => AgentTypeOK
  <2> SUFFICES ASSUME CoordinatorInv PROVE AgentTypeOK
    OBVIOUS
  <2>1. session \in SessionRecord /\ stored \in SessionRecord
    BY DEF CoordinatorInv, TypeInv
  <2>2. \A s \in {session, stored} :
          /\ s.workflow \in {"none", "fast", "feature"}
          /\ s.phase \in {"none"} \cup Phases
          /\ s.status \in Statuses
          /\ s.cycles \in 0 .. MaxCycles
    BY <2>1 DEF SessionRecord
  <2> QED
    BY <2>1, <2>2, RecordsAreTyped DEF AgentTypeOK, CoordinatorInv, TypeInv
<1> QED
  BY <1>1, CoordinatorInvariance, PTL

-----------------------------------------------------------------------------
(* Calls of tools *)

\* The run at hand is the last of the file, or begun after it.
SameRun ==
  /\ stored.runs # <<>> /\ Len(stored.runs) = Len(session.runs)
  /\ \A f \in {"phase", "model", "steps", "calls", "inflight", "says"} :
       Last(stored.runs)[f] = Run[f]
  /\ \A i \in DOMAIN stored.runs : i # Len(stored.runs) => session.runs[i] = stored.runs[i]

NextRun ==
  /\ pc = "agent" /\ Len(session.runs) = Len(stored.runs) + 1
  /\ session.workflow = "fast" => stored.runs = <<>>
  /\ Run = NewRun(session.phase, session.bound[RoleOf(session.phase)])
  /\ \A i \in DOMAIN stored.runs : session.runs[i] = stored.runs[i]

LEMMA RunInFile ==
  ASSUME CoordinatorInv, pc \in Acting
  PROVE  SameRun \/ NextRun
<1>1. stored \in SessionRecord /\ session \in SessionRecord /\ session.runs # <<>>
      /\ Run \in RunRecord
  BY RunAtHand DEF CoordinatorInv, TypeInv
<1>2. CASE session = stored
  BY <1>1, <1>2 DEF SameRun, Run
<1>3. CASE pc = "agent" /\ TakenUp
  <2> DEFINE n == Len(stored.runs)
             run == [stored.runs[n] EXCEPT !.status = "active"]
  <2>1. stored.runs # <<>> /\ session.runs = [stored.runs EXCEPT ![n] = run]
    BY <1>3 DEF TakenUp
  <2>2. stored.runs \in Seq(RunRecord) /\ n \in DOMAIN stored.runs /\ stored.runs[n] \in RunRecord
    BY <1>1, <2>1, RunType DEF SessionRecord, Last
  <2>3. Len(session.runs) = n /\ session.runs[n] = run
        /\ \A i \in DOMAIN stored.runs : i # n => session.runs[i] = stored.runs[i]
    BY <2>1, <2>2
  <2>4. \A f \in {"phase", "model", "steps", "calls", "inflight", "says"} :
          stored.runs[n][f] = run[f]
    BY <2>2 DEF RunRecord
  <2> QED
    BY <2>1, <2>3, <2>4 DEF SameRun, Run, Last
<1>4. CASE pc = "agent" /\ Begun
  <2> DEFINE run == NewRun(session.phase, session.bound[RoleOf(session.phase)])
  <2>1. session.runs = Append(stored.runs, run) /\ stored.runs \in Seq(RunRecord)
    BY <1>1, <1>4 DEF Begun, SessionRecord
  <2> HIDE DEF run
  <2>2. Len(session.runs) = Len(stored.runs) + 1 /\ session.runs[Len(session.runs)] = run
        /\ \A i \in DOMAIN stored.runs : session.runs[i] = stored.runs[i]
    BY <2>1
  <2> QED
    BY <1>4, <2>2 DEF NextRun, Begun, Run, Last, run
<1> QED
  BY <1>2, <1>3, <1>4 DEF CoordinatorInv, InMemory, Acting

LEMMA RunsKept ==
  ASSUME CoordinatorInv, Returns \/ Advances \/ Finds
  PROVE  /\ stored'.runs = stored.runs /\ ran' = ran
         /\ pc' \in {"out", "loop", "decide"}
<1>1. session \in SessionRecord /\ pc # "agent" => session.runs = stored.runs
  BY DEF CoordinatorInv, TypeInv, InMemory
<1>2. session \in SessionRecord
  BY DEF CoordinatorInv, TypeInv
<1> QED
  BY <1>1, <1>2 DEF Returns, Leaves, Advances, Finds, Goto, SessionRecord

LEMMA CallsStep ==
  ASSUME CoordinatorInv, CallsInv, Kinds
  PROVE  CallsInv'
<1>1. stored \in SessionRecord /\ session \in SessionRecord
  BY DEF CoordinatorInv, TypeInv
<1>2. ASSUME AgentSaves, NEW c \in ran
      PROVE  /\ c.run \in DOMAIN stored'.runs
             /\ Past(c)' \/ (Interrupts(c)' /\ pc' # "tool")
  <2>1. PICK run \in RunRecord :
          Saved(run) /\ (Stops(run) \/ Answers(run) \/ Begins(run) \/ Closes(run))
    BY <1>2 DEF AgentSaves
  <2>2. pc \in Acting /\ pc # "tool"
    BY <2>1 DEF Stops, Answers, Begins, Closes, Acting
  <2>3. /\ Run \in RunRecord /\ session.runs # <<>>
        /\ pc \in Running => Run.inflight /\ Run.calls # <<>>
    BY <2>2, RunAtHand
  <2>4. /\ Len(stored'.runs) = Len(session.runs) /\ DOMAIN stored'.runs = 1 .. Len(session.runs)
        /\ Last(stored'.runs) = Persist(run) /\ stored'.runs # <<>>
        /\ \A f \in {"steps", "calls", "inflight"} : Last(stored'.runs)[f] = run[f]
    BY <1>1, <2>1, <2>3, RunType DEF Saved, Persist, RunRecord
  <2>5. /\ c.run \in 1 .. Len(stored.runs) /\ DOMAIN stored.runs = 1 .. Len(stored.runs)
        /\ c.run \in Nat /\ c.reply \in Nat /\ c.left \in Nat /\ Len(stored.runs) \in Nat
        /\ Past(c) \/ Interrupts(c)
    BY <1>1, <1>2 DEF CallsInv, CallRecord, SessionRecord
  <2>6. CASE NextRun
    BY <2>4, <2>5, <2>6 DEF NextRun, Past
  <2>7. CASE SameRun
    <3>1. /\ c.run \in DOMAIN stored'.runs /\ Len(stored'.runs) = Len(stored.runs)
          /\ stored.runs # <<>>
          /\ \A f \in {"steps", "calls", "inflight"} : Last(stored.runs)[f] = Run[f]
      BY <2>4, <2>5, <2>7 DEF SameRun
    <3>2. Run.steps \in Nat /\ Len(Run.calls) \in Nat /\ Run.calls \in Seq(Calls)
      BY <2>3 DEF RunRecord
    <3>3. CASE Stops(run)
      BY <2>4, <2>5, <3>1, <3>3 DEF Stops, Past, Interrupts
    <3>4. CASE Answers(run)
      BY <2>4, <2>5, <3>1, <3>2, <3>4 DEF Answers, Past, Interrupts
    <3>5. CASE Begins(run)
      BY <2>4, <2>5, <3>1, <3>2, <3>5 DEF Begins, Past, Interrupts
    <3>6. CASE Closes(run)
      <4>1. Len(run.calls) = Len(Run.calls) - 1
        BY <2>3, <3>2, <3>6 DEF Closes, Running
      <4>2. /\ Last(stored'.runs).steps = Last(stored.runs).steps
            /\ Len(Last(stored'.runs).calls) = Len(Last(stored.runs).calls) - 1
            /\ Len(Last(stored.runs).calls) \in Nat
        BY <2>4, <3>1, <3>2, <3>6, <4>1 DEF Closes
      <4>3. CASE Past(c)
        BY <2>4, <2>5, <3>1, <4>2, <4>3 DEF Past
      <4>4. CASE Interrupts(c)
        BY <2>4, <2>5, <3>1, <4>2, <4>4 DEF Past, Interrupts
      <4> QED
        BY <2>5, <3>1, <4>3, <4>4
    <3> QED
      BY <2>1, <3>3, <3>4, <3>5, <3>6
  <2> QED
    BY <2>2, <2>6, <2>7, RunInFile
<1>3. CASE AgentSaves
  BY <1>2, <1>3 DEF CallsInv, AgentSaves
<1>4. ASSUME ran' = ran, stored'.runs = stored.runs, pc' # "tool"
      PROVE  CallsInv'
  BY <1>4 DEF CallsInv, Past, Interrupts
<1>5. CASE Returns \/ Advances \/ Finds
  BY <1>4, <1>5, RunsKept
<1>6. CASE Chooses
  <2>1. session = stored /\ stored.runs = <<>> /\ ran' = ran
    BY <1>6 DEF Chooses, CoordinatorInv, TypeInv, InMemory, WellFormed
  <2>2. ran = {}
    BY <2>1 DEF CallsInv
  <2> QED
    BY <2>1, <2>2 DEF CallsInv
<1>7. CASE TakesUp
  BY <1>4, <1>7 DEF TakesUp
<1>8. CASE Idles
  <2>1. CASE ran' = ran
    BY <1>4, <1>8, <2>1 DEF Idles
  <2>2. CASE /\ ran' = ran \cup {Call} /\ pc = "tool" /\ pc' # "tool" /\ stored' = stored
             /\ Head(Run.calls) \in DOMAIN Capabilities
    <3>1. session = stored /\ Run \in RunRecord /\ Run.inflight /\ stored.runs # <<>>
          /\ session.runs # <<>>
      BY <2>2, RunAtHand DEF CoordinatorInv, InMemory, Acting, Running
    <3>2. Call \in CallRecord /\ Call.run = Len(stored.runs) /\ Call.reply = Last(stored.runs).steps
          /\ Call.left = Len(Last(stored.runs).calls)
      BY <1>1, <2>2, <3>1, RunType DEF Call, CallRecord, RunRecord, Run, SessionRecord
    <3>3. Call.run \in DOMAIN stored.runs /\ Interrupts(Call)
      BY <1>1, <3>1, <3>2, RunType DEF Interrupts, Run
    <3>4. \A c \in ran \cup {Call} : (Past(c) => Past(c)') /\ (Interrupts(c) => Interrupts(c)')
      BY <2>2 DEF Past, Interrupts
    <3> QED
      BY <2>2, <3>2, <3>3, <3>4 DEF CallsInv
  <2> QED
    BY <1>8, <2>1, <2>2 DEF Idles
<1> QED
  BY <1>3, <1>5, <1>6, <1>7, <1>8 DEF Kinds

\* Every call whose work was done is answered, or is the one that the file marks as in
\* flight, which no process begins again.
THEOREM CallsInvariance == AgentSpec => []CallsInv
<1>1. AgentInit => CallsInv
  BY DEF AgentInit, CallsInv
<1>2. CoordinatorInv /\ CallsInv /\ [AgentNext]_vars => CallsInv'
  <2>1. CallsInv /\ UNCHANGED vars => CallsInv'
    BY DEF CallsInv, Past, Interrupts, vars
  <2> QED
    BY <2>1, CallsStep, StepsAreKinds
<1> QED
  BY <1>1, <1>2, CoordinatorInvariance, PTL DEF AgentSpec

\* The tool of a call is run at most once, however often the process dies.
THEOREM CallsHappenOnce == AgentSpec => []NoCallTwice
<1>1. CoordinatorInv /\ CallsInv => NoCallTwice
  <2> SUFFICES ASSUME CoordinatorInv, CallsInv, pc = "tool", Call \in ran PROVE FALSE
    BY DEF NoCallTwice
  <2>1. session = stored /\ stored \in SessionRecord /\ Run \in RunRecord
    BY RunAtHand DEF CoordinatorInv, TypeInv, InMemory, Acting
  <2>2. Past(Call)
    BY DEF CallsInv
  <2>3. Run.steps \in Nat /\ Len(Run.calls) \in Nat /\ Len(stored.runs) \in Nat
    BY <2>1 DEF RunRecord, SessionRecord
  <2> QED
    BY <2>1, <2>2, <2>3 DEF Past, Call, Run
<1> QED
  BY <1>1, CoordinatorInvariance, CallsInvariance, PTL

-----------------------------------------------------------------------------
(* What a phase may do *)

LEMMA PhasesKept ==
  ASSUME CoordinatorInv, Kinds
  PROVE  \A i \in DOMAIN stored.runs : stored'.runs[i].phase = stored.runs[i].phase
<1>1. stored \in SessionRecord /\ session \in SessionRecord
  BY DEF CoordinatorInv, TypeInv
<1>2. CASE AgentSaves
  <2>1. PICK run \in RunRecord :
          Saved(run) /\ (Stops(run) \/ Answers(run) \/ Begins(run) \/ Closes(run))
    BY <1>2 DEF AgentSaves
  <2>2. pc \in Acting /\ run.phase = Run.phase
    BY <2>1 DEF Stops, Answers, Begins, Closes, Acting
  <2>3. session.runs # <<>>
    BY <2>2, RunAtHand
  <2>4. /\ stored'.runs[Len(session.runs)].phase = Run.phase
        /\ \A i \in DOMAIN session.runs :
             i # Len(session.runs) => stored'.runs[i] = session.runs[i]
    BY <1>1, <2>1, <2>2, <2>3, RunType DEF Saved, Persist, RunRecord, Last
  <2>5. DOMAIN stored.runs = 1 .. Len(stored.runs) /\ Len(stored.runs) \in Nat
        /\ DOMAIN session.runs = 1 .. Len(session.runs)
    BY <1>1 DEF SessionRecord
  <2>6. CASE SameRun
    BY <2>4, <2>5, <2>6 DEF SameRun, Last
  <2>7. CASE NextRun
    BY <2>4, <2>5, <2>7 DEF NextRun
  <2> QED
    BY <2>2, <2>6, <2>7, RunInFile
<1>3. CASE Returns \/ Advances \/ Finds
  BY <1>3, RunsKept
<1>4. CASE Chooses
  BY <1>4 DEF Chooses, CoordinatorInv, TypeInv, InMemory, WellFormed
<1>5. CASE TakesUp \/ Idles
  BY <1>5 DEF TakesUp, Idles
<1> QED
  BY <1>2, <1>3, <1>4, <1>5 DEF Kinds

LEMMA AllowedIsWithin ==
  ASSUME NEW c, Sound(c), NEW phase \in Phases, NEW tool \in DOMAIN Capabilities,
         ToolOf(tool) \in ToolNames(c, phase)
  PROVE  /\ phase \in {"planning", "review"} => "write_fs" \notin Capabilities[tool]
         /\ phase = "planning" => "execute" \notin Capabilities[tool]
<1>1. tool \notin ControlTools /\ ToolOf(tool) = tool
  BY AgentAssumption DEF ToolOf
<1>2. WithinLimit(tool, phase)
  BY <1>1 DEF Sound, Escalates, ToolNames, Phases
<1> QED
  BY <1>1, <1>2 DEF WithinLimit, CapabilitiesOf, ReadOnly

\* No tool that writes has run in planning or review, and no command in planning.
THEOREM PhasesAreConfined == AgentSpec => []PhasesConfined
<1>1. AgentInit => PhasesConfined
  BY DEF AgentInit, PhasesConfined
<1>2. ASSUME CoordinatorInv, CallsInv, CallsInv', PhasesConfined, Kinds
      PROVE  PhasesConfined'
  <2>1. \A i \in DOMAIN stored.runs : stored'.runs[i].phase = stored.runs[i].phase
    BY <1>2, PhasesKept
  <2>2. CASE ran' = ran
    BY <1>2, <2>1, <2>2 DEF PhasesConfined, CallsInv
  <2>3. CASE /\ ran' = ran \cup {Call} /\ pc = "tool" /\ stored' = stored
             /\ Head(Run.calls) \in DOMAIN Capabilities /\ Allowed
    <3>1. /\ session = stored /\ Sound(config) /\ Run \in RunRecord
          /\ Call.tool = Head(Run.calls) /\ stored.runs[Call.run] = Run
      BY <1>2, <2>3, RunAtHand DEF CoordinatorInv, TypeInv, InMemory, Acting, Call, Run, Last
    <3>2. Run.phase \in Phases
      BY <3>1 DEF RunRecord
    <3>3. /\ Run.phase \in {"planning", "review"} => "write_fs" \notin Capabilities[Call.tool]
          /\ Run.phase = "planning" => "execute" \notin Capabilities[Call.tool]
      BY <2>3, <3>1, <3>2, AllowedIsWithin DEF Allowed
    <3> QED
      BY <1>2, <2>3, <3>1, <3>3 DEF PhasesConfined
  <2> QED
    BY <1>2, <2>2, <2>3 DEF Kinds, AgentSaves, Returns, Leaves, Advances, Chooses, TakesUp,
                            Finds, Idles
<1>3. PhasesConfined /\ UNCHANGED vars => PhasesConfined'
  BY DEF PhasesConfined, vars
<1>4. CoordinatorInv /\ CallsInv /\ CallsInv' /\ PhasesConfined /\ [AgentNext]_vars
        => PhasesConfined'
  BY <1>2, <1>3, StepsAreKinds
<1> QED
  BY <1>1, <1>4, CoordinatorInvariance, CallsInvariance, PTL DEF AgentSpec

-----------------------------------------------------------------------------
(* Who answers *)

LEMMA PositionsDiffer ==
  ASSUME NEW role \in Roles, NEW level,
         NEW m \in Suitable(role, level), NEW n \in Suitable(role, level),
         Position(role, level, m) = Position(role, level, n)
  PROVE  m = n
BY Positions

LEMMA ChainsFit ==
  ASSUME NEW role, NEW level, NEW m, Fits(m, role, level), NEW n \in ProviderChain(role, level, m)
  PROVE  Fits(n, role, level)
BY DEF Fits, ProviderChain, Suitable

LEMMA ChainsFollow ==
  ASSUME NEW role \in Roles, NEW level, NEW a, NEW m \in ProviderChain(role, level, a),
         NEW n \in ProviderChain(role, level, m)
  PROVE  n \in ProviderChain(role, level, a)
<1>1. \A k \in {a, m, n} : Position(role, level, k) \in Nat
  BY PositionType
<1> QED
  BY <1>1 DEF ProviderChain

LEMMA ChainsGoOn ==
  ASSUME NEW role \in Roles, NEW level, NEW a,
         NEW C \in SUBSET ProviderChain(role, level, a), NEW m \in C
  PROVE  Onward(role, level, C, m) \subseteq ProviderChain(role, level, m)
<1> SUFFICES ASSUME NEW n \in Onward(role, level, C, m)
             PROVE  n \in ProviderChain(role, level, m)
  OBVIOUS
<1>1. \A k \in {a, m, n} : Position(role, level, k) \in Nat
  BY PositionType
<1>2. /\ n = a \/ (n \in Suitable(role, level) /\ Position(role, level, n) > Position(role, level, a))
      /\ m = a \/ (m \in Suitable(role, level) /\ Position(role, level, m) > Position(role, level, a))
      /\ Position(role, level, n) >= Position(role, level, m)
  BY DEF Onward, ProviderChain
<1>3. CASE n = a
  BY <1>1, <1>2, <1>3 DEF ProviderChain
<1>4. CASE n # a /\ m = a
  BY <1>2, <1>4 DEF ProviderChain
<1>5. CASE n # a /\ m # a
  BY <1>1, <1>2, <1>5, PositionsDiffer DEF ProviderChain
<1> QED
  BY <1>3, <1>4, <1>5

LEMMA RolesOfPhases ==
  /\ \A phase \in Phases : RoleOf(phase) \in Roles
  /\ \A phase \in FeaturePhases : RoleOf(phase) = phase /\ phase \in RolesIn("feature")
  /\ RoleOf("execute") = "fast" /\ "fast" \in RolesIn("fast")
BY DEF RoleOf, Phases, FeaturePhases, Roles, RolesIn

LEMMA SameModels ==
  ASSUME NEW s, NEW t, Fitted(s), t.runs = s.runs, t.workflow = s.workflow, t.level = s.level,
         t.bound = s.bound
  PROVE  Fitted(t)
BY DEF Fitted

LEMMA ModelsStep ==
  ASSUME CoordinatorInv, CoordinatorInv', ModelsInv, Kinds
  PROVE  ModelsInv'
<1>1. /\ stored \in SessionRecord /\ session \in SessionRecord
      /\ WellFormed(session) /\ WellFormed(stored) /\ Fitted(session) /\ Fitted(stored)
  BY DEF CoordinatorInv, TypeInv, ModelsInv
<1>2. CASE AgentSaves
  <2>1. PICK run \in RunRecord :
          Saved(run) /\ (Stops(run) \/ Answers(run) \/ Begins(run) \/ Closes(run))
    BY <1>2 DEF AgentSaves
  <2> DEFINE role == RoleOf(session.phase)
  <2>2. pc \in Acting /\ run.phase = Run.phase
    BY <2>1 DEF Stops, Answers, Begins, Closes, Acting
  <2>3. /\ session.runs # <<>> /\ Run \in RunRecord /\ Run.phase = session.phase
        /\ session.workflow \in {"fast", "feature"} /\ session.phase \in Phases
    BY <1>1, <2>2, RunAtHand DEF SessionRecord, RunRecord
  <2>4. role \in Roles /\ chain \subseteq ProviderChain(role, session.level, Run.model)
        /\ Fits(Run.model, role, session.level)
    BY <1>1, <2>2, <2>3, RolesOfPhases, RunType DEF ModelsInv, Fitted, Run, Last
  <2>5. run.model \in ProviderChain(role, session.level, Run.model)
    <3>1. run.model = Run.model \/ run.model \in chain
      BY <2>1 DEF Stops, Answers, Begins, Closes
    <3> QED
      BY <2>4, <3>1 DEF ProviderChain
  <2>6. Fits(run.model, role, session.level)
    BY <2>4, <2>5, ChainsFit
  <2>7. /\ stored' = session' /\ Persist(run).model = run.model /\ Persist(run).phase = run.phase
        /\ session'.workflow = session.workflow /\ session'.level = session.level
        /\ session'.phase = session.phase /\ Last(session'.runs) = Persist(run)
        /\ Len(session'.runs) = Len(session.runs) /\ DOMAIN session'.runs = DOMAIN session.runs
        /\ session'.runs[Len(session.runs)] = Persist(run)
        /\ \A i \in DOMAIN session.runs :
             i # Len(session.runs) => session'.runs[i] = session.runs[i]
    BY <2>1 DEF Saved, Persist, RunRecord, Last
  <2>8. \A i \in DOMAIN session'.runs :
          Fits(session'.runs[i].model, RoleOf(session'.runs[i].phase), session'.level)
    BY <1>1, <2>2, <2>3, <2>6, <2>7 DEF Fitted
  <2>9. \A r \in RolesIn(session'.workflow) : Fits(session'.bound[r], r, session'.level)
    <3>1. CASE session.workflow = "fast"
      BY <1>1, <2>1, <2>7, <3>1 DEF Fitted, Saved
    <3>2. CASE session.workflow = "feature"
      <4>1. session'.bound = [session.bound EXCEPT ![role] = run.model]
            /\ session.bound \in [Roles -> {"none"} \cup DOMAIN Registry]
        BY <1>1, <2>1, <2>2, <2>3, <3>2 DEF Saved, SessionRecord
      <4>2. \A r \in RolesIn("feature") : Fits(session.bound[r], r, session.level) /\ r \in Roles
        BY <1>1, <3>2 DEF Fitted, RolesIn
      <4> QED
        BY <2>6, <2>7, <3>2, <4>1, <4>2
    <3> QED
      BY <2>3, <3>1, <3>2
  <2>10. session'.workflow = "fast" =>
           Last(session'.runs).model
             \in ProviderChain("fast", session'.level, session'.bound["fast"])
    <3> SUFFICES ASSUME session.workflow = "fast"
                 PROVE  run.model \in ProviderChain("fast", session.level, session.bound["fast"])
      BY <2>1, <2>7 DEF Saved
    <3>1. role = "fast"
      BY <1>1, RolesOfPhases DEF WellFormed
    <3>2. Run.model \in ProviderChain("fast", session.level, session.bound["fast"])
      BY <1>1, <2>3 DEF Fitted, Run
    <3> QED
      BY <2>4, <2>5, <3>1, <3>2, ChainsFollow
  <2>11. Fitted(session)' /\ Fitted(stored)'
    <3>1. Fitted(session)'
      BY <2>8, <2>9, <2>10 DEF Fitted
    <3> QED
      BY <2>7, <3>1, SameModels
  <2>12. pc' \in Acting =>
           chain' \subseteq ProviderChain(RoleOf(session'.phase), session'.level, Run'.model)
    <3> SUFFICES ASSUME pc' \in Acting
                 PROVE  chain' \subseteq ProviderChain(role, session.level, run.model)
      BY <2>7 DEF Run
    <3>1. CASE Answers(run)
      BY <2>3, <2>4, <3>1, ChainsGoOn DEF Answers
    <3>2. CASE Begins(run) \/ Closes(run)
      BY <2>4, <3>2 DEF Begins, Closes
    <3> QED
      BY <2>1, <3>1, <3>2 DEF Stops, Acting
  <2> QED
    BY <2>11, <2>12 DEF ModelsInv
<1>3. CASE Returns
  <2>1. pc' = "out" /\ session' = stored'
    BY <1>3 DEF Returns, Leaves, Goto
  <2>2. CASE UNCHANGED stored
    BY <1>1, <2>1, <2>2, SameModels DEF ModelsInv, Acting
  <2>3. ASSUME NEW status \in Statuses, stored' = [session EXCEPT !.status = status]
        PROVE  ModelsInv'
    <3>1. /\ stored'.runs = session.runs /\ stored'.workflow = session.workflow
          /\ stored'.level = session.level /\ stored'.bound = session.bound
      BY <1>1, <2>3 DEF SessionRecord
    <3> QED
      BY <1>1, <2>1, <3>1, SameModels DEF ModelsInv, Acting
  <2>4. CASE /\ pc = "decide" /\ session.workflow = "fast"
             /\ stored' = [session EXCEPT !.bound["fast"] = Run.model]
    <3>1. /\ stored'.runs = session.runs /\ stored'.workflow = "fast"
          /\ stored'.level = session.level
          /\ stored'.bound = [session.bound EXCEPT !["fast"] = Run.model]
          /\ session.bound \in [Roles -> {"none"} \cup DOMAIN Registry]
      BY <1>1, <2>4 DEF SessionRecord
    <3>2. session.runs # <<>> /\ Run.phase = "execute" /\ Run = session.runs[Len(session.runs)]
          /\ Len(session.runs) \in DOMAIN session.runs /\ Run = Last(session.runs)
      BY <1>1, <2>4, RunAtHand, RunType DEF WellFormed, Run, Last
    <3>3. Fits(Run.model, "fast", session.level)
      BY <1>1, <3>2, RolesOfPhases DEF Fitted
    <3>4. stored'.bound["fast"] = Run.model
      BY <3>1 DEF Roles
    <3>5. Fitted(stored)'
      BY <1>1, <3>1, <3>2, <3>3, <3>4 DEF Fitted, RolesIn, ProviderChain
    <3> QED
      BY <2>1, <3>5 DEF ModelsInv, Acting
  <2>5. CASE stored' = session
    BY <1>1, <2>1, <2>5, SameModels DEF ModelsInv, Acting
  <2> QED
    BY <1>3, <2>2, <2>3, <2>4, <2>5 DEF Returns
<1>4. CASE Advances
  <2>1. /\ pc' = "loop" /\ session' = stored'
        /\ stored'.runs = session.runs /\ stored'.workflow = session.workflow
        /\ stored'.level = session.level /\ stored'.bound = session.bound
    BY <1>1, <1>4 DEF Advances, Goto, SessionRecord
  <2> QED
    BY <1>1, <2>1, SameModels DEF ModelsInv, Acting
<1>5. CASE Chooses
  <2>1. /\ pc' = "loop" /\ session' = stored' /\ session'.runs = <<>>
        /\ RolesIn(session'.workflow) \subseteq Roles
        /\ \A r \in RolesIn(session'.workflow) :
             Selectable(r, session'.level) /\ session'.bound[r] = Select(r, session'.level)
    BY <1>5 DEF Chooses, Goto, RolesIn, Roles
  <2>2. \A r \in RolesIn(session'.workflow) : Fits(session'.bound[r], r, session'.level)
    BY <2>1, SelectionQualifies DEF Fits
  <2>3. Fitted(session)'
    BY <2>1, <2>2 DEF Fitted
  <2> QED
    BY <2>1, <2>3 DEF ModelsInv, Acting
<1>6. CASE TakesUp
  <2>1. /\ pc = "loop" /\ pc' = "agent" /\ stored' = stored /\ session = stored
        /\ session.workflow \in {"fast", "feature"}
    BY <1>1, <1>6 DEF TakesUp, CoordinatorInv, InMemory, AtHand, SessionRecord
  <2>2. /\ session'.workflow = session.workflow /\ session'.phase = session.phase
        /\ session'.level = session.level /\ session'.bound = session.bound
        /\ session' \in SessionRecord /\ session'.runs # <<>> /\ Run'.phase = session.phase
    BY <2>1 DEF CoordinatorInv, TypeInv, InMemory, AtHand, Acting
  <2> DEFINE role == RoleOf(session.phase)
  <2>3. /\ role \in Roles /\ role \in RolesIn(session.workflow)
        /\ session.workflow = "fast" => role = "fast"
        /\ session.workflow = "feature" => role = session.phase
        /\ Fits(session.bound[role], role, session.level)
    <3>1. CASE session.workflow = "fast"
      BY <1>1, <3>1, RolesOfPhases DEF WellFormed, Fitted, Phases
    <3>2. CASE session.workflow = "feature"
      <4>1. session.phase \in FeaturePhases /\ session.phase \in Phases
        BY <1>1, <3>2 DEF WellFormed, FeaturePhases
      <4> QED
        BY <1>1, <3>2, <4>1, RolesOfPhases DEF Fitted
    <3> QED
      BY <2>1, <3>1, <3>2
  <2>4. /\ \A i \in DOMAIN session'.runs :
             Fits(session'.runs[i].model, RoleOf(session'.runs[i].phase), session'.level)
        /\ session.workflow = "fast" =>
             Run'.model \in ProviderChain("fast", session.level, session.bound["fast"])
    <3>1. CASE TakenUp'
      <4>1. stored.runs # <<>> /\ session'.runs = [stored.runs EXCEPT ![Len(stored.runs)].status = "active"]
        BY <2>1, <3>1 DEF TakenUp
      <4>2. /\ stored.runs \in Seq(RunRecord) /\ Len(stored.runs) \in DOMAIN stored.runs
            /\ Last(stored.runs) = stored.runs[Len(stored.runs)]
        BY <1>1, <4>1, RunType DEF SessionRecord, Last
      <4>3. /\ DOMAIN session'.runs = DOMAIN stored.runs /\ Len(session'.runs) = Len(stored.runs)
            /\ \A i \in DOMAIN stored.runs : session'.runs[i].model = stored.runs[i].model
                                             /\ session'.runs[i].phase = stored.runs[i].phase
        BY <4>1, <4>2 DEF RunRecord
      <4>4. Run'.model = Last(stored.runs).model
        BY <4>2, <4>3 DEF Run, Last
      <4> QED
        BY <1>1, <2>1, <2>2, <4>1, <4>3, <4>4 DEF Fitted
    <3>2. CASE Begun'
      <4>1. session'.runs = Append(stored.runs, NewRun(session.phase, session.bound[role]))
        BY <2>1, <2>2, <3>2 DEF Begun
      <4>2. stored.runs \in Seq(RunRecord)
        BY <1>1 DEF SessionRecord
      <4>3. /\ Run' = NewRun(session.phase, session.bound[role])
            /\ \A i \in DOMAIN session'.runs :
                 \/ session'.runs[i] = NewRun(session.phase, session.bound[role])
                 \/ i \in DOMAIN stored.runs /\ session'.runs[i] = stored.runs[i]
        BY <4>1, <4>2 DEF Run, Last
      <4>4. NewRun(session.phase, session.bound[role]).model = session.bound[role]
            /\ NewRun(session.phase, session.bound[role]).phase = session.phase
        BY DEF NewRun
      <4> QED
        BY <1>1, <2>1, <2>2, <2>3, <4>3, <4>4 DEF Fitted, ProviderChain
    <3> QED
      BY <1>6, <3>1, <3>2 DEF TakesUp
  <2>5. Fitted(session)'
    BY <1>1, <2>1, <2>2, <2>4 DEF Fitted, Run
  <2>6. chain' \subseteq ProviderChain(role, session.level, Run'.model)
    <3>1. CASE session.workflow = "fast"
      BY <1>6, <2>3, <2>4, <3>1, ChainsGoOn DEF TakesUp
    <3>2. CASE session.workflow = "feature"
      BY <1>6, <2>3, <3>2 DEF TakesUp
    <3> QED
      BY <2>1, <3>1, <3>2
  <2> QED
    BY <1>1, <2>1, <2>2, <2>5, <2>6 DEF ModelsInv, Fitted
<1>7. CASE Finds
  <2>1. /\ pc' = "decide" /\ stored' = stored
        /\ session'.runs = session.runs /\ session'.workflow = session.workflow
        /\ session'.level = session.level /\ session'.bound = session.bound
    BY <1>1, <1>7 DEF Finds, SessionRecord
  <2> QED
    BY <1>1, <2>1, SameModels DEF ModelsInv, Acting
<1>8. CASE Idles
  <2>1. stored' = stored /\ (session' = session \/ session' = stored)
        /\ (pc' \in Acting => pc \in Acting /\ session' = session /\ chain' = chain)
    BY <1>8 DEF Idles, Acting
  <2>2. Fitted(session)' /\ Fitted(stored)'
    BY <1>1, <2>1 DEF Fitted
  <2> QED
    BY <2>1, <2>2 DEF ModelsInv, Run
<1> QED
  BY <1>2, <1>3, <1>4, <1>5, <1>6, <1>7, <1>8 DEF Kinds

\* Whatever answers or is bound fits its role, and what may still answer comes after it.
THEOREM ModelsInvariance == AgentSpec => []ModelsInv
<1>1. AgentInit => ModelsInv
  BY DEF AgentInit, NewSession, ModelsInv, Fitted, Acting
<1>2. CoordinatorInv /\ CoordinatorInv' /\ ModelsInv /\ [AgentNext]_vars => ModelsInv'
  <2>1. ModelsInv /\ UNCHANGED vars => ModelsInv'
    BY DEF ModelsInv, Fitted, Run, vars, local
  <2> QED
    BY <2>1, ModelsStep, StepsAreKinds
<1> QED
  BY <1>1, <1>2, CoordinatorInvariance, PTL DEF AgentSpec

\* Every model that has answered qualifies for its role and this task.
THEOREM AnswersAreQualified == AgentSpec => []AnswersQualify
<1>1. ModelsInv => AnswersQualify
  BY DEF ModelsInv, Fitted, Fits, AnswersQualify
<1> QED
  BY <1>1, ModelsInvariance, PTL

\* A model that stands in for another one of a role is named after it.
LEMMA StandInIsLater ==
  ASSUME NEW role \in Roles, NEW level, NEW a, Fits(a, role, level),
         NEW m \in ProviderChain(role, level, a), m # a
  PROVE  \E i, j \in DOMAIN Preferred[role] :
           i < j /\ Preferred[role][i] = a /\ Preferred[role][j] = m
<1>1. m \in Suitable(role, level) /\ Position(role, level, m) > Position(role, level, a)
  BY DEF ProviderChain
<1>2. Preferred[role] # <<>>
  BY <1>1, RoutingAssumption DEF Suitable, Range
<1>3. a \in Suitable(role, level)
  BY <1>2 DEF Fits
<1> QED
  BY <1>1, <1>3, Positions

LEMMA SameCurrent ==
  ASSUME NEW s, NEW t, t.runs = s.runs, t.workflow = s.workflow, t.bound = s.bound
  PROVE  \A role \in Roles : Current(t, role) = Current(s, role)
BY DEF Current

LEMMA FailoverMovesOn ==
  ASSUME CoordinatorInv, ModelsInv, Kinds, NEW role \in Roles,
         Current(stored, role) # Current(stored', role)
  PROVE  \/ stored.workflow = "none"
         \/ /\ role = RoleOf(stored'.phase)
            /\ \E i, j \in DOMAIN Preferred[role] :
                 /\ i < j
                 /\ Preferred[role][i] = Current(stored, role)
                 /\ Preferred[role][j] = Current(stored', role)
<1>1. /\ stored \in SessionRecord /\ session \in SessionRecord
      /\ session.workflow = stored.workflow /\ session.bound = stored.bound
      /\ session.level = stored.level
      /\ WellFormed(session) /\ Fitted(session)
  BY DEF CoordinatorInv, TypeInv, InMemory, ModelsInv
<1>2. CASE AgentSaves
  <2>1. PICK run \in RunRecord :
          Saved(run) /\ (Stops(run) \/ Answers(run) \/ Begins(run) \/ Closes(run))
    BY <1>2 DEF AgentSaves
  <2> DEFINE r == RoleOf(session.phase)
  <2>2. pc \in Acting /\ run.phase = Run.phase
    BY <2>1 DEF Stops, Answers, Begins, Closes, Acting
  <2>3. /\ session.runs # <<>> /\ Run \in RunRecord /\ Run.phase = session.phase
        /\ session.workflow \in {"fast", "feature"} /\ session.phase \in Phases
        /\ r \in Roles
    BY <1>1, <2>2, RunAtHand, RolesOfPhases DEF SessionRecord, RunRecord
  <2>4. Fits(Run.model, r, session.level)
    BY <1>1, <2>3, RunType DEF Fitted, Run, Last
  <2>5. run.model \in ProviderChain(r, session.level, Run.model)
    <3>1. run.model = Run.model \/ run.model \in chain
      BY <2>1 DEF Stops, Answers, Begins, Closes
    <3> QED
      BY <2>2, <3>1 DEF ProviderChain, ModelsInv
  <2>6. /\ stored'.workflow = session.workflow /\ stored'.phase = session.phase
        /\ stored'.runs # <<>> /\ Last(stored'.runs).model = run.model
    BY <2>1 DEF Saved, Persist, RunRecord
  <2>7. SameRun \/ NextRun
    BY <2>2, RunInFile
  <2>8. role = r /\ Current(stored, r) = Run.model /\ Current(stored', r) = run.model
    <3>1. CASE session.workflow = "fast"
      <4>1. r = "fast" /\ stored'.bound = stored.bound
        BY <1>1, <2>1, <3>1, RolesOfPhases DEF WellFormed, Saved
      <4>2. Current(stored, "fast") = Run.model
        <5>1. CASE SameRun
          BY <1>1, <3>1, <5>1 DEF SameRun, Current
        <5>2. CASE NextRun
          BY <1>1, <3>1, <4>1, <5>2 DEF NextRun, NewRun, Current
        <5> QED
          BY <2>7, <5>1, <5>2
      <4>3. Current(stored', "fast") = run.model
        BY <2>6, <3>1 DEF Current
      <4>4. role = "fast"
        BY <4>1 DEF Current
      <4> QED
        BY <4>1, <4>2, <4>3, <4>4
    <3>2. CASE session.workflow = "feature"
      <4>1. /\ r = session.phase /\ Run.model = session.bound[session.phase]
            /\ stored'.bound = [session.bound EXCEPT ![r] = run.model]
        BY <1>1, <2>1, <2>2, <2>3, <3>2, RolesOfPhases
           DEF WellFormed, Saved, CoordinatorInv, AtHand
      <4>2. \A k \in Roles : Current(stored, k) = session.bound[k]
                             /\ Current(stored', k) = stored'.bound[k]
        BY <1>1, <2>6, <3>2 DEF Current
      <4>3. stored'.bound[r] = run.model /\ \A k \in Roles : k # r => stored'.bound[k] = session.bound[k]
        BY <1>1, <2>3, <4>1 DEF SessionRecord
      <4> QED
        BY <2>3, <4>1, <4>2, <4>3
    <3> QED
      BY <2>3, <3>1, <3>2
  <2>9. run.model # Run.model
    BY <2>8
  <2> HIDE DEF r
  <2>10. \E i, j \in DOMAIN Preferred[r] :
           i < j /\ Preferred[r][i] = Run.model /\ Preferred[r][j] = run.model
    BY <2>3, <2>4, <2>5, <2>9, StandInIsLater
  <2> QED
    BY <2>6, <2>8, <2>10 DEF r
<1>3. CASE Returns
  <2>1. CASE UNCHANGED stored
    BY <2>1 DEF Current
  <2>2. ASSUME NEW status \in Statuses, pc # "agent", stored' = [session EXCEPT !.status = status]
        PROVE  FALSE
    <3>1. session.runs = stored.runs
      BY <2>2 DEF CoordinatorInv, InMemory
    <3>2. /\ stored'.runs = session.runs /\ stored'.workflow = session.workflow
          /\ stored'.bound = session.bound
      BY <1>1, <2>2 DEF SessionRecord
    <3> QED
      BY <1>1, <3>1, <3>2, SameCurrent
  <2>3. CASE /\ pc = "decide" /\ session.workflow = "fast"
             /\ stored' = [session EXCEPT !.bound["fast"] = Run.model]
    <3>1. /\ session.runs = stored.runs /\ session.runs # <<>>
      BY <2>3, Deciding
    <3>2. /\ stored'.runs = session.runs /\ stored'.workflow = "fast"
          /\ \A k \in Roles : k # "fast" => stored'.bound[k] = session.bound[k]
      BY <1>1, <2>3 DEF SessionRecord
    <3> QED
      BY <1>1, <2>3, <3>1, <3>2 DEF Current
  <2>4. ASSUME pc = "decide", stored' = session PROVE FALSE
    <3>1. session.runs = stored.runs
      BY <2>4, Deciding
    <3> QED
      BY <1>1, <2>4, <3>1, SameCurrent
  <2> QED
    BY <1>3, <2>1, <2>2, <2>3, <2>4 DEF Returns
<1>4. CASE Advances
  <2>1. session.runs = stored.runs
    BY <1>4 DEF Advances, CoordinatorInv, InMemory
  <2>2. /\ stored'.runs = session.runs /\ stored'.workflow = session.workflow
        /\ stored'.bound = session.bound
    BY <1>1, <1>4 DEF Advances, SessionRecord
  <2> QED
    BY <1>1, <2>1, <2>2, SameCurrent
<1>5. CASE Chooses
  BY <1>1, <1>5 DEF Chooses
<1>6. CASE TakesUp \/ Finds \/ Idles
  <2>1. stored' = stored
    BY <1>6 DEF TakesUp, Finds, Idles
  <2> QED
    BY <2>1
<1> QED
  BY <1>2, <1>3, <1>4, <1>5, <1>6 DEF Kinds

\* No start of a session goes back to a model that was given up, and the failover of one
\* role leaves the models of the others alone.
THEOREM FailoverIsKept == AgentSpec => NeverBack
<1>1. CoordinatorInv /\ ModelsInv /\ [AgentNext]_vars =>
        [\A role \in Roles : Current(stored, role) # Current(stored', role) =>
           \/ stored.workflow = "none"
           \/ /\ role = RoleOf(stored'.phase)
              /\ \E i, j \in DOMAIN Preferred[role] :
                   /\ i < j
                   /\ Preferred[role][i] = Current(stored, role)
                   /\ Preferred[role][j] = Current(stored', role)]_stored
  <2>1. UNCHANGED vars => UNCHANGED stored
    BY DEF vars
  <2> QED
    BY <2>1, FailoverMovesOn, StepsAreKinds
<1> QED
  BY <1>1, CoordinatorInvariance, ModelsInvariance, PTL DEF AgentSpec, NeverBack

-----------------------------------------------------------------------------
(* The order of the phases *)

LEMMA CompletedRuns ==
  ASSUME NEW s \in SessionRecord
  PROVE  /\ DOMAIN s.runs = 1 .. Len(s.runs) /\ Len(s.runs) \in Nat
         /\ Completed(s) \subseteq 1 .. Len(s.runs)
         /\ IsFiniteSet(Completed(s)) /\ Cardinality(Completed(s)) \in Nat
<1>1. DOMAIN s.runs = 1 .. Len(s.runs) /\ Len(s.runs) \in Nat
  BY DEF SessionRecord
<1>2. IsFiniteSet(1 .. Len(s.runs))
  BY <1>1, FS_Interval
<1>3. Completed(s) \subseteq 1 .. Len(s.runs)
  BY <1>1 DEF Completed
<1> QED
  BY <1>1, <1>2, <1>3, FS_Subset, FS_CardinalityType

LEMMA LastIsCounted ==
  ASSUME NEW s \in SessionRecord, s.runs # <<>>, Last(s.runs).status = "completed"
  PROVE  /\ Len(s.runs) \in Completed(s)
         /\ CompletedBefore(s, Len(s.runs)) = Cardinality(Completed(s)) - 1
         /\ Cardinality(Completed(s)) \in Nat \ {0}
<1>1. Len(s.runs) \in Completed(s)
  BY RunType DEF Completed, Last
<1>2. {k \in Completed(s) : k < Len(s.runs)} = Completed(s) \ {Len(s.runs)}
  BY CompletedRuns
<1>3. Cardinality(Completed(s) \ {Len(s.runs)}) = Cardinality(Completed(s)) - 1
  BY <1>1, CompletedRuns, FS_RemoveElement
<1>4. Cardinality(Completed(s)) # 0
  BY <1>1, CompletedRuns, FS_EmptySet
<1> QED
  BY <1>1, <1>2, <1>3, <1>4, CompletedRuns DEF CompletedBefore

LEMMA DuePhases ==
  ASSUME NEW s \in SessionRecord, s.phase \in FeaturePhases
  PROVE  DueCount(s) \in Nat /\ Due(DueCount(s)) = s.phase
<1>1. s.cycles \in Nat
  BY AgentAssumption DEF SessionRecord
<1> QED
  BY <1>1 DEF DueCount, Due, FeaturePhases, Phases

LEMMA NeighboursDiffer ==
  ASSUME NEW n \in Nat \ {0}
  PROVE  Due(n) # Due(n - 1)
BY DEF Due

\* A session that has the runs, the phase and the cycles of another has its order.
LEMMA SameOrder ==
  ASSUME NEW s, NEW t, t.runs = s.runs, t.phase = s.phase, t.cycles = s.cycles, t.bound = s.bound
  PROVE  /\ Completed(t) = Completed(s) /\ DueCount(t) = DueCount(s)
         /\ InOrder(s) => InOrder(t)
         /\ Counted(s) => Counted(t)
BY DEF Completed, CompletedBefore, DueCount, InOrder, Counted

LEMMA PhasesAfterSave ==
  ASSUME CoordinatorInv, CoordinatorInv', PhasesInv, AgentSaves, stored.workflow = "feature"
  PROVE  PhasesInv'
<1> DEFINE n == Len(session.runs)
<1>1. PICK run \in RunRecord :
        Saved(run) /\ (Stops(run) \/ Answers(run) \/ Begins(run) \/ Closes(run))
  BY DEF AgentSaves
<1>2. pc \in Acting /\ run.phase = Run.phase
  BY <1>1 DEF Stops, Answers, Begins, Closes, Acting
<1>3. /\ stored \in SessionRecord /\ session \in SessionRecord /\ stored' \in SessionRecord
      /\ session' = stored' /\ session.workflow = "feature"
      /\ stored.phase = session.phase /\ stored.cycles = session.cycles
      /\ stored'.phase = stored.phase /\ stored'.cycles = stored.cycles
      /\ stored'.workflow = "feature" /\ stored'.status = "active"
      /\ session.phase \in FeaturePhases
  BY <1>1, <1>2 DEF CoordinatorInv, TypeInv, InMemory, AtHand, WellFormed, Saved
<1>4. /\ session.runs # <<>> /\ Run.phase = session.phase /\ Run.status = "active"
      /\ n \in DOMAIN session.runs /\ n \in Nat /\ Run = session.runs[n]
      /\ DOMAIN session.runs = 1 .. n
  BY <1>2, <1>3, RunAtHand, RunType DEF Run, Last
<1>5. /\ Completed(session) = Completed(stored) /\ InOrder(stored)
      /\ Cardinality(Completed(stored)) = DueCount(stored)
      /\ stored.phase = "planning" => stored.cycles = 0
  BY <1>2 DEF PhasesInv
<1>6. /\ DOMAIN stored'.runs = DOMAIN session.runs /\ Len(stored'.runs) = n
      /\ stored'.runs[n].status = run.status /\ stored'.runs[n].phase = session.phase
      /\ Last(stored'.runs) = stored'.runs[n] /\ Run' = stored'.runs[n]
      /\ \A i \in DOMAIN session.runs : i # n => stored'.runs[i] = session.runs[i]
  BY <1>1, <1>2, <1>3, <1>4 DEF Saved, Persist, RunRecord, Last, Run
<1>7. n \notin Completed(stored) /\ \A i \in Completed(stored) : i \in 1 .. n /\ i < n
  BY <1>4, <1>5 DEF Completed
<1>8. DueCount(stored') = DueCount(stored) /\ DueCount(stored) \in Nat
      /\ Due(DueCount(stored)) = session.phase
  BY <1>3, DuePhases DEF DueCount
<1>9. \A i \in Completed(stored) : stored'.runs[i].phase = Due(CompletedBefore(stored, i))
  <2>1. \A i \in Completed(stored) : stored'.runs[i].phase = stored.runs[i].phase
    BY PhasesKept DEF Kinds, Completed
  <2> QED
    BY <1>5, <2>1 DEF InOrder
<1>10. CASE run.status # "completed"
  <2>1. Completed(stored') = Completed(stored)
    BY <1>4, <1>5, <1>6, <1>10 DEF Completed
  <2>2. InOrder(stored')
    BY <1>9, <2>1 DEF InOrder, CompletedBefore
  <2>3. Counted(stored')
    BY <1>5, <1>8, <2>1 DEF Counted
  <2> QED
    BY <1>3, <1>5, <1>6, <1>8, <1>10, <2>1, <2>2, <2>3 DEF PhasesInv, InOrder, Counted
<1>11. CASE run.status = "completed"
  <2>1. pc' = "decide"
    BY <1>1, <1>4, <1>11 DEF Stops, Answers, Begins, Closes
  <2>2. Completed(stored') = Completed(stored) \cup {n}
    BY <1>4, <1>5, <1>6, <1>11 DEF Completed
  <2>3. Cardinality(Completed(stored')) = DueCount(stored) + 1
    BY <1>3, <1>5, <1>7, <2>2, CompletedRuns, FS_AddElement
  <2>4. \A i \in Completed(stored) : CompletedBefore(stored', i) = CompletedBefore(stored, i)
    <3>1. \A i \in Completed(stored) :
            {k \in Completed(stored') : k < i} = {k \in Completed(stored) : k < i}
      BY <1>4, <1>7, <2>2
    <3> QED
      BY <3>1 DEF CompletedBefore
  <2>5. CompletedBefore(stored', n) = DueCount(stored)
    <3>1. {k \in Completed(stored') : k < n} = Completed(stored)
      BY <1>4, <1>7, <2>2
    <3> QED
      BY <1>5, <3>1 DEF CompletedBefore
  <2>6. InOrder(stored')
    BY <1>6, <1>8, <1>9, <2>2, <2>4, <2>5 DEF InOrder
  <2>7. Last(stored'.runs).model = stored'.bound[stored'.phase]
    BY <1>3, <1>6, <2>1 DEF CoordinatorInv, AtHand, Run
  <2>8. Counted(stored')
    BY <1>6, <1>8, <1>11, <2>3, <2>7 DEF Counted
  <2> QED
    BY <1>3, <1>5, <1>8, <2>1, <2>3, <2>6, <2>8 DEF PhasesInv, InOrder, Counted, Acting
<1> QED
  BY <1>10, <1>11

LEMMA PhasesStep ==
  ASSUME CoordinatorInv, CoordinatorInv', PhasesInv, Kinds
  PROVE  PhasesInv'
<1>1. /\ stored \in SessionRecord /\ session \in SessionRecord /\ WellFormed(stored)
      /\ session.workflow = stored.workflow /\ session.phase = stored.phase
      /\ session.cycles = stored.cycles /\ session.bound = stored.bound
      /\ stored.workflow = "feature" => stored.phase \in FeaturePhases
  BY DEF CoordinatorInv, TypeInv, InMemory, WellFormed
<1>2. CASE AgentSaves
  <2>1. stored'.workflow = stored.workflow
    BY <1>1, <1>2 DEF AgentSaves, Saved
  <2> QED
    BY <1>2, <2>1, PhasesAfterSave DEF PhasesInv
<1>3. CASE Returns
  <2>1. pc' = "out"
    BY <1>3 DEF Returns, Leaves, Goto
  <2>2. CASE UNCHANGED stored
    BY <2>1, <2>2 DEF PhasesInv, InOrder, Counted, Completed, CompletedBefore, DueCount, Acting
  <2>3. ASSUME NEW status \in Statuses, pc # "agent",
               stored' = [session EXCEPT !.status = status],
               status = "completed" =>
                 /\ pc = "decide" /\ session.workflow = "feature" /\ session.phase = "review"
                 /\ Run.status = "completed" /\ Run.says = "approved"
        PROVE  PhasesInv'
    <3>1. session.runs = stored.runs
      BY <2>3 DEF CoordinatorInv, InMemory
    <3>2. /\ stored'.runs = stored.runs /\ stored'.workflow = stored.workflow
          /\ stored'.bound = stored.bound /\ stored'.phase = stored.phase
          /\ stored'.cycles = stored.cycles /\ stored'.status = status
      BY <1>1, <2>3, <3>1 DEF SessionRecord
    <3>3. /\ Completed(stored') = Completed(stored) /\ DueCount(stored') = DueCount(stored)
          /\ InOrder(stored) => InOrder(stored')
          /\ Counted(stored) => Counted(stored')
      BY <3>2, SameOrder
    <3>4. stored'.workflow = "feature" =>
            /\ stored'.phase = "planning" => stored'.cycles = 0
            /\ InOrder(stored') /\ Counted(stored')
            /\ stored'.status = "completed" =>
                 /\ Cardinality(Completed(stored')) = DueCount(stored') + 1
                 /\ stored'.phase = "review" /\ Last(stored'.runs).says = "approved"
      BY <1>1, <2>3, <3>1, <3>2, <3>3 DEF PhasesInv, Run
    <3> QED
      BY <2>1, <3>4 DEF PhasesInv, Acting, InOrder, Counted, Completed, CompletedBefore, DueCount
  <2>4. CASE /\ session.workflow = "fast"
             /\ stored' \in {session, [session EXCEPT !.bound["fast"] = Run.model]}
    <3>1. stored'.workflow = "fast"
      BY <1>1, <2>4 DEF SessionRecord
    <3> QED
      BY <3>1 DEF PhasesInv
  <2> QED
    BY <1>3, <2>2, <2>3, <2>4 DEF Returns
<1>4. CASE Advances
  <2>1. /\ pc = "decide" /\ session.workflow = "feature" /\ Run.status = "completed"
        /\ pc' = "loop" /\ session.runs = stored.runs
    BY <1>4 DEF Advances, Goto, CoordinatorInv, InMemory
  <2>2. PICK phase \in FeaturePhases, cycles \in 0 .. MaxCycles, implemented \in BOOLEAN :
          /\ stored' = [session EXCEPT !.phase = phase, !.cycles = cycles,
                                       !.implemented = implemented, !.status = "active"]
          /\ \/ session.phase = "planning" /\ phase = "implementation" /\ cycles = session.cycles
             \/ session.phase = "implementation" /\ phase = "review" /\ cycles = session.cycles
             \/ session.phase = "review" /\ phase = "implementation" /\ cycles = session.cycles + 1
    BY <1>4 DEF Advances
  <2>3. /\ stored'.runs = stored.runs /\ stored'.phase = phase /\ stored'.cycles = cycles
        /\ stored'.status = "active" /\ stored'.workflow = "feature"
    BY <1>1, <2>1, <2>2 DEF SessionRecord
  <2>4. /\ Cardinality(Completed(stored)) = DueCount(stored) + 1 /\ InOrder(stored)
        /\ stored.phase = "planning" => stored.cycles = 0
    BY <1>1, <2>1 DEF PhasesInv
  <2>5. stored.cycles \in Nat /\ cycles \in Nat
    BY <1>1, AgentAssumption DEF SessionRecord
  <2>6. DueCount(stored') = DueCount(stored) + 1
    BY <1>1, <2>2, <2>3, <2>4, <2>5 DEF DueCount
  <2>7. Completed(stored') = Completed(stored) /\ InOrder(stored')
    BY <2>3, <2>4 DEF Completed, InOrder, CompletedBefore
  <2>8. Counted(stored')
    BY <2>4, <2>6, <2>7 DEF Counted
  <2>9. stored'.phase # "planning"
    BY <2>2, <2>3
  <2> QED
    BY <2>1, <2>3, <2>7, <2>8, <2>9 DEF PhasesInv, Acting, InOrder, Counted
<1>5. CASE Chooses
  <2>1. /\ pc' = "loop" /\ stored'.runs = <<>> /\ stored'.cycles = 0 /\ stored'.status = "active"
        /\ stored'.workflow = "feature" => stored'.phase = "planning"
    BY <1>5 DEF Chooses, Goto
  <2>2. Completed(stored') = {} /\ Cardinality(Completed(stored')) = 0
    BY <2>1, FS_EmptySet DEF Completed
  <2>3. stored'.workflow = "feature" => InOrder(stored') /\ Counted(stored')
    BY <2>1, <2>2 DEF InOrder, Counted, DueCount
  <2> QED
    BY <2>1, <2>3 DEF PhasesInv, Acting, InOrder, Counted
<1>6. CASE TakesUp /\ stored.workflow = "feature"
  <2>1. /\ pc = "loop" /\ pc' = "agent" /\ stored' = stored /\ session = stored
        /\ session' \in SessionRecord
    BY <1>6 DEF TakesUp, CoordinatorInv, TypeInv, InMemory
  <2>2. Completed(session') = Completed(stored)
    <3>1. CASE TakenUp' /\ Last(stored.runs).status # "completed"
      <4>1. stored.runs # <<>>
            /\ session'.runs = [stored.runs EXCEPT ![Len(stored.runs)].status = "active"]
        BY <2>1, <3>1 DEF TakenUp
      <4>2. stored.runs \in Seq(RunRecord) /\ Len(stored.runs) \in DOMAIN stored.runs
            /\ stored.runs[Len(stored.runs)].status # "completed"
        BY <1>1, <3>1, <4>1, RunType DEF SessionRecord, Last
      <4>3. /\ DOMAIN session'.runs = DOMAIN stored.runs
            /\ \A i \in DOMAIN stored.runs :
                 session'.runs[i].status = "completed" <=> stored.runs[i].status = "completed"
        BY <4>1, <4>2 DEF RunRecord
      <4> QED
        BY <4>3 DEF Completed
    <3>2. CASE Begun'
      <4> DEFINE run == NewRun(session'.phase, session'.bound[RoleOf(session'.phase)])
      <4>1. session'.runs = Append(stored.runs, run) /\ stored.runs \in Seq(RunRecord)
            /\ run.status # "completed"
        BY <1>1, <2>1, <3>2 DEF Begun, SessionRecord, NewRun
      <4> HIDE DEF run
      <4>2. /\ DOMAIN stored.runs \subseteq DOMAIN session'.runs
            /\ \A i \in DOMAIN stored.runs : session'.runs[i] = stored.runs[i]
            /\ \A i \in DOMAIN session'.runs : i \in DOMAIN stored.runs \/ session'.runs[i] = run
        BY <4>1
      <4> QED
        BY <4>1, <4>2 DEF Completed
    <3> QED
      BY <1>1, <1>6, <3>1, <3>2 DEF TakesUp
  <2>3. Cardinality(Completed(stored)) = DueCount(stored)
    <3> SUFFICES ASSUME Cardinality(Completed(stored)) = DueCount(stored) + 1,
                        Last(stored.runs).status = "completed",
                        Last(stored.runs).model = stored.bound[stored.phase]
                 PROVE  FALSE
      BY <1>6 DEF PhasesInv, Counted
    <3>1. stored.runs # <<>>
      <4> SUFFICES ASSUME stored.runs = <<>> PROVE FALSE
        OBVIOUS
      <4>1. Completed(stored) = {} /\ DueCount(stored) \in Nat
        BY <1>1, <1>6, DuePhases DEF Completed
      <4> QED
        BY <4>1, FS_EmptySet
    <3>2. /\ Len(stored.runs) \in Completed(stored)
          /\ CompletedBefore(stored, Len(stored.runs)) = DueCount(stored)
      BY <1>1, <1>6, <3>1, LastIsCounted, DuePhases
    <3>3. Last(stored.runs).phase = stored.phase
      BY <1>1, <1>6, <3>2, DuePhases DEF PhasesInv, InOrder, Last
    <3>4. Resumable(session)
      BY <2>1, <3>1, <3>3 DEF Resumable
    <3> QED
      BY <1>1, <1>6, <3>4 DEF TakesUp
  <2> QED
    BY <2>1, <2>2, <2>3 DEF PhasesInv, InOrder, Counted, Completed, CompletedBefore, DueCount
<1>7. CASE Finds
  <2>1. /\ pc = "loop" /\ pc' = "decide" /\ stored' = stored /\ session = stored
        /\ stored.workflow = "feature" /\ stored.runs # <<>>
        /\ Last(stored.runs).status = "completed"
        /\ session'.runs = stored.runs /\ session'.phase = stored.phase
    BY <1>1, <1>7 DEF Finds, CoordinatorInv, InMemory, Run, SessionRecord
  <2>2. Last(stored.runs).phase = stored.phase
    BY <2>1 DEF CoordinatorInv, AtHand, Run
  <2>3. Cardinality(Completed(stored)) = DueCount(stored) + 1
    <3> SUFFICES ASSUME Cardinality(Completed(stored)) = DueCount(stored) PROVE FALSE
      BY <2>1 DEF PhasesInv, Counted
    <3>1. /\ Len(stored.runs) \in Completed(stored)
          /\ CompletedBefore(stored, Len(stored.runs)) = DueCount(stored) - 1
          /\ DueCount(stored) \in Nat \ {0}
      BY <1>1, <2>1, LastIsCounted
    <3>2. Last(stored.runs).phase = Due(DueCount(stored) - 1)
      BY <2>1, <3>1 DEF PhasesInv, InOrder, Last
    <3> QED
      BY <1>1, <2>1, <2>2, <3>1, <3>2, DuePhases, NeighboursDiffer
  <2> QED
    BY <2>1, <2>3 DEF PhasesInv, Acting, InOrder, Counted, Completed, CompletedBefore, DueCount
<1>8. CASE Idles
  <2>1. stored' = stored /\ pc' # "decide"
        /\ (pc' \in Acting => pc \in Acting /\ session' = session)
    BY <1>8 DEF Idles, Acting
  <2> QED
    BY <2>1 DEF PhasesInv, InOrder, Counted, Completed, CompletedBefore, DueCount
<1>9. CASE TakesUp /\ stored.workflow # "feature"
  BY <1>9 DEF TakesUp, PhasesInv
<1> QED
  BY <1>2, <1>3, <1>4, <1>5, <1>6, <1>7, <1>8, <1>9 DEF Kinds

\* The completed runs of a session are the phases that were due, and those before the
\* current phase are all there.
THEOREM PhasesInvariance == AgentSpec => []PhasesInv
<1>1. AgentInit => PhasesInv
  BY DEF AgentInit, NewSession, PhasesInv
<1>2. CoordinatorInv /\ CoordinatorInv' /\ PhasesInv /\ [AgentNext]_vars => PhasesInv'
  <2>1. PhasesInv /\ UNCHANGED vars => PhasesInv'
    BY DEF PhasesInv, InOrder, Counted, Completed, CompletedBefore, DueCount, Run, vars
  <2> QED
    BY <2>1, PhasesStep, StepsAreKinds
<1> QED
  BY <1>1, <1>2, CoordinatorInvariance, PTL DEF AgentSpec

\* No death repeats a completed phase, skips one or counts a rework twice, and a completed
\* session ends with an approving review.
THEOREM PhasesComeInOrder == AgentSpec => []WorkflowInOrder
<1>1. CoordinatorInv /\ PhasesInv => WorkflowInOrder
  <2> SUFFICES ASSUME CoordinatorInv, PhasesInv, stored.workflow = "feature"
               PROVE  WorkflowInOrder
    BY DEF WorkflowInOrder
  <2>1. stored \in SessionRecord /\ stored.phase \in FeaturePhases
    BY DEF CoordinatorInv, TypeInv, WellFormed
  <2>2. DueCount(stored) \in Nat
    BY <2>1, DuePhases
  <2>3. /\ \A i \in Completed(stored) : stored.runs[i].phase = Due(CompletedBefore(stored, i))
        /\ \/ Cardinality(Completed(stored)) = DueCount(stored) /\ stored.status # "completed"
           \/ /\ Cardinality(Completed(stored)) = DueCount(stored) + 1
              /\ Last(stored.runs).status = "completed"
        /\ stored.status = "completed" =>
             stored.phase = "review" /\ Last(stored.runs).says = "approved"
    BY <2>2 DEF PhasesInv, InOrder, Counted
  <2> QED
    BY <2>3 DEF DueCount, WorkflowInOrder
<1> QED
  BY <1>1, CoordinatorInvariance, PhasesInvariance, PTL

-----------------------------------------------------------------------------
(* The budget of steps *)

SameSteps ==
  Steps(session) \in Nat /\ Steps(stored) \in Nat /\ Steps(session) = Steps(stored)

\* A run that is taken up or begun has taken no step that the file does not know of.
LEMMA StepsInFile ==
  CoordinatorInv => SameSteps
<1> SUFFICES ASSUME CoordinatorInv PROVE SameSteps
  OBVIOUS
<1>1. session \in SessionRecord /\ stored \in SessionRecord
  BY DEF CoordinatorInv, TypeInv
<1>2. Steps(session) \in Nat /\ Steps(stored) \in Nat
  BY <1>1, StepsAreNatural
<1>3. CASE session.runs = stored.runs
  BY <1>1, <1>2, <1>3, StepsOfSame DEF SameSteps
<1>4. CASE pc = "agent"
  <2>1. SameRun \/ NextRun
    BY <1>4, RunInFile DEF Acting
  <2>2. CASE SameRun
    <3>1. /\ stored.runs # <<>> /\ Len(stored.runs) = Len(session.runs)
          /\ Last(stored.runs).steps = Last(session.runs).steps
          /\ \A i \in DOMAIN stored.runs :
               i # Len(stored.runs) => stored.runs[i].steps = session.runs[i].steps
      BY <2>2 DEF SameRun, Run
    <3>2. Steps(stored) - Last(stored.runs).steps = Steps(session) - Last(session.runs).steps
      BY <1>1, <3>1, StepsDiffer
    <3>3. Last(stored.runs).steps \in Nat
      BY <1>1, <3>1, RunType DEF RunRecord
    <3> QED
      BY <1>2, <3>1, <3>2, <3>3 DEF SameSteps
  <2>3. CASE NextRun
    <3>1. /\ Len(session.runs) = Len(stored.runs) + 1
          /\ \A i \in DOMAIN stored.runs : stored.runs[i].steps = session.runs[i].steps
      BY <2>3 DEF NextRun
    <3>2. Last(session.runs).steps = 0
      BY <2>3 DEF NextRun, NewRun, Run
    <3>3. Steps(session) = Steps(stored) + Last(session.runs).steps
      BY <1>1, <3>1, StepsAdded
    <3> QED
      BY <1>2, <3>2, <3>3 DEF SameSteps
  <2> QED
    BY <2>1, <2>2, <2>3
<1> QED
  BY <1>3, <1>4 DEF CoordinatorInv, InMemory

LEMMA StepsOfOne ==
  ASSUME NEW s \in SessionRecord, s.runs # <<>>, Len(s.runs) <= 1
  PROVE  Steps(s) = Last(s.runs).steps
<1> DEFINE p == Prefix(s)
<1>1. /\ p \in SessionRecord /\ Len(s.runs) = Len(p.runs) + 1
      /\ \A i \in DOMAIN p.runs : p.runs[i].steps = s.runs[i].steps
  BY PrefixType
<1> HIDE DEF p
<1>2. Steps(s) = Steps(p) + Last(s.runs).steps
  BY <1>1, StepsAdded
<1>3. Len(p.runs) = 0
  BY <1>1, RunType DEF SessionRecord
<1>4. Steps(p) = Total(StepsIn(p.runs), 0) /\ StepsIn(p.runs) \in [1 .. 0 -> Nat]
  BY <1>1, <1>3, StepsAreTotal
<1>5. PICK g : Sums(StepsIn(p.runs), 0, g) /\ Total(StepsIn(p.runs), 0) = g[0]
  BY <1>4, TotalIsSum
<1>6. g[0] = 0
  BY <1>5 DEF Sums
<1>7. Last(s.runs).steps \in Nat
  BY RunType DEF RunRecord
<1> QED
  BY <1>2, <1>4, <1>5, <1>6, <1>7

\* What a step may do to the steps that the file counts.
Accounts ==
  /\ Steps(stored') > Steps(stored) => Steps(stored') <= budget
  /\ /\ stored.phase = "implementation" /\ stored'.phase = "review"
     /\ stored.cycles = 0 /\ budget - before > Reserve
     => budget - Steps(stored') >= Reserve

LEMMA AllowanceFits ==
  ASSUME CoordinatorInv, BudgetInv, pc = "loop", Steps(session) < budget
  PROVE  /\ Allowance(session) \in Nat /\ Allowance(session) <= budget - Steps(session)
         /\ /\ session.phase = "implementation" /\ session.cycles = 0
            /\ budget - Steps(session) > Reserve
            => Allowance(session) <= budget - Reserve - Steps(session)
<1>1. Steps(session) \in Nat /\ budget \in Nat /\ Reserve \in Nat
  BY StepsInFile, AgentAssumption DEF SameSteps, BudgetInv
<1> DEFINE n == Steps(session)
<1>2. Allowance(session) =
        IF session.phase = "implementation" /\ session.cycles = 0 /\ budget > Reserve
        THEN IF budget - n > Reserve THEN (budget - n) - Reserve ELSE 1
        ELSE budget - n
  BY DEF Allowance
<1> HIDE DEF n
<1>3. n \in Nat /\ n < budget
  BY <1>1 DEF n
<1> QED
  BY <1>1, <1>2, <1>3 DEF n

LEMMA AgentKeepsBudget ==
  ASSUME CoordinatorInv, BudgetInv, AgentSaves
  PROVE  BudgetInv' /\ Accounts
<1>1. PICK run \in RunRecord :
        Saved(run) /\ (Stops(run) \/ Answers(run) \/ Begins(run) \/ Closes(run))
  BY DEF AgentSaves
<1>2. pc \in Acting /\ UNCHANGED <<budget, limit, before>>
  BY <1>1 DEF AgentSaves, Stops, Answers, Begins, Closes, Acting
<1>3. /\ session \in SessionRecord /\ session.runs # <<>> /\ Run \in RunRecord
      /\ session.workflow = stored.workflow /\ session.phase = stored.phase
      /\ session.cycles = stored.cycles
  BY <1>2, RunAtHand DEF CoordinatorInv, InMemory
<1>4. /\ stored' = session' /\ session' \in SessionRecord /\ session'.runs # <<>>
      /\ Len(session'.runs) = Len(session.runs) /\ DOMAIN session'.runs = DOMAIN session.runs
      /\ Last(session'.runs).steps = run.steps /\ Run'.steps = run.steps
      /\ \A i \in DOMAIN session'.runs :
           i # Len(session'.runs) => session'.runs[i].steps = session.runs[i].steps
      /\ session'.workflow = session.workflow /\ session'.phase = session.phase
      /\ session'.cycles = session.cycles
  <2>1. Persist(run).steps = run.steps
    BY DEF Persist, RunRecord
  <2> QED
    BY <1>1, <2>1 DEF Saved, Run
<1>5. /\ Steps(session) \in Nat /\ Steps(session') \in Nat /\ Steps(stored) = Steps(session)
      /\ Steps(stored') = Steps(session')
  BY <1>3, <1>4, StepsInFile, StepsAreNatural DEF SameSteps
<1>6. Steps(session') - run.steps = Steps(session) - Run.steps
  BY <1>3, <1>4, StepsDiffer DEF Run
<1>7. run.steps \in Nat /\ Run.steps \in Nat /\ limit \in Nat /\ budget \in Nat
      /\ before \in Nat /\ Reserve \in Nat
  BY <1>3, AgentAssumption DEF RunRecord, BudgetInv
<1>8. run.steps = Run.steps \/ (run.steps = Run.steps + 1 /\ Run.steps < limit)
  BY <1>1 DEF Stops, Answers, Begins, Closes
<1>9. /\ limit - Run.steps <= budget - Steps(session)
      /\ Keeps => /\ limit - Run.steps <= budget - Reserve - Steps(session)
                  /\ Steps(session) <= budget - Reserve
  BY <1>2 DEF BudgetInv
<1>10. Keeps' <=> Keeps
  BY <1>2, <1>4 DEF Keeps
<1>11. Accounts
  BY <1>3, <1>4, <1>5, <1>6, <1>7, <1>8, <1>9 DEF Accounts
<1>12. stored'.workflow = "fast" => Len(stored'.runs) <= 1
  <2>1. SameRun \/ NextRun
    BY <1>2, RunInFile
  <2> QED
    BY <1>3, <1>4, <2>1 DEF BudgetInv, SameRun, NextRun
<1>13. limit' - Run'.steps <= budget' - Steps(session')
  BY <1>2, <1>4, <1>5, <1>6, <1>7, <1>8, <1>9
<1>14. Keeps' => /\ limit' - Run'.steps <= budget' - Reserve - Steps(session')
                 /\ Steps(session') <= budget' - Reserve
  <2> SUFFICES ASSUME Keeps'
               PROVE  /\ limit' - Run'.steps <= budget' - Reserve - Steps(session')
                      /\ Steps(session') <= budget' - Reserve
    OBVIOUS
  <2>1. /\ limit - Run.steps <= budget - Reserve - Steps(session)
        /\ Steps(session) <= budget - Reserve
    BY <1>9, <1>10
  <2>2. limit' = limit /\ budget' = budget /\ Run'.steps = run.steps
    BY <1>2, <1>4
  <2>3. CASE run.steps = Run.steps
    BY <1>5, <1>6, <1>7, <2>1, <2>2, <2>3
  <2>4. CASE run.steps = Run.steps + 1 /\ Run.steps < limit
    BY <1>5, <1>6, <1>7, <2>1, <2>2, <2>4
  <2> QED
    BY <1>8, <2>3, <2>4
<1>15. BudgetInv'
  BY <1>2, <1>7, <1>12, <1>13, <1>14 DEF BudgetInv
<1> QED
  BY <1>11, <1>15

LEMMA StartsKeepBudget ==
  ASSUME CoordinatorInv, CoordinatorInv', BudgetInv, TakesUp
  PROVE  BudgetInv' /\ Accounts
<1>1. /\ pc = "loop" /\ pc' = "agent" /\ stored' = stored /\ budget' = budget
      /\ before' = Steps(session)
      /\ TakenUp' \/ Begun'
      /\ session.workflow = "fast" => limit' = budget
      /\ session.workflow = "feature" =>
           Steps(session) < budget /\ limit' = Run'.steps + Allowance(session)
  BY DEF TakesUp
<1>2. /\ session = stored /\ session \in SessionRecord /\ session' \in SessionRecord
      /\ session'.runs # <<>> /\ session.workflow \in {"fast", "feature"}
      /\ session'.workflow = session.workflow /\ session'.phase = session.phase
      /\ session'.cycles = session.cycles /\ Run' \in RunRecord
  <2>1. session = stored /\ session \in SessionRecord /\ session.workflow # "none"
    BY <1>1 DEF CoordinatorInv, TypeInv, InMemory, AtHand
  <2>2. /\ session' \in SessionRecord /\ session'.runs # <<>>
        /\ session'.workflow = stored'.workflow /\ session'.phase = stored'.phase
        /\ session'.cycles = stored'.cycles
    BY <1>1 DEF CoordinatorInv, TypeInv, InMemory, AtHand, Acting
  <2> QED
    BY <1>1, <2>1, <2>2, RunType DEF SessionRecord, Run
<1>3. /\ Steps(session) \in Nat /\ Steps(session') = Steps(session)
      /\ Steps(stored') = Steps(stored) /\ Steps(stored) \in Nat
  <2>1. SameSteps /\ SameSteps'
    BY StepsInFile, PTL
  <2> QED
    BY <1>1, <1>2, <2>1 DEF SameSteps
<1>4. Run'.steps \in Nat /\ budget \in Nat /\ Reserve \in Nat
  BY <1>2, AgentAssumption DEF RunRecord, BudgetInv
<1>5. Accounts
  BY <1>1, <1>3 DEF Accounts
<1>6. CASE session.workflow = "fast"
  <2>1. Len(session'.runs) <= 1
    <3>1. Len(stored.runs) <= 1
      BY <1>2, <1>6 DEF BudgetInv
    <3>2. CASE TakenUp'
      <4>1. stored.runs # <<>> /\ stored.runs \in Seq(RunRecord)
            /\ session'.runs = [stored.runs EXCEPT ![Len(stored.runs)].status = "active"]
        BY <1>1, <1>2, <3>2 DEF TakenUp, SessionRecord
      <4>2. Len(session'.runs) = Len(stored.runs)
        BY <4>1
      <4> QED
        BY <3>1, <4>2
    <3>3. CASE Begun'
      <4>1. stored.runs = <<>> /\ Len(session'.runs) = Len(stored.runs) + 1
        BY <1>1, <1>2, <1>6, <3>3 DEF Begun, SessionRecord
      <4> QED
        BY <4>1
    <3> QED
      BY <1>1, <3>2, <3>3
  <2>2. Steps(session') = Run'.steps
    BY <1>2, <2>1, StepsOfOne DEF Run
  <2>3. ~ Keeps'
    BY <1>2, <1>6 DEF Keeps
  <2>4. stored'.workflow = "fast" => Len(stored'.runs) <= 1
    BY <1>1 DEF BudgetInv
  <2>5. budget' \in Nat /\ limit' \in Nat /\ before' \in Nat
    BY <1>1, <1>3, <1>4, <1>6
  <2>6. limit' - Run'.steps <= budget' - Steps(session')
    BY <1>1, <1>3, <1>4, <1>6, <2>2
  <2>7. BudgetInv'
    BY <2>3, <2>4, <2>5, <2>6 DEF BudgetInv
  <2> QED
    BY <1>5, <2>7
<1>7. CASE session.workflow = "feature"
  <2> DEFINE a == Allowance(session)
  <2>1. /\ a \in Nat /\ a <= budget - Steps(session)
        /\ /\ session.phase = "implementation" /\ session.cycles = 0
           /\ budget - Steps(session) > Reserve
           => a <= budget - Reserve - Steps(session)
    BY <1>1, <1>7, AllowanceFits
  <2> HIDE DEF a
  <2>2. limit' = Run'.steps + a
    BY <1>1, <1>7 DEF a
  <2>3. Keeps' => /\ a <= budget - Reserve - Steps(session)
                  /\ Steps(session) <= budget - Reserve
    <3> SUFFICES ASSUME Keeps'
                 PROVE  a <= budget - Reserve - Steps(session) /\ Steps(session) <= budget - Reserve
      OBVIOUS
    <3>1. /\ session.phase = "implementation" /\ session.cycles = 0
          /\ budget - Steps(session) > Reserve
      BY <1>1, <1>2 DEF Keeps
    <3> QED
      BY <1>3, <1>4, <2>1, <3>1
  <2>4. stored'.workflow # "fast"
    BY <1>1, <1>2, <1>7
  <2>5. budget' \in Nat /\ limit' \in Nat /\ before' \in Nat
    BY <1>1, <1>3, <1>4, <2>1, <2>2
  <2>6. limit' - Run'.steps <= budget' - Steps(session')
    BY <1>1, <1>3, <1>4, <2>1, <2>2
  <2>7. Keeps' => /\ limit' - Run'.steps <= budget' - Reserve - Steps(session')
                  /\ Steps(session') <= budget' - Reserve
    <3> SUFFICES ASSUME Keeps'
                 PROVE  /\ limit' - Run'.steps <= budget' - Reserve - Steps(session')
                        /\ Steps(session') <= budget' - Reserve
      OBVIOUS
    <3>1. a <= budget - Reserve - Steps(session) /\ Steps(session) <= budget - Reserve
      BY <2>3
    <3> QED
      BY <1>1, <1>3, <1>4, <2>1, <2>2, <3>1
  <2>8. BudgetInv'
    BY <2>4, <2>5, <2>6, <2>7 DEF BudgetInv
  <2> QED
    BY <1>5, <2>8
<1> QED
  BY <1>2, <1>6, <1>7

LEMMA BudgetStep ==
  ASSUME CoordinatorInv, CoordinatorInv', BudgetInv, Kinds
  PROVE  BudgetInv' /\ Accounts
<1>1. /\ session \in SessionRecord /\ stored \in SessionRecord
      /\ session' \in SessionRecord /\ stored' \in SessionRecord
      /\ session.workflow = stored.workflow /\ session.phase = stored.phase
      /\ session.cycles = stored.cycles
  BY DEF CoordinatorInv, TypeInv, InMemory
<1>2. /\ Steps(session) \in Nat /\ Steps(session) = Steps(stored)
      /\ Steps(session') = Steps(stored') /\ Steps(stored') \in Nat
  <2>1. SameSteps /\ SameSteps'
    BY StepsInFile, PTL
  <2> QED
    BY <2>1 DEF SameSteps
<1>3. /\ budget \in Nat /\ limit \in Nat /\ before \in Nat /\ Reserve \in Nat
      /\ stored.workflow = "fast" => Len(stored.runs) <= 1
  BY AgentAssumption DEF BudgetInv
<1>4. CASE AgentSaves
  BY <1>4, AgentKeepsBudget
<1>5. CASE TakesUp
  BY <1>5, StartsKeepBudget
<1>6. CASE Returns
  <2>1. pc' = "out" /\ budget' = 0 /\ limit' = 0 /\ before' = 0
    BY <1>6 DEF Returns, Leaves, Goto
  <2>2. /\ stored'.runs = stored.runs /\ stored'.workflow = stored.workflow
        /\ stored'.phase = stored.phase
    <3>1. pc # "agent" => session.runs = stored.runs
      BY DEF CoordinatorInv, InMemory
    <3>2. CASE UNCHANGED stored
      BY <3>2
    <3>3. ASSUME NEW status \in Statuses, pc # "agent", stored' = [session EXCEPT !.status = status]
          PROVE  /\ stored'.runs = stored.runs /\ stored'.workflow = stored.workflow
                 /\ stored'.phase = stored.phase
      BY <1>1, <3>1, <3>3 DEF SessionRecord
    <3>4. CASE /\ pc = "decide"
               /\ stored' \in {session, [session EXCEPT !.bound["fast"] = Run.model]}
      BY <1>1, <3>1, <3>4 DEF SessionRecord
    <3> QED
      BY <1>6, <3>2, <3>3, <3>4 DEF Returns
  <2>3. Steps(stored') = Steps(stored)
    BY <1>1, <2>2, StepsOfSame
  <2>4. Accounts
    BY <1>2, <2>2, <2>3 DEF Accounts
  <2>5. BudgetInv'
    BY <1>3, <2>1, <2>2 DEF BudgetInv, Acting
  <2> QED
    BY <2>4, <2>5
<1>7. CASE Advances
  <2>1. /\ pc = "decide" /\ session.workflow = "feature" /\ pc' = "loop"
        /\ UNCHANGED <<budget, limit, before>>
    BY <1>7 DEF Advances, Goto, local
  <2>2. stored'.runs = session.runs /\ stored'.workflow = session.workflow
    BY <1>1, <1>7 DEF Advances, SessionRecord
  <2>3. Steps(stored') = Steps(session)
    BY <1>1, <2>2, StepsOfSame
  <2>4. Keeps => Steps(session) <= budget - Reserve
    BY <2>1 DEF BudgetInv
  <2>5. Accounts
    BY <1>1, <1>2, <1>3, <2>1, <2>3, <2>4 DEF Accounts, Keeps
  <2>6. BudgetInv'
    BY <1>3, <2>1, <2>2 DEF BudgetInv, Acting
  <2> QED
    BY <2>5, <2>6
<1>8. CASE Chooses
  <2>1. /\ pc = "enter" /\ pc' = "loop" /\ UNCHANGED <<budget, limit, before>>
        /\ session.workflow = "none" /\ stored'.runs = <<>> /\ stored'.phase # "review"
    BY <1>8 DEF Chooses, Goto, local
  <2>2. stored.runs = <<>>
    BY <1>1, <2>1 DEF CoordinatorInv, TypeInv, WellFormed
  <2>3. Steps(stored') = Steps(stored)
    BY <1>1, <2>1, <2>2, StepsOfSame
  <2>4. Accounts
    BY <1>2, <2>1, <2>3 DEF Accounts
  <2>5. BudgetInv'
    BY <1>3, <2>1 DEF BudgetInv, Acting
  <2> QED
    BY <2>4, <2>5
<1>9. CASE Finds
  <2>1. /\ pc = "loop" /\ pc' = "decide" /\ stored' = stored /\ budget' = budget
        /\ before' = Steps(session) /\ limit' = limit
    BY <1>9 DEF Finds
  <2>2. Steps(session') = Steps(session)
    BY <1>2, <2>1
  <2>3. Keeps' => Steps(session') <= budget - Reserve
    BY <1>2, <1>3, <2>1, <2>2 DEF Keeps
  <2>4. Accounts
    BY <1>2, <2>1 DEF Accounts
  <2>5. BudgetInv'
    BY <1>2, <1>3, <2>1, <2>3 DEF BudgetInv, Acting
  <2> QED
    BY <2>4, <2>5
<1>10. CASE Idles
  <2>1. stored' = stored /\ limit' = limit /\ before' = before /\ budget' \in Nat
    BY <1>3, <1>10, AgentAssumption DEF Idles
  <2>2. \/ pc' \in {"out", "enter", "loop"}
        \/ /\ pc = "tool" /\ pc' \in {"ok", "error", "fatal"} /\ session' = session
           /\ budget' = budget
    BY <1>10 DEF Idles
  <2>3. Accounts
    BY <1>2, <2>1 DEF Accounts
  <2>4. CASE pc' \in {"out", "enter", "loop"}
    BY <1>3, <2>1, <2>3, <2>4 DEF BudgetInv, Acting
  <2>5. CASE /\ pc = "tool" /\ pc' \in {"ok", "error", "fatal"} /\ session' = session
             /\ budget' = budget
    <3>1. Keeps' <=> Keeps
      BY <2>1, <2>5 DEF Keeps
    <3>2. Run' = Run /\ pc \in Acting
      BY <2>5 DEF Run, Acting
    <3> QED
      BY <1>3, <2>1, <2>3, <2>5, <3>1, <3>2 DEF BudgetInv
  <2> QED
    BY <2>2, <2>4, <2>5
<1> QED
  BY <1>4, <1>5, <1>6, <1>7, <1>8, <1>9, <1>10 DEF Kinds

\* An agent may never take more steps than the budget leaves to its session.
THEOREM BudgetInvariance == AgentSpec => []BudgetInv
<1>1. AgentInit => BudgetInv
  BY DEF AgentInit, BudgetInv, NewSession, Acting
<1>2. CoordinatorInv /\ CoordinatorInv' /\ BudgetInv /\ [AgentNext]_vars => BudgetInv'
  <2>1. BudgetInv /\ UNCHANGED vars => BudgetInv'
    BY DEF BudgetInv, Keeps, Run, vars, local
  <2> QED
    BY <2>1, BudgetStep, StepsAreKinds
<1> QED
  BY <1>1, <1>2, CoordinatorInvariance, PTL DEF AgentSpec

\* The steps of all phases together never exceed the budget of the start that takes them,
\* and what was to be kept for the first review is left for it.
THEOREM BudgetIsKept == AgentSpec => StepsWithinBudget
<1>1. CoordinatorInv /\ CoordinatorInv' /\ BudgetInv /\ [AgentNext]_vars => [Accounts]_stored
  BY BudgetStep, StepsAreKinds DEF vars
<1>2. AgentSpec => [][Accounts]_stored
  BY <1>1, CoordinatorInvariance, BudgetInvariance, PTL DEF AgentSpec
<1> QED
  BY <1>2, PTL DEF StepsWithinBudget, Accounts

=============================================================================
