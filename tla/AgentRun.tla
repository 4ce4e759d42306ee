------------------------------ MODULE AgentRun ------------------------------
(***************************************************************************)
(* One run of the coding agent: RunCoordinator, the Agent loop it starts   *)
(* for every phase, the FallbackProvider that answers, and the session     *)
(* file in which SessionStore keeps what was done.  A process may die at   *)
(* any step, or an exception of the last provider may end it; the session  *)
(* is then started again from its file (gca resume, a retried job).        *)
(*                                                                         *)
(* What the models answer is open: a reply is a text or a sequence of tool *)
(* calls, of which only what steers the loop is kept.  A step is what      *)
(* happens between two effects outside the process: a save of the session, *)
(* an answer of a model, the work of a tool.                               *)
(***************************************************************************)
EXTENDS Routing, ToolPolicy

CONSTANTS
  Tasks,        \* what classify_task counts in the tasks that are considered
  Requested,    \* the workflows a start may ask for, "none" if it asks for none
  Configured,   \* the workflow the policy names
  Configs,      \* the tool manifests that a start may find
  Replies,      \* for each phase, the sequences of calls its models may make
  Budgets,      \* the step budgets a start may be given
  Reserve,      \* review_step_reserve
  MaxCycles,    \* max_review_cycles
  MaxStarts     \* bound on how often the session is started

Phases == {"execute", "planning", "implementation", "review"}
RoleOf(phase) == IF phase = "execute" THEN "fast" ELSE phase
RolesIn(workflow) == IF workflow = "fast" THEN {"fast"} ELSE Roles \ {"fast"}

\* A call of the finish tool is named by its argument (a plan, a summary or a
\* verdict; "nothing" when it is empty or no verdict), any other by its tool.
Finishes == {"approved", "changes_requested", "nothing"}
ToolOf(call) == IF call \in Finishes THEN "finish" ELSE call
Calls == Finishes \cup DOMAIN Capabilities \cup (ControlTools \ {"finish"})

ASSUME AgentAssumption ==
  /\ Requested \subseteq {"none", "auto", "fast", "feature"}
  /\ Configured \in {"auto", "fast", "feature"}
  /\ DOMAIN Capabilities \cap (ControlTools \cup Finishes) = {}
  /\ \A p \in Phases : \A r \in Replies[p] : r \in Seq(Calls) /\ r # <<>>
  /\ Budgets \subseteq Nat \ {0}
  /\ Reserve \in Nat /\ MaxCycles \in Nat /\ MaxStarts \in Nat

VARIABLES
  session,      \* the Session in the memory of the process
  stored,       \* the Session in its file
  pc,           \* where the process is; "out" when there is none
  budget,       \* max_steps of this start
  limit,        \* max_steps of the agent of the phase
  before,       \* steps of the session when the phase started
  chain,        \* the models of the provider that have not failed
  config,       \* the tool manifest that the process has read
  ran,          \* the calls of working tools whose work was done
  starts

local == <<budget, limit, before, chain, config>>
vars == <<session, stored, pc, local, ran, starts>>

Statuses == {"active", "paused", "completed", "failed"}
Terminal == {"completed", "failed"}

-----------------------------------------------------------------------------
(* The session *)

NewSession ==
  [workflow |-> "none", phase |-> "none", level |-> "none", status |-> "active", runs |-> <<>>,
   cycles |-> 0, implemented |-> FALSE, bound |-> [r \in Roles |-> "none"]]

\* An AgentRunRecord; in the fast workflow the session itself plays its part.
\* calls are the unanswered tool calls of its messages, says what the parent
\* reads from them once the run is completed.
NewRun(phase, m) ==
  [phase |-> phase, model |-> m, status |-> "active", steps |-> 0,
   calls |-> <<>>, inflight |-> FALSE, says |-> "none", outcome |-> "none"]

\* parent.step_count
Steps(s) ==
  LET sum[n \in 0 .. Len(s.runs)] == IF n = 0 THEN 0 ELSE sum[n - 1] + s.runs[n].steps
  IN  sum[Len(s.runs)]

Run == Last(session.runs)

WithRun(s, run) == [s EXCEPT !.runs[Len(s.runs)] = run]

\* SessionStore.save replaces the file at once.
Store(s) == session' = s /\ stored' = s

\* Agent._persist takes the state of the provider for the provider_state of the
\* session, which held the outcome_kind.
Persist(run) == [run EXCEPT !.outcome = "none"]

\* Agent._persist: the fast agent saves the session, a phase saves its child in
\* the parent, with the model it failed over to as the binding of its role.
Save(run) ==
  Store(IF session.workflow = "fast"
        THEN [WithRun(session, Persist(run)) EXCEPT !.status = run.status]
        ELSE [WithRun(session, Persist(run)) EXCEPT !.bound[RoleOf(run.phase)] = run.model])

-----------------------------------------------------------------------------
(* RunCoordinator.run *)

Goto(place) == pc' = place

\* The process returns to its caller, or dies: its memory is gone.
Leaves ==
  /\ Goto("out")
  /\ session' = stored'
  /\ budget' = 0 /\ limit' = 0 /\ before' = 0 /\ chain' = {} /\ config' = "none"
  /\ UNCHANGED <<ran, starts>>

\* create_coordinator reads the manifest and refuses one that is not sound.
Start ==
  /\ pc = "out" /\ starts < MaxStarts
  /\ starts' = starts + 1
  /\ \E c \in Configs :
       \/ /\ Sound(c)
          /\ config' = c /\ budget' \in Budgets
          /\ Goto("enter")
       \/ ~ Sound(c) /\ UNCHANGED <<pc, config, budget>>
  /\ session' = stored
  /\ UNCHANGED <<stored, limit, before, chain, ran>>

ReturnTerminal ==
  /\ pc = "enter" /\ session.status \in Terminal
  /\ UNCHANGED stored
  /\ Leaves

\* _initialize_workflow: a role for which no model can be selected is an error.
Initialize ==
  /\ pc = "enter" /\ session.status \notin Terminal
  /\ session.workflow = "none"
  /\ \E task \in Tasks, requested \in Requested :
       LET level == LevelOf(task)
           workflow == ChooseWorkflow(requested, Configured, level)
       IN  \/ /\ \A r \in RolesIn(workflow) : Selectable(r, level)
              /\ Store([session EXCEPT
                          !.workflow = workflow, !.level = level, !.status = "active",
                          !.phase = IF workflow = "fast" THEN "execute" ELSE "planning",
                          !.bound = [r \in Roles |-> IF r \in RolesIn(workflow)
                                                     THEN Select(r, level) ELSE "none"]])
              /\ Goto("loop")
              /\ UNCHANGED <<local, ran, starts>>
           \/ /\ \E r \in RolesIn(workflow) : ~ Selectable(r, level)
              /\ UNCHANGED stored
              /\ Leaves

Resume ==
  /\ pc = "enter" /\ session.status \notin Terminal
  /\ session.workflow # "none"
  /\ Goto("loop")
  /\ UNCHANGED <<session, stored, local, ran, starts>>

\* A process may die, and an error that no fallback answers leaves run.
Crash == pc # "out" /\ UNCHANGED stored /\ Leaves

-----------------------------------------------------------------------------
(* The start of a phase *)

\* FallbackProvider.set_state: the provider goes on with the model it was at.
Restored(role, bound, active) ==
  Onward(role, session.level, ProviderChain(role, session.level, bound), active)

\* Faulty variant of StartFast: the state of the provider is not restored.
StartFastAnew ==
  /\ pc = "loop" /\ session.workflow = "fast"
  /\ session' = IF session.runs = <<>>
                THEN [session EXCEPT !.runs = <<NewRun("execute", session.bound["fast"])>>]
                ELSE WithRun(session, [Run EXCEPT !.status = "active"])
  /\ chain' = ProviderChain("fast", session.level, session.bound["fast"])
  /\ limit' = budget
  /\ before' = Steps(session)
  /\ Goto("agent")
  /\ UNCHANGED <<stored, budget, config, ran, starts>>

\* _run_fast: the provider resumes at the model that answered last.
StartFast ==
  /\ pc = "loop" /\ session.workflow = "fast"
  /\ session' = IF session.runs = <<>>
                THEN [session EXCEPT !.runs = <<NewRun("execute", session.bound["fast"])>>]
                ELSE WithRun(session, [Run EXCEPT !.status = "active"])
  /\ chain' = Restored("fast", session.bound["fast"], Last(session'.runs).model)
  /\ limit' = budget
  /\ before' = Steps(session)
  /\ Goto("agent")
  /\ UNCHANGED <<stored, budget, config, ran, starts>>

\* Faulty variant of Resumable: a completed run is not taken up.
ResumableUnfinished(s) ==
  /\ s.runs # <<>>
  /\ Last(s.runs).phase = s.phase
  /\ Last(s.runs).model = s.bound[s.phase]
  /\ Last(s.runs).status \in {"active", "paused"}

\* _resumable_record
Resumable(s) ==
  /\ s.runs # <<>>
  /\ Last(s.runs).phase = s.phase
  /\ Last(s.runs).model = s.bound[s.phase]
  /\ Last(s.runs).status # "failed"

\* Faulty variant of Allowance: nothing is held back.
AllowanceWhole(s) == budget - Steps(s)

\* The steps a phase may take: the first implementation leaves some for review.
Allowance(s) ==
  LET remaining == budget - Steps(s)
  IN  IF s.phase = "implementation" /\ s.cycles = 0 /\ budget > Reserve
      THEN IF remaining > Reserve THEN remaining - Reserve ELSE 1
      ELSE remaining

\* _run_phase, up to the agent: a completed run is not run again, an unfinished
\* one goes on, and otherwise a new one begins.
StartPhase ==
  /\ pc = "loop" /\ session.workflow = "feature"
  /\ Steps(session) < budget
  /\ LET s == [session EXCEPT !.status = "active"]
         fresh == NewRun(s.phase, s.bound[s.phase])
         run == IF Resumable(s) THEN [Last(s.runs) EXCEPT !.status = "active"] ELSE fresh
     IN  IF Resumable(s) /\ Last(s.runs).status = "completed"
         THEN session' = s /\ Goto("decide") /\ UNCHANGED <<limit, chain>>
         ELSE /\ session' = IF Resumable(s) THEN WithRun(s, run)
                                            ELSE [s EXCEPT !.runs = Append(@, fresh)]
              /\ limit' = run.steps + Allowance(s)
              /\ chain' = ProviderChain(s.phase, s.level, run.model)
              /\ Goto("agent")
  /\ before' = Steps(session)
  /\ UNCHANGED <<stored, budget, config, ran, starts>>

OutOfSteps ==
  /\ pc = "loop" /\ session.workflow = "feature"
  /\ Steps(session) >= budget
  /\ stored' = [session EXCEPT !.status = "paused"]
  /\ Leaves

-----------------------------------------------------------------------------
(* Agent.run *)

\* The run ends with a status and is saved.
Ends(status, outcome, run) ==
  /\ Save([run EXCEPT !.status = status, !.outcome = outcome])
  /\ Goto("decide")

\* A call that a dead process had begun: its effects are unknown.
Interrupted ==
  /\ pc = "agent" /\ Run.inflight
  /\ Ends("failed", "none", Run)
  /\ UNCHANGED <<local, ran, starts>>

Exhausted ==
  /\ pc = "agent" /\ ~ Run.inflight
  /\ Run.calls = <<>> /\ Run.steps >= limit
  /\ Ends("paused", "budget_exhausted", Run)
  /\ UNCHANGED <<local, ran, starts>>

\* What _finish_arguments finds after a reply: the last finish call, run or not.
SaysAfter(run, reply) ==
  LET finishes == {i \in DOMAIN reply : reply[i] \in Finishes}
  IN  IF finishes = {} THEN run.says ELSE reply[Max(finishes)]

Asks == pc = "agent" /\ ~ Run.inflight /\ Run.calls = <<>> /\ Run.steps < limit

\* FallbackProvider.complete: the active model answers, or after retryable
\* errors one that follows it.
AnsweredBy(m) ==
  /\ m \in chain /\ chain' = Onward(RoleOf(Run.phase), session.level, chain, m)
  /\ UNCHANGED <<budget, limit, before, config, ran, starts>>

\* A reply with calls is saved before any of them is run.
AnswerCalls ==
  /\ Asks
  /\ \E m \in chain, reply \in Replies[Run.phase] :
       /\ AnsweredBy(m)
       /\ Save([Run EXCEPT !.model = m, !.steps = @ + 1, !.calls = reply,
                           !.says = SaysAfter(Run, reply)])
  /\ Goto("agent")

\* A reply without calls completes the run; its text may be empty.
AnswerText ==
  /\ Asks
  /\ \E m \in chain, text \in {"text", "nothing"} :
       /\ AnsweredBy(m)
       /\ Ends("completed", "none",
               [Run EXCEPT !.model = m, !.steps = @ + 1,
                           !.says = IF @ = "none" THEN text ELSE @])

\* Faulty variant of BeginCall: the call is marked in memory only.
BeginCallUnsaved ==
  /\ pc = "agent" /\ ~ Run.inflight /\ Run.calls # <<>>
  /\ session' = WithRun(session, [Run EXCEPT !.inflight = TRUE])
  /\ Goto("tool")
  /\ UNCHANGED <<stored, local, ran, starts>>

\* The call is saved as being in flight before its tool is run.
BeginCall ==
  /\ pc = "agent" /\ ~ Run.inflight /\ Run.calls # <<>>
  /\ Save([Run EXCEPT !.inflight = TRUE])
  /\ Goto("tool")
  /\ UNCHANGED <<local, ran, starts>>

\* The call at hand and its id: the run, the reply and the calls that follow.
Call == [run |-> Len(session.runs), reply |-> Run.steps, left |-> Len(Run.calls),
         tool |-> Head(Run.calls)]

\* The tools of _phase_tools, whose context allows no other.
Allowed == ToolOf(Head(Run.calls)) \in ToolNames(config, Run.phase)

\* _run_tool: a tool that is not allowed is not run; one that is run succeeds,
\* reports an error before or after its work, or raises.  Control tools succeed
\* and change nothing.
RunTool ==
  /\ pc = "tool"
  /\ LET works == Head(Run.calls) \in DOMAIN Capabilities
     IN  \/ Goto("error") /\ UNCHANGED ran
         \/ Allowed /\ works /\ pc' \in {"ok", "error", "fatal"} /\ ran' = ran \cup {Call}
         \/ Allowed /\ ~ works /\ Goto("ok") /\ UNCHANGED ran
  /\ UNCHANGED <<session, stored, local, starts>>

\* The outcome and the status that a successful control tool gives a run.
StatusOf(call) ==
  CASE call = "needs_human" -> "paused"
    [] call = "fail_turn"   -> "failed"
    [] OTHER                -> "completed"

OutcomeOf(call) ==
  CASE call \in Finishes    -> "changes_ready"
    [] call = "fail_turn"   -> "failed"
    [] OTHER                -> call

\* The run with the answer to its first call.
Closed(run) == [run EXCEPT !.inflight = FALSE, !.calls = Tail(@)]

ToolAnswered ==
  /\ pc \in {"ok", "error", "fatal"}
  /\ LET call == Head(Run.calls)
         run == Closed(Run)
     IN  CASE pc = "fatal" -> Ends("failed", "failed", run)
           [] pc = "ok" /\ ToolOf(call) \in ControlTools ->
                Ends(StatusOf(call), OutcomeOf(call),
                     [run EXCEPT !.says = IF @ = "none" THEN "text" ELSE @])
           [] OTHER -> Save(run) /\ Goto("agent")
  /\ UNCHANGED <<local, ran, starts>>

-----------------------------------------------------------------------------
(* What the coordinator makes of the end of a phase *)

\* _run_fast keeps the model that answered last as the binding, if one has answered.
FinishFast ==
  /\ pc = "decide" /\ session.workflow = "fast"
  /\ stored' = [session EXCEPT !.bound["fast"] = IF Steps(session) > before THEN Run.model ELSE @]
  /\ Leaves

InFeature(status) ==
  pc = "decide" /\ session.workflow = "feature" /\ Run.status = status

Return(status) == stored' = [session EXCEPT !.status = status] /\ Leaves

\* A review that paused with steps left is resumed, if it made any.
ResumesReview ==
  /\ session.phase = "review" /\ session.implemented
  /\ Steps(session) < budget /\ Steps(session) > before

AutoResume ==
  /\ InFeature("paused") /\ ResumesReview
  /\ Goto("loop")
  /\ UNCHANGED <<session, stored, local, ran, starts>>

PausePhase == InFeature("paused") /\ ~ ResumesReview /\ Return("paused")

FailPhase == InFeature("failed") /\ Return("failed")

\* A plan or a summary that is empty fails the session.
NoContent ==
  /\ InFeature("completed") /\ session.phase # "review"
  /\ Run.says = "nothing"
  /\ Return("failed")

\* The session is saved and the loop goes on with the next phase.
Advance(s) ==
  /\ Store([s EXCEPT !.status = "active"])
  /\ Goto("loop")
  /\ UNCHANGED <<local, ran, starts>>

\* Faulty variant of PlanDone: the phase is not advanced.
PlanDoneStays ==
  /\ InFeature("completed") /\ session.phase = "planning" /\ Run.says # "nothing"
  /\ Advance(session)

PlanDone ==
  /\ InFeature("completed") /\ session.phase = "planning" /\ Run.says # "nothing"
  /\ Advance([session EXCEPT !.phase = "implementation"])

ImplementationDone ==
  /\ InFeature("completed") /\ session.phase = "implementation" /\ Run.says # "nothing"
  /\ Advance([session EXCEPT !.phase = "review", !.implemented = TRUE])

NoVerdict ==
  /\ InFeature("completed") /\ session.phase = "review"
  /\ Run.says \notin {"approved", "changes_requested"}
  /\ Return("failed")

Approved ==
  /\ InFeature("completed") /\ session.phase = "review" /\ Run.says = "approved"
  /\ Return("completed")

TooManyCycles ==
  /\ InFeature("completed") /\ session.phase = "review" /\ Run.says = "changes_requested"
  /\ session.cycles >= MaxCycles
  /\ Return("failed")

\* Faulty variant of Rework: one cycle too many.
ReworkOnceMore ==
  /\ InFeature("completed") /\ session.phase = "review" /\ Run.says = "changes_requested"
  /\ session.cycles <= MaxCycles
  /\ Advance([session EXCEPT !.phase = "implementation", !.cycles = @ + 1])

Rework ==
  /\ InFeature("completed") /\ session.phase = "review" /\ Run.says = "changes_requested"
  /\ session.cycles < MaxCycles
  /\ Advance([session EXCEPT !.phase = "implementation", !.cycles = @ + 1])

-----------------------------------------------------------------------------
AgentInit ==
  /\ session = NewSession /\ stored = NewSession
  /\ pc = "out"
  /\ budget = 0 /\ limit = 0 /\ before = 0 /\ chain = {} /\ config = "none"
  /\ ran = {} /\ starts = 0

\* The steps of a running process.
Works ==
  \/ ReturnTerminal \/ Initialize \/ Resume
  \/ StartFast \/ StartPhase \/ OutOfSteps
  \/ Interrupted \/ Exhausted \/ AnswerCalls \/ AnswerText
  \/ BeginCall \/ RunTool \/ ToolAnswered
  \/ FinishFast \/ AutoResume \/ PausePhase \/ FailPhase
  \/ NoContent \/ PlanDone \/ ImplementationDone
  \/ NoVerdict \/ Approved \/ TooManyCycles \/ Rework

AgentNext == Start \/ Works \/ Crash

AgentSpec == AgentInit /\ [][AgentNext]_vars

\* A process that runs takes its steps; nobody has to start one.
FairAgentSpec == AgentSpec /\ WF_vars(Works)

-----------------------------------------------------------------------------
(* Properties *)

RunsOK(s) ==
  \A i \in DOMAIN s.runs :
    /\ s.runs[i].phase \in Phases /\ s.runs[i].status \in Statuses
    /\ s.runs[i].model \in DOMAIN Registry
    /\ s.runs[i].calls \in Seq(Calls)
    /\ s.runs[i].steps \in Nat

\* Type invariant.
AgentTypeOK ==
  /\ RunsOK(session) /\ RunsOK(stored)
  /\ \A s \in {session, stored} :
       /\ s.workflow \in {"none", "fast", "feature"}
       /\ s.phase \in {"none"} \cup Phases
       /\ s.status \in Statuses
       /\ s.cycles \in 0 .. MaxCycles
  /\ pc \in {"out", "enter", "loop", "agent", "tool", "ok", "error", "fatal", "decide"}

\* However often the process dies and the session is started again, the tool of
\* a call is run at most once: a call whose work was done is never begun again,
\* neither by the agent that resumes nor by a later run of the same phase.
NoCallTwice == pc = "tool" => Call \notin ran

Completed(s) == {i \in DOMAIN s.runs : s.runs[i].status = "completed"}
CompletedBefore(s, i) == Cardinality({k \in Completed(s) : k < i})

\* The phase that is due after n completed runs.
Due(n) == IF n = 0 THEN "planning" ELSE IF n % 2 = 1 THEN "implementation" ELSE "review"

\* The completed runs of a feature session are planning, implementation,
\* review, implementation, review and so on: no death between the save of a run
\* and the save of the session repeats a completed phase, skips one or counts a
\* rework twice, and a completed session ends with an approving review of the
\* last implementation.
WorkflowInOrder ==
  stored.workflow = "feature" =>
    LET due == CASE stored.phase = "planning"       -> 0
                 [] stored.phase = "implementation" -> 1 + 2 * stored.cycles
                 [] stored.phase = "review"         -> 2 + 2 * stored.cycles
    IN  /\ \A i \in Completed(stored) : stored.runs[i].phase = Due(CompletedBefore(stored, i))
        /\ \/ Cardinality(Completed(stored)) = due /\ stored.status # "completed"
           \/ /\ Cardinality(Completed(stored)) = due + 1
              /\ Last(stored.runs).status = "completed"
        /\ stored.status = "completed" =>
             stored.phase = "review" /\ Last(stored.runs).says = "approved"

\* The model that the session file names for a role.
Current(s, role) ==
  IF role = "fast" /\ s.runs # <<>> /\ s.workflow = "fast"
  THEN Last(s.runs).model ELSE s.bound[role]

\* After a failover that was saved, no start of the session goes back to a model
\* that comes earlier in the preferences of the role, and the failover of one
\* role leaves the models of the other roles alone.
NeverBack ==
  [][\A role \in Roles : Current(stored, role) # Current(stored', role) =>
       \/ stored.workflow = "none"
       \/ /\ role = RoleOf(stored'.phase)
          /\ \E i, j \in DOMAIN Preferred[role] :
               /\ i < j
               /\ Preferred[role][i] = Current(stored, role)
               /\ Preferred[role][j] = Current(stored', role)]_stored

\* Every model that answers for a role has the capabilities and the strength
\* that the role needs for this task, whichever fallback it is.
AnswersQualify ==
  \A i \in DOMAIN stored.runs :
    Qualifies(stored.runs[i].model, RoleOf(stored.runs[i].phase), stored.level)

\* No call of a tool that writes files has run in planning or review, nor one
\* that executes commands in planning, whatever the manifest declares.
PhasesConfined ==
  \A c \in ran :
    /\ stored.runs[c.run].phase \in {"planning", "review"} => "write_fs" \notin Capabilities[c.tool]
    /\ stored.runs[c.run].phase = "planning" => "execute" \notin Capabilities[c.tool]

\* The steps of all phases together never exceed the budget of the start, though
\* each agent counts only its own; and if more steps than the reserve are left
\* when the first implementation starts, the reserve is left for its review.
StepsWithinBudget ==
  [][/\ Steps(stored') > Steps(stored) => Steps(stored') <= budget
     /\ /\ stored.phase = "implementation" /\ stored'.phase = "review"
        /\ stored.cycles = 0 /\ budget - before > Reserve
        => budget - Steps(stored') >= Reserve]_stored

\* What NeedsHumanTool promises of a question: the saved run says that a human
\* is asked, for the service to post it, unless the process dies before it is saved.
OutcomeKept ==
  [][pc = "ok" /\ pc' # "out" /\ Head(Run.calls) = "needs_human"
     => Last(stored'.runs).outcome = "needs_human"]_vars

\* Every start of a session returns or dies: no phase is run in circles.
RunEnds == (pc # "out") ~> (pc = "out")

=============================================================================
