----------------------------- MODULE ToolPolicy -----------------------------
(***************************************************************************)
(* Which tools an agent may use in a phase (tool_policy.py): the manifest  *)
(* of the repository may override, extend and deny the tools of a phase,   *)
(* within the capabilities its kind of phase can have.                     *)
(***************************************************************************)
EXTENDS FiniteSets

CONSTANTS
  Capabilities,   \* for each registered tool that is no control tool: its capabilities
  FixedIn         \* for each fixed command: the phases it is declared for

ControlTools == {"finish", "changes_ready", "no_safe_change", "needs_human", "fail_turn"}

\* A hosted run has control tools of its own.
ControlsOf(config) == IF config.hosted THEN ControlTools ELSE {"finish"}
Registered(config) == DOMAIN Capabilities \cup ControlsOf(config)
CapabilitiesOf(tool) == IF tool \in ControlTools THEN {"control"} ELSE Capabilities[tool]

ReadOnly == {"control", "knowledge", "read_external", "read_fs"}

\* The allowed_tools of the phases that list some.
Listed == [planning |-> {"explore", "load_skill", "read_file", "search"},
           review   |-> {"explore", "load_skill", "read_file", "search", "run_command"}]

\* validate_tool_policy: control tools cannot be denied, nor unknown ones named.
PolicyValid(config) ==
  /\ config.deny \cap ControlTools = {}
  /\ config.deny \subseteq Registered(config)
  /\ \A p \in DOMAIN config.phases : config.phases[p] \subseteq Registered(config)

\* The tools that a phase asks for.
Named(config, phase) ==
  LET override == phase \in DOMAIN config.phases
      default == (IF phase \in DOMAIN Listed THEN Listed[phase] ELSE Registered(config))
                 \cup {t \in DOMAIN FixedIn : phase \in FixedIn[t]}
      shell == override /\ "run_command" \in config.phases[phase]
      dropped == config.deny \cup (IF config.hosted /\ ~ shell THEN {"run_command"} ELSE {})
  IN  ((IF override THEN config.phases[phase] ELSE default) \ dropped) \cup ControlsOf(config)

\* The capabilities beyond which a phase must not reach; any for the others.
WithinLimit(tool, phase) ==
  LET has == CapabilitiesOf(tool)
  IN  CASE phase = "planning" -> has # {} /\ has \subseteq ReadOnly
        [] phase = "review"   -> has # {} /\ has \subseteq ReadOnly \cup {"execute"}
        [] OTHER              -> TRUE

\* Faulty variant of Escalates: only the manifest's own list is looked at.
EscalatesListed(config, phase) ==
  phase \in DOMAIN config.phases
    /\ \E t \in Named(config, phase) \cap DOMAIN FixedIn : ~ WithinLimit(t, phase)

\* tool_names_for_phase raises ToolPolicyError.
Escalates(config, phase) ==
  \E t \in Named(config, phase) \cap Registered(config) : ~ WithinLimit(t, phase)

ToolNames(config, phase) == Named(config, phase) \cap Registered(config)

\* validate_all_phase_policies: such a manifest stops the run before it starts.
Sound(config) ==
  /\ PolicyValid(config)
  /\ \A p \in {"execute", "planning", "implementation", "review"} : ~ Escalates(config, p)
=============================================================================
