---------------------------- MODULE Registration ----------------------------
(***************************************************************************)
(* What a developer's module registers with the application before it      *)
(* runs, in any order: tools, commands, workflows, subagents, named        *)
(* agents and roles.  A call that raises ends the program, so it is no     *)
(* step here.                                                              *)
(***************************************************************************)
EXTENDS Capabilities, Sequences

CONSTANTS
    Default,        \* "default", which is no name of an agent
    Reserved,       \* RESERVED_COMMAND_NAMES
    Specs,          \* subagents that may be registered
    Selections,     \* what a named agent may ask for: tools by name, tools of its own, or None
    Grants,         \* grants that a role may be given at once
    MaxCalls        \* bound: registrations

\* A subagent: its shape is a graph, a deepagents dict, or declared by a prompt
\* with the names of its tools, or None for those of the agent.
ASSUME SpecAssumption ==
    /\ \A s \in Specs :
          /\ s.type \in Subagents
          /\ s.shape \in {"graph", "dict", "declared"}
          /\ s.output = "main_agent" \/ (s.output = "channel" /\ s.shape = "declared")
          /\ s.tools = None \/ s.tools \subseteq ToolNames
    /\ MaxCalls \in Nat

VARIABLES
    tools,       \* _extra_tools: their names
    commands,    \* _extra_commands: their names
    registry,    \* WorkflowRegistry: the names in code, and those of files
    subagents,   \* _subagents
    named,       \* _named_agents: their selections
    grants,      \* _extra_roles, _extra_role_subagents, _extra_role_workflows
    calls,       \* bound: registrations so far
    given        \* what calls have granted: <<role, axis, name>>

appVars == <<tools, commands, registry, subagents, named, grants, calls, given>>

NoRegistry == [code |-> {}, files |-> {}]
Workflows(r) == r.code \cup r.files

AppInit ==
    /\ tools = {} /\ commands = {} /\ registry = NoRegistry
    /\ subagents = <<>> /\ named = << >> /\ grants = << >>
    /\ calls = 0 /\ given = {}

\* _reserved_names: the names claimed so far.
Claimed ==
    tools \cup commands \cup DOMAIN named \cup {subagents[i].type : i \in 1..Len(subagents)}

Call == calls < MaxCalls /\ calls' = calls + 1

\* MUTANT of Merged: what is granted last replaces what was granted before.
MergedOver(old, role, more) ==
    [r \in DOMAIN old \cup {role} |-> IF r = role THEN more ELSE old[r]]

\* The grants of a role, on each axis, in the order of the calls.
Merged(old, role, more) ==
    [r \in DOMAIN old \cup {role} |->
        [axis \in Axes |-> (IF r \in DOMAIN old THEN old[r][axis] ELSE {})
                           \cup (IF r = role THEN more[axis] ELSE {})]]

Grant(role, more) ==
    /\ grants' = Merged(grants, role, more)
    /\ given' = given \cup UNION {{<<role, axis, n>> : n \in more[axis]} : axis \in Axes}

\* @app.tool, register_tool: a role that is named may use the tool.
Tool(n, role) ==
    /\ Call
    /\ tools' = tools \cup {n}
    /\ IF role = None THEN UNCHANGED <<grants, given>>
       ELSE Grant(role, [NoGrant EXCEPT !["tools"] = {n}])
    /\ UNCHANGED <<commands, registry, subagents, named>>

\* @app.command
Command(n) ==
    /\ Call
    /\ n \notin Reserved
    /\ commands' = commands \cup {n}
    /\ UNCHANGED <<tools, registry, subagents, named, grants, given>>

\* @app.workflow
Workflow(n) ==
    /\ Call
    /\ n \notin Workflows(registry) \cup Claimed
    /\ registry' = [registry EXCEPT !.code = @ \cup {n}]
    /\ UNCHANGED <<tools, commands, subagents, named, grants, given>>

\* app.role
Role(role, more) ==
    /\ Call
    /\ Grant(role, more)
    /\ UNCHANGED <<tools, commands, registry, subagents, named>>

\* app.subagent
Subagent(spec) ==
    /\ Call
    /\ subagents' = Append(subagents, spec)
    /\ UNCHANGED <<tools, commands, registry, named, grants, given>>

\* app.agent: a name that comes again replaces the first.
Agent(n, selection) ==
    /\ Call
    /\ n # Default
    /\ named' = [a \in DOMAIN named \cup {n} |-> IF a = n THEN selection ELSE named[a]]
    /\ UNCHANGED <<tools, commands, registry, subagents, grants, given>>

Register ==
    \/ \E n \in Names, role \in Roles \cup {None} : Tool(n, role)
    \/ \E n \in Names : Command(n) \/ Workflow(n)
    \/ \E role \in Roles, more \in Grants : Role(role, more)
    \/ \E spec \in Specs : Subagent(spec)
    \/ \E n \in Names, selection \in Selections : Agent(n, selection)

-----------------------------------------------------------------------------
\* _build_effective_config: roles of the configuration and of the code; a role
\* in code turns permissions on.
Effective(base) ==
    IF grants = << >> THEN base
    ELSE [base EXCEPT
            !.enabled = TRUE,
            !.roles = [r \in DOMAIN base.roles \cup DOMAIN grants |->
                         [axis \in Axes |->
                            (IF r \in DOMAIN base.roles THEN base.roles[r][axis] ELSE {})
                            \cup (IF r \in DOMAIN grants THEN grants[r][axis] ELSE {})]]]

\* _reload_saved_workflows: a file of a name that is taken is left out.
Reloaded(files, on) ==
    IF on THEN [registry EXCEPT !.files = files \ (registry.code \cup Claimed)] ELSE registry
=============================================================================
