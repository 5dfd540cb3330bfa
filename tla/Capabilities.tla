---------------------------- MODULE Capabilities ----------------------------
(***************************************************************************)
(* What a role may use.  A role grants names on three axes: tools,         *)
(* workflows, which an agent has as tools of their own, and types of       *)
(* subagents, which are an argument of the tool `task`.  Scripts reach     *)
(* tools by identifiers in camel case.                                     *)
(***************************************************************************)
EXTENDS Integers, FiniteSets

CONSTANTS
    Names,          \* names that a developer gives: tools, workflows, commands, agents
    Builtin,        \* built-in tools
    Injected,       \* RUNTIME_INJECTED_TOOLS of deepagents
    Task,           \* the one of them that calls a subagent
    Readonly,       \* DEFAULT_READONLY_PTC_TOOLS
    Subagents,      \* types of subagents
    Roles,
    Star,           \* "*"
    None,
    Identifier,     \* to_camel_case: the identifier of a tool in a script
    Sinks           \* identifiers of a script's output, progress and model calls

Plain == Names \cup Builtin \cup Injected

\* workflow_<name>: a plain tool has no name that begins so.
WorkflowTool(w) == <<"workflow_", w>>
WorkflowTools(ws) == {WorkflowTool(w) : w \in ws}
ToolNames == Plain \cup WorkflowTools(Names)

ASSUME CapabilityAssumption ==
    /\ Task \in Injected
    /\ Readonly \subseteq Plain
    /\ DOMAIN Identifier = ToolNames
    /\ Star \notin ToolNames \cup Subagents \cup Names
    /\ WorkflowTools(Names) \cap Plain = {}

Axes == {"tools", "subagents", "workflows"}
NoGrant == [axis \in Axes |-> {}]

-----------------------------------------------------------------------------
\* rbac.py.  A role that is not configured has no grant.

Granted(perms, role, axis) ==
    IF role \in DOMAIN perms.roles THEN perms.roles[role][axis] ELSE {}

\* resolve_capability, of those on offer.
Resolve(perms, role, axis, universe) ==
    IF Star \in Granted(perms, role, axis) THEN universe
    ELSE Granted(perms, role, axis) \cap universe

AllowedTools(perms, role, tools) == Resolve(perms, role, "tools", tools)
AllowedWorkflows(perms, role, ws) == Resolve(perms, role, "workflows", ws)

\* The subagents on offer are not known where they are resolved: verbatim.
AllowedSubagents(perms, role) == Granted(perms, role, "subagents")
MayDelegate(type, allowed) == Star \in allowed \/ type \in allowed

\* The one filter of an agent's tools: by the prefix, a workflow's or plain.
Filtered(perms, role, tools) ==
    AllowedTools(perms, role, tools \ WorkflowTools(Names))
    \cup WorkflowTools(AllowedWorkflows(perms, role, {w \in Names : WorkflowTool(w) \in tools}))

\* What a model that has these tools is offered on behalf of a role.
Seen(perms, role, tools) == IF perms.enabled THEN Filtered(perms, role, tools) ELSE tools

\* The gate on calls of `task`.
DelegationAllowed(perms, role, type) ==
    perms.enabled => MayDelegate(type, AllowedSubagents(perms, role))

-----------------------------------------------------------------------------
\* naming.py and interpreter/.

\* reject_camel_collisions
Collide(tools) == \E s, t \in tools : s # t /\ Identifier[s] = Identifier[t]

\* resolve_ptc_allowlist, to which the builder gives no role.
Surface(allow, tools) ==
    IF Star \in allow THEN tools \cup Injected
    ELSE (Readonly \cup allow) \cap (tools \cup Injected)

\* build_interpreter_middleware adds the workflows' tools.
ScriptTools(allow, tools, ws) == Surface(allow, tools) \cup WorkflowTools(ws)

-----------------------------------------------------------------------------
\* js_runner.py: what a workflow's script declares that it uses.

Spelled(t) == {t, Identifier[t]}
Unresolved(uses, tools) == {u \in uses : \A t \in tools : u \notin Spelled(t)}
Selected(uses, tools) == {t \in tools : Spelled(t) \cap uses # {}}

\* What its identifiers stand for: the sinks are installed last, and win.
SandboxOf(uses, tools) ==
    [id \in {Identifier[t] : t \in Selected(uses, tools)} \cup Sinks |->
        IF id \in Sinks THEN id ELSE CHOOSE t \in Selected(uses, tools) : Identifier[t] = id]
SandboxRaises(uses, tools) == Unresolved(uses, tools) # {} \/ Collide(Selected(uses, tools))
=============================================================================
