---------------------------- MODULE AgentToolset ----------------------------
(***************************************************************************)
(* create_claw_agent: the tools of an agent, the surface of its scripts,   *)
(* its subagents, and what it leaves behind for workflows that are started *)
(* without it.                                                             *)
(***************************************************************************)
EXTENDS Capabilities, Sequences

\* Selections of tools: names of built-in tools or of its own, and its own.
\* _resolve_tools_by_name raises at a name that is not there.
ToolsRaise(selection) ==
    selection # None /\ ~(selection.names \subseteq Builtin \cup selection.own)

\* Names select; tools of its own are there in any case.
BaseTools(selection) ==
    IF selection = None THEN Builtin
    ELSE IF selection.names # {} THEN selection.names \cup selection.own
    ELSE Builtin \cup selection.own

-----------------------------------------------------------------------------
\* Subagents: compiled ones, then declared ones, then those that report to the
\* channel, then deepagents dicts.

Stage(s) ==
    CASE s.shape = "graph" -> 1
      [] s.shape = "declared" /\ s.output = "main_agent" -> 2
      [] s.shape = "declared" /\ s.output = "channel" -> 3
      [] s.shape = "dict" -> 4

Before(subagents, i, j) ==
    \/ Stage(subagents[i]) < Stage(subagents[j])
    \/ Stage(subagents[i]) = Stage(subagents[j]) /\ i < j

\* Of a type that is registered twice the last is called.
Called(subagents) ==
    {i \in 1..Len(subagents) :
        \A j \in 1..Len(subagents) \ {i} :
            subagents[j].type = subagents[i].type => Before(subagents, j, i)}

\* MUTANT of Reach: an empty list is taken for none, whatever the subagent
\* reports to.
ReachFalsy(spec, all) == IF spec.tools \in {None, {}} THEN all ELSE spec.tools

\* The tools it is built with.  An empty list leaves the one that reports to the
\* channel with all of them: `sa_tools or tools`.
Reach(spec, all) ==
    IF spec.tools = None \/ (spec.output = "channel" /\ spec.tools = {}) THEN all ELSE spec.tools

\* A compiled graph is passed through; the others filter their tools by role.
Guarded(spec, perms) == perms.enabled /\ spec.shape # "graph"

BuiltSubagents(subagents, all, perms) ==
    [type \in {subagents[i].type : i \in Called(subagents)} |->
        LET spec == subagents[CHOOSE i \in Called(subagents) : subagents[i].type = type]
        IN [spec |-> spec, tools |-> Reach(spec, all), filter |-> Guarded(spec, perms)]]

SubagentsRaise(subagents, all) ==
    \E i \in 1..Len(subagents) :
        LET s == subagents[i]
        IN s.shape = "declared" /\ s.tools # None /\ ~(s.tools \subseteq all)

-----------------------------------------------------------------------------
\* An agent with workflows ws, which named agents lack.

Everything(selection, ws) == BaseTools(selection) \cup WorkflowTools(ws)

Raises(selection, ws, subs, script) ==
    \/ ToolsRaise(selection)
    \/ script.on /\ Collide(ScriptTools(script.allow, Everything(selection, ws), ws))
    \/ SubagentsRaise(subs, Everything(selection, ws))

Built(selection, ws, subs, script, perms) ==
    [tools |-> Everything(selection, ws),
     live |-> BaseTools(selection),
     script |-> IF script.on THEN ScriptTools(script.allow, Everything(selection, ws), ws)
                ELSE {},
     subagents |-> BuiltSubagents(subs, Everything(selection, ws), perms)]

Unwired == [tools |-> {}, subagents |-> << >>]

\* What the runtime is left with for runs that no agent starts: it is told of the
\* tools at once, and of the subagents when all else is built.
WiredBy(agent, whole) ==
    [tools |-> agent.live, subagents |-> IF whole THEN agent.subagents ELSE << >>]

-----------------------------------------------------------------------------
\* The bridge: what a step of a workflow reaches.  A subagent is called without
\* the context of who started the run.
StepReaches(wired, kind, target) ==
    \/ kind = "tool" /\ target \in wired.tools
    \/ kind = "subagent" /\ target \in DOMAIN wired.subagents
    \/ kind = "llm"
=============================================================================
