------------------------------- MODULE Access -------------------------------
(***************************************************************************)
(* A host from its registrations to its shutdown: who may use which tool,  *)
(* workflow and subagent, by which way: the model's call, a script, the    *)
(* command `/workflows run`, a scheduled job.  Agents write workflows into *)
(* files meanwhile, and the default agent is built anew.                   *)
(***************************************************************************)
EXTENDS Registration, AgentToolset

CONSTANTS
    Bases,       \* permissions of the configuration
    Scripts,     \* interpreter of the configuration: on, and allow_tools
    Cron,        \* the tool that schedules
    Viewer,      \* "viewer"
    Users,
    IdRole,      \* user_roles of the channel: by id
    NameRole,    \* ... and by username
    UserName,    \* the username that a user's messages carry, or None
    MaxStarts    \* bound: starts of the host

ASSUME AccessAssumption ==
    /\ DOMAIN UserName = Users /\ DOMAIN IdRole \subseteq Users
    /\ \A b \in Bases :
          /\ b = [enabled |-> b.enabled, default |-> b.default, roles |-> b.roles]
          /\ DOMAIN b.roles \subseteq Roles
    \* None is no role and no selection of tools.
    /\ None # Viewer /\ \A b \in Bases : b.default # None
    /\ \A u \in DOMAIN IdRole : IdRole[u] # None
    /\ \A n \in DOMAIN NameRole : NameRole[n] # None
    /\ \A ts \in SUBSET Names : [names |-> {}, own |-> ts] # None
    /\ MaxStarts \in Nat

VARIABLES
    host,      \* "registering", "serving", "failed": its start has raised
    base,      \* permissions in the configuration
    script,    \* interpreter in the configuration
    files,     \* names of the saved workflows in the folder
    perms,     \* permissions of the gateway
    agents,    \* _agent_map
    seen,      \* the registry at the last build of the default agent, or None
    wired,     \* factories of the workflow runtime
    broken,    \* the last build of the default agent raised
    jobs,      \* cron: who scheduled what, with which role
    starts

hostVars == <<host, perms, agents, seen, wired, broken>>
diskVars == <<files, jobs, base, script, starts>>
vars == <<appVars, hostVars, diskVars>>

NoPermissions == [enabled |-> FALSE, default |-> Viewer, roles |-> << >>]

Init ==
    /\ AppInit
    /\ host = "registering" /\ perms = NoPermissions
    /\ agents = << >> /\ seen = None /\ wired = Unwired /\ broken = FALSE
    /\ base \in Bases /\ script \in Scripts
    /\ files = {} /\ jobs = {} /\ starts = 0

-----------------------------------------------------------------------------
\* Registration and start.

DefaultSelection == [names |-> {}, own |-> tools]

Declare ==
    /\ host = "registering"
    /\ Register
    /\ UNCHANGED <<hostVars, diskVars>>

StartRaises(ws) ==
    \/ Raises(DefaultSelection, ws, subagents, script)
    \/ \E a \in DOMAIN named : Raises(named[a], {}, << >>, script)

\* _run_async: the folder is loaded and the agents are built, or it raises.
Start ==
    /\ host = "registering" /\ starts < MaxStarts
    /\ starts' = starts + 1
    /\ registry' = Reloaded(files, script.on)
    /\ perms' = Effective(base)
    /\ LET ws == Workflows(registry')
           main == Built(DefaultSelection, ws, subagents, script, perms')
       IN IF StartRaises(ws)
          THEN /\ host' = "failed"
               /\ UNCHANGED <<agents, seen, wired, broken>>
          ELSE /\ host' = "serving"
               /\ agents' = [a \in DOMAIN named \cup {Default} |->
                               IF a = Default THEN main
                               ELSE Built(named[a], {}, << >>, script, perms')]
               /\ seen' = registry'
               /\ wired' = IF ws = {} THEN Unwired ELSE WiredBy(main, TRUE)
               /\ UNCHANGED broken
    /\ UNCHANGED <<tools, commands, subagents, named, grants, calls, given,
                   files, jobs, base, script>>

\* The process ends; another version of the code may start then.
Stop ==
    /\ host # "registering" /\ starts < MaxStarts
    /\ host' = "registering"
    /\ tools' = {} /\ commands' = {} /\ registry' = NoRegistry
    /\ subagents' = << >> /\ named' = << >> /\ grants' = << >> /\ given' = {} /\ calls' = 0
    /\ perms' = NoPermissions
    /\ agents' = << >> /\ seen' = None /\ wired' = Unwired /\ broken' = FALSE
    /\ UNCHANGED diskVars

-----------------------------------------------------------------------------
\* Serving.

\* An agent or a user writes or removes workflows/<name>.js.
Write(n) ==
    /\ host # "registering" /\ n \notin files
    /\ files' = files \cup {n}
    /\ UNCHANGED <<appVars, hostVars, jobs, base, script, starts>>

Remove(n) ==
    /\ host # "registering" /\ n \in files
    /\ files' = files \ {n}
    /\ UNCHANGED <<appVars, hostVars, jobs, base, script, starts>>

Reconciling ==
    /\ host = "serving"
    /\ registry' = Reloaded(files, script.on)
    /\ UNCHANGED <<tools, commands, subagents, named, grants, calls, given>>

\* MUTANT of Rebuild: the runtime keeps what it was given at the start.
RebuildApart ==
    LET ws == Workflows(registry')
        main == Built(DefaultSelection, ws, subagents, script, perms)
    IN /\ seen' = registry'
       /\ broken' = Raises(DefaultSelection, ws, subagents, script)
       /\ agents' = IF broken' THEN agents ELSE [agents EXCEPT ![Default] = main]
       /\ UNCHANGED wired

\* create_claw_agent anew.  If it raises the old agent stays, though the runtime
\* has its factories already.
Rebuild ==
    LET ws == Workflows(registry')
        main == Built(DefaultSelection, ws, subagents, script, perms)
    IN /\ seen' = registry'
       /\ broken' = Raises(DefaultSelection, ws, subagents, script)
       /\ agents' = IF broken' THEN agents ELSE [agents EXCEPT ![Default] = main]
       /\ wired' = IF ws = {} THEN wired ELSE WiredBy(main, ~broken')

\* A turn of the default agent begins: _ensure_agent_fresh.
Turn ==
    /\ Reconciling
    /\ IF registry' # seen THEN Rebuild ELSE UNCHANGED <<agents, seen, wired, broken>>
    /\ UNCHANGED <<host, perms, diskVars>>

\* _handle_workflow, by a command or a job, reconciles before anything else.
Dispatch ==
    /\ Reconciling
    /\ UNCHANGED <<hostVars, diskVars>>

-----------------------------------------------------------------------------
\* Roles: _resolve_user_role of a message.

RoleOf(m) ==
    IF m.role # None THEN m.role
    ELSE IF m.user \in DOMAIN IdRole THEN IdRole[m.user]
    ELSE IF m.username \in DOMAIN NameRole THEN NameRole[m.username]
    ELSE perms.default

\* A text carries the username; what a command publishes does not, and a job has
\* the role with which it was scheduled.
TextOf(u) == [user |-> u, username |-> UserName[u], role |-> None]
CommandOf(u) == [user |-> u, username |-> None, role |-> None]
FireOf(j) == [user |-> j.user, username |-> None, role |-> j.role]

\* The role of a turn; without permissions everyone is a viewer.
TurnRole(m) == IF perms.enabled THEN RoleOf(m) ELSE Viewer

\* What the default agent's model is offered for a role: the filter sees what
\* deepagents injects among the tools of the agent.
OfferedTo(role) == Seen(perms, role, agents[Default].tools \cup Injected)

\* ... in a turn of a text.
Offered(u) == OfferedTo(TurnRole(TextOf(u)))

\* The cron tool: the workflow is looked up, not what the role may run.
Schedule(u, w) ==
    /\ host = "serving" /\ jobs = {}
    /\ Cron \in Offered(u)
    /\ w \in Workflows(registry)
    /\ jobs' = {[user |-> u, role |-> TurnRole(TextOf(u)), flow |-> w]}
    /\ UNCHANGED <<appVars, hostVars, files, base, script, starts>>

\* _handle_workflow: the workflow is there, and the role may run it.
Accepted(m, w) ==
    /\ w \in Workflows(registry)
    /\ perms.enabled => w \in AllowedWorkflows(perms, RoleOf(m), Workflows(registry))

Next ==
    \/ Declare
    \/ Start
    \/ Stop
    \/ \E n \in Names : Write(n) \/ Remove(n)
    \/ Turn
    \/ Dispatch
    \/ \E u \in Users, w \in Names : Schedule(u, w)

Spec == Init /\ [][Next]_vars

-----------------------------------------------------------------------------
\* Properties.

\* The default agent is built from what is registered and on disk.
Current ==
    /\ host = "serving" /\ ~broken
    /\ seen = registry /\ registry = Reloaded(files, script.on)

\* What a user's model is offered as a tool is what `/workflows run` accepts.
SameFor(u) ==
    \A w \in Names : WorkflowTool(w) \in Offered(u) <=> Accepted(CommandOf(u), w)

\* The ways to a workflow agree, for users whose role goes by their id and for
\* jobs, and a script has the tools its model has, each by an identifier of its
\* own; the runtime, which runs what no agent starts, has the default agent's
\* tools and subagents; with all tools on the scripts' surface a workflow may
\* use any tool of them, and an identifier means the same in both scripts;
\* whatever was registered in which order, however files came and went, and
\* after builds that failed.
WaysAgree ==
    Current =>
        /\ \A u \in Users : UserName[u] = None => SameFor(u)
        /\ \A j \in jobs : Accepted(FireOf(j), j.flow) <=>
               WorkflowTool(j.flow) \in OfferedTo(j.role)
        /\ \A u \in Users :
               LET reached == agents[Default].script \cap Offered(u)
               IN /\ script.on =>
                       reached \cap WorkflowTools(Names) = Offered(u) \cap WorkflowTools(Names)
                  /\ ~Collide(reached)
        /\ Workflows(registry) # {} =>
               /\ \A t \in ToolNames :
                      StepReaches(wired, "tool", t) <=> t \in agents[Default].live
               /\ \A type \in Subagents :
                      StepReaches(wired, "subagent", type)
                        <=> type \in DOMAIN agents[Default].subagents
        /\ script.on /\ Star \in script.allow =>
               \A uses \in SUBSET (Plain \ Injected) :
                  LET box == SandboxOf(uses, wired.tools)
                  IN /\ SandboxRaises(uses, wired.tools) => Unresolved(uses, wired.tools) # {}
                     /\ \A id \in DOMAIN box \ Sinks :
                            \A t \in agents[Default].script : Identifier[t] = id => box[id] = t

\* A subagent that langclaw builds never has a tool that the agent which calls it
\* would not be offered for the same role, and none that is not in the list that
\* it declares, an empty list included.  One list bounds nothing: the empty list
\* of a subagent that reports to the channel, which has what it would have with
\* no list at all.
DelegationBounded ==
    host = "serving" =>
        \A a \in DOMAIN agents : \A type \in DOMAIN agents[a].subagents :
            LET sub == agents[a].subagents[type]
            IN sub.spec.shape = "declared" =>
                 \A role \in Roles :
                    LET has == IF sub.filter THEN Filtered(perms, role, sub.tools) ELSE sub.tools
                    IN /\ has \subseteq Seen(perms, role, agents[a].tools)
                       /\ \/ sub.spec.tools = None
                          \/ sub.spec.tools = {} /\ sub.spec.output = "channel"
                          \/ has \subseteq sub.spec.tools

\* What is on offer on an axis, and what of it a role's model reaches by calls of
\* its own: a subagent by the tool `task`, which has to be offered.
OnOffer(axis) ==
    CASE axis = "tools" -> agents[Default].live \cup Injected
      [] axis = "workflows" -> {w \in Names : WorkflowTool(w) \in agents[Default].tools}
      [] axis = "subagents" -> DOMAIN agents[Default].subagents

Reached(role, axis) ==
    CASE axis = "tools" -> OfferedTo(role) \cap Plain
      [] axis = "workflows" -> {w \in Names : WorkflowTool(w) \in OfferedTo(role)}
      [] axis = "subagents" ->
            {type \in DOMAIN agents[Default].subagents :
                Task \in OfferedTo(role) /\ DelegationAllowed(perms, role, type)}

\* The configuration or a call grants a role a name, or all names of the axis.
SpokenFor(role, axis, x) ==
    \E name \in {x, Star} :
        name \in Granted(base, role, axis) \/ <<role, axis, name>> \in given

\* Roles add up: a role reaches what the configuration grants it and what any
\* call grants it, in whichever order the calls came, and nothing else; a role
\* of which nobody spoke reaches nothing.  A grant of a subagent reaches it only
\* together with a grant of the tool `task`, from whichever of the two.
RolesAddUp ==
    host = "serving" /\ perms.enabled =>
        \A role \in Roles, axis \in Axes :
            Reached(role, axis) =
                {x \in OnOffer(axis) :
                    /\ SpokenFor(role, axis, x)
                    /\ axis = "subagents" => SpokenFor(role, "tools", Task)}

\* manager.py: "the bus / cron / `/workflows run` entry points honour the same
\* default-deny allowlist the `workflow_<name>` tool gate applies on the agent
\* path", for every user.
EntryPointsAgree == Current => \A u \in Users : SameFor(u)
=============================================================================
