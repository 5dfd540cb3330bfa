---------------------------- MODULE AccessProofs ----------------------------
(***************************************************************************)
(* What TLC checks of Access with two names and two roles, proved for all  *)
(* tools, workflows, subagents, roles, users and registrations.            *)
(***************************************************************************)
EXTENDS Access, TLAPS

-----------------------------------------------------------------------------
\* Roles.  What calls have granted is what they have merged, and a role of the
\* gateway has that and what the configuration grants it.
InCode(role, axis) == IF role \in DOMAIN grants THEN grants[role][axis] ELSE {}

GrantsGiven ==
    \A role, n : \A axis \in Axes : n \in InCode(role, axis) <=> <<role, axis, n>> \in given

LEMMA GrantKeeps ==
    ASSUME GrantsGiven, NEW role, NEW more, Grant(role, more)
    PROVE  GrantsGiven'
<1> SUFFICES ASSUME NEW r, NEW n, NEW axis \in Axes
             PROVE  n \in InCode(r, axis)' <=> <<r, axis, n>> \in given'
  BY DEF GrantsGiven
<1>1. InCode(r, axis)' = InCode(r, axis) \cup (IF r = role THEN more[axis] ELSE {})
  BY DEF Grant, Merged, InCode
<1>2. <<r, axis, n>> \in given' <=> <<r, axis, n>> \in given \/ (r = role /\ n \in more[axis])
  BY DEF Grant
<1> QED
  BY <1>1, <1>2 DEF GrantsGiven

LEMMA EffectiveGrants ==
    ASSUME base \in Bases, NEW role, NEW axis \in Axes
    PROVE  Granted(Effective(base), role, axis) = Granted(base, role, axis) \cup InCode(role, axis)
<1>1. base = [enabled |-> base.enabled, default |-> base.default, roles |-> base.roles]
  BY AccessAssumption
<1>2. CASE grants = << >>
  BY <1>2 DEF Effective, Granted, InCode
<1>3. CASE grants # << >>
  <2>1. Effective(base).roles = [r \in DOMAIN base.roles \cup DOMAIN grants |->
                         [x \in Axes |->
                            (IF r \in DOMAIN base.roles THEN base.roles[r][x] ELSE {})
                            \cup (IF r \in DOMAIN grants THEN grants[r][x] ELSE {})]]
    BY <1>1, <1>3 DEF Effective
  <2> QED
    BY <2>1 DEF Granted, InCode
<1> QED
  BY <1>2, <1>3

-----------------------------------------------------------------------------
\* The inductive invariant.  While registering: what there is has a name, and
\* what calls have granted is merged.
Registered ==
    /\ tools \subseteq Names
    /\ registry \in [code : SUBSET Names, files : SUBSET Names]
    /\ files \subseteq Names
    /\ base \in Bases
    /\ GrantsGiven
    /\ \A j \in jobs : j.role # None /\ j.flow \in Names

\* The default agent is what some build without an error gave for workflows ws.
IsMain(main, ws) ==
    /\ ws \subseteq Names
    /\ main = Built(DefaultSelection, ws, subagents, script, perms)
    /\ ~Raises(DefaultSelection, ws, subagents, script)

\* While serving: the roles are those of the start; the default agent is one that
\* was built, and after a build without an error the one of the registry it saw;
\* only it has subagents; the runtime has no tool that is not registered.
Serving ==
    host = "serving" =>
        /\ perms = Effective(base)
        /\ Default \in DOMAIN agents
        /\ \A a \in DOMAIN agents \ {Default} : DOMAIN agents[a].subagents = {}
        /\ \E ws \in SUBSET Names : IsMain(agents[Default], ws)
        /\ wired.tools \subseteq BaseTools(DefaultSelection)
        /\ ~broken =>
              /\ IsMain(agents[Default], Workflows(seen))
              /\ Workflows(seen) # {} => wired = WiredBy(agents[Default], TRUE)

AccessInv == Registered /\ Serving

LEMMA ReloadedTyped ==
    ASSUME registry \in [code : SUBSET Names, files : SUBSET Names], files \subseteq Names,
           registry' = Reloaded(files, script.on)
    PROVE  /\ registry' \in [code : SUBSET Names, files : SUBSET Names]
           /\ Workflows(registry') \subseteq Names
<1>1. CASE script.on
  <2>1. registry' = [registry EXCEPT !.files = files \ (registry.code \cup Claimed)]
    BY <1>1 DEF Reloaded
  <2> HIDE DEF Claimed
  <2>2. registry' \in [code : SUBSET Names, files : SUBSET Names]
    BY <2>1
  <2> QED
    BY <2>2 DEF Workflows
<1>2. CASE ~script.on
  BY <1>2 DEF Reloaded, Workflows
<1> QED
  BY <1>1, <1>2

LEMMA DefaultNamed == ASSUME base \in Bases PROVE Effective(base).default # None
<1>1. base = [enabled |-> base.enabled, default |-> base.default, roles |-> base.roles]
      /\ base.default # None
  BY AccessAssumption
<1> QED
  BY <1>1 DEF Effective

\* Everybody has a role.
LEMMA RoleNamed ==
    ASSUME AccessInv, host = "serving", NEW u \in Users
    PROVE  TurnRole(TextOf(u)) # None
<1>1. perms.default # None
  BY DefaultNamed DEF AccessInv, Registered, Serving
<1>2. TextOf(u).role = None
  BY DEF TextOf
<1> QED
  BY <1>1, <1>2, AccessAssumption DEF TurnRole, RoleOf

LEMMA InitAccessInv == Init => AccessInv
BY DEF Init, AppInit, NoRegistry, AccessInv, Registered, Serving, GrantsGiven, InCode

LEMMA NextRegistered == AccessInv /\ [Next]_vars => Registered'
<1> SUFFICES ASSUME AccessInv, [Next]_vars PROVE Registered'
  OBVIOUS
<1> USE DEF AccessInv
<1>1. CASE Declare
  <2> USE <1>1
  <2>1. UNCHANGED <<files, base, jobs>>
    BY DEF Declare, diskVars
  <2>2. Register
    BY DEF Declare
  <2>3. GrantsGiven'
    <3>1. ASSUME NEW n \in Names, NEW role \in Roles \cup {None}, Tool(n, role) PROVE GrantsGiven'
      <4>1. CASE role = None
        BY <3>1, <4>1 DEF Tool, Registered, GrantsGiven, InCode
      <4>2. CASE role # None
        BY <3>1, <4>2, GrantKeeps DEF Tool, Registered
      <4> QED
        BY <4>1, <4>2
    <3>2. ASSUME NEW role \in Roles, NEW more \in Grants, Role(role, more) PROVE GrantsGiven'
      BY <3>2, GrantKeeps DEF Role, Registered
    <3>3. ASSUME UNCHANGED <<grants, given>> PROVE GrantsGiven'
      BY <3>3 DEF Registered, GrantsGiven, InCode
    <3> QED
      BY <2>2, <3>1, <3>2, <3>3 DEF Register, Command, Workflow, Subagent, Agent
  <2>4. tools' \subseteq Names
    BY <2>2 DEF Register, Registered, Tool, Command, Workflow, Role, Subagent, Agent
  <2>5. registry' \in [code : SUBSET Names, files : SUBSET Names]
    BY <2>2 DEF Register, Registered, Tool, Command, Workflow, Role, Subagent, Agent
  <2> QED
    BY <2>1, <2>3, <2>4, <2>5 DEF Registered
<1>2. CASE Start
  <2>1. registry' \in [code : SUBSET Names, files : SUBSET Names]
    BY <1>2, ReloadedTyped DEF Start, Registered
  <2>2. UNCHANGED <<tools, grants, given, files, jobs, base>>
    BY <1>2 DEF Start
  <2> QED
    BY <2>1, <2>2 DEF Registered, GrantsGiven, InCode
<1>3. CASE Stop
  <2>1. registry' \in [code : SUBSET Names, files : SUBSET Names]
    BY <1>3 DEF Stop, NoRegistry
  <2>2. tools' = {} /\ grants' = << >> /\ given' = {} /\ UNCHANGED <<files, jobs, base>>
    BY <1>3 DEF Stop, diskVars
  <2> QED
    BY <2>1, <2>2 DEF Registered, GrantsGiven, InCode
<1>4. CASE \E n \in Names : Write(n) \/ Remove(n)
  BY <1>4 DEF Write, Remove, Registered, GrantsGiven, InCode, appVars
<1>5. CASE Turn \/ Dispatch
  <2>1. registry' \in [code : SUBSET Names, files : SUBSET Names]
    BY <1>5, ReloadedTyped DEF Turn, Dispatch, Reconciling, Registered
  <2>2. UNCHANGED <<tools, grants, given, files, jobs, base>>
    BY <1>5 DEF Turn, Dispatch, Reconciling, diskVars
  <2> QED
    BY <2>1, <2>2 DEF Registered, GrantsGiven, InCode
<1>6. CASE \E u \in Users, w \in Names : Schedule(u, w)
  <2>1. PICK u \in Users, w \in Names : Schedule(u, w)
    BY <1>6
  <2>2. host = "serving" /\ jobs' = {[user |-> u, role |-> TurnRole(TextOf(u)), flow |-> w]}
    BY <2>1 DEF Schedule
  <2>3. UNCHANGED <<tools, registry, grants, given, files, base>>
    BY <2>1 DEF Schedule, appVars
  <2>4. TurnRole(TextOf(u)) # None
    BY <2>2, RoleNamed
  <2> QED
    BY <2>2, <2>3, <2>4 DEF Registered, GrantsGiven, InCode
<1>7. CASE UNCHANGED vars
  BY <1>7 DEF vars, appVars, diskVars, Registered, GrantsGiven, InCode
<1> QED
  BY <1>1, <1>2, <1>3, <1>4, <1>5, <1>6, <1>7 DEF Next

\* A named agent is built without subagents, and the default agent's own tools
\* are those of the runtime.
LEMMA NoSubagents ==
    ASSUME NEW selection, NEW ws, NEW scr, NEW p
    PROVE  DOMAIN Built(selection, ws, << >>, scr, p).subagents = {}
<1>1. Called(<< >>) = {}
  BY DEF Called
<1>2. {(<< >>)[i].type : i \in Called(<< >>)} = {}
  BY <1>1
<1>3. DOMAIN BuiltSubagents(<< >>, Everything(selection, ws), p) = {}
  BY <1>2 DEF BuiltSubagents
<1> QED
  BY <1>3 DEF Built

\* What a main agent has.
LEMMA MainHas ==
    ASSUME Registered, NEW main, NEW ws, IsMain(main, ws)
    PROVE  /\ main.live = Builtin \cup tools
           /\ BaseTools(DefaultSelection) = Builtin \cup tools
           /\ main.tools = Builtin \cup tools \cup WorkflowTools(ws)
           /\ Everything(DefaultSelection, ws) = main.tools
           /\ main.live \subseteq Plain
           /\ main.subagents = BuiltSubagents(subagents, main.tools, perms)
           /\ ws \subseteq Names
<1>1. BaseTools(DefaultSelection) = Builtin \cup tools
  <2>1. DefaultSelection.names = {} /\ DefaultSelection.own = tools
    BY DEF DefaultSelection
  <2>2. DefaultSelection # None
    BY AccessAssumption DEF Registered, DefaultSelection
  <2> QED
    BY <2>1, <2>2 DEF BaseTools
<1>2. main = Built(DefaultSelection, ws, subagents, script, perms) /\ ws \subseteq Names
  BY DEF IsMain
<1>3. Everything(DefaultSelection, ws) = Builtin \cup tools \cup WorkflowTools(ws)
  BY <1>1 DEF Everything
<1>4. /\ main.live = BaseTools(DefaultSelection)
      /\ main.tools = Everything(DefaultSelection, ws)
      /\ main.subagents = BuiltSubagents(subagents, Everything(DefaultSelection, ws), perms)
  BY <1>2 DEF Built
<1> QED
  BY <1>1, <1>2, <1>3, <1>4 DEF Plain, Registered

\* The host is as it was.
LEMMA HostKeeps ==
    ASSUME Serving, UNCHANGED <<hostVars, tools, subagents, grants, base, script>>
    PROVE  Serving'
<1>1. DefaultSelection' = DefaultSelection /\ Effective(base)' = Effective(base)
  BY DEF DefaultSelection, Effective
<1>2. UNCHANGED <<host, perms, agents, seen, wired, broken, subagents, script>>
  BY DEF hostVars
<1>3. (\E ws \in SUBSET Names : IsMain(agents[Default], ws))'
      <=> \E ws \in SUBSET Names : IsMain(agents[Default], ws)
  BY <1>1, <1>2 DEF IsMain
<1>4. IsMain(agents[Default], Workflows(seen))' <=> IsMain(agents[Default], Workflows(seen))
  BY <1>1, <1>2 DEF IsMain
<1> QED
  BY <1>1, <1>2, <1>3, <1>4 DEF Serving

LEMMA StartServes == ASSUME AccessInv, Start PROVE Serving'
<1> SUFFICES ASSUME host' = "serving" PROVE Serving'
  BY DEF Serving
<1> DEFINE ws == Workflows(registry')
           main == Built(DefaultSelection, ws, subagents, script, perms')
<1>0. UNCHANGED <<tools, subagents, named, grants, base, script>> /\ perms' = Effective(base)
  BY DEF Start
<1>1. ~StartRaises(ws)
  BY DEF Start
<1>2. /\ agents' = [a \in DOMAIN named \cup {Default} |->
                     IF a = Default THEN main ELSE Built(named[a], {}, << >>, script, perms')]
      /\ seen' = registry'
      /\ wired' = IF ws = {} THEN Unwired ELSE WiredBy(main, TRUE)
  BY <1>1 DEF Start
<1>3. ws \subseteq Names
  BY ReloadedTyped DEF Start, AccessInv, Registered
<1>4. agents'[Default] = main /\ Default \in DOMAIN agents'
  BY <1>2
<1>5. ~Raises(DefaultSelection, ws, subagents, script)
  BY <1>1 DEF StartRaises
<1>6. IsMain(agents[Default], Workflows(registry))'
  <2>1. DefaultSelection' = DefaultSelection
    BY <1>0 DEF DefaultSelection
  <2> QED
    BY <1>0, <1>3, <1>4, <1>5, <2>1 DEF IsMain
<1>7. \A a \in DOMAIN agents' \ {Default} : DOMAIN agents'[a].subagents = {}
  BY <1>2, NoSubagents
<1>8. wired'.tools \subseteq BaseTools(DefaultSelection)'
  <2>1. Unwired.tools = {}
    BY DEF Unwired
  <2>2. WiredBy(main, TRUE).tools = BaseTools(DefaultSelection)
    BY DEF WiredBy, Built
  <2>3. BaseTools(DefaultSelection)' = BaseTools(DefaultSelection)
    BY <1>0 DEF DefaultSelection, BaseTools
  <2> QED
    BY <1>2, <2>1, <2>2, <2>3
<1>9. Workflows(seen') # {} => wired' = WiredBy(agents'[Default], TRUE)
  BY <1>2, <1>4
<1>10. perms' = Effective(base)'
  BY <1>0 DEF Effective
<1>11. (\E w \in SUBSET Names : IsMain(agents[Default], w))'
  BY <1>3, <1>6
<1>12. IsMain(agents[Default], Workflows(seen))'
  BY <1>2, <1>6
<1> QED
  BY <1>4, <1>7, <1>8, <1>9, <1>10, <1>11, <1>12 DEF Serving

LEMMA TurnServes == ASSUME AccessInv, Turn PROVE Serving'
<1> DEFINE ws == Workflows(registry')
           main == Built(DefaultSelection, ws, subagents, script, perms)
<1>1. host = "serving" /\ UNCHANGED <<host, perms, tools, subagents, grants, base, script>>
  BY DEF Turn, Reconciling, diskVars
<1>2. CASE registry' = seen
  BY <1>1, <1>2, HostKeeps DEF Turn, AccessInv, hostVars
<1>3. CASE registry' # seen
  <2>1. /\ seen' = registry'
        /\ broken' = Raises(DefaultSelection, ws, subagents, script)
        /\ agents' = IF broken' THEN agents ELSE [agents EXCEPT ![Default] = main]
        /\ wired' = IF ws = {} THEN wired ELSE WiredBy(main, ~broken')
    BY <1>3 DEF Turn, Rebuild
  <2>2. ws \subseteq Names
    BY <1>1, ReloadedTyped DEF Turn, Reconciling, AccessInv, Registered
  <2>3. DefaultSelection' = DefaultSelection /\ Effective(base)' = Effective(base)
    BY <1>1 DEF DefaultSelection, Effective
  <2>4. /\ perms = Effective(base)
        /\ Default \in DOMAIN agents
        /\ \A a \in DOMAIN agents \ {Default} : DOMAIN agents[a].subagents = {}
        /\ wired.tools \subseteq BaseTools(DefaultSelection)
    BY <1>1 DEF AccessInv, Serving
  <2>5. PICK old \in SUBSET Names : IsMain(agents[Default], old)
    BY <1>1 DEF AccessInv, Serving
  <2>6. wired'.tools \subseteq BaseTools(DefaultSelection)'
    <3>1. \A whole : WiredBy(main, whole).tools = BaseTools(DefaultSelection)
      BY DEF WiredBy, Built
    <3> QED
      BY <2>1, <2>3, <2>4, <3>1
  <2>7. CASE broken'
    <3>1. UNCHANGED agents
      BY <2>1, <2>7
    <3>2. IsMain(agents[Default], old)'
      BY <1>1, <2>3, <2>5, <3>1 DEF IsMain
    <3>3. (\E w \in SUBSET Names : IsMain(agents[Default], w))'
      BY <2>5, <3>2
    <3> QED
      BY <1>1, <2>3, <2>4, <2>6, <2>7, <3>1, <3>3 DEF Serving
  <2>8. CASE ~broken'
    <3>1. agents' = [agents EXCEPT ![Default] = main]
      BY <2>1, <2>8
    <3>2. agents'[Default] = main /\ DOMAIN agents' = DOMAIN agents
      BY <2>4, <3>1
    <3>3. \A a \in DOMAIN agents' \ {Default} : agents'[a] = agents[a]
      BY <3>1
    <3>4. ~Raises(DefaultSelection, ws, subagents, script)
      BY <2>1, <2>8
    <3>5. IsMain(agents[Default], Workflows(seen))'
      BY <1>1, <2>1, <2>2, <2>3, <3>2, <3>4 DEF IsMain
    <3>6. Workflows(seen') # {} => wired' = WiredBy(agents'[Default], TRUE)
      BY <2>1, <2>8, <3>2
    <3>7. (\E w \in SUBSET Names : IsMain(agents[Default], w))'
      BY <2>1, <2>2, <3>5
    <3> QED
      BY <1>1, <2>3, <2>4, <2>6, <2>8, <3>2, <3>3, <3>5, <3>6, <3>7 DEF Serving
  <2> QED
    BY <2>7, <2>8
<1> QED
  BY <1>2, <1>3

LEMMA NextServing == AccessInv /\ [Next]_vars => Serving'
<1> SUFFICES ASSUME AccessInv, [Next]_vars PROVE Serving'
  OBVIOUS
<1>1. CASE Declare
  <2>1. host' # "serving"
    BY <1>1 DEF Declare, hostVars
  <2> QED
    BY <2>1 DEF Serving
<1>2. CASE Start
  BY <1>2, StartServes
<1>3. CASE Stop
  <2>1. host' # "serving"
    BY <1>3 DEF Stop
  <2> QED
    BY <2>1 DEF Serving
<1>4. CASE \E n \in Names : Write(n) \/ Remove(n)
  BY <1>4, HostKeeps DEF Write, Remove, appVars, AccessInv
<1>5. CASE Turn
  BY <1>5, TurnServes
<1>6. CASE Dispatch
  BY <1>6, HostKeeps DEF Dispatch, Reconciling, diskVars, AccessInv
<1>7. CASE \E u \in Users, w \in Names : Schedule(u, w)
  BY <1>7, HostKeeps DEF Schedule, appVars, AccessInv
<1>8. CASE UNCHANGED vars
  BY <1>8, HostKeeps DEF vars, appVars, diskVars, AccessInv
<1> QED
  BY <1>1, <1>2, <1>3, <1>4, <1>5, <1>6, <1>7, <1>8 DEF Next

\* Inductive: registrations, starts, turns and files keep the host's roles, its
\* default agent and the runtime's factories those of the code and the folder.
THEOREM AccessInvariant == Spec => []AccessInv
<1>1. AccessInv /\ [Next]_vars => AccessInv'
  BY NextRegistered, NextServing DEF AccessInv
<1> QED
  BY <1>1, InitAccessInv, PTL DEF Spec

-----------------------------------------------------------------------------
\* Roles add up.

\* What a role's model is offered of a main agent's tools and the injected ones.
LEMMA SeenOfMain ==
    ASSUME Registered, perms.enabled, NEW main, NEW ws, IsMain(main, ws), NEW role
    PROVE  LET offered == Seen(perms, role, main.tools \cup Injected)
           IN /\ offered \cap Plain
                   = Resolve(perms, role, "tools", Builtin \cup tools \cup Injected)
              /\ {w \in Names : WorkflowTool(w) \in main.tools} = ws
              /\ {w \in Names : WorkflowTool(w) \in offered}
                   = Resolve(perms, role, "workflows", ws)
<1> DEFINE have == main.tools \cup Injected
           plain == Builtin \cup tools \cup Injected
<1>1. \A v, w : WorkflowTool(v) = WorkflowTool(w) => v = w
  BY DEF WorkflowTool
<1>2. /\ main.tools = Builtin \cup tools \cup WorkflowTools(ws)
      /\ have = plain \cup WorkflowTools(ws)
      /\ ws \subseteq Names /\ plain \subseteq Plain
  BY MainHas DEF Registered, Plain
<1>3. \A w \in Names : WorkflowTool(w) \notin Plain
  BY CapabilityAssumption DEF WorkflowTools
<1> HIDE DEF have, plain
<1>4. have \ WorkflowTools(Names) = plain
  BY <1>2, <1>3 DEF WorkflowTools
<1>5. {w \in Names : WorkflowTool(w) \in have} = ws
  BY <1>1, <1>2, <1>3 DEF WorkflowTools
<1>6. \A axis, universe : Resolve(perms, role, axis, universe) \subseteq universe
  BY DEF Resolve
<1>7. Seen(perms, role, have)
        = Resolve(perms, role, "tools", plain)
          \cup WorkflowTools(Resolve(perms, role, "workflows", ws))
  BY <1>4, <1>5 DEF Seen, Filtered, AllowedTools, AllowedWorkflows
<1>8. Resolve(perms, role, "tools", plain) \subseteq Plain
      /\ Resolve(perms, role, "workflows", ws) \subseteq Names
  BY <1>2, <1>6
<1>9. Seen(perms, role, have) \cap Plain = Resolve(perms, role, "tools", plain)
  BY <1>3, <1>7, <1>8 DEF WorkflowTools
<1>10. {w \in Names : WorkflowTool(w) \in Seen(perms, role, have)}
         = Resolve(perms, role, "workflows", ws)
  BY <1>1, <1>3, <1>7, <1>8 DEF WorkflowTools
<1>11. \A w \in Names : WorkflowTool(w) \in main.tools <=> w \in ws
  <2>1. Builtin \cup tools \subseteq Plain
    BY <1>2 DEF plain
  <2> QED
    BY <1>1, <1>2, <1>3, <2>1 DEF WorkflowTools
<1>12. {w \in Names : WorkflowTool(w) \in main.tools} = ws
  BY <1>2, <1>11
<1> QED
  BY <1>9, <1>10, <1>12 DEF have, plain

\* A role reaches what the configuration and calls grant it, and nothing else.
THEOREM RolesAddUpAlways == Spec => []RolesAddUp
<1>1. AccessInv => RolesAddUp
  <2> SUFFICES ASSUME AccessInv, host = "serving", perms.enabled,
                      NEW role \in Roles, NEW axis \in Axes
               PROVE  Reached(role, axis) =
                        {x \in OnOffer(axis) :
                            /\ SpokenFor(role, axis, x)
                            /\ axis = "subagents" => SpokenFor(role, "tools", Task)}
    BY DEF RolesAddUp
  <2>1. PICK ws \in SUBSET Names : IsMain(agents[Default], ws)
    BY DEF AccessInv, Serving
  <2> DEFINE Holds(a, x) == \E name \in {x, Star} : name \in Granted(perms, role, a)
  <2>2. \A a \in Axes : \A x : SpokenFor(role, a, x) <=> Holds(a, x)
    <3>1. perms = Effective(base) /\ base \in Bases /\ GrantsGiven
      BY DEF AccessInv, Serving, Registered
    <3> QED
      BY <3>1, EffectiveGrants DEF GrantsGiven, SpokenFor
  <2>3. \A a, universe : Resolve(perms, role, a, universe) = {x \in universe : Holds(a, x)}
    BY DEF Resolve
  <2>4. /\ OfferedTo(role) \cap Plain = {x \in Builtin \cup tools \cup Injected : Holds("tools", x)}
        /\ {w \in Names : WorkflowTool(w) \in agents[Default].tools} = ws
        /\ {w \in Names : WorkflowTool(w) \in OfferedTo(role)} = {x \in ws : Holds("workflows", x)}
    <3>1. /\ OfferedTo(role) \cap Plain
                = Resolve(perms, role, "tools", Builtin \cup tools \cup Injected)
          /\ {w \in Names : WorkflowTool(w) \in agents[Default].tools} = ws
          /\ {w \in Names : WorkflowTool(w) \in OfferedTo(role)}
                = Resolve(perms, role, "workflows", ws)
      BY <2>1, SeenOfMain DEF OfferedTo, AccessInv
    <3> HIDE DEF Holds
    <3>2. \A universe : Resolve(perms, role, "tools", universe) = {x \in universe : Holds("tools", x)}
      BY <2>3
    <3>3. \A universe : Resolve(perms, role, "workflows", universe)
                           = {x \in universe : Holds("workflows", x)}
      BY <2>3
    <3> QED
      BY <3>1, <3>2, <3>3
  <2>5. {"tools", "workflows", "subagents"} = Axes
    BY DEF Axes
  <2>6. CASE axis = "tools"
    <3>1. OnOffer(axis) = Builtin \cup tools \cup Injected
      BY <2>1, <2>6, MainHas DEF OnOffer, AccessInv
    <3>2. Reached(role, axis) = OfferedTo(role) \cap Plain
      BY <2>6 DEF Reached
    <3> HIDE DEF Holds
    <3> QED
      BY <2>2, <2>4, <2>6, <3>1, <3>2
  <2>7. CASE axis = "workflows"
    <3>1. OnOffer(axis) = ws
      BY <2>4, <2>7 DEF OnOffer
    <3>2. Reached(role, axis) = {w \in Names : WorkflowTool(w) \in OfferedTo(role)}
      BY <2>7 DEF Reached
    <3> HIDE DEF Holds
    <3> QED
      BY <2>2, <2>4, <2>7, <3>1, <3>2
  <2>8. CASE axis = "subagents"
    <3> DEFINE types == DOMAIN agents[Default].subagents
    <3>1. Reached(role, axis) = {type \in types :
              Task \in OfferedTo(role) /\ DelegationAllowed(perms, role, type)}
      BY <2>8 DEF Reached
    <3>2. OnOffer(axis) = types
      BY <2>8 DEF OnOffer
    <3>3. \A type : DelegationAllowed(perms, role, type) <=> SpokenFor(role, "subagents", type)
      BY <2>2, <2>5 DEF DelegationAllowed, MayDelegate, AllowedSubagents
    <3>4. Task \in Plain /\ Task \in Injected
      BY CapabilityAssumption DEF Plain
    <3>5. Task \in OfferedTo(role) <=> SpokenFor(role, "tools", Task)
      <4> HIDE DEF Holds
      <4> QED
        BY <2>2, <2>4, <2>5, <3>4
    <3> HIDE DEF types
    <3> QED
      BY <2>8, <3>1, <3>2, <3>3, <3>5
  <2> QED
    BY <2>5, <2>6, <2>7, <2>8
<1> QED
  BY <1>1, AccessInvariant, PTL

-----------------------------------------------------------------------------
\* Delegation.

\* With fewer tools a model is offered fewer, and never one it does not have.
LEMMA FilteredWithin ==
    ASSUME NEW all, NEW sub \in SUBSET all, NEW role
    PROVE  /\ Filtered(perms, role, sub) \subseteq sub
           /\ Filtered(perms, role, sub) \subseteq Filtered(perms, role, all)
<1> DEFINE Flows(ts) == {w \in Names : WorkflowTool(w) \in ts}
<1>1. \A axis, universe : Resolve(perms, role, axis, universe) \subseteq universe
  BY DEF Resolve
<1>2. \A axis, less, more : less \subseteq more =>
          Resolve(perms, role, axis, less) \subseteq Resolve(perms, role, axis, more)
  BY DEF Resolve
<1>3. Flows(sub) \subseteq Flows(all)
  OBVIOUS
<1>4. \A ts : Filtered(perms, role, ts) =
          Resolve(perms, role, "tools", ts \ WorkflowTools(Names))
          \cup WorkflowTools(Resolve(perms, role, "workflows", Flows(ts)))
  BY DEF Filtered, AllowedTools, AllowedWorkflows
<1>5. WorkflowTools(Resolve(perms, role, "workflows", Flows(sub))) \subseteq sub
  BY <1>1 DEF WorkflowTools
<1>6. WorkflowTools(Resolve(perms, role, "workflows", Flows(sub)))
        \subseteq WorkflowTools(Resolve(perms, role, "workflows", Flows(all)))
  BY <1>2, <1>3 DEF WorkflowTools
<1> HIDE DEF Flows
<1>7. Resolve(perms, role, "tools", sub \ WorkflowTools(Names)) \subseteq sub
  BY <1>1
<1>8. Resolve(perms, role, "tools", sub \ WorkflowTools(Names))
        \subseteq Resolve(perms, role, "tools", all \ WorkflowTools(Names))
  BY <1>2
<1> QED
  BY <1>4, <1>5, <1>6, <1>7, <1>8

\* A declared subagent of an agent that was built without an error.
LEMMA ReachBounded ==
    ASSUME NEW all, ~SubagentsRaise(subagents, all), NEW p,
           NEW type \in DOMAIN BuiltSubagents(subagents, all, p)
    PROVE  LET sub == BuiltSubagents(subagents, all, p)[type]
           IN sub.spec.shape = "declared" =>
                 /\ sub.tools \subseteq all
                 /\ \/ sub.spec.tools = None
                    \/ sub.spec.tools = {} /\ sub.spec.output = "channel"
                    \/ sub.tools = sub.spec.tools
                 /\ sub.filter <=> p.enabled
<1>1. PICK i \in Called(subagents) : subagents[i].type = type
  BY DEF BuiltSubagents
<1> DEFINE k == CHOOSE j \in Called(subagents) : subagents[j].type = type
           spec == subagents[k]
<1>2. k \in Called(subagents)
  BY <1>1
<1>3. k \in 1..Len(subagents)
  BY <1>2 DEF Called
<1>4. BuiltSubagents(subagents, all, p)[type]
        = [spec |-> spec, tools |-> Reach(spec, all), filter |-> Guarded(spec, p)]
  BY DEF BuiltSubagents
<1>5. spec.shape = "declared" /\ spec.tools # None => spec.tools \subseteq all
  BY <1>3 DEF SubagentsRaise
<1> HIDE DEF k, spec
<1>6. spec.shape = "declared" =>
        /\ Reach(spec, all) \subseteq all
        /\ \/ spec.tools = None
           \/ spec.tools = {} /\ spec.output = "channel"
           \/ Reach(spec, all) = spec.tools
  BY <1>5 DEF Reach
<1>7. spec.shape = "declared" => (Guarded(spec, p) <=> p.enabled)
  BY DEF Guarded
<1> QED
  BY <1>4, <1>6, <1>7

\* No subagent that langclaw builds exceeds the agent that calls it.
THEOREM DelegationBoundedAlways == Spec => []DelegationBounded
<1>1. AccessInv => DelegationBounded
  <2> SUFFICES ASSUME AccessInv, host = "serving",
                      NEW a \in DOMAIN agents, NEW type \in DOMAIN agents[a].subagents,
                      agents[a].subagents[type].spec.shape = "declared", NEW role \in Roles
               PROVE  LET sub == agents[a].subagents[type]
                          has == IF sub.filter THEN Filtered(perms, role, sub.tools)
                                 ELSE sub.tools
                      IN /\ has \subseteq Seen(perms, role, agents[a].tools)
                         /\ \/ sub.spec.tools = None
                            \/ sub.spec.tools = {} /\ sub.spec.output = "channel"
                            \/ has \subseteq sub.spec.tools
    BY DEF DelegationBounded
  <2> DEFINE sub == agents[a].subagents[type]
             all == agents[a].tools
  <2>1. a = Default
    BY DEF AccessInv, Serving
  <2>2. PICK ws \in SUBSET Names : IsMain(agents[Default], ws)
    BY DEF AccessInv, Serving
  <2>3. agents[a].subagents = BuiltSubagents(subagents, all, perms)
    BY <2>1, <2>2, MainHas DEF AccessInv
  <2>4. ~SubagentsRaise(subagents, all)
    <3>1. all = Everything(DefaultSelection, ws)
      BY <2>1, <2>2, MainHas DEF AccessInv
    <3> QED
      BY <2>2, <3>1 DEF IsMain, Raises
  <2>5. /\ sub.tools \subseteq all
        /\ \/ sub.spec.tools = None
           \/ sub.spec.tools = {} /\ sub.spec.output = "channel"
           \/ sub.tools = sub.spec.tools
        /\ sub.filter <=> perms.enabled
    BY <2>3, <2>4, ReachBounded
  <2> HIDE DEF sub, all
  <2>6. /\ Filtered(perms, role, sub.tools) \subseteq sub.tools
        /\ Filtered(perms, role, sub.tools) \subseteq Filtered(perms, role, all)
    BY <2>5, FilteredWithin
  <2> QED
    BY <2>5, <2>6 DEF Seen, sub, all
<1> QED
  BY <1>1, AccessInvariant, PTL

-----------------------------------------------------------------------------
\* The ways to a workflow and to a tool.

\* A host that is current serves the agent of the workflows that are registered.
LEMMA CurrentMain ==
    ASSUME AccessInv, Current
    PROVE  /\ IsMain(agents[Default], Workflows(registry))
           /\ Workflows(registry) # {} => wired = WiredBy(agents[Default], TRUE)
           /\ wired.tools \subseteq agents[Default].live
<1>1. host = "serving" /\ ~broken /\ seen = registry
  BY DEF Current
<1>2. IsMain(agents[Default], Workflows(registry))
  BY <1>1 DEF AccessInv, Serving
<1>3. BaseTools(DefaultSelection) = agents[Default].live
  BY <1>2 DEF IsMain, Built
<1> QED
  BY <1>1, <1>2, <1>3 DEF AccessInv, Serving

\* A workflow is offered as a tool where one that asks for it in a message is heard.
LEMMA SameWorkflows ==
    ASSUME AccessInv, Current, NEW role, NEW m, NEW w \in Names,
           perms.enabled => role = RoleOf(m)
    PROVE  WorkflowTool(w) \in OfferedTo(role) <=> Accepted(m, w)
<1>1. IsMain(agents[Default], Workflows(registry))
  BY CurrentMain
<1>2. CASE perms.enabled
  <2>1. {v \in Names : WorkflowTool(v) \in OfferedTo(role)}
          = Resolve(perms, role, "workflows", Workflows(registry))
    BY <1>1, <1>2, SeenOfMain DEF AccessInv, OfferedTo
  <2>2. Resolve(perms, role, "workflows", Workflows(registry)) \subseteq Workflows(registry)
    BY DEF Resolve
  <2> QED
    BY <1>2, <2>1, <2>2 DEF Accepted, AllowedWorkflows
<1>3. CASE ~perms.enabled
  <2>1. OfferedTo(role) = agents[Default].tools \cup Injected
    BY <1>3 DEF Seen, OfferedTo
  <2>2. /\ agents[Default].tools = Builtin \cup tools \cup WorkflowTools(Workflows(registry))
        /\ Workflows(registry) \subseteq Names
        /\ Builtin \cup tools \cup Injected \subseteq Plain
    BY <1>1, MainHas DEF AccessInv, Registered, Plain
  <2>3. WorkflowTool(w) \notin Plain
    BY CapabilityAssumption DEF WorkflowTools
  <2>4. \A v : WorkflowTool(v) = WorkflowTool(w) => v = w
    BY DEF WorkflowTool
  <2>5. WorkflowTool(w) \in agents[Default].tools \cup Injected <=> w \in Workflows(registry)
    BY <2>2, <2>3, <2>4 DEF WorkflowTools
  <2> QED
    BY <1>3, <2>1, <2>5 DEF Accepted
<1> QED
  BY <1>2, <1>3

LEMMA SameForUsers ==
    ASSUME AccessInv, Current, NEW u \in Users, UserName[u] = None
    PROVE  SameFor(u)
<1>1. TextOf(u) = CommandOf(u)
  BY DEF TextOf, CommandOf
<1>2. perms.enabled => TurnRole(TextOf(u)) = RoleOf(CommandOf(u))
  BY <1>1 DEF TurnRole
<1> QED
  BY <1>2, SameWorkflows DEF SameFor, Offered

LEMMA SameForJobs ==
    ASSUME AccessInv, Current, NEW j \in jobs
    PROVE  Accepted(FireOf(j), j.flow) <=>
               WorkflowTool(j.flow) \in OfferedTo(j.role)
<1>1. j.role # None /\ j.flow \in Names
  BY DEF AccessInv, Registered
<1>2. RoleOf(FireOf(j)) = j.role
  BY <1>1 DEF RoleOf, FireOf
<1> QED
  BY <1>1, <1>2, SameWorkflows

\* The surface of the default agent's scripts.
LEMMA ScriptOfMain ==
    ASSUME AccessInv, Current
    PROVE  /\ script.on => agents[Default].script
                  = ScriptTools(script.allow, agents[Default].tools, Workflows(registry))
           /\ ~Collide(agents[Default].script)
<1>1. IsMain(agents[Default], Workflows(registry))
  BY CurrentMain
<1>2. agents[Default].script
        = IF script.on
          THEN ScriptTools(script.allow, agents[Default].tools, Workflows(registry)) ELSE {}
  BY <1>1 DEF IsMain, Built
<1>3. script.on =>
        ~Collide(ScriptTools(script.allow, agents[Default].tools, Workflows(registry)))
  <2>1. agents[Default].tools = Everything(DefaultSelection, Workflows(registry))
    BY <1>1, MainHas DEF AccessInv
  <2> QED
    BY <1>1, <2>1 DEF IsMain, Raises
<1>4. ~Collide({})
  BY DEF Collide
<1> QED
  BY <1>2, <1>3, <1>4

LEMMA SameForScripts ==
    ASSUME AccessInv, Current, NEW u \in Users
    PROVE  LET reached == agents[Default].script \cap Offered(u)
           IN /\ script.on =>
                   reached \cap WorkflowTools(Names) = Offered(u) \cap WorkflowTools(Names)
              /\ ~Collide(reached)
<1> DEFINE reached == agents[Default].script \cap Offered(u)
<1>1. ~Collide(reached)
  <2>1. ~Collide(agents[Default].script)
    BY ScriptOfMain
  <2> QED
    BY <2>1 DEF Collide
<1>2. ASSUME script.on
      PROVE  reached \cap WorkflowTools(Names) = Offered(u) \cap WorkflowTools(Names)
  <2>1. IsMain(agents[Default], Workflows(registry))
    BY CurrentMain
  <2>2. /\ agents[Default].tools = Builtin \cup tools \cup WorkflowTools(Workflows(registry))
        /\ Builtin \cup tools \subseteq Plain
    BY <2>1, MainHas DEF AccessInv, Registered, Plain
  <2>3. WorkflowTools(Names) \cap Plain = {} /\ Injected \subseteq Plain
    BY CapabilityAssumption DEF Plain
  <2>4. Offered(u) \subseteq agents[Default].tools \cup Injected
    BY FilteredWithin DEF Offered, OfferedTo, Seen
  <2>5. WorkflowTools(Workflows(registry)) \subseteq agents[Default].script
    BY <1>2, ScriptOfMain DEF ScriptTools
  <2> QED
    BY <2>2, <2>3, <2>4, <2>5
<1> QED
  BY <1>1, <1>2

\* What the runtime has for runs that no agent starts.
LEMMA SameForSteps ==
    ASSUME AccessInv, Current, Workflows(registry) # {}
    PROVE  /\ \A t \in ToolNames :
                  StepReaches(wired, "tool", t) <=> t \in agents[Default].live
           /\ \A type \in Subagents :
                  StepReaches(wired, "subagent", type)
                    <=> type \in DOMAIN agents[Default].subagents
<1>1. wired = WiredBy(agents[Default], TRUE)
  BY CurrentMain
<1>2. wired.tools = agents[Default].live /\ wired.subagents = agents[Default].subagents
  BY <1>1 DEF WiredBy
<1> QED
  BY <1>2 DEF StepReaches

\* Identifiers of a workflow's script are those of the agent's scripts.
LEMMA SameIdentifiers ==
    ASSUME AccessInv, Current, script.on, Star \in script.allow, NEW uses
    PROVE  LET box == SandboxOf(uses, wired.tools)
           IN /\ SandboxRaises(uses, wired.tools) => Unresolved(uses, wired.tools) # {}
              /\ \A id \in DOMAIN box \ Sinks :
                     \A t \in agents[Default].script : Identifier[t] = id => box[id] = t
<1> DEFINE chosen == Selected(uses, wired.tools)
           box == SandboxOf(uses, wired.tools)
<1>1. chosen \subseteq agents[Default].script
  <2>1. chosen \subseteq agents[Default].live
    BY CurrentMain DEF Selected
  <2>2. agents[Default].live \subseteq agents[Default].tools
    BY CurrentMain, MainHas DEF AccessInv
  <2>3. agents[Default].tools \subseteq agents[Default].script
    BY ScriptOfMain DEF ScriptTools, Surface
  <2> QED
    BY <2>1, <2>2, <2>3
<1>2. \A s, t \in agents[Default].script : Identifier[s] = Identifier[t] => s = t
  BY ScriptOfMain DEF Collide
<1> HIDE DEF chosen
<1>3. ~Collide(chosen)
  BY <1>1, <1>2 DEF Collide
<1>4. ASSUME NEW id \in DOMAIN box \ Sinks, NEW t \in agents[Default].script, Identifier[t] = id
      PROVE  box[id] = t
  <2>1. /\ DOMAIN box = {Identifier[s] : s \in chosen} \cup Sinks
        /\ box[id] = CHOOSE s \in chosen : Identifier[s] = id
    BY <1>4 DEF SandboxOf, chosen
  <2>2. \E s \in chosen : Identifier[s] = id
    BY <1>4, <2>1
  <2>3. box[id] \in chosen /\ Identifier[box[id]] = id
    BY <2>1, <2>2
  <2> QED
    BY <1>1, <1>2, <1>4, <2>3
<1> QED
  BY <1>3, <1>4 DEF SandboxRaises, chosen

\* Whatever was registered, however files came and went, and after builds that
\* failed: the ways agree.
THEOREM WaysAgreeAlways == Spec => []WaysAgree
<1>1. AccessInv => WaysAgree
  BY SameForUsers, SameForJobs, SameForScripts, SameForSteps, SameIdentifiers DEF WaysAgree
<1> QED
  BY <1>1, AccessInvariant, PTL
=============================================================================
