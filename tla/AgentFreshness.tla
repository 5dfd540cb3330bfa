--------------------------- MODULE AgentFreshness ---------------------------
(***************************************************************************)
(* Before a turn the gateway looks whether the agent it is about to use is *)
(* built from what is on disk now: its AGENTS.md, or the global one when   *)
(* it has none, and, for the default agent, the saved workflows.  The      *)
(* check is one stretch of code without a suspension, so no other turn is  *)
(* in it; but tools run in threads and users have editors, so files change *)
(* while it runs.                                                          *)
(***************************************************************************)
EXTENDS SavedWorkflows

CONSTANTS
    Agents,       \* the default agent and the named ones
    Default,
    Unknown,      \* no baseline yet
    MaxFailures   \* bound: builds and reconciles that raise

ASSUME FreshAssumption ==
    /\ Default \in Agents
    /\ Agents \cap Names = {}   \* as marks of their files
    /\ MaxFailures \in Nat
    /\ Unknown \notin Texts \cup {Nothing} /\ Unknown \notin Nat
    /\ Unknown \notin [Names -> Texts \cup {Nothing}]

VARIABLES
    md,          \* md[a]: AGENTS.md in the workspace of a; Default's is the global one
    built,       \* _agent_map: the prompt text and the workflow tools of each agent
    hash,        \* _agents_md_hashes
    dirHash,     \* _workflows_dir_hashes["default"]
    wfVersion,   \* _workflow_registry_versions["default"]
    check,       \* _ensure_agent_fresh: its agent, where it is, what it has read
    edits, failures,   \* bounds: changes of files, failures
    torn,        \* agents that are built from another AGENTS.md than their check had hashed
    folderTorn,  \* the last reconcile read another folder than the hash was taken of
    stale,       \* agents no later look need find out: see CameBack, FirstSight, RebuildFails
    missed,      \* the same for the registry and the folder
    window       \* texts that AGENTS.md of the agent in check has had since its start

diskVars == <<md, js, edits>>
watchVars == <<hash, dirHash, wfVersion>>
historyVars == <<torn, folderTorn, stale, missed, window>>
vars == <<diskVars, registry, version, built, watchVars, check, failures, historyVars>>

Idle == [agent |-> Default, at |-> "idle", hash |-> Nothing]

\* _get_agents_md_path_for_agent.  No file reads as the packaged default.
Text(files, a) == IF files[a] # Nothing THEN files[a] ELSE files[Default]

NoTools == [n \in Names |-> Nothing]

\* MUTANT of Build: every agent gets the workflow tools.
BuildShared(a) == [text |-> Text(md, a), tools |-> registry]

\* create_claw_agent: named agents get no workflow tools.
Build(a) == [text |-> Text(md, a),
             tools |-> IF a = Default THEN registry ELSE NoTools]

Init ==
    /\ md \in [Agents -> Texts \cup {Nothing}]
    /\ js \in Files
    /\ registry = Desired(js)
    /\ version = Cardinality({n \in Names : Desired(js)[n] # Nothing})
    /\ built = [a \in Agents |-> Build(a)]
    /\ hash = [a \in Agents |-> Unknown]
    /\ dirHash = Unknown
    /\ wfVersion = Unknown
    /\ check = Idle
    /\ edits = 0
    /\ failures = 0
    /\ torn = {}
    /\ folderTorn = FALSE
    /\ stale = {}
    /\ missed = FALSE
    /\ window = {}

-----------------------------------------------------------------------------
\* The disk, at any time.  A file may get any text, also one that it had before:
\* the gateway compares hashes of contents.

Disk ==
    /\ edits < MaxEdits
    /\ edits' = edits + 1
    /\ UNCHANGED <<registry, version, built, watchVars, check, failures, torn, folderTorn>>

Seen(files) ==
    window' = IF check.at = "idle" THEN window ELSE window \cup {Text(files, check.agent)}

\* Agents whose AGENTS.md was changed between its hash and the build, and is now
\* taken back to what was hashed.
CameBack(files) == {a \in torn : Text(md, a) # hash[a] /\ Text(files, a) = hash[a]}

WriteMd(a, text) ==
    /\ Disk
    /\ md[a] # text
    /\ md' = [md EXCEPT ![a] = text]
    /\ stale' = stale \cup CameBack(md')
    /\ Seen(md')
    /\ UNCHANGED <<js, missed>>

DeleteMd(a) == WriteMd(a, Nothing)

\* The folder, too, may be taken back to what was hashed, after a reconcile that
\* read something else.
WriteJs(n, text) ==
    /\ Disk
    /\ js[n] # text
    /\ js' = [js EXCEPT ![n] = text]
    /\ missed' = (missed \/ (folderTorn /\ js' = dirHash))
    /\ UNCHANGED <<md, stale, window>>

DeleteJs(n) == WriteJs(n, Nothing)

-----------------------------------------------------------------------------
\* _ensure_agent_fresh.

At(step) == check' = [check EXCEPT !.at = step]

\* The turn has its agent.
Ends == check' = Idle /\ window' = {}

\* The hash of AGENTS.md is taken before anything else,
Begin(a) ==
    /\ check.at = "idle"
    /\ check' = [agent |-> a, at |-> IF a = Default THEN "folder" ELSE "compare",
                 hash |-> Text(md, a)]
    /\ window' = {Text(md, a)}
    /\ UNCHANGED <<diskVars, registry, version, built, watchVars, failures, torn, folderTorn,
                   stale, missed>>

\* then that of the folder; a change of it reconciles, except on the first sight.
ReadFolder ==
    /\ check.at = "folder"
    /\ dirHash' = js
    /\ folderTorn' = (folderTorn /\ dirHash = js)
    /\ IF hash[Default] # Unknown /\ dirHash \notin {Unknown, js}
       THEN At("reload") /\ UNCHANGED missed
       ELSE /\ At("compare")
            /\ missed' = (missed \/ (hash[Default] = Unknown /\ Desired(js) # registry))
    /\ UNCHANGED <<diskVars, registry, version, built, hash, wfVersion, failures, torn,
                   stale, window>>

\* The reconcile reads the folder again.
Brought ==
    /\ Reconcile
    /\ folderTorn' = (dirHash \notin {Unknown, js})
    /\ missed' = FALSE

\* Its error is logged, and the folder's hash is kept all the same.
Reload ==
    /\ check.at = "reload"
    /\ At("compare")
    /\ \/ Brought /\ UNCHANGED failures
       \/ /\ failures < MaxFailures
          /\ failures' = failures + 1
          /\ missed' = TRUE
          /\ UNCHANGED <<registry, version, folderTorn>>
    /\ UNCHANGED <<diskVars, built, watchVars, torn, stale, window>>

\* The baselines of this agent.
Watched(a) ==
    /\ hash' = [hash EXCEPT ![a] = check.hash]
    /\ wfVersion' = IF a = Default THEN version ELSE wfVersion

\* MUTANT of Unchanged: the default agent is watched by its workflows alone.
UnchangedWorkflows(a) == IF a = Default THEN wfVersion = version ELSE hash[a] = check.hash

Unchanged(a) == hash[a] = check.hash /\ (a = Default => wfVersion = version)

\* First sighting: the baselines are taken, and nothing is built.
FirstSight ==
    /\ check.at = "compare"
    /\ hash[check.agent] = Unknown
    /\ Watched(check.agent)
    /\ stale' = IF [Build(check.agent) EXCEPT !.text = check.hash] = built[check.agent]
                THEN stale ELSE stale \cup {check.agent}
    /\ torn' = torn \ {check.agent}
    /\ Ends
    /\ UNCHANGED <<diskVars, registry, version, built, dirHash, failures, folderTorn, missed>>

\* Nothing has changed.
UseCurrent ==
    /\ check.at = "compare"
    /\ hash[check.agent] # Unknown
    /\ Unchanged(check.agent)
    /\ Ends
    /\ UNCHANGED <<diskVars, registry, version, built, watchVars, failures, torn, folderTorn,
                   stale, missed>>

\* The history of a build: AGENTS.md may have changed since its hash was taken.
Tears ==
    /\ stale' = stale \ {check.agent}
    /\ torn' = IF Text(md, check.agent) = check.hash
               THEN torn \ {check.agent} ELSE torn \cup {check.agent}

\* MUTANT of Rebuild: the files are read, and their hash is taken afterwards.
RebuildHashedLate ==
    /\ check.at = "compare"
    /\ hash[check.agent] # Unknown
    /\ ~Unchanged(check.agent)
    /\ built' = [built EXCEPT ![check.agent] = [Build(check.agent) EXCEPT !.text = check.hash]]
    /\ Tears
    /\ hash' = [hash EXCEPT ![check.agent] = Text(md, check.agent)]
    /\ wfVersion' = IF check.agent = Default THEN version ELSE wfVersion
    /\ Ends
    /\ UNCHANGED <<diskVars, registry, version, dirHash, failures, folderTorn, missed>>

\* create_claw_agent reads the files again.
Rebuild ==
    /\ check.at = "compare"
    /\ hash[check.agent] # Unknown
    /\ ~Unchanged(check.agent)
    /\ built' = [built EXCEPT ![check.agent] = Build(check.agent)]
    /\ Tears
    /\ Watched(check.agent)
    /\ Ends
    /\ UNCHANGED <<diskVars, registry, version, dirHash, failures, folderTorn, missed>>

\* It raises: the old agent stays and so do the new baselines, lest it is tried
\* again on every message.
RebuildFails ==
    /\ check.at = "compare"
    /\ hash[check.agent] # Unknown
    /\ ~Unchanged(check.agent)
    /\ failures < MaxFailures
    /\ failures' = failures + 1
    /\ Watched(check.agent)
    /\ stale' = stale \cup {check.agent}
    /\ Ends
    /\ UNCHANGED <<diskVars, registry, version, built, dirHash, torn, folderTorn, missed>>

-----------------------------------------------------------------------------
\* Beside turns.

\* _handle_workflow reconciles before it looks a workflow up.
DispatchWorkflow ==
    /\ check.at = "idle"
    /\ Brought
    /\ UNCHANGED <<diskVars, built, watchVars, check, failures, torn, stale, window>>

\* /agentsmd reload
Invalidate(a) ==
    /\ check.at = "idle"
    /\ hash' = [hash EXCEPT ![a] = Unknown]
    /\ UNCHANGED <<diskVars, registry, version, built, dirHash, wfVersion, check, failures,
                   historyVars>>

Next ==
    \/ \E a \in Agents : \/ \E text \in Texts : WriteMd(a, text)
                         \/ DeleteMd(a) \/ Begin(a) \/ Invalidate(a)
    \/ \E n \in Names : (\E text \in Texts : WriteJs(n, text)) \/ DeleteJs(n)
    \/ ReadFolder
    \/ Reload
    \/ FirstSight
    \/ UseCurrent
    \/ Rebuild
    \/ RebuildFails
    \/ DispatchWorkflow

Spec == Init /\ [][Next]_vars

-----------------------------------------------------------------------------
\* Properties.

Steps == {"idle", "folder", "reload", "compare"}

\* The types; only the default agent has workflow tools.
TypeOK ==
    /\ md \in [Agents -> Texts \cup {Nothing}]
    /\ js \in Files
    /\ registry \in Specs
    /\ version \in Nat
    /\ built \in [Agents -> [text : Texts \cup {Nothing}, tools : Specs]]
    /\ \A a \in Agents \ {Default} : built[a].tools = NoTools
    /\ hash \in [Agents -> Texts \cup {Nothing, Unknown}]
    /\ dirHash \in Files \cup {Unknown}
    /\ wfVersion \in Nat \cup {Unknown}
    /\ check \in [agent : Agents, at : Steps, hash : Texts \cup {Nothing}]
    /\ edits \in 0..MaxEdits /\ failures \in 0..MaxFailures
    /\ torn \subseteq Agents /\ stale \subseteq Agents
    /\ folderTorn \in BOOLEAN /\ missed \in BOOLEAN
    /\ window \subseteq Texts \cup {Nothing}

\* What the gateway takes for current is: when the baselines of an agent are what
\* is on disk, so that the next turn will not build it, it is built from that, and
\* so with the folder and the registry.  The exceptions are those of stale and
\* missed: a baseline taken on the first sight, which builds nothing; a build or a
\* reconcile that failed; and a file that changed between its hash and its build (or
\* reconcile), and was later taken back to what the hash was of.
NothingMissed ==
    check.at = "idle" =>
        /\ \A a \in Agents \ stale :
            /\ hash[a] = Text(md, a) => built[a].text = Text(md, a)
            /\ (a = Default /\ hash[a] # Unknown /\ wfVersion = version)
                    => built[a].tools = registry
        /\ (dirHash = js /\ ~missed) => registry = Desired(js)

\* An agent that a turn is given has a prompt that its AGENTS.md has had since
\* the turn began to look, with the same exceptions.
TurnIsCurrent ==
    [][(check.at # "idle" /\ check'.at = "idle" /\ check.agent \notin stale')
            => built'[check.agent].text \in window]_vars

\* "an in-code @app.workflow always wins, so a file can never shadow or evict it",
\* and no file takes the name of a tool, an agent or a command.
CodeWins == \A n \in Names : (n \in InCode <=> registry[n] = Code) /\ (n \in Barred => registry[n] = Nothing)

\* Reconciling a folder that asks for nothing new makes no agent stale: agents
\* are not built on every turn.
NoThrash == [][version' # version => registry' # registry]_vars
=============================================================================
