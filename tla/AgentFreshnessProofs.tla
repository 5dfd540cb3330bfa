------------------------ MODULE AgentFreshnessProofs ------------------------
(***************************************************************************)
(* What TLC checks of AgentFreshness with two texts and three edits,       *)
(* proved for any number of agents, workflows, texts, edits and failures.  *)
(***************************************************************************)
EXTENDS AgentFreshness, FiniteSetTheorems, TLAPS

-----------------------------------------------------------------------------
\* The stages of a check, and the baselines that a first one leaves.
Staged ==
    /\ check.at \in {"folder", "reload"} => check.agent = Default
    /\ check.at = "reload" \/ (check.at = "compare" /\ check.agent = Default) => dirHash # Unknown
    /\ hash[Default] # Unknown => dirHash # Unknown

\* An agent that no exception is made of is built from its baseline, or is torn
\* and its AGENTS.md has not been taken back.
BaseText ==
    \A a \in Agents \ stale :
        hash[a] # Unknown =>
            \/ built[a].text = hash[a]
            \/ a \in torn /\ Text(md, a) # hash[a]

\* What makes TurnIsCurrent hold in the step that returns.
InCheck ==
    check.at # "idle" =>
        /\ {Text(md, check.agent), check.hash} \subseteq window
        /\ (check.agent \notin stale /\ hash[check.agent] = check.hash) =>
              built[check.agent].text = check.hash

Tools ==
    /\ wfVersion # Unknown => wfVersion <= version
    /\ (Default \notin stale /\ hash[Default] # Unknown /\ wfVersion = version) =>
          built[Default].tools = registry

\* The registry and the folder: the same, but for a reconcile that is due.
Folder ==
    (check.at # "reload" /\ dirHash # Unknown /\ ~missed) =>
        \/ registry = Desired(dirHash)
        \/ folderTorn /\ js # dirHash

FreshInv == Staged /\ BaseText /\ InCheck /\ Tools /\ Folder

-----------------------------------------------------------------------------
\* Facts about the constants.
LEMMA Markers ==
    /\ Nothing # Code /\ Nothing \notin Texts /\ Code \notin Texts
    /\ Unknown \notin Texts \cup {Nothing} /\ Unknown \notin Nat /\ Unknown \notin Files
    /\ Default \in Agents /\ Agents \cap Names = {}
    /\ MaxEdits \in Nat /\ MaxFailures \in Nat
  BY SavedAssumption, FreshAssumption DEF Files

\* Sets of workflow names can be counted.
LEMMA CountIsNat ==
    ASSUME NEW S \in SUBSET Names
    PROVE  Cardinality(S) \in Nat
  BY SavedAssumption, FS_Subset, FS_CardinalityType

-----------------------------------------------------------------------------
\* A reconcile brings about what the folder asks for, if what is declared in code
\* is as it should be; and it counts whatever it changes.
LEMMA ReconciledIsDesired ==
    ASSUME js \in Files, registry \in Specs, CodeWins
    PROVE  Reconciled(js, registry) = Desired(js)
<1> DEFINE R == Reconciled(js, registry)
<1>1. ASSUME NEW n \in Names
      PROVE  R[n] = Desired(js)[n]
  <2>1. CASE n \in InCode
    BY <1>1, <2>1, Markers, SavedAssumption DEF Reconciled, Added, Dropped, Desired, CodeWins
  <2>2. CASE n \in Barred
    BY <1>1, <2>2, Markers, SavedAssumption DEF Reconciled, Added, Dropped, Desired, CodeWins
  <2>3. CASE n \notin InCode \cup Barred
    BY <1>1, <2>3, Markers, SavedAssumption DEF Reconciled, Added, Dropped, Desired, CodeWins
  <2>4. QED
    BY <2>1, <2>2, <2>3
<1>2. QED
  BY <1>1 DEF Reconciled, Desired

\* What a folder asks for keeps the workflows in code, and reserved names free.
LEMMA DesiredKeepsCode ==
    ASSUME NEW folder \in Files, registry = Desired(folder)
    PROVE  registry \in Specs /\ CodeWins
  BY Markers, SavedAssumption DEF Desired, Specs, Files, CodeWins

\* A reconcile makes the registry what the folder asks for, and its version moves
\* if and only if the registry does.
LEMMA ReconcileCounts ==
    ASSUME js \in Files, registry \in Specs, version \in Nat, CodeWins, Reconcile
    PROVE  /\ registry' = Desired(js)
           /\ version' \in Nat
           /\ version' >= version
           /\ version' = version <=> registry' = registry
<1> DEFINE D == Dropped(js, registry)
           A == Added(js, registry)
<1>1. D \subseteq Names /\ A \subseteq Names
  BY DEF Dropped, Added
<1>2. Cardinality(D) \in Nat /\ Cardinality(A) \in Nat
  BY <1>1, CountIsNat
<1>3. Cardinality(D) = 0 <=> D = {}
  BY <1>1, SavedAssumption, FS_Subset, FS_EmptySet
<1>4. Cardinality(A) = 0 <=> A = {}
  BY <1>1, SavedAssumption, FS_Subset, FS_EmptySet
<1>5. (D = {} /\ A = {}) <=> registry' = registry
  <2>1. ASSUME D = {}, A = {}
        PROVE  registry' = registry
    BY <2>1 DEF Reconcile, Reconciled, Specs
  <2>2. ASSUME NEW n \in D
        PROVE  registry'[n] # registry[n]
    BY <2>2, Markers DEF Reconcile, Reconciled, Dropped, Added
  <2>3. ASSUME NEW n \in A
        PROVE  registry'[n] # registry[n]
    BY <2>3, Markers DEF Reconcile, Reconciled, Dropped, Added
  <2>4. QED
    BY <2>1, <2>2, <2>3
<1>6. version' = version + Cardinality(D) + Cardinality(A)
  BY DEF Reconcile
<1>7. registry' = Desired(js)
  BY ReconciledIsDesired DEF Reconcile
<1> HIDE DEF D, A
<1>8. QED
  BY <1>2, <1>3, <1>4, <1>5, <1>6, <1>7

-----------------------------------------------------------------------------
\* The kinds of steps.
MdEdit == \E a \in Agents, text \in Texts \cup {Nothing} : WriteMd(a, text)
JsEdit == \E n \in Names, text \in Texts \cup {Nothing} : WriteJs(n, text)

LEMMA Moves ==
    ASSUME [Next]_vars
    PROVE  \/ MdEdit \/ JsEdit
           \/ \E a \in Agents : Begin(a)
           \/ \E a \in Agents : Invalidate(a)
           \/ ReadFolder \/ Reload \/ DispatchWorkflow
           \/ FirstSight \/ UseCurrent \/ Rebuild \/ RebuildFails
           \/ UNCHANGED vars
  BY DEF Next, MdEdit, JsEdit, DeleteMd, DeleteJs

-----------------------------------------------------------------------------
\* The start-up.
LEMMA InitTypeOK == Init => TypeOK /\ CodeWins
<1> SUFFICES ASSUME Init
             PROVE  TypeOK /\ CodeWins
  OBVIOUS
<1>1. md \in [Agents -> Texts \cup {Nothing}] /\ js \in Files
  BY DEF Init
<1>2. registry \in Specs /\ CodeWins
  BY <1>1, DesiredKeepsCode DEF Init
<1>3. version \in Nat
  <2>1. {n \in Names : Desired(js)[n] # Nothing} \in SUBSET Names
    OBVIOUS
  <2>2. QED
    BY <2>1, CountIsNat DEF Init
<1>4. \A a \in Agents : Build(a) \in [text : Texts \cup {Nothing}, tools : Specs]
  BY <1>1, <1>2, Markers DEF Build, Text, NoTools, Specs
<1>5. built \in [Agents -> [text : Texts \cup {Nothing}, tools : Specs]]
  BY <1>4 DEF Init
<1>6. \A a \in Agents \ {Default} : built[a].tools = NoTools
  BY DEF Init, Build
<1>7. check \in [agent : Agents, at : Steps, hash : Texts \cup {Nothing}]
  BY Markers DEF Init, Idle, Steps
<1>8. edits \in 0..MaxEdits /\ failures \in 0..MaxFailures
  BY Markers DEF Init
<1>9. QED
  BY <1>1, <1>2, <1>3, <1>5, <1>6, <1>7, <1>8 DEF Init, TypeOK

\* Each step of the gateway, the disk and the commands keeps types and CodeWins.
LEMMA NextTypeOK == TypeOK /\ CodeWins /\ [Next]_vars => TypeOK' /\ CodeWins'
<1> SUFFICES ASSUME TypeOK, CodeWins, [Next]_vars
             PROVE  TypeOK' /\ CodeWins'
  OBVIOUS
<1> USE Markers
<1>1. \A a \in Agents : Text(md, a) \in Texts \cup {Nothing}
  BY DEF Text, TypeOK
<1>2. \A a \in Agents : Build(a) \in [text : Texts \cup {Nothing}, tools : Specs]
  BY <1>1 DEF Build, NoTools, Specs, TypeOK
<1>3. check.agent \in Agents
  BY DEF TypeOK
<1>4. CASE MdEdit
  <2>0. PICK a \in Agents, text \in Texts \cup {Nothing} : WriteMd(a, text)
    BY <1>4 DEF MdEdit
  <2>1. edits' \in 0..MaxEdits
    BY <2>0 DEF WriteMd, Disk, TypeOK
  <2>2. md' \in [Agents -> Texts \cup {Nothing}]
    BY <2>0 DEF WriteMd, TypeOK
  <2>3. window' \subseteq Texts \cup {Nothing}
    <3>1. Text(md', check.agent) \in Texts \cup {Nothing}
      BY <1>3, <2>2 DEF Text
    <3>2. Seen(md')
      BY <2>0 DEF WriteMd
    <3>3. QED
      BY <3>1, <3>2 DEF Seen, TypeOK
  <2>4. stale' \subseteq Agents
    BY <2>0 DEF WriteMd, CameBack, TypeOK
  <2>5. QED
    BY <2>0, <2>1, <2>2, <2>3, <2>4 DEF WriteMd, Disk, TypeOK, CodeWins, watchVars
<1>5. CASE JsEdit
  <2>0. PICK n \in Names, text \in Texts \cup {Nothing} : WriteJs(n, text)
    BY <1>5 DEF JsEdit
  <2>1. edits' \in 0..MaxEdits
    BY <2>0 DEF WriteJs, Disk, TypeOK
  <2>2. js' \in Files
    BY <2>0 DEF WriteJs, TypeOK, Files
  <2>3. missed' \in BOOLEAN
    BY <2>0 DEF WriteJs
  <2>4. QED
    BY <2>0, <2>1, <2>2, <2>3 DEF WriteJs, Disk, TypeOK, CodeWins, watchVars
<1>6. ASSUME NEW a \in Agents, Begin(a)
      PROVE  TypeOK' /\ CodeWins'
  BY <1>1, <1>6 DEF Begin, TypeOK, CodeWins, diskVars, watchVars, Steps
<1>7. ASSUME NEW a \in Agents, Invalidate(a)
      PROVE  TypeOK' /\ CodeWins'
  BY <1>7 DEF Invalidate, TypeOK, CodeWins, diskVars, historyVars
<1>8. CASE ReadFolder
  <2>1. check' = [check EXCEPT !.at = "compare"] \/ check' = [check EXCEPT !.at = "reload"]
    BY <1>8 DEF ReadFolder, At
  <2>2. check' \in [agent : Agents, at : Steps, hash : Texts \cup {Nothing}]
    BY <2>1 DEF TypeOK, Steps
  <2>3. QED
    BY <1>8, <2>2 DEF ReadFolder, TypeOK, CodeWins, diskVars
<1>9. CASE Reload \/ DispatchWorkflow
  <2>0. check' \in [agent : Agents, at : Steps, hash : Texts \cup {Nothing}]
    <3>1. check' = [check EXCEPT !.at = "compare"] \/ check' = check
      BY <1>9 DEF Reload, DispatchWorkflow, At
    <3>2. QED
      BY <3>1 DEF TypeOK, Steps
  <2>4. missed' \in BOOLEAN /\ folderTorn' \in BOOLEAN /\ failures' \in 0..MaxFailures
    <3>1. missed' = FALSE \/ missed' = TRUE
      BY <1>9 DEF Reload, DispatchWorkflow, Brought
    <3>2. failures' = failures \/ (failures < MaxFailures /\ failures' = failures + 1)
      BY <1>9 DEF Reload, DispatchWorkflow
    <3>3. failures \in 0..MaxFailures
      BY DEF TypeOK
    <3>4. failures' \in 0..MaxFailures
      BY <3>2, <3>3
    <3>5. folderTorn' \in BOOLEAN
      BY <1>9 DEF Reload, DispatchWorkflow, Brought, TypeOK
    <3>6. QED
      BY <3>1, <3>4, <3>5
  <2>5. UNCHANGED <<md, js, edits, built, hash, dirHash, wfVersion, torn, stale, window>>
    BY <1>9 DEF Reload, DispatchWorkflow, diskVars, watchVars
  <2>1. CASE Reconcile
    <3>1. registry' = Desired(js) /\ version' \in Nat
      BY <2>1, ReconcileCounts DEF TypeOK
    <3>2. js \in Files
      BY DEF TypeOK
    <3>4. registry' \in Specs
      BY <3>1, <3>2 DEF Desired, Specs, Files
    <3>5. CodeWins'
      BY <3>1, <3>2, SavedAssumption DEF Desired, Files, CodeWins
    <3>3. QED
      BY <2>0, <2>4, <2>5, <3>1, <3>4, <3>5 DEF TypeOK
  <2>2. CASE Reload /\ UNCHANGED <<registry, version>>
    BY <2>0, <2>2, <2>4, <2>5 DEF TypeOK, CodeWins
  <2>3. QED
    BY <1>9, <2>1, <2>2 DEF Reload, DispatchWorkflow, Brought
<1>10. check.agent \in Agents /\ check.hash \in Texts \cup {Nothing}
  BY DEF TypeOK
<1>11. Ends => check' \in [agent : Agents, at : Steps, hash : Texts \cup {Nothing}]
  BY DEF Ends, Idle, Steps
<1>12. CASE FirstSight
  BY <1>10, <1>11, <1>12 DEF FirstSight, Watched, Ends, TypeOK, CodeWins, diskVars
<1>13. CASE UseCurrent
  BY <1>11, <1>13 DEF UseCurrent, Ends, TypeOK, CodeWins, diskVars, watchVars
<1>14. CASE Rebuild
  <2>0. stale' \subseteq Agents /\ torn' \subseteq Agents
    BY <1>10, <1>14 DEF Rebuild, Tears, TypeOK
  <2>1. built' \in [Agents -> [text : Texts \cup {Nothing}, tools : Specs]]
    BY <1>2, <1>10, <1>14 DEF Rebuild, TypeOK
  <2>2. \A a \in Agents \ {Default} : built'[a].tools = NoTools
    BY <1>14 DEF Rebuild, Build, TypeOK
  <2>3. QED
    BY <1>10, <1>11, <1>14, <2>0, <2>1, <2>2 DEF Rebuild, Watched, Ends, TypeOK, CodeWins, diskVars
<1>15. CASE RebuildFails
  BY <1>10, <1>11, <1>15 DEF RebuildFails, Watched, Ends, TypeOK, CodeWins, diskVars
<1>16. CASE UNCHANGED vars
  BY <1>16 DEF vars, diskVars, watchVars, historyVars, TypeOK, CodeWins
<1>17. QED
  BY <1>4, <1>5, <1>6, <1>7, <1>8, <1>9, <1>12, <1>13, <1>14, <1>15, <1>16, Moves

-----------------------------------------------------------------------------
\* The check goes through its stages one at a time.
LEMMA NextStaged == TypeOK /\ Staged /\ [Next]_vars => Staged'
<1> SUFFICES ASSUME TypeOK, Staged, [Next]_vars
             PROVE  Staged'
  OBVIOUS
<1>1. js # Unknown /\ check.agent \in Agents /\ Default \in Agents
  BY Markers DEF TypeOK
<1>2. CASE UNCHANGED <<check, hash, dirHash>>
  BY <1>2 DEF Staged
<1>3. ASSUME NEW a \in Agents, Begin(a)
      PROVE  Staged'
  BY <1>3 DEF Begin, Staged, watchVars
<1>4. ASSUME NEW a \in Agents, Invalidate(a)
      PROVE  Staged'
  BY <1>1, <1>4 DEF Invalidate, Staged, TypeOK
<1>5. CASE ReadFolder
  <2>1. check'.agent = check.agent /\ check'.at \in {"reload", "compare"} /\ dirHash' = js
    BY <1>5 DEF ReadFolder, At, TypeOK
  <2>2. check.agent = Default
    BY <1>5 DEF ReadFolder, Staged
  <2>3. QED
    BY <1>1, <2>1, <2>2 DEF Staged
<1>6. CASE Reload
  <2>1. check'.agent = check.agent /\ check'.at = "compare"
    BY <1>6 DEF Reload, At, TypeOK
  <2>2. QED
    BY <1>6, <2>1 DEF Reload, Staged, watchVars
<1>7. CASE FirstSight \/ UseCurrent \/ Rebuild \/ RebuildFails
  <2>1. check'.at = "idle" /\ dirHash' = dirHash /\ check.at = "compare"
    BY <1>7 DEF FirstSight, UseCurrent, Rebuild, RebuildFails, Ends, Idle, watchVars
  <2>2. hash' = hash \/ hash' = [hash EXCEPT ![check.agent] = check.hash]
    BY <1>7 DEF FirstSight, UseCurrent, Rebuild, RebuildFails, Watched, watchVars
  <2>3. hash'[Default] # Unknown => dirHash # Unknown
    BY <1>1, <2>1, <2>2 DEF Staged, TypeOK
  <2>4. QED
    BY <2>1, <2>3 DEF Staged
<1>8. QED
  BY <1>2, <1>3, <1>4, <1>5, <1>6, <1>7, Moves
  DEF vars, watchVars, MdEdit, JsEdit, WriteMd, WriteJs, Disk, DispatchWorkflow

-----------------------------------------------------------------------------
\* What is a text.
LEMMA TextKinds ==
    ASSUME TypeOK
    PROVE  /\ check.agent \in Agents
           /\ check.hash \in Texts \cup {Nothing}
           /\ \A a \in Agents : Text(md, a) \in Texts \cup {Nothing}
           /\ \A a \in Agents : hash[a] # Unknown => hash[a] \in Texts \cup {Nothing}
<1>1. check.agent \in Agents /\ check.hash \in Texts \cup {Nothing}
  BY DEF TypeOK
<1>2. \A a \in Agents : md[a] \in Texts \cup {Nothing}
  BY DEF TypeOK
<1>3. \A a \in Agents : hash[a] # Unknown => hash[a] \in Texts \cup {Nothing}
  BY DEF TypeOK
<1>4. QED
  BY <1>1, <1>2, <1>3, Markers DEF Text

\* An edit of AGENTS.md makes an exception of whom it takes back, and of no other.
LEMMA MdMoves ==
    ASSUME [Next]_vars
    PROVE  md' = md \/ stale' = stale \cup CameBack(md')
  BY Moves DEF MdEdit, WriteMd, JsEdit, WriteJs, vars, diskVars, Begin, Invalidate, ReadFolder,
       Reload, FirstSight, UseCurrent, Rebuild, RebuildFails, DispatchWorkflow

-----------------------------------------------------------------------------
\* The steps of a check, and the ones that leave agents and baselines alone.
AgentsStay == UNCHANGED <<hash, built, torn>> /\ stale \subseteq stale'

\* A step of the check keeps its agent and what it has read.
LEMMA CheckMoves ==
    ASSUME TypeOK, [Next]_vars
    PROVE  \/ check'.at = "idle"
           \/ \E a \in Agents : Begin(a)
           \/ /\ check.at # "idle" /\ check'.agent = check.agent /\ check'.hash = check.hash
              /\ AgentsStay
<1>1. CASE ReadFolder \/ Reload
  <2>1. check.at # "idle" /\ AgentsStay
    BY <1>1 DEF ReadFolder, Reload, AgentsStay, watchVars
  <2>2. check'.agent = check.agent /\ check'.hash = check.hash
    BY <1>1 DEF ReadFolder, Reload, At, TypeOK
  <2>3. QED
    BY <2>1, <2>2
<1>2. CASE FirstSight \/ UseCurrent \/ Rebuild \/ RebuildFails
  BY <1>2 DEF FirstSight, UseCurrent, Rebuild, RebuildFails, Ends, Idle
<1>3. CASE (\E a \in Agents : Invalidate(a)) \/ DispatchWorkflow
  BY <1>3 DEF Invalidate, DispatchWorkflow
<1>4. MdEdit => check' = check /\ AgentsStay
  BY DEF MdEdit, WriteMd, Disk, AgentsStay, watchVars
<1>5. JsEdit => check' = check /\ AgentsStay
  BY DEF JsEdit, WriteJs, Disk, AgentsStay, watchVars
<1>6. CASE UNCHANGED vars
  BY <1>6 DEF vars, AgentsStay, watchVars, historyVars
<1>7. QED
  BY <1>1, <1>2, <1>3, <1>4, <1>5, <1>6, Moves

\* Only the ends of a check, and /agentsmd reload, change agents and baselines.
LEMMA AgentMoves ==
    ASSUME TypeOK, [Next]_vars
    PROVE  \/ AgentsStay
           \/ FirstSight \/ Rebuild \/ RebuildFails
           \/ \E a \in Agents : Invalidate(a)
<1>1. MdEdit \/ (\E a \in Agents : Begin(a)) => AgentsStay
  BY DEF MdEdit, WriteMd, Begin, Disk, AgentsStay, watchVars
<1>2. JsEdit => AgentsStay
  BY DEF JsEdit, WriteJs, Disk, AgentsStay, watchVars
<1>3. CASE ReadFolder \/ Reload \/ UseCurrent \/ DispatchWorkflow \/ UNCHANGED vars
  BY <1>3 DEF ReadFolder, Reload, UseCurrent, DispatchWorkflow, AgentsStay, vars, watchVars, historyVars
<1>4. QED
  BY <1>1, <1>2, <1>3, Moves

\* Baselines are what the agent is built from, or differ from what is on disk.
LEMMA NextBaseText == TypeOK /\ BaseText /\ InCheck /\ [Next]_vars => BaseText'
<1> SUFFICES ASSUME TypeOK, BaseText, InCheck, [Next]_vars,
                    NEW a \in Agents, a \notin stale', hash'[a] # Unknown
             PROVE  built'[a].text = hash'[a] \/ (a \in torn' /\ Text(md', a) # hash'[a])
  BY DEF BaseText
<1>1. CASE a \notin stale /\ hash'[a] = hash[a] /\ built'[a] = built[a] /\ (a \in torn => a \in torn')
  <2>1. built[a].text = hash[a] \/ (a \in torn /\ Text(md, a) # hash[a])
    BY <1>1 DEF BaseText
  <2>2. CASE md' = md
    BY <1>1, <2>1, <2>2 DEF Text
  <2>3. CASE stale' = stale \cup CameBack(md')
    BY <1>1, <2>1, <2>3 DEF CameBack
  <2>4. QED
    BY <2>2, <2>3, MdMoves
<1>2. CASE AgentsStay
  BY <1>1, <1>2 DEF AgentsStay
<1>3. ASSUME NEW b \in Agents, Invalidate(b)
      PROVE  a \notin stale /\ hash'[a] = hash[a] /\ built'[a] = built[a] /\ torn' = torn
  BY <1>3 DEF Invalidate, TypeOK, historyVars
<1>4. CASE (FirstSight \/ Rebuild \/ RebuildFails) /\ a # check.agent
  <2>1. a \notin stale /\ (a \in torn => a \in torn')
    BY <1>4 DEF FirstSight, Rebuild, RebuildFails, Tears
  <2>2. hash'[a] = hash[a]
    BY <1>4 DEF FirstSight, Rebuild, RebuildFails, Watched, TypeOK
  <2>3. built'[a] = built[a]
    BY <1>4 DEF FirstSight, Rebuild, RebuildFails, TypeOK
  <2>4. QED
    BY <1>1, <2>1, <2>2, <2>3
<1>5. CASE FirstSight /\ a = check.agent
  <2>1. [Build(a) EXCEPT !.text = check.hash] = built[a]
    BY <1>5 DEF FirstSight
  <2>2. built[a].text = check.hash
    BY <2>1 DEF Build
  <2>3. hash'[a] = check.hash /\ built' = built
    BY <1>5 DEF FirstSight, Watched, TypeOK
  <2>4. QED
    BY <2>2, <2>3
<1>6. CASE Rebuild /\ a = check.agent
  <2>1. /\ built'[a].text = Text(md, a) /\ hash'[a] = check.hash /\ md' = md
        /\ Text(md, a) # check.hash => a \in torn'
    BY <1>6 DEF Rebuild, Tears, Watched, Build, TypeOK, diskVars
  <2>2. QED
    BY <2>1 DEF Text
<1>7. CASE RebuildFails /\ a = check.agent
  BY <1>7 DEF RebuildFails
<1>8. QED
  BY <1>1, <1>2, <1>3, <1>4, <1>5, <1>6, <1>7, AgentMoves

\* The window of a check holds what it has read and what it may build from.
LEMMA NextInCheck ==
    TypeOK /\ BaseText /\ InCheck /\ [Next]_vars => InCheck'
<1> SUFFICES ASSUME TypeOK, BaseText, InCheck, [Next]_vars, check'.at # "idle"
             PROVE  InCheck'
  BY DEF InCheck
<1>1. ASSUME NEW a \in Agents, Begin(a)
      PROVE  InCheck'
  <2>1. /\ check'.agent = a /\ check'.hash = Text(md, a) /\ md' = md
        /\ window' = {Text(md, a)} /\ AgentsStay
    BY <1>1 DEF Begin, diskVars, AgentsStay, watchVars
  <2>2. ASSUME a \notin stale, hash[a] = Text(md, a)
        PROVE  built[a].text = Text(md, a)
    <3>1. hash[a] # Unknown
      BY <2>2, TextKinds, Markers
    <3>2. QED
      BY <2>2, <3>1 DEF BaseText
  <2>3. QED
    BY <2>1, <2>2 DEF InCheck, AgentsStay, Text
<1>2. CASE check.at # "idle" /\ check'.agent = check.agent /\ check'.hash = check.hash /\ AgentsStay
  <2>1. check.hash \in window' /\ Text(md', check.agent) \in window'
    <3>1. MdEdit => window' = window \cup {Text(md', check.agent)}
      BY <1>2 DEF MdEdit, WriteMd, Seen
    <3>2. JsEdit => window' = window /\ md' = md
      BY DEF JsEdit, WriteJs
    <3>3. CASE ReadFolder \/ Reload \/ UNCHANGED vars
      BY <1>2, <3>3 DEF ReadFolder, Reload, vars, diskVars, historyVars, InCheck
    <3>4. CASE FirstSight \/ UseCurrent \/ Rebuild \/ RebuildFails
      BY <3>4 DEF FirstSight, UseCurrent, Rebuild, RebuildFails, Ends, Idle
    <3>5. ~\E a \in Agents : Begin(a) \/ Invalidate(a)
      BY <1>2 DEF Begin, Invalidate
    <3>6. ~DispatchWorkflow
      BY <1>2 DEF DispatchWorkflow
    <3>7. QED
      BY <1>2, <3>1, <3>2, <3>3, <3>4, <3>5, <3>6, Moves DEF InCheck, Text
  <2>2. QED
    BY <1>2, <2>1 DEF InCheck, AgentsStay, Text
<1>3. QED
  BY <1>1, <1>2, CheckMoves

-----------------------------------------------------------------------------
\* The registry, and what the baselines tell of it.
LEMMA RegistryMoves ==
    ASSUME TypeOK, CodeWins, [Next]_vars
    PROVE  \/ UNCHANGED <<registry, version>>
           \/ /\ registry' = Desired(js) /\ js' = js
              /\ version' \in Nat /\ version' >= version
              /\ version' = version <=> registry' = registry
              /\ UNCHANGED <<wfVersion, dirHash>> /\ AgentsStay
<1>1. CASE Reload \/ DispatchWorkflow
  <2>1. UNCHANGED <<wfVersion, dirHash, js>> /\ AgentsStay
    BY <1>1 DEF Reload, DispatchWorkflow, AgentsStay, watchVars, diskVars
  <2>2. Reconcile => /\ registry' = Desired(js)
                     /\ version' \in Nat /\ version' >= version
                     /\ version' = version <=> registry' = registry
    BY ReconcileCounts DEF TypeOK
  <2>3. Reconcile \/ UNCHANGED <<registry, version>>
    BY <1>1 DEF Reload, DispatchWorkflow, Brought
  <2>4. QED
    BY <2>1, <2>2, <2>3
<1>2. CASE MdEdit \/ \E a \in Agents : Begin(a) \/ Invalidate(a)
  BY <1>2 DEF MdEdit, WriteMd, Begin, Invalidate, Disk
<1>3. CASE JsEdit
  BY <1>3 DEF JsEdit, WriteJs, Disk
<1>4. CASE ReadFolder \/ FirstSight \/ UseCurrent \/ Rebuild \/ RebuildFails \/ UNCHANGED vars
  BY <1>4 DEF ReadFolder, FirstSight, UseCurrent, Rebuild, RebuildFails, vars
<1>5. QED
  BY <1>1, <1>2, <1>3, <1>4, Moves

\* The version seen last tells which registry the default agent is built from.
LEMMA NextTools == TypeOK /\ CodeWins /\ Tools /\ [Next]_vars => Tools'
<1> SUFFICES ASSUME TypeOK, CodeWins, Tools, [Next]_vars
             PROVE  Tools'
  OBVIOUS
<1>1. version \in Nat /\ wfVersion \in Nat \cup {Unknown} /\ check.agent \in Agents
  BY DEF TypeOK
<1>2. CASE /\ registry' = Desired(js) /\ version' \in Nat /\ version' >= version
           /\ version' = version <=> registry' = registry
           /\ UNCHANGED wfVersion /\ AgentsStay
  BY <1>1, <1>2, Markers DEF Tools, AgentsStay
<1>3. CASE UNCHANGED <<registry, version, wfVersion>> /\ AgentsStay
  BY <1>3 DEF Tools, AgentsStay
<1>4. ASSUME NEW a \in Agents, Invalidate(a)
      PROVE  Tools'
  <2>1. /\ hash'[Default] = Unknown \/ hash'[Default] = hash[Default]
        /\ UNCHANGED <<registry, version, wfVersion, built, stale>>
    BY <1>4, Markers DEF Invalidate, TypeOK, historyVars
  <2>2. QED
    BY <2>1 DEF Tools
<1>5. CASE (FirstSight \/ Rebuild \/ RebuildFails) /\ check.agent # Default
  <2>1. UNCHANGED <<registry, version, wfVersion>>
    BY <1>5 DEF FirstSight, Rebuild, RebuildFails, Watched
  <2>2. hash'[Default] = hash[Default] /\ built'[Default] = built[Default]
    BY <1>5, Markers DEF FirstSight, Rebuild, RebuildFails, Watched, TypeOK
  <2>3. Default \notin stale' => Default \notin stale
    BY <1>5 DEF FirstSight, Rebuild, RebuildFails, Tears
  <2>4. QED
    BY <2>1, <2>2, <2>3 DEF Tools
<1>6. CASE (FirstSight \/ Rebuild \/ RebuildFails) /\ check.agent = Default
  <2>1. wfVersion' = version /\ UNCHANGED <<registry, version>>
    BY <1>6 DEF FirstSight, Rebuild, RebuildFails, Watched
  <2>2. Build(Default).tools = registry
    BY DEF Build
  <2>3. ASSUME FirstSight, Default \notin stale'
        PROVE  built'[Default].tools = registry
    <3>1. [Build(Default) EXCEPT !.text = check.hash] = built[Default] /\ built' = built
      BY <1>6, <2>3 DEF FirstSight
    <3>2. [Build(Default) EXCEPT !.text = check.hash].tools = registry
      BY <2>2 DEF Build
    <3>3. QED
      BY <3>1, <3>2
  <2>4. ASSUME Rebuild
        PROVE  built'[Default].tools = registry
    BY <1>6, <2>2, <2>4, Markers DEF Rebuild, TypeOK
  <2>5. RebuildFails => Default \in stale'
    BY <1>6 DEF RebuildFails
  <2>6. QED
    BY <1>1, <1>6, <2>1, <2>3, <2>4, <2>5 DEF Tools
<1>7. AgentsStay => wfVersion' = wfVersion \/ FirstSight \/ Rebuild \/ RebuildFails
  BY Moves DEF vars, watchVars, MdEdit, WriteMd, JsEdit, WriteJs, Disk, Begin, Invalidate,
         ReadFolder, Reload, UseCurrent, DispatchWorkflow
<1>8. QED
  BY <1>2, <1>3, <1>4, <1>5, <1>6, <1>7, AgentMoves, RegistryMoves

\* A folder that reads as its hash has been reconciled, unless that failed.
LEMMA NextFolder ==
    TypeOK /\ CodeWins /\ Staged /\ Folder /\ [Next]_vars => Folder'
<1> SUFFICES ASSUME TypeOK, CodeWins, Staged, Folder, [Next]_vars
             PROVE  Folder'
  OBVIOUS
<1>1. CASE JsEdit
  <2>1. /\ UNCHANGED <<registry, dirHash, check, folderTorn>>
        /\ missed' = (missed \/ (folderTorn /\ js' = dirHash))
    BY <1>1 DEF JsEdit, WriteJs, Disk, watchVars
  <2>2. QED
    BY <2>1 DEF Folder, Desired
<1>2. CASE ReadFolder
  <2>1. /\ dirHash' = js /\ UNCHANGED <<js, registry>>
        /\ folderTorn' = (folderTorn /\ dirHash = js)
    BY <1>2 DEF ReadFolder, diskVars
  <2>2. CASE hash[Default] # Unknown /\ dirHash \notin {Unknown, js}
    <3>1. check'.at = "reload"
      BY <1>2, <2>2 DEF ReadFolder, At, TypeOK
    <3>2. QED
      BY <3>1 DEF Folder
  <2>3. CASE hash[Default] = Unknown
    <3>1. missed' = (missed \/ Desired(js) # registry)
      BY <1>2, <2>3 DEF ReadFolder
    <3>2. QED
      BY <2>1, <3>1 DEF Folder, Desired
  <2>4. CASE hash[Default] # Unknown /\ dirHash = js
    <3>1. missed' = missed /\ check.at = "folder" /\ dirHash # Unknown
      BY <1>2, <2>4 DEF ReadFolder, TypeOK, Staged
    <3>2. QED
      BY <2>1, <2>4, <3>1 DEF Folder, Desired
  <2>5. QED
    BY <2>2, <2>3, <2>4 DEF Staged
<1>3. CASE (Reload \/ DispatchWorkflow) /\ ~missed'
  <2>1. Brought /\ js' = js /\ dirHash' = dirHash
    BY <1>3 DEF Reload, DispatchWorkflow, diskVars, watchVars
  <2>2. registry' = Desired(js) /\ folderTorn' = (dirHash \notin {Unknown, js})
    BY <2>1, ReconcileCounts DEF TypeOK, Brought
  <2>3. QED
    BY <2>1, <2>2 DEF Folder, Desired
<1>4. CASE (Reload \/ DispatchWorkflow) /\ missed'
  BY <1>4 DEF Folder
<1>5. CASE /\ UNCHANGED <<js, registry, dirHash, folderTorn, missed>>
           /\ check'.at # "reload" => check.at # "reload"
  BY <1>5 DEF Folder, Desired
<1>6. CASE MdEdit \/ \E a \in Agents : Begin(a) \/ Invalidate(a)
  <2>1. UNCHANGED <<js, registry, dirHash, folderTorn, missed>>
    BY <1>6 DEF MdEdit, WriteMd, Begin, Invalidate, Disk, diskVars, watchVars, historyVars
  <2>2. check.at # "reload" \/ check' = check
    BY <1>6 DEF MdEdit, WriteMd, Begin, Invalidate, Disk
  <2>3. QED
    BY <1>5, <2>1, <2>2
<1>7. CASE FirstSight \/ UseCurrent \/ Rebuild \/ RebuildFails
  <2>1. UNCHANGED <<js, registry, dirHash, folderTorn, missed>> /\ check.at # "reload"
    BY <1>7 DEF FirstSight, UseCurrent, Rebuild, RebuildFails, diskVars, watchVars
  <2>2. QED
    BY <1>5, <2>1
<1>8. CASE UNCHANGED vars
  BY <1>5, <1>8 DEF vars, diskVars, watchVars, historyVars
<1>9. QED
  BY <1>1, <1>2, <1>3, <1>4, <1>6, <1>7, <1>8, Moves

-----------------------------------------------------------------------------
\* At start-up every agent is built from the disk and no baseline is taken.
LEMMA InitFreshInv == Init => FreshInv
<1> SUFFICES ASSUME Init
             PROVE  FreshInv
  OBVIOUS
<1>1. /\ dirHash = Unknown /\ wfVersion = Unknown /\ check.at = "idle"
      /\ \A a \in Agents : hash[a] = Unknown
  BY DEF Init, Idle
<1>2. QED
  BY <1>1, Markers DEF FreshInv, Staged, BaseText, InCheck, Tools, Folder

\* The inductive invariant: what the baselines, the check under way, the agents, the
\* registry and the disk tell of each other, whatever texts come back.
THEOREM FreshInvariant == Spec => [](TypeOK /\ CodeWins /\ FreshInv)
<1>1. TypeOK /\ CodeWins /\ FreshInv /\ [Next]_vars => (TypeOK /\ CodeWins /\ FreshInv)'
  BY NextTypeOK, NextStaged, NextBaseText, NextInCheck, NextTools, NextFolder DEF FreshInv
<1>2. QED
  BY <1>1, InitTypeOK, InitFreshInv, PTL DEF Spec

\* TypeOK: the types, and that no named agent is given workflow tools.
THEOREM FreshTypeCorrect == Spec => []TypeOK
  BY FreshInvariant, PTL

\* CodeWins: no order of writing and removing files, reconciling and failing lets
\* a file take over or evict a workflow in code, or take a reserved name.
THEOREM CodeAlwaysWins == Spec => []CodeWins
  BY FreshInvariant, PTL

\* NothingMissed: baselines that agree with the disk mean an agent that is built from
\* it and a registry that was reconciled with it, unless a baseline was taken without
\* a build, one failed, or a file that changed inside a check was taken back after it.
THEOREM NothingIsMissed == Spec => []NothingMissed
<1>1. TypeOK /\ FreshInv => NothingMissed
  <2>1. ASSUME TypeOK, FreshInv, NEW a \in Agents \ stale, hash[a] = Text(md, a)
        PROVE  built[a].text = Text(md, a)
    BY <2>1, TextKinds, Markers DEF FreshInv, BaseText
  <2>2. TypeOK /\ FreshInv /\ check.at = "idle" /\ dirHash = js /\ ~missed => registry = Desired(js)
    BY Markers DEF FreshInv, Folder, TypeOK
  <2>3. QED
    BY <2>1, <2>2 DEF NothingMissed, FreshInv, Tools
<1>2. QED
  BY <1>1, FreshInvariant, PTL

\* TurnIsCurrent: the agent a turn is given has a prompt that was on disk since the
\* turn began to look.
THEOREM TurnsAreCurrent == Spec => TurnIsCurrent
<1>1. TypeOK /\ FreshInv /\ [Next]_vars =>
        [(check.at # "idle" /\ check'.at = "idle" /\ check.agent \notin stale')
            => built'[check.agent].text \in window]_vars
  <2> SUFFICES ASSUME TypeOK, FreshInv, [Next]_vars,
                      check.at # "idle", check'.at = "idle", check.agent \notin stale'
               PROVE  built'[check.agent].text \in window
    OBVIOUS
  <2> DEFINE a == check.agent
  <2>1. /\ Text(md, a) \in window /\ check.hash \in window
        /\ (a \notin stale /\ hash[a] = check.hash) => built[a].text = check.hash
    BY DEF FreshInv, InCheck
  <2>2. CASE FirstSight
    <3>1. [Build(a) EXCEPT !.text = check.hash] = built[a] /\ built' = built
      BY <2>2 DEF FirstSight
    <3>2. built[a].text = check.hash
      BY <3>1 DEF Build
    <3>3. QED
      BY <2>1, <3>1, <3>2
  <2>3. CASE UseCurrent
    BY <2>1, <2>3 DEF UseCurrent, Unchanged
  <2>4. CASE Rebuild
    <3>1. built'[a] = Build(a)
      BY <2>4, TextKinds DEF Rebuild, TypeOK
    <3>2. QED
      BY <2>1, <3>1 DEF Build
  <2>5. CASE RebuildFails
    BY <2>5 DEF RebuildFails
  <2>6. CASE ReadFolder \/ Reload
    BY <2>6 DEF ReadFolder, Reload, At, TypeOK
  <2>7. CASE MdEdit \/ \E b \in Agents : Begin(b) \/ Invalidate(b)
    BY <2>7 DEF MdEdit, WriteMd, Begin, Invalidate, Disk
  <2>8. CASE JsEdit \/ DispatchWorkflow \/ UNCHANGED vars
    BY <2>8 DEF JsEdit, WriteJs, Disk, DispatchWorkflow, vars
  <2>9. QED
    BY <2>2, <2>3, <2>4, <2>5, <2>6, <2>7, <2>8, Moves
<1>2. QED
  BY <1>1, FreshInvariant, PTL DEF Spec, TurnIsCurrent

\* NoThrash: the version of the registry moves only with the registry.
THEOREM NothingRebuiltForNothing == Spec => NoThrash
<1>1. TypeOK /\ CodeWins /\ [Next]_vars => [version' # version => registry' # registry]_vars
  BY RegistryMoves
<1>2. QED
  BY <1>1, FreshInvariant, PTL DEF Spec, NoThrash

=============================================================================
