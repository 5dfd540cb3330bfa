--------------------------- MODULE SavedWorkflows ---------------------------
(***************************************************************************)
(* The folder workflows/*.js, which agents and users write to, and the     *)
(* registry of workflows, into which the host reconciles it.  The registry *)
(* also holds workflows that the application declares in code.             *)
(***************************************************************************)
EXTENDS Integers, FiniteSets

CONSTANTS
    Names,     \* names of workflows
    InCode,    \* those the application declares with @app.workflow
    Barred,    \* those no file may register: of a tool, agent or command, or no snake_case
    Texts,     \* what a file may say; a text stands for its hash too
    Nothing,   \* no file, no workflow
    Code,      \* a workflow that is declared in code
    MaxEdits   \* bound: changes of files

ASSUME SavedAssumption ==
    /\ IsFiniteSet(Names)
    /\ InCode \subseteq Names /\ Barred \subseteq Names /\ InCode \cap Barred = {}
    /\ MaxEdits \in Nat
    /\ Nothing # Code /\ Nothing \notin Texts /\ Code \notin Texts

VARIABLES
    js,        \* js[n]: what is in the file <n>.js
    registry,  \* WorkflowRegistry._by_name: a script, Code, or Nothing
    version    \* WorkflowRegistry._version

Files == [Names -> Texts \cup {Nothing}]
Specs == [Names -> Texts \cup {Nothing, Code}]

-----------------------------------------------------------------------------
\* _reload_saved_workflows.

\* Saved specs whose file is gone or says something else are dropped.
Dropped(folder, specs) ==
    {n \in Names : specs[n] \notin {Nothing, Code} /\ folder[n] # specs[n]}

\* Files that are not registered are, unless their name is taken.
Added(folder, specs) ==
    {n \in Names \ Barred :
        folder[n] # Nothing /\ (specs[n] = Nothing \/ n \in Dropped(folder, specs))}

Reconciled(folder, specs) ==
    [n \in Names |-> IF n \in Added(folder, specs) THEN folder[n]
                     ELSE IF n \in Dropped(folder, specs) THEN Nothing
                     ELSE specs[n]]

\* What the folder asks for, which a reconcile is to bring about.
Desired(folder) ==
    [n \in Names |-> IF n \in InCode THEN Code
                     ELSE IF n \in Barred THEN Nothing
                     ELSE folder[n]]

\* MUTANT of Reconcile: a file replaces whatever has its name.
ReconcileShadows ==
    /\ registry' = [n \in Names |-> IF n \in Barred THEN registry[n]
                                    ELSE IF registry[n] = Code /\ js[n] = Nothing THEN Code
                                    ELSE js[n]]
    /\ version' = version + 1

\* Each registration and each removal counts.
Reconcile ==
    /\ registry' = Reconciled(js, registry)
    /\ version' = version + Cardinality(Dropped(js, registry)) + Cardinality(Added(js, registry))
=============================================================================
