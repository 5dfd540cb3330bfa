---------------------------- MODULE WorkflowRun ----------------------------
(***************************************************************************)
(* One workflow run from its bus message to its output: dispatch by the    *)
(* gateway, the run journal, the host-wide run gate, the memoised steps of *)
(* a python body or the frozen script of an authored one, timeout, cancel, *)
(* a failing store, a crash, and the resume that a restarted process makes *)
(* before it serves again.                                                 *)
(*                                                                         *)
(* Configuration modelled: workflows.durable_steps and resume_on_startup   *)
(* are on, so the step store, the script store and the journal are durable.*)
(* An action is the code between two awaits; a write to a store happens at *)
(* the end of its await, so a crash, a cancel or a timeout that strikes    *)
(* while the write is in flight is the action taken before or after it.    *)
(***************************************************************************)
EXTENDS Naturals, FiniteSets

CONSTANTS
    Runs,           \* run identifiers (each belongs to one workflow)
    Mode,           \* Mode[r]: the mode of r's workflow spec
    Timed,          \* the runs whose spec sets timeout_s
    N,              \* number of steps of a body
    Values,         \* results of a step (and texts of an authored script)
    NoValue,        \* no result yet
    MaxConcurrent,  \* config.max_concurrent_runs
    Deploys,        \* what a deployed application can be for a run, see Deployed
    MaxDeliveries,  \* bound: bus deliveries of one run's message
    MaxCrashes,     \* bound: crashes of the process
    MaxFaults       \* bound: store operations that raise

\* A deployed version of the application, seen by one run:
\*   ok         the workflow is registered, and its input model accepts the input
\*   gone       the workflow is not registered
\*   forbidden  registered, but the role of the caller may not run it
\*   rejects    its input model does not accept the input
\*   unwired    the agent build registered no factory for the workflow's mode
DeployKinds == {"ok", "gone", "forbidden", "rejects", "unwired"}

ASSUME RunAssumption ==
    /\ IsFiniteSet(Runs)
    /\ N \in Nat
    /\ NoValue \notin Values
    /\ Mode \in [Runs -> {"python", "llm_authored", "saved"}]
    /\ Timed \subseteq Runs
    /\ MaxConcurrent \in Nat \ {0}
    /\ Deploys \subseteq DeployKinds
    /\ MaxDeliveries \in Nat /\ MaxCrashes \in Nat /\ MaxFaults \in Nat

VARIABLES
    \* durable: the stores behind workflow_runs, workflow_steps, workflow_scripts
    journal,    \* status of each run's record
    stored,     \* step results by (run, step)
    script,     \* the frozen body of an authored run
    \* the process
    proc,       \* "down", "resuming" (before the gateway exists) or "serving"
    toResume,   \* records of list_incomplete not looked at yet
    deployed,   \* the deployed application, per run
    live,       \* GatewayManager._workflow_runs
    permits,    \* free permits of WorkflowRuntime._run_gate
    phase,      \* where the task of a run awaits
    pos,        \* the step its body is at
    seen,       \* the results its body holds
    body,       \* the script it runs (llm_authored)
    error,      \* the class of the exception it raises
    \* bounds and history
    deliveries, crashes, faults,
    answers,    \* outputs sent to the channel
    stranded    \* runs abandoned without a terminal mark by a cancel, a
                \* failing journal, or a resume that skipped them

durable == <<journal, stored, script>>
frame == <<pos, seen, body>>
host == <<proc, toResume, deployed>>
bounds == <<deliveries, crashes, faults>>
history == <<answers, stranded>>
vars == <<durable, host, live, permits, phase, frame, error, bounds, history>>

Steps == 1..N
Results == [Steps -> Values]
Memoised(r) == Mode[r] = "python"
NoFrame == [i \in Steps |-> NoValue]

\* Awaits inside `async with self._run_gate`.
InGate == {"authoring", "freezing", "body", "putting"}
Phases == InGate \cup {"idle", "journalling", "waiting", "completing",
                       "failing", "sending", "reporting"}

Active == {r \in Runs : phase[r] # "idle"}

Init ==
    /\ journal = [r \in Runs |-> "none"]
    /\ stored = [r \in Runs |-> NoFrame]
    /\ script = [r \in Runs |-> NoValue]
    /\ proc = "serving"
    /\ toResume = {}
    /\ deployed \in [Runs -> Deploys]
    /\ live = {}
    /\ permits = MaxConcurrent
    /\ phase = [r \in Runs |-> "idle"]
    /\ pos = [r \in Runs |-> 1]
    /\ seen = [r \in Runs |-> NoFrame]
    /\ body = [r \in Runs |-> NoValue]
    /\ error = [r \in Runs |-> "none"]
    /\ deliveries = [r \in Runs |-> 0]
    /\ crashes = 0
    /\ faults = 0
    /\ answers = [r \in Runs |-> {}]
    /\ stranded = {}

-----------------------------------------------------------------------------
\* Building blocks of a task's step.

MoveTo(r, p) == phase' = [phase EXCEPT ![r] = p]

\* The locals of the task that ran r are gone.
ClearFrame(r) ==
    /\ pos' = [pos EXCEPT ![r] = 1]
    /\ seen' = [seen EXCEPT ![r] = NoFrame]
    /\ body' = [body EXCEPT ![r] = NoValue]

\* MUTANT of LeaveGate: only a body that ends by itself gives its permit back.
LeaveGateFromBody(r) == permits' = IF phase[r] = "body" THEN permits + 1 ELSE permits

\* Leave the gate's context manager, whatever the reason.
LeaveGate(r) == permits' = IF phase[r] \in InGate THEN permits + 1 ELSE permits

\* An exception of class k leaves the body: except Exception -> mark_failed.
BodyRaises(r, k) ==
    /\ LeaveGate(r)
    /\ MoveTo(r, "failing")
    /\ error' = [error EXCEPT ![r] = k]

\* The start_run part of a run that was admitted: validate the input, then
\* journal it.  A missing factory is noticed before, invalid input right there.
Begin(r) ==
    IF deployed[r] \in {"rejects", "unwired"}
    THEN /\ MoveTo(r, "reporting")
         /\ error' = [error EXCEPT ![r] =
                        IF deployed[r] = "unwired" THEN "runtime" ELSE "other"]
    ELSE /\ MoveTo(r, "journalling")
         /\ UNCHANGED error

-----------------------------------------------------------------------------
\* Dispatch: GatewayManager._handle_workflow for a delivered bus message.

Delivered(r) ==
    /\ proc = "serving"
    /\ deliveries[r] < MaxDeliveries
    /\ deliveries' = [deliveries EXCEPT ![r] = @ + 1]
    /\ UNCHANGED <<durable, host, permits, frame, crashes, faults, history>>

\* Unknown workflow or a role without it: a message and nothing else.
DispatchRefused(r) ==
    /\ Delivered(r)
    /\ deployed[r] \in {"gone", "forbidden"}
    /\ UNCHANGED <<live, phase, error>>

\* The run is in progress: the duplicate is told so and dropped.
DispatchDuplicate(r) ==
    /\ Delivered(r)
    /\ deployed[r] \notin {"gone", "forbidden"}
    /\ r \in live
    /\ UNCHANGED <<live, phase, error>>

Dispatch(r) ==
    /\ Delivered(r)
    /\ deployed[r] \notin {"gone", "forbidden"}
    /\ r \notin live
    /\ live' = live \cup {r}
    /\ Begin(r)

-----------------------------------------------------------------------------
\* start_run and the body, one action per stretch between awaits.

TaskStep(r, p) ==
    /\ phase[r] = p
    /\ UNCHANGED <<host, live, deliveries, crashes>>

MarkRunning(r) ==
    /\ TaskStep(r, "journalling")
    /\ journal' = [journal EXCEPT ![r] = "running"]
    /\ stranded' = stranded \ {r}
    /\ MoveTo(r, "waiting")
    /\ UNCHANGED <<stored, script, permits, frame, error, faults, answers>>

\* MUTANT of EnterGate: nobody waits for a free permit.
EnterGateUnbounded(r) ==
    /\ TaskStep(r, "waiting")
    /\ permits' = permits - 1
    /\ MoveTo(r, IF Mode[r] = "llm_authored" THEN "authoring" ELSE "body")
    /\ UNCHANGED <<durable, frame, error, faults, history>>

\* A saved body is the spec's own script; an authored one is resolved first.
EnterGate(r) ==
    /\ TaskStep(r, "waiting")
    /\ permits > 0
    /\ permits' = permits - 1
    /\ MoveTo(r, IF Mode[r] = "llm_authored" THEN "authoring" ELSE "body")
    /\ UNCHANGED <<durable, frame, error, faults, history>>

\* AuthoredScriptResolver.resolve: replay the frozen script ...
ReplayScript(r) ==
    /\ TaskStep(r, "authoring")
    /\ script[r] # NoValue
    /\ body' = [body EXCEPT ![r] = script[r]]
    /\ MoveTo(r, "body")
    /\ UNCHANGED <<durable, permits, pos, seen, error, faults, history>>

\* ... or let the model write one,
AuthorScript(r, v) ==
    /\ TaskStep(r, "authoring")
    /\ script[r] = NoValue
    /\ body' = [body EXCEPT ![r] = v]
    /\ MoveTo(r, "freezing")
    /\ UNCHANGED <<durable, permits, pos, seen, error, faults, history>>

\* and freeze it before it is run.
FreezeScript(r) ==
    /\ TaskStep(r, "freezing")
    /\ script' = [script EXCEPT ![r] = body[r]]
    /\ MoveTo(r, "body")
    /\ UNCHANGED <<journal, stored, permits, frame, error, faults, history>>

\* StepMemoizer.wrap, a hit: the stored result stands for the step.
ReplayStep(r) ==
    /\ TaskStep(r, "body")
    /\ pos[r] <= N
    /\ Memoised(r)
    /\ stored[r][pos[r]] # NoValue
    /\ seen' = [seen EXCEPT ![r][pos[r]] = stored[r][pos[r]]]
    /\ pos' = [pos EXCEPT ![r] = @ + 1]
    /\ UNCHANGED <<durable, permits, phase, body, error, faults, history>>

\* MUTANT of ExecuteStep: the memoiser does not look the step up first.
ExecuteStepUncached(r, v) ==
    /\ TaskStep(r, "body")
    /\ pos[r] <= N
    /\ seen' = [seen EXCEPT ![r][pos[r]] = v]
    /\ MoveTo(r, "putting")
    /\ UNCHANGED <<durable, permits, pos, body, error, faults, history>>

\* A miss: the executor answers, and the result is on its way to the store.
\* The steps of a script are not memoised and return at once.
ExecuteStep(r, v) ==
    /\ TaskStep(r, "body")
    /\ pos[r] <= N
    /\ seen' = [seen EXCEPT ![r][pos[r]] = v]
    /\ \/ /\ Memoised(r)
          /\ stored[r][pos[r]] = NoValue
          /\ MoveTo(r, "putting")
          /\ UNCHANGED pos
       \/ /\ ~Memoised(r)
          /\ pos' = [pos EXCEPT ![r] = @ + 1]
          /\ UNCHANGED phase
    /\ UNCHANGED <<durable, permits, body, error, faults, history>>

PersistStep(r) ==
    /\ TaskStep(r, "putting")
    /\ stored' = [stored EXCEPT ![r][pos[r]] = seen[r][pos[r]]]
    /\ pos' = [pos EXCEPT ![r] = @ + 1]
    /\ MoveTo(r, "body")
    /\ UNCHANGED <<journal, script, permits, seen, body, error, faults, history>>

\* The executor, the author or the body raises, a result cannot be serialised,
\* or the returned output does not fit the output model.
BodyFails(r, k) ==
    /\ phase[r] \in {"authoring", "body"}
    /\ TaskStep(r, phase[r])
    /\ BodyRaises(r, k)
    /\ UNCHANGED <<durable, frame, faults, history>>

\* asyncio.wait_for covers the body, not the resolution of its script.
TimeoutFires(r) ==
    /\ r \in Timed
    /\ phase[r] \in {"body", "putting"}
    /\ TaskStep(r, phase[r])
    /\ BodyRaises(r, "other")
    /\ UNCHANGED <<durable, frame, faults, history>>

BodyReturns(r) ==
    /\ TaskStep(r, "body")
    /\ pos[r] > N
    /\ LeaveGate(r)
    /\ MoveTo(r, "completing")
    /\ UNCHANGED <<durable, frame, error, faults, history>>

MarkCompleted(r) ==
    /\ TaskStep(r, "completing")
    /\ journal' = [journal EXCEPT ![r] = "completed"]
    /\ MoveTo(r, "sending")
    /\ UNCHANGED <<stored, script, permits, frame, error, faults, history>>

MarkFailed(r) ==
    /\ TaskStep(r, "failing")
    /\ journal' = [journal EXCEPT ![r] = "failed"]
    /\ MoveTo(r, "reporting")
    /\ UNCHANGED <<stored, script, permits, frame, error, faults, history>>

\* A store operation raises.  Inside the body that is one more way to fail; in
\* the journal it replaces the run's own outcome, and the mark is not made.
StoreFault(r) ==
    /\ faults < MaxFaults
    /\ faults' = faults + 1
    /\ TaskStep(r, phase[r])
    /\ \/ /\ \/ phase[r] \in {"authoring", "freezing", "putting"}
             \/ phase[r] = "body" /\ Memoised(r)
          /\ BodyRaises(r, "other")
          /\ UNCHANGED stranded
       \/ /\ phase[r] \in {"journalling", "completing", "failing"}
          /\ MoveTo(r, "reporting")
          /\ error' = [error EXCEPT ![r] = "other"]
          /\ stranded' = IF phase[r] = "journalling" THEN stranded ELSE stranded \cup {r}
          /\ UNCHANGED permits
    /\ UNCHANGED <<durable, frame, answers>>

-----------------------------------------------------------------------------
\* How the gateway's task for a run ends: finally pops it from _workflow_runs.

Finish(r) ==
    /\ MoveTo(r, "idle")
    /\ ClearFrame(r)
    /\ error' = [error EXCEPT ![r] = "none"]
    /\ live' = live \ {r}
    /\ UNCHANGED <<durable, host, bounds>>

SendOutput(r) ==
    /\ proc = "serving"
    /\ phase[r] = "sending"
    /\ answers' = [answers EXCEPT ![r] = @ \cup {seen[r]}]
    /\ Finish(r)
    /\ UNCHANGED <<permits, stranded>>

\* channel.send raises: the handler of the body's exceptions takes this one too.
SendRaises(r) ==
    /\ proc = "serving"
    /\ TaskStep(r, "sending")
    /\ MoveTo(r, "reporting")
    /\ error' = [error EXCEPT ![r] = "other"]
    /\ UNCHANGED <<durable, permits, frame, faults, history>>

\* "Workflow ... failed: ..." is sent, or its send raises as well.
Report(r) ==
    /\ proc = "serving"
    /\ phase[r] = "reporting"
    /\ Finish(r)
    /\ UNCHANGED <<permits, history>>

\* /workflows cancel <run_id>: CancelledError at whatever the task awaits.  No
\* handler of start_run catches it, so no terminal mark is made.
Cancel(r) ==
    /\ proc = "serving"
    /\ r \in live
    /\ LeaveGate(r)
    /\ stranded' = IF journal[r] = "running" THEN stranded \cup {r} ELSE stranded
    /\ Finish(r)
    /\ UNCHANGED answers

-----------------------------------------------------------------------------
\* Crash, restart and WorkflowRuntime.resume_incomplete.

ProcessDies ==
    /\ proc' = "down"
    /\ toResume' = {}
    /\ live' = {}
    /\ permits' = MaxConcurrent
    /\ phase' = [r \in Runs |-> "idle"]
    /\ pos' = [r \in Runs |-> 1]
    /\ seen' = [r \in Runs |-> NoFrame]
    /\ body' = [r \in Runs |-> NoValue]
    /\ error' = [r \in Runs |-> "none"]
    /\ stranded' = {}
    /\ UNCHANGED <<durable, deployed, deliveries, faults, answers>>

\* The process is killed, or asyncio.run cancels every task on shutdown.
Crash ==
    /\ proc # "down"
    /\ crashes < MaxCrashes
    /\ crashes' = crashes + 1
    /\ ProcessDies

\* MUTANT of Restart: the journal is not read at all.
RestartForgets ==
    /\ proc = "down"
    /\ proc' = "resuming"
    /\ deployed' \in [Runs -> Deploys]
    /\ toResume' = {}
    /\ UNCHANGED <<durable, live, permits, phase, frame, error, bounds, history>>

\* MUTANT of Restart: the journal is listed whole.
RestartListsAll ==
    /\ proc = "down"
    /\ proc' = "resuming"
    /\ deployed' \in [Runs -> Deploys]
    /\ toResume' = {r \in Runs : journal[r] # "none"}
    /\ UNCHANGED <<durable, live, permits, phase, frame, error, bounds, history>>

\* A start, of the same application or of a new version of it.
Restart ==
    /\ proc = "down"
    /\ proc' = "resuming"
    /\ deployed' \in [Runs -> Deploys]
    /\ toResume' = {r \in Runs : journal[r] = "running"}
    /\ UNCHANGED <<durable, live, permits, phase, frame, error, bounds, history>>

\* MUTANT of ResumeNext: the journal is listed again after every record.
ResumeNextRelists(r) ==
    /\ proc = "resuming"
    /\ Active = {}
    /\ r \in toResume
    /\ toResume' = {q \in Runs : journal[q] = "running"}
    /\ \/ /\ deployed[r] = "gone"
          /\ stranded' = stranded \cup {r}
          /\ UNCHANGED <<phase, error>>
       \/ /\ deployed[r] # "gone"
          /\ Begin(r)
          /\ UNCHANGED stranded
    /\ UNCHANGED <<durable, proc, deployed, live, permits, frame, bounds, answers>>

\* The loop over list_incomplete awaits each run before it takes the next.
ResumeNext(r) ==
    /\ proc = "resuming"
    /\ Active = {}
    /\ r \in toResume
    /\ toResume' = toResume \ {r}
    /\ \/ /\ deployed[r] = "gone"
          /\ stranded' = stranded \cup {r}
          /\ UNCHANGED <<phase, error>>
       \/ /\ deployed[r] # "gone"
          /\ Begin(r)
          /\ UNCHANGED stranded
    /\ UNCHANGED <<durable, proc, deployed, live, permits, frame, bounds, answers>>

\* The output of a resumed run is dropped: nobody is there to receive it.
ResumeCompletes(r) ==
    /\ proc = "resuming"
    /\ phase[r] = "sending"
    /\ Finish(r)
    /\ UNCHANGED <<permits, history>>

\* except RuntimeError: log it and go on with the next record.
ResumeSkips(r) ==
    /\ proc = "resuming"
    /\ phase[r] = "reporting"
    /\ error[r] = "runtime"
    /\ stranded' = IF journal[r] = "running" THEN stranded \cup {r} ELSE stranded
    /\ Finish(r)
    /\ UNCHANGED <<permits, answers>>

\* Any other exception leaves resume_incomplete, and _run_async with it.
ResumeAborts(r) ==
    /\ proc = "resuming"
    /\ phase[r] = "reporting"
    /\ error[r] = "other"
    /\ ProcessDies
    /\ UNCHANGED crashes

\* MUTANT of StartServing: the gateway opens after the first resumed run.
StartServingEarly ==
    /\ proc = "resuming"
    /\ Active = {}
    /\ proc' = "serving"
    /\ UNCHANGED <<durable, toResume, deployed, live, permits, phase, frame, error,
                   bounds, history>>

StartServing ==
    /\ proc = "resuming"
    /\ toResume = {}
    /\ Active = {}
    /\ proc' = "serving"
    /\ UNCHANGED <<durable, toResume, deployed, live, permits, phase, frame, error,
                   bounds, history>>

\* The gateway waits for a message that the bounds do not let arrive.
Quiescent ==
    /\ proc = "serving"
    /\ Active = {}
    /\ UNCHANGED vars

-----------------------------------------------------------------------------
RunStep(r) ==
    \/ MarkRunning(r)
    \/ EnterGate(r)
    \/ ReplayScript(r)
    \/ \E v \in Values : AuthorScript(r, v)
    \/ FreezeScript(r)
    \/ ReplayStep(r)
    \/ \E v \in Values : ExecuteStep(r, v)
    \/ PersistStep(r)
    \/ BodyReturns(r)
    \/ MarkCompleted(r)
    \/ MarkFailed(r)
    \/ SendOutput(r)
    \/ Report(r)
    \/ ResumeNext(r)
    \/ ResumeCompletes(r)
    \/ ResumeSkips(r)
    \/ ResumeAborts(r)

Environment(r) ==
    \/ DispatchRefused(r)
    \/ DispatchDuplicate(r)
    \/ Dispatch(r)
    \/ \E k \in {"runtime", "other"} : BodyFails(r, k)
    \/ TimeoutFires(r)
    \/ StoreFault(r)
    \/ SendRaises(r)
    \/ Cancel(r)

Next ==
    \/ \E r \in Runs : RunStep(r) \/ Environment(r)
    \/ Crash
    \/ Restart
    \/ StartServing
    \/ Quiescent

Spec == Init /\ [][Next]_vars

\* The event loop runs every ready task, an awaited call answers (a hanging one
\* is what timeout_s is for), and a supervisor restarts the process.  Nothing
\* is assumed of messages, failures, cancels and crashes.
Fairness ==
    /\ \A r \in Runs : WF_vars(RunStep(r))
    /\ WF_vars(Restart)
    /\ WF_vars(StartServing)

FairSpec == Spec /\ Fairness

-----------------------------------------------------------------------------
\* Properties.

TypeOK ==
    /\ journal \in [Runs -> {"none", "running", "completed", "failed"}]
    /\ stored \in [Runs -> [Steps -> Values \cup {NoValue}]]
    /\ script \in [Runs -> Values \cup {NoValue}]
    /\ proc \in {"down", "resuming", "serving"}
    /\ toResume \in SUBSET Runs
    /\ deployed \in [Runs -> Deploys]
    /\ live \in SUBSET Runs
    /\ permits \in Nat
    /\ phase \in [Runs -> Phases]
    /\ pos \in [Runs -> 1..(N + 1)]
    /\ seen \in [Runs -> [Steps -> Values \cup {NoValue}]]
    /\ body \in [Runs -> Values \cup {NoValue}]
    /\ error \in [Runs -> {"none", "runtime", "other"}]
    /\ deliveries \in [Runs -> Nat]
    /\ crashes \in Nat
    /\ faults \in Nat
    /\ answers \in [Runs -> SUBSET [Steps -> Values \cup {NoValue}]]
    /\ stranded \in SUBSET Runs

\* The host-wide ceiling is exact: every permit is free or held by a run that
\* is inside the gate, on every way out of it (return, exception, timeout,
\* cancel), and a duplicate dispatch does not take a permit for ever.
PermitsAccounted ==
    permits + Cardinality({r \in Runs : phase[r] \in InGate}) = MaxConcurrent

\* While the gateway serves, a record that says "running" belongs to a live
\* run, or the run was abandoned in one of the three known ways.
RunningAccounted ==
    proc = "serving" =>
        \A r \in Runs : journal[r] = "running" => r \in live \cup stranded

\* The script of an authored run that starts is the frozen one, and the first
\* one written stays: no resume, retry or redelivery runs another script.
OneBody ==
    [][\A r \in Runs :
         (Mode[r] = "llm_authored" /\ phase[r] # "body" /\ phase'[r] = "body") =>
            /\ body'[r] = script'[r]
            /\ script[r] \in {NoValue, script'[r]}]_vars

\* Resuming a crashed host re-opens no run that had reached its terminal mark:
\* a cleanly failed run is not retried, a completed one not repeated.
ResumeOnlyIncomplete ==
    [][\A r \in Runs :
         (proc = "resuming" /\ journal[r] \in {"completed", "failed"}) =>
            journal'[r] = journal[r]]_vars

\* The runs whose steps are memoised implement the ledger: an output that
\* reaches the user is the one durable record of the run, whatever crashed,
\* timed out, was redelivered or ran again, and the run is marked complete.
LedgerRuns == {r \in Runs : Memoised(r)}
Ledger == INSTANCE RunLedger WITH
            Runs <- LedgerRuns,
            status <- [r \in LedgerRuns |-> journal[r]],
            record <- [r \in LedgerRuns |-> stored[r]],
            outputs <- [r \in LedgerRuns |-> answers[r]]
ImplementsLedger == Ledger!LedgerSpec

\* The inductive invariant behind the ledger.  A body has only seen what the
\* store holds, and a result on its way to the store is the first for its step;
\* the phases of a task tell what its journal record says.
Replay ==
    \A r \in Runs :
        /\ phase[r] = "putting" =>
             /\ Memoised(r)
             /\ pos[r] \in Steps
             /\ seen[r][pos[r]] \in Values
             /\ stored[r][pos[r]] = NoValue
        /\ Memoised(r) =>
             \A i \in Steps : i < pos[r] =>
                 stored[r][i] \in Values /\ seen[r][i] = stored[r][i]
        /\ phase[r] \in {"completing", "sending"} => pos[r] = N + 1

JournalAgrees ==
    \A r \in Runs :
        /\ phase[r] \in InGate \cup {"waiting", "completing", "failing"} =>
             journal[r] = "running"
        /\ phase[r] = "sending" => journal[r] = "completed"

RunInv == TypeOK /\ Replay /\ JournalAgrees

\* The inductive invariant behind RunningAccounted: who owns a running record
\* in each stage of the process.
Owned ==
    /\ proc # "serving" => live = {}
    /\ proc = "down" => Active = {}
    /\ \A r \in Runs :
        /\ proc = "serving" => (phase[r] # "idle" <=> r \in live)
        /\ journal[r] = "running" =>
             /\ proc = "serving" => r \in live \cup stranded
             /\ proc = "resuming" => r \in toResume \cup stranded \cup Active
             /\ proc = "serving" /\ phase[r] \in {"journalling", "reporting"} =>
                  r \in stranded

\* Behind ResumeOnlyIncomplete and OneBody: what resuming still touches, and
\* when the script of a run can be written.
ResumesRunning ==
    proc = "resuming" =>
        \A r \in Runs :
            /\ journal[r] # "running" =>
                 r \notin toResume /\ phase[r] \in {"idle", "sending", "reporting"}
            /\ phase[r] # "idle" => r \notin toResume

FreezesOnce == \A r \in Runs : phase[r] = "freezing" => script[r] = NoValue

\* A run that is journalled comes to its terminal mark, through any number of
\* crashes, unless it is abandoned.
RunsSettle ==
    \A r \in Runs :
        journal[r] = "running" ~> (journal[r] # "running" \/ r \in stranded)

\* A process that starts comes to serve.
StartupCompletes == proc = "down" ~> proc = "serving"
=============================================================================
