------------------------------- MODULE FanOut -------------------------------
(***************************************************************************)
(* The body of one python workflow run: WorkflowContext's steps and        *)
(* ctx.parallel.  A context is the run's own (Root) or the child context   *)
(* of a branch; a branch holds one slot of the run's semaphore while its   *)
(* thunk runs.  A run may be attempted again under its run_id, after a     *)
(* crash or because its message is delivered again; an attempt has a       *)
(* semaphore and a step counter of its own and shares the step store with  *)
(* the others, and with the branches they left behind.                     *)
(***************************************************************************)
EXTENDS Integers, Sequences, FiniteSets

CONSTANTS
    Branches,        \* the thunks of the body's batches, nested ones too
    Root,            \* the run's own context
    Parent,          \* Parent[b]: the context whose batch b belongs to
    Body,            \* Body[c]: what the code of c awaits, in order
    Collect,         \* contexts whose batch has return_exceptions=True
    MaxConcurrency,  \* spec.max_concurrency
    MaxSteps,        \* spec.max_steps
    MaxAttempts,     \* bound: attempts of the run
    MaxFailures,     \* bound: steps that raise
    MaxCrashes       \* bound: crashes of the process

Contexts == Branches \cup {Root}
Attempts == 1..MaxAttempts
Children(c) == {b \in Branches : Parent[b] = c}

\* Branches that open a batch of their own, and wait for it with their slot.
Inner == {b \in Branches : \E i \in DOMAIN Body[b] : Body[b][i] = "batch"}

ASSUME FanOutAssumption ==
    /\ IsFiniteSet(Branches)
    /\ Root \notin Branches
    /\ Parent \in [Branches -> Contexts]
    /\ Body \in [Contexts -> Seq({"step", "batch"})]
    /\ \A c \in Contexts : \A i, j \in DOMAIN Body[c] :
         Body[c][i] = "batch" /\ Body[c][j] = "batch" => i = j
    /\ Collect \subseteq Contexts
    /\ MaxConcurrency \in Nat \ {0}
    /\ MaxSteps \in Nat /\ MaxAttempts \in Nat
    /\ MaxFailures \in Nat /\ MaxCrashes \in Nat

VARIABLES
    stored,    \* stored[c][i]: the attempt whose result of c's i-th step the
               \* step store holds, 0 when it holds none
    attempt,   \* number of attempts so far
    task,      \* task[a][c]: what context c of attempt a is doing
    pos,       \* pos[a][c]: where its code is
    seen,      \* seen[a][c][i]: the attempt whose result of a step it got
    slots,     \* slots[a]: free slots of the semaphore of attempt a
    counter,   \* counter[a]: the shared step counter of attempt a
    haunted,   \* attempts that started beside branches of an earlier one
    failures, crashes

vars == <<stored, attempt, task, pos, seen, slots, counter, haunted, failures, crashes>>

TaskStates == {"none", "waiting", "running", "executing", "gathering",
               "done", "failed", "cancelled"}
Alive == {"waiting", "running", "executing", "gathering"}
Holding == {"running", "executing", "gathering"}
Holders(a) == {b \in Branches : task[a][b] \in Holding}

Length == UNION {DOMAIN Body[c] : c \in Contexts}
Unrecorded == [c \in Contexts |-> [i \in Length |-> 0]]

\* The contexts that await c, through the batches c is in.
Ancestors ==
    [b \in Branches |->
        {c \in Contexts : \A S \in SUBSET Contexts :
            /\ Parent[b] \in S
            /\ \A d \in S \cap Branches : Parent[d] \in S
            => c \in S}]

Init ==
    /\ stored = Unrecorded
    /\ attempt = 0
    /\ task = [a \in Attempts |-> [c \in Contexts |-> "none"]]
    /\ pos = [a \in Attempts |-> [c \in Contexts |-> 1]]
    /\ seen = [a \in Attempts |-> Unrecorded]
    /\ slots = [a \in Attempts |-> MaxConcurrency]
    /\ counter = [a \in Attempts |-> 0]
    /\ haunted = {}
    /\ failures = 0
    /\ crashes = 0

-----------------------------------------------------------------------------
At(a, c, s) == a <= attempt /\ task[a][c] = s
Becomes(a, c, s) == task' = [task EXCEPT ![a][c] = s]
Advance(a, c) == pos' = [pos EXCEPT ![a][c] = @ + 1]

\* `async with self._semaphore` around a thunk; Root's code is not under it.
Release(a, c) ==
    slots' = IF c = Root THEN slots ELSE [slots EXCEPT ![a] = @ + 1]

\* MUTANT of End: a slot is only given back by a thunk that returns.
EndKeepsSlot(a, c, outcome) ==
    /\ Becomes(a, c, outcome)
    /\ IF outcome = "done" THEN Release(a, c) ELSE UNCHANGED slots
    /\ UNCHANGED <<stored, attempt, pos, seen, haunted, crashes>>

\* The code of a context ends with an outcome.
End(a, c, outcome) ==
    /\ Becomes(a, c, outcome)
    /\ Release(a, c)
    /\ UNCHANGED <<stored, attempt, pos, seen, haunted, crashes>>

\* start_run drives the body: the first time, for a message that is delivered
\* again when the run is not in progress, or for a resume.
StartAttempt ==
    /\ attempt < MaxAttempts
    /\ \A a \in Attempts : task[a][Root] \notin Alive
    /\ attempt' = attempt + 1
    /\ task' = [task EXCEPT ![attempt + 1][Root] = "running"]
    /\ haunted' = IF \E a \in Attempts, b \in Branches : task[a][b] \in Alive
                  THEN haunted \cup {attempt + 1} ELSE haunted
    /\ UNCHANGED <<stored, pos, seen, slots, counter, failures, crashes>>

\* ctx.parallel: one task per thunk.
StartBatch(a, c) ==
    /\ At(a, c, "running")
    /\ pos[a][c] \in DOMAIN Body[c]
    /\ Body[c][pos[a][c]] = "batch"
    /\ task' = [task EXCEPT ![a] = [d \in Contexts |->
                   IF d = c THEN "gathering"
                   ELSE IF d \in Children(c) THEN "waiting" ELSE @[d]]]
    /\ UNCHANGED <<stored, attempt, pos, seen, slots, counter, haunted, failures, crashes>>

AcquireSlot(a, b) ==
    /\ At(a, b, "waiting")
    /\ slots[a] > 0
    /\ slots' = [slots EXCEPT ![a] = @ - 1]
    /\ Becomes(a, b, "running")
    /\ UNCHANGED <<stored, attempt, pos, seen, counter, haunted, failures, crashes>>

AtStep(a, c) ==
    /\ At(a, c, "running")
    /\ pos[a][c] \in DOMAIN Body[c]
    /\ Body[c][pos[a][c]] = "step"
    /\ counter' = [counter EXCEPT ![a] = @ + 1]

\* _run_step: one too many for the run's budget,
ExceedBudget(a, c) ==
    /\ AtStep(a, c)
    /\ counter[a] + 1 > MaxSteps
    /\ End(a, c, "failed")
    /\ UNCHANGED failures

\* MUTANT of ReplayStep: a stored result does not count as the step's.
ReplayStepBlind(a, c) ==
    /\ AtStep(a, c)
    /\ counter[a] + 1 <= MaxSteps
    /\ stored[c][pos[a][c]] # 0
    /\ Becomes(a, c, "executing")
    /\ UNCHANGED <<stored, attempt, pos, seen, slots, haunted, failures, crashes>>

\* a step the store has a result for,
ReplayStep(a, c) ==
    /\ AtStep(a, c)
    /\ counter[a] + 1 <= MaxSteps
    /\ stored[c][pos[a][c]] # 0
    /\ seen' = [seen EXCEPT ![a][c][pos[a][c]] = stored[c][pos[a][c]]]
    /\ Advance(a, c)
    /\ UNCHANGED <<stored, attempt, task, slots, haunted, failures, crashes>>

\* MUTANT of ExecuteStep: the budget is compared before the step is counted.
ExecuteStepOverBudget(a, c) ==
    /\ AtStep(a, c)
    /\ counter[a] <= MaxSteps
    /\ stored[c][pos[a][c]] = 0
    /\ Becomes(a, c, "executing")
    /\ UNCHANGED <<stored, attempt, pos, seen, slots, haunted, failures, crashes>>

\* or one to execute.
ExecuteStep(a, c) ==
    /\ AtStep(a, c)
    /\ counter[a] + 1 <= MaxSteps
    /\ stored[c][pos[a][c]] = 0
    /\ Becomes(a, c, "executing")
    /\ UNCHANGED <<stored, attempt, pos, seen, slots, haunted, failures, crashes>>

\* Its result is put into the store, whatever the store has got meanwhile.
PersistStep(a, c) ==
    /\ At(a, c, "executing")
    /\ stored' = [stored EXCEPT ![c][pos[a][c]] = a]
    /\ seen' = [seen EXCEPT ![a][c][pos[a][c]] = a]
    /\ Advance(a, c)
    /\ Becomes(a, c, "running")
    /\ UNCHANGED <<attempt, slots, counter, haunted, failures, crashes>>

StepRaises(a, c) ==
    /\ At(a, c, "executing")
    /\ failures < MaxFailures
    /\ failures' = failures + 1
    /\ End(a, c, "failed")
    /\ UNCHANGED counter

Return(a, c) ==
    /\ At(a, c, "running")
    /\ pos[a][c] \notin DOMAIN Body[c]
    /\ End(a, c, "done")
    /\ UNCHANGED <<counter, failures>>

-----------------------------------------------------------------------------
\* asyncio.gather.

\* MUTANT of GatherReturns: the batch is over with its first result.
GatherReturnsEarly(a, c) ==
    /\ At(a, c, "gathering")
    /\ \E b \in Children(c) : task[a][b] = "done"
    /\ Becomes(a, c, "running")
    /\ Advance(a, c)
    /\ UNCHANGED <<stored, attempt, seen, slots, counter, haunted, failures, crashes>>

\* MUTANT of GatherReturns: a branch that failed is waited for.
GatherReturnsOnSuccess(a, c) ==
    /\ At(a, c, "gathering")
    /\ \A b \in Children(c) : task[a][b] = "done"
    /\ Becomes(a, c, "running")
    /\ Advance(a, c)
    /\ UNCHANGED <<stored, attempt, seen, slots, counter, haunted, failures, crashes>>

GatherReturns(a, c) ==
    /\ At(a, c, "gathering")
    /\ \A b \in Children(c) :
         task[a][b] \in IF c \in Collect THEN {"done", "failed"} ELSE {"done"}
    /\ Becomes(a, c, "running")
    /\ Advance(a, c)
    /\ UNCHANGED <<stored, attempt, seen, slots, counter, haunted, failures, crashes>>

\* Fail-fast: the first exception is the batch's; the other branches go on.
GatherRaises(a, c) ==
    /\ At(a, c, "gathering")
    /\ c \notin Collect
    /\ \E b \in Children(c) : task[a][b] = "failed"
    /\ End(a, c, "failed")
    /\ UNCHANGED <<counter, failures>>

-----------------------------------------------------------------------------
\* What a cancelled Root takes along: every context whose batch is awaited, on
\* a chain of batches that leads up to Root.
Awaited(a) ==
    {Root} \cup {b \in Branches : /\ task[a][b] \in Alive
                                  /\ \A c \in Ancestors[b] : task[a][c] = "gathering"}

\* asyncio.wait_for times out, or the run is cancelled.
CancelRoot(a) ==
    /\ a <= attempt
    /\ task[a][Root] \in Alive
    /\ task' = [task EXCEPT ![a] = [c \in Contexts |->
                   IF c \in Awaited(a) THEN "cancelled" ELSE @[c]]]
    /\ slots' = [slots EXCEPT ![a] = @ + Cardinality(Awaited(a) \cap Holders(a))]
    /\ UNCHANGED <<stored, attempt, pos, seen, counter, haunted, failures, crashes>>

\* The process dies, and every task with it.
Crash ==
    /\ crashes < MaxCrashes
    /\ crashes' = crashes + 1
    /\ task' = [a \in Attempts |-> [c \in Contexts |->
                   IF task[a][c] \in Alive THEN "cancelled" ELSE task[a][c]]]
    /\ slots' = [a \in Attempts |-> slots[a] + Cardinality(Holders(a))]
    /\ UNCHANGED <<stored, attempt, pos, seen, counter, haunted, failures>>

\* Nothing runs, and the bounds let nothing start.
Quiescent ==
    /\ attempt = MaxAttempts
    /\ \A a \in Attempts, c \in Contexts : task[a][c] \notin Alive
    /\ UNCHANGED vars

-----------------------------------------------------------------------------
ContextStep(a, c) ==
    \/ StartBatch(a, c)
    \/ AcquireSlot(a, c)
    \/ ExceedBudget(a, c)
    \/ ReplayStep(a, c)
    \/ ExecuteStep(a, c)
    \/ PersistStep(a, c)
    \/ Return(a, c)
    \/ GatherReturns(a, c)
    \/ GatherRaises(a, c)

Next ==
    \/ StartAttempt
    \/ \E a \in Attempts, c \in Contexts : ContextStep(a, c) \/ StepRaises(a, c)
    \/ \E a \in Attempts : CancelRoot(a)
    \/ Crash
    \/ Quiescent

Spec == Init /\ [][Next]_vars

\* The event loop runs every ready task and an awaited step answers.  Nothing is
\* assumed of messages, failures, cancels and crashes.
FairSpec == Spec /\ \A a \in Attempts, c \in Contexts : WF_vars(ContextStep(a, c))

-----------------------------------------------------------------------------
\* Properties.

TypeOK ==
    /\ stored \in [Contexts -> [Length -> 0..MaxAttempts]]
    /\ attempt \in 0..MaxAttempts
    /\ task \in [Attempts -> [Contexts -> TaskStates]]
    /\ pos \in [Attempts -> [Contexts -> Nat \ {0}]]
    /\ seen \in [Attempts -> [Contexts -> [Length -> 0..MaxAttempts]]]
    /\ slots \in [Attempts -> Nat]
    /\ counter \in [Attempts -> Nat]
    /\ haunted \subseteq Attempts
    /\ failures \in Nat
    /\ crashes \in Nat

\* The fan-out of an attempt is bounded exactly: a slot is free or held by one
\* running thunk, whether it returned, raised, was cancelled with the run, or
\* goes on after its batch has failed.
SlotsAccounted ==
    \A a \in Attempts : slots[a] + Cardinality(Holders(a)) = MaxConcurrency

\* The budget is the run's, not the branch's: however the branches interleave,
\* no attempt executes or replays more than MaxSteps steps.
Begun(a) ==
    {s \in Contexts \X Length :
        \/ seen[a][s[1]][s[2]] # 0
        \/ task[a][s[1]] = "executing" /\ pos[a][s[1]] = s[2]}

StepBudget == \A a \in Attempts : Cardinality(Begun(a)) <= MaxSteps

\* The thunks that hold the slots are not all waiting for a slot.  True of
\* bodies with fewer batches inside branches than slots.
SlotDeadlock(a) ==
    /\ slots[a] = 0
    /\ \A b \in Holders(a) :
        /\ task[a][b] = "gathering"
        /\ \E d \in Children(b) : task[a][d] = "waiting"

NoSlotDeadlock == \A a \in Attempts : ~SlotDeadlock(a)

\* What an attempt that returns has built its output from is on record, and
\* stays: a later attempt replays it.  Only an attempt that started beside
\* branches of an earlier one may miss this, since both execute a step then.
Output(a) ==
    {c \in Contexts :
        /\ task[a][c] = "done"
        /\ c # Root => \A d \in Ancestors[c] : task[a][d] = "done"}

OutputIsRecord ==
    \A a \in Attempts \ haunted :
        task[a][Root] = "done" =>
            \A c \in Output(a), i \in Length :
                (i \in DOMAIN Body[c] /\ Body[c][i] = "step") =>
                    seen[a][c][i] # 0 /\ seen[a][c][i] = stored[c][i]

\* The inductive part behind them.  A context gathers at a batch; a branch that
\* was spawned is below a context that gathers, or has failed, or it is over and
\* the context went on behind its batch or was cancelled.
AtBatch(a, c) == pos[a][c] \in DOMAIN Body[c] /\ Body[c][pos[a][c]] = "batch"
Passed(a, c) == \E i \in DOMAIN Body[c] : i < pos[a][c] /\ Body[c][i] = "batch"

Spawned ==
    \A a \in Attempts :
        /\ task[a][Root] # "waiting"
        /\ \A c \in Contexts :
            /\ a > attempt => task[a][c] = "none"
            /\ task[a][c] = "gathering" => AtBatch(a, c)
        /\ \A b \in Branches : task[a][b] # "none" =>
            \/ task[a][Parent[b]] \in {"gathering", "failed"}
            \/ /\ task[a][b] \notin Alive
               /\ Passed(a, Parent[b]) \/ task[a][Parent[b]] = "cancelled"

\* A batch that returned left nothing behind it: below a context that is done,
\* whatever still runs does so under a branch that failed.
NothingLeftBehind ==
    \A a \in Attempts : \A b \in Branches :
        (task[a][b] \in Alive /\ task[a][Parent[b]] \notin Alive) =>
            task[a][Parent[b]] = "failed"

\* An attempt ends: its branches get their slots, and its batches their results.
AttemptEnds ==
    \A a \in Attempts : task[a][Root] \in Alive ~> task[a][Root] \notin Alive
=============================================================================
