------------------------- MODULE WorkflowRunProofs -------------------------
(***************************************************************************)
(* What TLC checks of WorkflowRun on a small host, proved for any number   *)
(* of runs, steps, permits, deliveries, crashes and store faults.          *)
(***************************************************************************)
EXTENDS WorkflowRun, FiniteSetTheorems, TLAPS

\* The building blocks every action is made of.
USE DEF durable, frame, host, bounds, history, vars, MoveTo, ClearFrame, LeaveGate,
        BodyRaises, Begin, Delivered, TaskStep, Finish, NoFrame

-----------------------------------------------------------------------------
\* Every variable keeps its type: the first part of every invariant below.
LEMMA InitTypeOK == Init => TypeOK
  BY RunAssumption DEF Init, TypeOK, Phases, InGate, Steps

\* Each step of a run, of the host and of a user keeps the types.
LEMMA NextTypeOK == TypeOK /\ Replay /\ [Next]_vars => TypeOK'
<1> SUFFICES ASSUME TypeOK, Replay, [Next]_vars
             PROVE  TypeOK'
  OBVIOUS
<1> USE RunAssumption DEF TypeOK, Phases, InGate, Steps
<1>1. ASSUME NEW r \in Runs, RunStep(r)
      PROVE  TypeOK'
  <2>1. CASE MarkRunning(r)
    BY <2>1 DEF MarkRunning
  <2>2. CASE EnterGate(r)
    BY <2>2 DEF EnterGate
  <2>3. CASE ReplayScript(r)
    BY <2>3 DEF ReplayScript
  <2>4. ASSUME NEW v \in Values, AuthorScript(r, v)
        PROVE  TypeOK'
    BY <2>4 DEF AuthorScript
  <2>5. CASE FreezeScript(r)
    BY <2>5 DEF FreezeScript
  <2>6. CASE ReplayStep(r)
    BY <2>6 DEF ReplayStep
  <2>7. ASSUME NEW v \in Values, ExecuteStep(r, v)
        PROVE  TypeOK'
    <3>1. seen' \in [Runs -> [Steps -> Values \cup {NoValue}]]
      BY <2>7 DEF ExecuteStep, Memoised
    <3>2. \/ phase' = [phase EXCEPT ![r] = "putting"] /\ pos' = pos
          \/ phase' = phase /\ pos' = [pos EXCEPT ![r] = pos[r] + 1]
      BY <2>7 DEF ExecuteStep, Memoised
    <3>3. pos' \in [Runs -> 1..(N + 1)] /\ phase' \in [Runs -> Phases]
      <4>1. pos[r] <= N
        BY <2>7 DEF ExecuteStep
      <4>2. CASE phase' = [phase EXCEPT ![r] = "putting"] /\ pos' = pos
        BY <4>2
      <4>3. CASE phase' = phase /\ pos' = [pos EXCEPT ![r] = pos[r] + 1]
        BY <4>1, <4>3
      <4>4. QED
        BY <3>2, <4>2, <4>3
    <3>4. QED
      BY <2>7, <3>1, <3>2, <3>3 DEF ExecuteStep, Memoised
  <2>8. CASE PersistStep(r)
    <3>1. pos[r] \in Steps /\ seen[r][pos[r]] \in Values
      BY <2>8 DEF PersistStep, Replay
    <3>2. stored' \in [Runs -> [Steps -> Values \cup {NoValue}]]
      BY <2>8, <3>1 DEF PersistStep
    <3>3. pos' \in [Runs -> 1..(N + 1)]
      BY <2>8, <3>1 DEF PersistStep
    <3>4. QED
      BY <2>8, <3>2, <3>3 DEF PersistStep
  <2>9. CASE BodyReturns(r)
    BY <2>9 DEF BodyReturns
  <2>10. CASE MarkCompleted(r)
    BY <2>10 DEF MarkCompleted
  <2>11. CASE MarkFailed(r)
    BY <2>11 DEF MarkFailed
  <2>12. CASE SendOutput(r)
    BY <2>12 DEF SendOutput
  <2>13. CASE Report(r)
    BY <2>13 DEF Report
  <2>14. CASE ResumeNext(r)
    BY <2>14 DEF ResumeNext
  <2>15. CASE ResumeCompletes(r)
    BY <2>15 DEF ResumeCompletes
  <2>16. CASE ResumeSkips(r)
    BY <2>16 DEF ResumeSkips
  <2>17. CASE ResumeAborts(r)
    BY <2>17 DEF ResumeAborts, ProcessDies
  <2>18. QED
    BY <1>1, <2>1, <2>2, <2>3, <2>4, <2>5, <2>6, <2>7, <2>8, <2>9, <2>10, <2>11,
       <2>12, <2>13, <2>14, <2>15, <2>16, <2>17 DEF RunStep
<1>2. ASSUME NEW r \in Runs, Environment(r)
      PROVE  TypeOK'
  <2>1. CASE DispatchRefused(r)
    BY <2>1 DEF DispatchRefused
  <2>2. CASE DispatchDuplicate(r)
    BY <2>2 DEF DispatchDuplicate
  <2>3. CASE Dispatch(r)
    <3>1. phase' \in [Runs -> Phases]
      BY <2>3 DEF Dispatch
    <3>2. error' \in [Runs -> {"none", "runtime", "other"}]
      BY <2>3 DEF Dispatch
    <3>3. QED
      BY <2>3, <3>1, <3>2 DEF Dispatch
  <2>4. ASSUME NEW k \in {"runtime", "other"}, BodyFails(r, k)
        PROVE  TypeOK'
    BY <2>4 DEF BodyFails
  <2>5. CASE TimeoutFires(r)
    BY <2>5 DEF TimeoutFires
  <2>6. CASE StoreFault(r)
    <3>1. PICK p \in {"failing", "reporting"} : phase' = [phase EXCEPT ![r] = p]
      BY <2>6 DEF StoreFault, Memoised
    <3>2. error' \in [Runs -> {"none", "runtime", "other"}]
      BY <2>6 DEF StoreFault, Memoised
    <3>3. permits' \in Nat /\ stranded' \in SUBSET Runs /\ faults' \in Nat
      BY <2>6 DEF StoreFault, Memoised
    <3>4. UNCHANGED <<durable, frame, host, answers, live, deliveries, crashes>>
      BY <2>6 DEF StoreFault, Memoised
    <3>5. QED
      BY <3>1, <3>2, <3>3, <3>4
  <2>7. CASE SendRaises(r)
    BY <2>7 DEF SendRaises
  <2>8. CASE Cancel(r)
    BY <2>8 DEF Cancel
  <2>9. QED
    BY <1>2, <2>1, <2>2, <2>3, <2>4, <2>5, <2>6, <2>7, <2>8 DEF Environment
<1>3. CASE Crash
  BY <1>3 DEF Crash, ProcessDies
<1>4. CASE Restart
  BY <1>4 DEF Restart
<1>5. CASE StartServing
  BY <1>5 DEF StartServing
<1>6. CASE Quiescent \/ UNCHANGED vars
  BY <1>6 DEF Quiescent
<1>7. QED
  BY <1>1, <1>2, <1>3, <1>4, <1>5, <1>6 DEF Next

-----------------------------------------------------------------------------
\* The phase of a task tells what the journal says of its run.
LEMMA NextJournalAgrees == TypeOK /\ JournalAgrees /\ [Next]_vars => JournalAgrees'
<1> SUFFICES ASSUME TypeOK, JournalAgrees, [Next]_vars
             PROVE  JournalAgrees'
  OBVIOUS
<1> USE RunAssumption DEF TypeOK, JournalAgrees, InGate
<1>1. ASSUME NEW r \in Runs, RunStep(r)
      PROVE  JournalAgrees'
  <2>1. CASE MarkRunning(r)
    BY <2>1 DEF MarkRunning
  <2>2. CASE EnterGate(r)
    BY <2>2 DEF EnterGate
  <2>3. CASE ReplayScript(r)
    BY <2>3 DEF ReplayScript
  <2>4. ASSUME NEW v \in Values, AuthorScript(r, v)
        PROVE  JournalAgrees'
    BY <2>4 DEF AuthorScript
  <2>5. CASE FreezeScript(r)
    BY <2>5 DEF FreezeScript
  <2>6. CASE ReplayStep(r)
    BY <2>6 DEF ReplayStep
  <2>7. ASSUME NEW v \in Values, ExecuteStep(r, v)
        PROVE  JournalAgrees'
    BY <2>7 DEF ExecuteStep, Memoised
  <2>8. CASE PersistStep(r)
    BY <2>8 DEF PersistStep
  <2>9. CASE BodyReturns(r)
    BY <2>9 DEF BodyReturns
  <2>10. CASE MarkCompleted(r)
    BY <2>10 DEF MarkCompleted
  <2>11. CASE MarkFailed(r)
    BY <2>11 DEF MarkFailed
  <2>12. CASE SendOutput(r)
    BY <2>12 DEF SendOutput
  <2>13. CASE Report(r)
    BY <2>13 DEF Report
  <2>14. CASE ResumeNext(r)
    BY <2>14 DEF ResumeNext
  <2>15. CASE ResumeCompletes(r)
    BY <2>15 DEF ResumeCompletes
  <2>16. CASE ResumeSkips(r)
    BY <2>16 DEF ResumeSkips
  <2>17. CASE ResumeAborts(r)
    BY <2>17 DEF ResumeAborts, ProcessDies
  <2>18. QED
    BY <1>1, <2>1, <2>2, <2>3, <2>4, <2>5, <2>6, <2>7, <2>8, <2>9, <2>10,
       <2>11, <2>12, <2>13, <2>14, <2>15, <2>16, <2>17 DEF RunStep
<1>2. ASSUME NEW r \in Runs, Environment(r)
      PROVE  JournalAgrees'
  <2>1. CASE DispatchRefused(r)
    BY <2>1 DEF DispatchRefused
  <2>2. CASE DispatchDuplicate(r)
    BY <2>2 DEF DispatchDuplicate
  <2>3. CASE Dispatch(r)
    BY <2>3 DEF Dispatch
  <2>4. ASSUME NEW k \in {"runtime", "other"}, BodyFails(r, k)
        PROVE  JournalAgrees'
    BY <2>4 DEF BodyFails
  <2>5. CASE TimeoutFires(r)
    BY <2>5 DEF TimeoutFires
  <2>6. CASE StoreFault(r)
    BY <2>6 DEF StoreFault, Memoised
  <2>7. CASE SendRaises(r)
    BY <2>7 DEF SendRaises
  <2>8. CASE Cancel(r)
    BY <2>8 DEF Cancel
  <2>9. QED
    BY <1>2, <2>1, <2>2, <2>3, <2>4, <2>5, <2>6, <2>7, <2>8 DEF
       Environment
<1>3. CASE Crash
  BY <1>3 DEF Crash, ProcessDies
<1>4. CASE Restart
  BY <1>4 DEF Restart
<1>5. CASE StartServing
  BY <1>5 DEF StartServing
<1>6. CASE Quiescent \/ UNCHANGED vars
  BY <1>6 DEF Quiescent
<1>7. QED
  BY <1>1, <1>2, <1>3, <1>4, <1>5, <1>6 DEF Next

-----------------------------------------------------------------------------
\* A memoised body has seen what the store holds, and nothing else.
LEMMA NextReplay == TypeOK /\ Replay /\ [Next]_vars => Replay'
<1> SUFFICES ASSUME TypeOK, Replay, [Next]_vars
             PROVE  Replay'
  OBVIOUS
<1> USE RunAssumption DEF TypeOK, Replay, Steps, Memoised, InGate
<1>1. ASSUME NEW r \in Runs, RunStep(r)
      PROVE  Replay'
  <2>1. CASE MarkRunning(r)
    BY <2>1 DEF MarkRunning
  <2>2. CASE EnterGate(r)
    BY <2>2 DEF EnterGate
  <2>3. CASE ReplayScript(r)
    BY <2>3 DEF ReplayScript
  <2>4. ASSUME NEW v \in Values, AuthorScript(r, v)
        PROVE  Replay'
    BY <2>4 DEF AuthorScript
  <2>5. CASE FreezeScript(r)
    BY <2>5 DEF FreezeScript
  <2>6. CASE ReplayStep(r)
    BY <2>6 DEF ReplayStep
  <2>7. ASSUME NEW v \in Values, ExecuteStep(r, v)
        PROVE  Replay'
    BY <2>7 DEF ExecuteStep
  <2>8. CASE PersistStep(r)
    BY <2>8 DEF PersistStep
  <2>9. CASE BodyReturns(r)
    BY <2>9 DEF BodyReturns
  <2>10. CASE MarkCompleted(r)
    BY <2>10 DEF MarkCompleted
  <2>11. CASE MarkFailed(r)
    BY <2>11 DEF MarkFailed
  <2>12. CASE SendOutput(r)
    BY <2>12 DEF SendOutput
  <2>13. CASE Report(r)
    BY <2>13 DEF Report
  <2>14. CASE ResumeNext(r)
    BY <2>14 DEF ResumeNext
  <2>15. CASE ResumeCompletes(r)
    BY <2>15 DEF ResumeCompletes
  <2>16. CASE ResumeSkips(r)
    BY <2>16 DEF ResumeSkips
  <2>17. CASE ResumeAborts(r)
    BY <2>17 DEF ResumeAborts, ProcessDies
  <2>18. QED
    BY <1>1, <2>1, <2>2, <2>3, <2>4, <2>5, <2>6, <2>7, <2>8, <2>9, <2>10,
       <2>11, <2>12, <2>13, <2>14, <2>15, <2>16, <2>17 DEF RunStep
<1>2. ASSUME NEW r \in Runs, Environment(r)
      PROVE  Replay'
  <2>1. CASE DispatchRefused(r)
    BY <2>1 DEF DispatchRefused
  <2>2. CASE DispatchDuplicate(r)
    BY <2>2 DEF DispatchDuplicate
  <2>3. CASE Dispatch(r)
    BY <2>3 DEF Dispatch
  <2>4. ASSUME NEW k \in {"runtime", "other"}, BodyFails(r, k)
        PROVE  Replay'
    BY <2>4 DEF BodyFails
  <2>5. CASE TimeoutFires(r)
    BY <2>5 DEF TimeoutFires
  <2>6. CASE StoreFault(r)
    BY <2>6 DEF StoreFault
  <2>7. CASE SendRaises(r)
    BY <2>7 DEF SendRaises
  <2>8. CASE Cancel(r)
    BY <2>8 DEF Cancel
  <2>9. QED
    BY <1>2, <2>1, <2>2, <2>3, <2>4, <2>5, <2>6, <2>7, <2>8 DEF
       Environment
<1>3. CASE Crash
  BY <1>3 DEF Crash, ProcessDies
<1>4. CASE Restart
  BY <1>4 DEF Restart
<1>5. CASE StartServing
  BY <1>5 DEF StartServing
<1>6. CASE Quiescent \/ UNCHANGED vars
  BY <1>6 DEF Quiescent
<1>7. QED
  BY <1>1, <1>2, <1>3, <1>4, <1>5, <1>6 DEF Next

-----------------------------------------------------------------------------
\* RunInv is inductive.
LEMMA InitRunInv == Init => RunInv
<1> SUFFICES ASSUME Init
             PROVE  RunInv
  OBVIOUS
<1>1. TypeOK
  BY InitTypeOK
<1>2. Replay
  BY RunAssumption DEF Init, Replay, Steps, InGate
<1>3. JournalAgrees
  BY DEF Init, JournalAgrees, InGate
<1>4. QED
  BY <1>1, <1>2, <1>3 DEF RunInv

\* So it keeps the inductive invariant.
LEMMA NextRunInv == RunInv /\ [Next]_vars => RunInv'
  BY NextTypeOK, NextReplay, NextJournalAgrees DEF RunInv

\* The inductive invariant: types, what a replaying body agrees with, and what the
\* journal tells of the tasks that are alive.
THEOREM RunInvariant == Spec => []RunInv
  BY InitRunInv, NextRunInv, PTL DEF Spec

\* The stores, the process and the tasks hold only what the code puts there.
THEOREM TypeCorrect == Spec => []TypeOK
<1>1. RunInv => TypeOK
  BY DEF RunInv
<1>2. QED
  BY <1>1, RunInvariant, PTL

-----------------------------------------------------------------------------
\* A step of a run is a step of its ledger entry, or the ledger does not move.
LEMMA LedgerUntouched ==
    UNCHANGED <<journal, stored, answers>> => UNCHANGED Ledger!ledgerVars
  BY DEF Ledger!ledgerVars

\* Every step of the runtime is a step of the ledger, or leaves it as it is.
LEMMA LedgerStep == RunInv /\ [Next]_vars => [Ledger!LedgerNext]_(Ledger!ledgerVars)
<1> SUFFICES ASSUME RunInv, [Next]_vars
             PROVE  [Ledger!LedgerNext]_(Ledger!ledgerVars)
  OBVIOUS
<1> USE DEF RunInv
<1>1. ASSUME NEW r \in Runs, MarkRunning(r)
      PROVE  [Ledger!LedgerNext]_(Ledger!ledgerVars)
  <2>1. CASE r \in LedgerRuns
    <3>1. Ledger!Open(r)
      BY <1>1, <2>1 DEF MarkRunning, TypeOK, Ledger!Open, LedgerRuns
    <3>2. QED
      BY <2>1, <3>1 DEF Ledger!LedgerNext
  <2>2. CASE r \notin LedgerRuns
    BY <1>1, <2>2 DEF MarkRunning, TypeOK, Ledger!ledgerVars, LedgerRuns
  <2>3. QED
    BY <2>1, <2>2
<1>2. ASSUME NEW r \in Runs, PersistStep(r)
      PROVE  [Ledger!LedgerNext]_(Ledger!ledgerVars)
  <2>1. /\ r \in LedgerRuns
        /\ pos[r] \in Steps
        /\ seen[r][pos[r]] \in Values
        /\ stored[r][pos[r]] = NoValue
        /\ journal[r] = "running"
    BY <1>2 DEF PersistStep, Replay, JournalAgrees, InGate, LedgerRuns
  <2>2. PICK i \in Steps, v \in Values : i = pos[r] /\ v = seen[r][pos[r]]
    BY <2>1
  <2>3. Ledger!Record(r, i, v)
    BY <1>2, <2>1, <2>2 DEF PersistStep, TypeOK, Ledger!Record, LedgerRuns
  <2>4. QED
    BY <2>1, <2>3 DEF Ledger!LedgerNext
<1>3. ASSUME NEW r \in Runs, MarkCompleted(r)
      PROVE  [Ledger!LedgerNext]_(Ledger!ledgerVars)
  <2>1. CASE r \in LedgerRuns
    <3>1. journal[r] = "running" /\ pos[r] = N + 1
      BY <1>3 DEF MarkCompleted, Replay, JournalAgrees
    <3>2. \A i \in Steps : stored[r][i] # NoValue
      BY <2>1, <3>1, RunAssumption DEF Replay, LedgerRuns, Steps
    <3>3. Ledger!Complete(r)
      BY <1>3, <2>1, <3>1, <3>2 DEF MarkCompleted, TypeOK, Ledger!Complete, LedgerRuns
    <3>4. QED
      BY <2>1, <3>3 DEF Ledger!LedgerNext
  <2>2. CASE r \notin LedgerRuns
    BY <1>3, <2>2 DEF MarkCompleted, TypeOK, Ledger!ledgerVars, LedgerRuns
  <2>3. QED
    BY <2>1, <2>2
<1>4. ASSUME NEW r \in Runs, MarkFailed(r)
      PROVE  [Ledger!LedgerNext]_(Ledger!ledgerVars)
  <2>1. CASE r \in LedgerRuns
    <3>1. journal[r] = "running"
      BY <1>4 DEF MarkFailed, JournalAgrees
    <3>2. Ledger!Fail(r)
      BY <1>4, <2>1, <3>1 DEF MarkFailed, TypeOK, Ledger!Fail, LedgerRuns
    <3>3. QED
      BY <2>1, <3>2 DEF Ledger!LedgerNext
  <2>2. CASE r \notin LedgerRuns
    BY <1>4, <2>2 DEF MarkFailed, TypeOK, Ledger!ledgerVars, LedgerRuns
  <2>3. QED
    BY <2>1, <2>2
<1>5. ASSUME NEW r \in Runs, SendOutput(r)
      PROVE  [Ledger!LedgerNext]_(Ledger!ledgerVars)
  <2>1. CASE r \in LedgerRuns
    <3>1. journal[r] = "completed" /\ pos[r] = N + 1
      BY <1>5 DEF SendOutput, Replay, JournalAgrees
    <3>2. \A i \in Steps : seen[r][i] = stored[r][i]
      BY <2>1, <3>1, RunAssumption DEF Replay, LedgerRuns, Steps
    <3>3. seen[r] = stored[r]
      BY <3>2 DEF TypeOK
    <3>4. Ledger!Deliver(r)
      BY <1>5, <2>1, <3>1, <3>3 DEF SendOutput, TypeOK, Ledger!Deliver, LedgerRuns
    <3>5. QED
      BY <2>1, <3>4 DEF Ledger!LedgerNext
  <2>2. CASE r \notin LedgerRuns
    BY <1>5, <2>2 DEF SendOutput, TypeOK, Ledger!ledgerVars, LedgerRuns
  <2>3. QED
    BY <2>1, <2>2
\* FreezeScript writes the script store, which is not part of the ledger.
<1>6. ASSUME NEW r \in Runs, RunStep(r),
             ~MarkRunning(r), ~PersistStep(r), ~MarkCompleted(r), ~MarkFailed(r),
             ~SendOutput(r)
      PROVE  UNCHANGED <<journal, stored, answers>>
  BY <1>6 DEF RunStep, EnterGate, ReplayScript, AuthorScript, FreezeScript, ReplayStep,
     ExecuteStep, BodyReturns, Report, ResumeNext, ResumeCompletes, ResumeSkips,
     ResumeAborts, ProcessDies
<1>7. ASSUME NEW r \in Runs, Environment(r)
      PROVE  UNCHANGED <<journal, stored, answers>>
  BY <1>7 DEF Environment, DispatchRefused, DispatchDuplicate, Dispatch, BodyFails,
     TimeoutFires, StoreFault, SendRaises, Cancel
<1>8. CASE Crash \/ Restart \/ StartServing \/ Quiescent \/ UNCHANGED vars
  <2>1. UNCHANGED <<journal, stored, answers>>
    BY <1>8 DEF Crash, ProcessDies, Restart, StartServing, Quiescent
  <2>2. QED
    BY <2>1, LedgerUntouched
<1>9. QED
  BY <1>1, <1>2, <1>3, <1>4, <1>5, <1>6, <1>7, <1>8, LedgerUntouched DEF Next

\* Every behaviour of the run machine, seen through the journal, the step store
\* and the channel, is a behaviour of the ledger: what a user receives for a
\* memoised run is its one durable record, of a run marked complete.
THEOREM RunImplementsLedger == Spec => ImplementsLedger
<1>1. Init => Ledger!LedgerInit
  BY DEF Init, Ledger!LedgerInit, LedgerRuns
<1>2. QED
  BY <1>1, LedgerStep, RunInvariant, PTL DEF Spec, ImplementsLedger, Ledger!LedgerSpec

-----------------------------------------------------------------------------
\* Who owns a running record.
LEMMA NextOwned == RunInv /\ Owned /\ [Next]_vars => Owned'
<1> SUFFICES ASSUME RunInv, Owned, [Next]_vars
             PROVE  Owned'
  OBVIOUS
<1> USE RunAssumption DEF RunInv, TypeOK, JournalAgrees, Owned, Active, InGate, Phases
<1>1. ASSUME NEW r \in Runs, RunStep(r)
      PROVE  Owned'
  <2>1. CASE MarkRunning(r)
    BY <2>1 DEF MarkRunning
  <2>2. CASE EnterGate(r)
    BY <2>2 DEF EnterGate
  <2>3. CASE ReplayScript(r)
    BY <2>3 DEF ReplayScript
  <2>4. ASSUME NEW v \in Values, AuthorScript(r, v)
        PROVE  Owned'
    BY <2>4 DEF AuthorScript
  <2>5. CASE FreezeScript(r)
    BY <2>5 DEF FreezeScript
  <2>6. CASE ReplayStep(r)
    BY <2>6 DEF ReplayStep
  <2>7. ASSUME NEW v \in Values, ExecuteStep(r, v)
        PROVE  Owned'
    BY <2>7 DEF ExecuteStep, Memoised
  <2>8. CASE PersistStep(r)
    BY <2>8 DEF PersistStep
  <2>9. CASE BodyReturns(r)
    BY <2>9 DEF BodyReturns
  <2>10. CASE MarkCompleted(r)
    BY <2>10 DEF MarkCompleted
  <2>11. CASE MarkFailed(r)
    BY <2>11 DEF MarkFailed
  <2>12. CASE SendOutput(r)
    BY <2>12 DEF SendOutput
  <2>13. CASE Report(r)
    BY <2>13 DEF Report
  <2>14. CASE ResumeNext(r)
    BY <2>14 DEF ResumeNext
  <2>15. CASE ResumeCompletes(r)
    BY <2>15 DEF ResumeCompletes
  <2>16. CASE ResumeSkips(r)
    BY <2>16 DEF ResumeSkips
  <2>17. CASE ResumeAborts(r)
    BY <2>17 DEF ResumeAborts, ProcessDies
  <2>18. QED
    BY <1>1, <2>1, <2>2, <2>3, <2>4, <2>5, <2>6, <2>7, <2>8, <2>9, <2>10,
       <2>11, <2>12, <2>13, <2>14, <2>15, <2>16, <2>17 DEF RunStep
<1>2. ASSUME NEW r \in Runs, Environment(r)
      PROVE  Owned'
  <2>1. CASE DispatchRefused(r)
    BY <2>1 DEF DispatchRefused
  <2>2. CASE DispatchDuplicate(r)
    BY <2>2 DEF DispatchDuplicate
  <2>3. CASE Dispatch(r)
    BY <2>3 DEF Dispatch
  <2>4. ASSUME NEW k \in {"runtime", "other"}, BodyFails(r, k)
        PROVE  Owned'
    BY <2>4 DEF BodyFails
  <2>5. CASE TimeoutFires(r)
    BY <2>5 DEF TimeoutFires
  <2>6. CASE StoreFault(r)
    BY <2>6 DEF StoreFault, Memoised
  <2>7. CASE SendRaises(r)
    BY <2>7 DEF SendRaises
  <2>8. CASE Cancel(r)
    BY <2>8 DEF Cancel
  <2>9. QED
    BY <1>2, <2>1, <2>2, <2>3, <2>4, <2>5, <2>6, <2>7, <2>8 DEF
       Environment
<1>3. CASE Crash
  BY <1>3 DEF Crash, ProcessDies
<1>4. CASE Restart
  BY <1>4 DEF Restart
<1>5. CASE StartServing
  BY <1>5 DEF StartServing
<1>6. CASE Quiescent \/ UNCHANGED vars
  BY <1>6 DEF Quiescent
<1>7. QED
  BY <1>1, <1>2, <1>3, <1>4, <1>5, <1>6 DEF Next

\* Whoever reads "running" in the journal of a serving host finds the run live,
\* or abandoned by a cancel, a failing journal or a resume that skipped it.
THEOREM RunningIsAccounted == Spec => []RunningAccounted
<1>1. Init => Owned
  BY DEF Init, Owned, Active
<1>2. Owned => RunningAccounted
  BY DEF Owned, RunningAccounted
<1>3. QED
  BY <1>1, <1>2, NextOwned, RunInvariant, PTL DEF Spec

-----------------------------------------------------------------------------
\* Resuming goes through the records that say "running", and no others.
LEMMA NextResumesRunning ==
    RunInv /\ Owned /\ ResumesRunning /\ [Next]_vars => ResumesRunning'
<1> SUFFICES ASSUME RunInv, Owned, ResumesRunning, [Next]_vars
             PROVE  ResumesRunning'
  OBVIOUS
<1> USE RunAssumption DEF RunInv, TypeOK, JournalAgrees, Owned, ResumesRunning, Active, InGate
<1>1. ASSUME NEW r \in Runs, RunStep(r)
      PROVE  ResumesRunning'
  <2>1. CASE MarkRunning(r)
    BY <2>1 DEF MarkRunning
  <2>2. CASE EnterGate(r)
    BY <2>2 DEF EnterGate
  <2>3. CASE ReplayScript(r)
    BY <2>3 DEF ReplayScript
  <2>4. ASSUME NEW v \in Values, AuthorScript(r, v)
        PROVE  ResumesRunning'
    BY <2>4 DEF AuthorScript
  <2>5. CASE FreezeScript(r)
    BY <2>5 DEF FreezeScript
  <2>6. CASE ReplayStep(r)
    BY <2>6 DEF ReplayStep
  <2>7. ASSUME NEW v \in Values, ExecuteStep(r, v)
        PROVE  ResumesRunning'
    BY <2>7 DEF ExecuteStep, Memoised
  <2>8. CASE PersistStep(r)
    BY <2>8 DEF PersistStep
  <2>9. CASE BodyReturns(r)
    BY <2>9 DEF BodyReturns
  <2>10. CASE MarkCompleted(r)
    BY <2>10 DEF MarkCompleted
  <2>11. CASE MarkFailed(r)
    BY <2>11 DEF MarkFailed
  <2>12. CASE SendOutput(r)
    BY <2>12 DEF SendOutput
  <2>13. CASE Report(r)
    BY <2>13 DEF Report
  <2>14. CASE ResumeNext(r)
    BY <2>14 DEF ResumeNext
  <2>15. CASE ResumeCompletes(r)
    BY <2>15 DEF ResumeCompletes
  <2>16. CASE ResumeSkips(r)
    BY <2>16 DEF ResumeSkips
  <2>17. CASE ResumeAborts(r)
    BY <2>17 DEF ResumeAborts, ProcessDies
  <2>18. QED
    BY <1>1, <2>1, <2>2, <2>3, <2>4, <2>5, <2>6, <2>7, <2>8, <2>9, <2>10,
       <2>11, <2>12, <2>13, <2>14, <2>15, <2>16, <2>17 DEF RunStep
<1>2. ASSUME NEW r \in Runs, Environment(r)
      PROVE  ResumesRunning'
  <2>1. CASE DispatchRefused(r)
    BY <2>1 DEF DispatchRefused
  <2>2. CASE DispatchDuplicate(r)
    BY <2>2 DEF DispatchDuplicate
  <2>3. CASE Dispatch(r)
    BY <2>3 DEF Dispatch
  <2>4. ASSUME NEW k \in {"runtime", "other"}, BodyFails(r, k)
        PROVE  ResumesRunning'
    BY <2>4 DEF BodyFails
  <2>5. CASE TimeoutFires(r)
    BY <2>5 DEF TimeoutFires
  <2>6. CASE StoreFault(r)
    <3>1. /\ journal' = journal /\ toResume' = toResume /\ proc' = proc
          /\ phase[r] # "idle"
          /\ \/ phase' = [phase EXCEPT ![r] = "failing"] /\ phase[r] \in InGate
             \/ phase' = [phase EXCEPT ![r] = "reporting"]
      BY <2>6 DEF StoreFault, Memoised, BodyRaises, MoveTo, TaskStep, durable, host
    <3>2. QED
      BY <3>1
  <2>7. CASE SendRaises(r)
    BY <2>7 DEF SendRaises
  <2>8. CASE Cancel(r)
    BY <2>8 DEF Cancel
  <2>9. QED
    BY <1>2, <2>1, <2>2, <2>3, <2>4, <2>5, <2>6, <2>7, <2>8 DEF
       Environment
<1>3. CASE Crash
  BY <1>3 DEF Crash, ProcessDies
<1>4. CASE Restart
  BY <1>4 DEF Restart
<1>5. CASE StartServing
  BY <1>5 DEF StartServing
<1>6. CASE Quiescent \/ UNCHANGED vars
  BY <1>6 DEF Quiescent
<1>7. QED
  BY <1>1, <1>2, <1>3, <1>4, <1>5, <1>6 DEF Next

\* A script is on its way to its store only while the store has none.
LEMMA NextFreezesOnce == RunInv /\ FreezesOnce /\ [Next]_vars => FreezesOnce'
<1> SUFFICES ASSUME RunInv, FreezesOnce, [Next]_vars
             PROVE  FreezesOnce'
  OBVIOUS
<1> USE RunAssumption DEF RunInv, TypeOK, FreezesOnce
<1>1. ASSUME NEW r \in Runs, RunStep(r)
      PROVE  FreezesOnce'
  <2>1. CASE MarkRunning(r)
    BY <2>1 DEF MarkRunning
  <2>2. CASE EnterGate(r)
    BY <2>2 DEF EnterGate
  <2>3. CASE ReplayScript(r)
    BY <2>3 DEF ReplayScript
  <2>4. ASSUME NEW v \in Values, AuthorScript(r, v)
        PROVE  FreezesOnce'
    BY <2>4 DEF AuthorScript
  <2>5. CASE FreezeScript(r)
    BY <2>5 DEF FreezeScript
  <2>6. CASE ReplayStep(r)
    BY <2>6 DEF ReplayStep
  <2>7. ASSUME NEW v \in Values, ExecuteStep(r, v)
        PROVE  FreezesOnce'
    BY <2>7 DEF ExecuteStep, Memoised
  <2>8. CASE PersistStep(r)
    BY <2>8 DEF PersistStep
  <2>9. CASE BodyReturns(r)
    BY <2>9 DEF BodyReturns
  <2>10. CASE MarkCompleted(r)
    BY <2>10 DEF MarkCompleted
  <2>11. CASE MarkFailed(r)
    BY <2>11 DEF MarkFailed
  <2>12. CASE SendOutput(r)
    BY <2>12 DEF SendOutput
  <2>13. CASE Report(r)
    BY <2>13 DEF Report
  <2>14. CASE ResumeNext(r)
    BY <2>14 DEF ResumeNext
  <2>15. CASE ResumeCompletes(r)
    BY <2>15 DEF ResumeCompletes
  <2>16. CASE ResumeSkips(r)
    BY <2>16 DEF ResumeSkips
  <2>17. CASE ResumeAborts(r)
    BY <2>17 DEF ResumeAborts, ProcessDies
  <2>18. QED
    BY <1>1, <2>1, <2>2, <2>3, <2>4, <2>5, <2>6, <2>7, <2>8, <2>9, <2>10,
       <2>11, <2>12, <2>13, <2>14, <2>15, <2>16, <2>17 DEF RunStep
<1>2. ASSUME NEW r \in Runs, Environment(r)
      PROVE  FreezesOnce'
  <2>1. CASE DispatchRefused(r)
    BY <2>1 DEF DispatchRefused
  <2>2. CASE DispatchDuplicate(r)
    BY <2>2 DEF DispatchDuplicate
  <2>3. CASE Dispatch(r)
    BY <2>3 DEF Dispatch
  <2>4. ASSUME NEW k \in {"runtime", "other"}, BodyFails(r, k)
        PROVE  FreezesOnce'
    BY <2>4 DEF BodyFails
  <2>5. CASE TimeoutFires(r)
    BY <2>5 DEF TimeoutFires
  <2>6. CASE StoreFault(r)
    BY <2>6 DEF StoreFault, Memoised
  <2>7. CASE SendRaises(r)
    BY <2>7 DEF SendRaises
  <2>8. CASE Cancel(r)
    BY <2>8 DEF Cancel
  <2>9. QED
    BY <1>2, <2>1, <2>2, <2>3, <2>4, <2>5, <2>6, <2>7, <2>8 DEF
       Environment
<1>3. CASE Crash
  BY <1>3 DEF Crash, ProcessDies
<1>4. CASE Restart
  BY <1>4 DEF Restart
<1>5. CASE StartServing
  BY <1>5 DEF StartServing
<1>6. CASE Quiescent \/ UNCHANGED vars
  BY <1>6 DEF Quiescent
<1>7. QED
  BY <1>1, <1>2, <1>3, <1>4, <1>5, <1>6 DEF Next

\* The invariants of the run machine together.
LEMMA AllInvariants ==
    Spec => [](RunInv /\ Owned /\ ResumesRunning /\ FreezesOnce)
<1>1. Init => Owned /\ ResumesRunning /\ FreezesOnce
  BY DEF Init, Owned, ResumesRunning, FreezesOnce, Active
<1>2. QED
  BY <1>1, InitRunInv, NextRunInv, NextOwned, NextResumesRunning, NextFreezesOnce, PTL
     DEF Spec

-----------------------------------------------------------------------------
\* While a host resumes, the journal of a run that is over stays.
LEMMA JournalMoves ==
    ASSUME RunInv, ResumesRunning, [Next]_vars, proc = "resuming",
           NEW q \in Runs, journal[q] \in {"completed", "failed"}
    PROVE  journal'[q] = journal[q]
<1> USE RunAssumption DEF RunInv, TypeOK, JournalAgrees, ResumesRunning, InGate
<1>1. ASSUME NEW r \in Runs, RunStep(r)
      PROVE  journal'[q] = journal[q]
  <2>1. CASE MarkRunning(r)
    BY <2>1 DEF MarkRunning
  <2>2. CASE EnterGate(r)
    BY <2>2 DEF EnterGate
  <2>3. CASE ReplayScript(r)
    BY <2>3 DEF ReplayScript
  <2>4. ASSUME NEW v \in Values, AuthorScript(r, v)
        PROVE  journal'[q] = journal[q]
    BY <2>4 DEF AuthorScript
  <2>5. CASE FreezeScript(r)
    BY <2>5 DEF FreezeScript
  <2>6. CASE ReplayStep(r)
    BY <2>6 DEF ReplayStep
  <2>7. ASSUME NEW v \in Values, ExecuteStep(r, v)
        PROVE  journal'[q] = journal[q]
    BY <2>7 DEF ExecuteStep, Memoised
  <2>8. CASE PersistStep(r)
    BY <2>8 DEF PersistStep
  <2>9. CASE BodyReturns(r)
    BY <2>9 DEF BodyReturns
  <2>10. CASE MarkCompleted(r)
    BY <2>10 DEF MarkCompleted
  <2>11. CASE MarkFailed(r)
    BY <2>11 DEF MarkFailed
  <2>12. CASE SendOutput(r)
    BY <2>12 DEF SendOutput
  <2>13. CASE Report(r)
    BY <2>13 DEF Report
  <2>14. CASE ResumeNext(r)
    BY <2>14 DEF ResumeNext
  <2>15. CASE ResumeCompletes(r)
    BY <2>15 DEF ResumeCompletes
  <2>16. CASE ResumeSkips(r)
    BY <2>16 DEF ResumeSkips
  <2>17. CASE ResumeAborts(r)
    BY <2>17 DEF ResumeAborts, ProcessDies
  <2>18. QED
    BY <1>1, <2>1, <2>2, <2>3, <2>4, <2>5, <2>6, <2>7, <2>8, <2>9, <2>10,
       <2>11, <2>12, <2>13, <2>14, <2>15, <2>16, <2>17 DEF RunStep
<1>2. ASSUME NEW r \in Runs, Environment(r)
      PROVE  journal'[q] = journal[q]
  <2>1. CASE DispatchRefused(r)
    BY <2>1 DEF DispatchRefused
  <2>2. CASE DispatchDuplicate(r)
    BY <2>2 DEF DispatchDuplicate
  <2>3. CASE Dispatch(r)
    BY <2>3 DEF Dispatch
  <2>4. ASSUME NEW k \in {"runtime", "other"}, BodyFails(r, k)
        PROVE  journal'[q] = journal[q]
    BY <2>4 DEF BodyFails
  <2>5. CASE TimeoutFires(r)
    BY <2>5 DEF TimeoutFires
  <2>6. CASE StoreFault(r)
    BY <2>6 DEF StoreFault, Memoised
  <2>7. CASE SendRaises(r)
    BY <2>7 DEF SendRaises
  <2>8. CASE Cancel(r)
    BY <2>8 DEF Cancel
  <2>9. QED
    BY <1>2, <2>1, <2>2, <2>3, <2>4, <2>5, <2>6, <2>7, <2>8 DEF
       Environment
<1>3. CASE Crash
  BY <1>3 DEF Crash, ProcessDies
<1>4. CASE Restart
  BY <1>4 DEF Restart
<1>5. CASE StartServing
  BY <1>5 DEF StartServing
<1>6. CASE Quiescent \/ UNCHANGED vars
  BY <1>6 DEF Quiescent
<1>7. QED
  BY <1>1, <1>2, <1>3, <1>4, <1>5, <1>6 DEF Next

\* A host that resumes re-opens no run that had reached its terminal mark: a
\* cleanly failed run is not retried, a completed one is not repeated.
THEOREM ResumesOnlyIncomplete == Spec => ResumeOnlyIncomplete
<1>1. RunInv /\ ResumesRunning /\ [Next]_vars =>
        [\A r \in Runs :
           (proc = "resuming" /\ journal[r] \in {"completed", "failed"}) =>
              journal'[r] = journal[r]]_vars
  BY JournalMoves
<1>2. QED
  BY <1>1, AllInvariants, PTL DEF Spec, ResumeOnlyIncomplete

-----------------------------------------------------------------------------
\* A script that starts to run is the one on record.
LEMMA BodyStarts ==
    ASSUME RunInv, FreezesOnce, [Next]_vars,
           NEW q \in Runs, Mode[q] = "llm_authored", phase[q] # "body", phase'[q] = "body"
    PROVE  body'[q] = script'[q] /\ script[q] \in {NoValue, script'[q]}
<1> USE RunAssumption DEF RunInv, TypeOK, Replay, Memoised, FreezesOnce
<1>1. ASSUME NEW r \in Runs, RunStep(r)
      PROVE  body'[q] = script'[q] /\ script[q] \in {NoValue, script'[q]}
  <2>1. CASE MarkRunning(r)
    BY <2>1 DEF MarkRunning
  <2>2. CASE EnterGate(r)
    BY <2>2 DEF EnterGate
  <2>3. CASE ReplayScript(r)
    BY <2>3 DEF ReplayScript
  <2>4. ASSUME NEW v \in Values, AuthorScript(r, v)
        PROVE  body'[q] = script'[q] /\ script[q] \in {NoValue, script'[q]}
    BY <2>4 DEF AuthorScript
  <2>5. CASE FreezeScript(r)
    BY <2>5 DEF FreezeScript
  <2>6. CASE ReplayStep(r)
    BY <2>6 DEF ReplayStep
  <2>7. ASSUME NEW v \in Values, ExecuteStep(r, v)
        PROVE  body'[q] = script'[q] /\ script[q] \in {NoValue, script'[q]}
    BY <2>7 DEF ExecuteStep
  <2>8. CASE PersistStep(r)
    BY <2>8 DEF PersistStep
  <2>9. CASE BodyReturns(r)
    BY <2>9 DEF BodyReturns
  <2>10. CASE MarkCompleted(r)
    BY <2>10 DEF MarkCompleted
  <2>11. CASE MarkFailed(r)
    BY <2>11 DEF MarkFailed
  <2>12. CASE SendOutput(r)
    BY <2>12 DEF SendOutput
  <2>13. CASE Report(r)
    BY <2>13 DEF Report
  <2>14. CASE ResumeNext(r)
    BY <2>14 DEF ResumeNext
  <2>15. CASE ResumeCompletes(r)
    BY <2>15 DEF ResumeCompletes
  <2>16. CASE ResumeSkips(r)
    BY <2>16 DEF ResumeSkips
  <2>17. CASE ResumeAborts(r)
    BY <2>17 DEF ResumeAborts, ProcessDies
  <2>18. QED
    BY <1>1, <2>1, <2>2, <2>3, <2>4, <2>5, <2>6, <2>7, <2>8, <2>9, <2>10,
       <2>11, <2>12, <2>13, <2>14, <2>15, <2>16, <2>17 DEF RunStep
<1>2. ASSUME NEW r \in Runs, Environment(r)
      PROVE  body'[q] = script'[q] /\ script[q] \in {NoValue, script'[q]}
  <2>1. CASE DispatchRefused(r)
    BY <2>1 DEF DispatchRefused
  <2>2. CASE DispatchDuplicate(r)
    BY <2>2 DEF DispatchDuplicate
  <2>3. CASE Dispatch(r)
    BY <2>3 DEF Dispatch
  <2>4. ASSUME NEW k \in {"runtime", "other"}, BodyFails(r, k)
        PROVE  body'[q] = script'[q] /\ script[q] \in {NoValue, script'[q]}
    BY <2>4 DEF BodyFails
  <2>5. CASE TimeoutFires(r)
    BY <2>5 DEF TimeoutFires
  <2>6. CASE StoreFault(r)
    BY <2>6 DEF StoreFault
  <2>7. CASE SendRaises(r)
    BY <2>7 DEF SendRaises
  <2>8. CASE Cancel(r)
    BY <2>8 DEF Cancel
  <2>9. QED
    BY <1>2, <2>1, <2>2, <2>3, <2>4, <2>5, <2>6, <2>7, <2>8 DEF
       Environment
<1>3. CASE Crash
  BY <1>3 DEF Crash, ProcessDies
<1>4. CASE Restart
  BY <1>4 DEF Restart
<1>5. CASE StartServing
  BY <1>5 DEF StartServing
<1>6. CASE Quiescent \/ UNCHANGED vars
  BY <1>6 DEF Quiescent
<1>7. QED
  BY <1>1, <1>2, <1>3, <1>4, <1>5, <1>6 DEF Next

\* Whenever the body of an authored run starts, it is the frozen script, and
\* the script frozen first stays.
THEOREM OneBodyPerRun == Spec => OneBody
<1>1. RunInv /\ FreezesOnce /\ [Next]_vars =>
        [\A r \in Runs :
           (Mode[r] = "llm_authored" /\ phase[r] # "body" /\ phase'[r] = "body") =>
              /\ body'[r] = script'[r]
              /\ script[r] \in {NoValue, script'[r]}]_vars
  BY BodyStarts
<1>2. QED
  BY <1>1, AllInvariants, PTL DEF Spec, OneBody

-----------------------------------------------------------------------------
(***************************************************************************)
(* The gate is exact.  A step moves at most one task, and it moves a       *)
(* permit exactly when that task passes the gate; only the end of the      *)
(* process moves more, and it takes the gate along.                        *)
(***************************************************************************)
GateRuns == {r \in Runs : phase[r] \in InGate}

GateMove(r) ==
    /\ phase' = [phase EXCEPT ![r] = phase'[r]]
    /\ permits' = CASE phase[r] \in InGate /\ phase'[r] \notin InGate -> permits + 1
                   [] phase[r] \notin InGate /\ phase'[r] \in InGate -> permits - 1
                   [] OTHER -> permits

GateMoves ==
    \/ phase' = phase /\ permits' = permits
    \/ \E r \in Runs : GateMove(r)
    \/ phase' = [r \in Runs |-> "idle"] /\ permits' = MaxConcurrent

\* What the counting needs: passing the gate adds a run to those inside it or
\* takes one away.
LEMMA GateCounts ==
    ASSUME TypeOK, TypeOK', PermitsAccounted, GateMoves
    PROVE  PermitsAccounted'
<1> USE RunAssumption DEF TypeOK, PermitsAccounted
<1>1. IsFiniteSet(GateRuns) /\ Cardinality(GateRuns) \in Nat
  <2>1. GateRuns \subseteq Runs
    BY DEF GateRuns
  <2>2. QED
    BY <2>1, FS_Subset, FS_CardinalityType
<1>2. permits + Cardinality(GateRuns) = MaxConcurrent
  BY DEF GateRuns
<1> SUFFICES permits' + Cardinality(GateRuns') = MaxConcurrent
  BY DEF GateRuns
<1>3. CASE phase' = phase /\ permits' = permits
  <2>1. GateRuns' = GateRuns
    BY <1>3 DEF GateRuns
  <2>2. QED
    BY <2>1, <1>2, <1>3
<1>4. ASSUME NEW r \in Runs, GateMove(r)
      PROVE  permits' + Cardinality(GateRuns') = MaxConcurrent
  <2>1. CASE phase[r] \in InGate /\ phase'[r] \notin InGate
    <3>1. GateRuns' = GateRuns \ {r} /\ r \in GateRuns
      BY <1>4, <2>1 DEF GateMove, GateRuns
    <3>2. Cardinality(GateRuns') = Cardinality(GateRuns) - 1
      BY <1>1, <3>1, FS_RemoveElement
    <3>3. permits' = permits + 1
      BY <1>4, <2>1 DEF GateMove
    <3>4. QED
      BY <1>1, <1>2, <3>2, <3>3
  <2>2. CASE phase[r] \notin InGate /\ phase'[r] \in InGate
    <3>1. GateRuns' = GateRuns \cup {r} /\ r \notin GateRuns
      BY <1>4, <2>2 DEF GateMove, GateRuns
    <3>2. Cardinality(GateRuns') = Cardinality(GateRuns) + 1
      BY <1>1, <3>1, FS_AddElement
    <3>3. permits' = permits - 1
      BY <1>4, <2>2 DEF GateMove
    <3>4. QED
      BY <1>1, <1>2, <3>2, <3>3
  <2>3. CASE phase[r] \in InGate <=> phase'[r] \in InGate
    <3>1. GateRuns' = GateRuns
      BY <1>4, <2>3 DEF GateMove, GateRuns
    <3>2. permits' = permits
      BY <1>4, <2>3 DEF GateMove
    <3>3. QED
      BY <1>2, <3>1, <3>2
  <2>4. QED
    BY <2>1, <2>2, <2>3
<1>5. CASE phase' = [r \in Runs |-> "idle"] /\ permits' = MaxConcurrent
  <2>1. GateRuns' = {}
    BY <1>5 DEF InGate, GateRuns
  <2>2. Cardinality(GateRuns') = 0
    BY <2>1, FS_EmptySet
  <2>3. QED
    BY <2>2, <1>5
<1>6. QED
  BY <1>3, <1>4, <1>5 DEF GateMoves

\* Every action moves permits with the task it moves.
LEMMA NextGateMoves == RunInv /\ Owned /\ [Next]_vars => GateMoves
<1> SUFFICES ASSUME RunInv, Owned, [Next]_vars
             PROVE  GateMoves
  OBVIOUS
<1> USE RunAssumption DEF RunInv, TypeOK, Owned, Active, InGate, Phases, GateMove
<1>1. ASSUME NEW r \in Runs, RunStep(r)
      PROVE  GateMove(r) \/ ProcessDies
  <2>1. CASE MarkRunning(r)
    BY <2>1 DEF MarkRunning
  <2>2. CASE EnterGate(r)
    BY <2>2 DEF EnterGate
  <2>3. CASE ReplayScript(r)
    BY <2>3 DEF ReplayScript
  <2>4. ASSUME NEW v \in Values, AuthorScript(r, v)
        PROVE  GateMove(r) \/ ProcessDies
    BY <2>4 DEF AuthorScript
  <2>5. CASE FreezeScript(r)
    BY <2>5 DEF FreezeScript
  <2>6. CASE ReplayStep(r)
    BY <2>6 DEF ReplayStep
  <2>7. ASSUME NEW v \in Values, ExecuteStep(r, v)
        PROVE  GateMove(r) \/ ProcessDies
    BY <2>7 DEF ExecuteStep
  <2>8. CASE PersistStep(r)
    BY <2>8 DEF PersistStep
  <2>9. CASE BodyReturns(r)
    BY <2>9 DEF BodyReturns
  <2>10. CASE MarkCompleted(r)
    BY <2>10 DEF MarkCompleted
  <2>11. CASE MarkFailed(r)
    BY <2>11 DEF MarkFailed
  <2>12. CASE SendOutput(r)
    BY <2>12 DEF SendOutput
  <2>13. CASE Report(r)
    BY <2>13 DEF Report
  <2>14. CASE ResumeNext(r)
    BY <2>14 DEF ResumeNext
  <2>15. CASE ResumeCompletes(r)
    BY <2>15 DEF ResumeCompletes
  <2>16. CASE ResumeSkips(r)
    BY <2>16 DEF ResumeSkips
  <2>17. CASE ResumeAborts(r)
    BY <2>17 DEF ResumeAborts
  <2>18. QED
    BY <1>1, <2>1, <2>2, <2>3, <2>4, <2>5, <2>6, <2>7, <2>8, <2>9, <2>10,
       <2>11, <2>12, <2>13, <2>14, <2>15, <2>16, <2>17 DEF RunStep
<1>2. ASSUME NEW r \in Runs, Environment(r)
      PROVE  GateMove(r) \/ ProcessDies
  <2>1. CASE DispatchRefused(r)
    BY <2>1 DEF DispatchRefused
  <2>2. CASE DispatchDuplicate(r)
    BY <2>2 DEF DispatchDuplicate
  <2>3. CASE Dispatch(r)
    BY <2>3 DEF Dispatch
  <2>4. ASSUME NEW k \in {"runtime", "other"}, BodyFails(r, k)
        PROVE  GateMove(r) \/ ProcessDies
    BY <2>4 DEF BodyFails
  <2>5. CASE TimeoutFires(r)
    BY <2>5 DEF TimeoutFires
  <2>6. CASE StoreFault(r)
    BY <2>6 DEF StoreFault
  <2>7. CASE SendRaises(r)
    BY <2>7 DEF SendRaises
  <2>8. CASE Cancel(r)
    BY <2>8 DEF Cancel
  <2>9. QED
    BY <1>2, <2>1, <2>2, <2>3, <2>4, <2>5, <2>6, <2>7, <2>8 DEF
       Environment
<1>3. CASE Crash
  BY <1>3 DEF GateMoves, Crash, ProcessDies
<1>4. CASE Restart
  BY <1>4 DEF GateMoves, Restart
<1>5. CASE StartServing
  BY <1>5 DEF GateMoves, StartServing
<1>6. CASE Quiescent \/ UNCHANGED vars
  BY <1>6 DEF GateMoves, Quiescent
<1>7. QED
  BY <1>1, <1>2, <1>3, <1>4, <1>5, <1>6 DEF GateMoves, Next, GateMoves, ProcessDies

\* Every permit of the run gate is free or held by a run inside the gate.
THEOREM GateIsExact == Spec => []PermitsAccounted
<1>1. Init => PermitsAccounted
  <2>1. ASSUME Init
        PROVE  GateRuns = {} /\ permits = MaxConcurrent
    BY <2>1 DEF Init, InGate, GateRuns
  <2>2. ASSUME Init
        PROVE  Cardinality(GateRuns) = 0
    BY <2>1, <2>2, FS_EmptySet
  <2>3. ASSUME Init
        PROVE  permits + Cardinality(GateRuns) = MaxConcurrent
    BY <2>1, <2>2, <2>3, RunAssumption
  <2>4. QED
    BY <2>3 DEF PermitsAccounted, GateRuns
<1>2. /\ RunInv /\ RunInv' /\ Owned /\ PermitsAccounted /\ [Next]_vars
      => PermitsAccounted'
  BY NextGateMoves, GateCounts DEF RunInv
<1>3. QED
  BY <1>1, <1>2, AllInvariants, PTL DEF Spec
=============================================================================
