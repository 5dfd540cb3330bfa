---------------------------- MODULE FanOutProofs ----------------------------
(***************************************************************************)
(* What TLC checks of FanOut on two small bodies, proved for every body,   *)
(* number of branches, slots, attempts, failures and crashes.              *)
(***************************************************************************)
EXTENDS FanOut, FiniteSetTheorems, TLAPS

USE DEF At, Becomes, Advance, Release, AtStep, End

-----------------------------------------------------------------------------
\* Facts about the constants.
LEMMA RootHolds ==
    /\ Root \in Contexts
    /\ Branches \subseteq Contexts
    /\ \A b \in Branches : b # Root /\ Parent[b] \in Contexts
  BY FanOutAssumption DEF Contexts

\* A context fans out at most once.
LEMMA OneBatch ==
    ASSUME NEW c \in Contexts, NEW i \in DOMAIN Body[c], NEW j \in DOMAIN Body[c],
           Body[c][i] = "batch", Body[c][j] = "batch"
    PROVE  i = j
  BY FanOutAssumption

\* A position in a body is one of the positions of all bodies.
LEMMA BodyInLength ==
    ASSUME NEW c \in Contexts, NEW i \in DOMAIN Body[c]
    PROVE  i \in Length
  BY DEF Length

\* Who awaits a branch: the context of its batch, and whoever awaits that.
LEMMA AncestorsOfChild ==
    ASSUME NEW b \in Branches
    PROVE  Ancestors[b] \subseteq
             {Parent[b]} \cup (IF Parent[b] \in Branches THEN Ancestors[Parent[b]] ELSE {})
<1> DEFINE p == Parent[b]
<1> DEFINE S == {p} \cup (IF p \in Branches THEN Ancestors[p] ELSE {})
<1>1. p \in Contexts /\ \A d \in Branches : Parent[d] \in Contexts
  BY RootHolds
<1>2. S \in SUBSET Contexts
  BY <1>1 DEF Ancestors
<1>3. \A d \in S \cap Branches : Parent[d] \in S
  <2>1. p \in Branches => Parent[p] \in Ancestors[p]
    BY <1>1 DEF Ancestors
  <2>2. \A d \in Branches : p \in Branches /\ d \in Ancestors[p] => Parent[d] \in Ancestors[p]
    BY <1>1 DEF Ancestors
  <2>3. QED
    BY <2>1, <2>2
<1>4. Ancestors[b] = {c \in Contexts : \A T \in SUBSET Contexts :
                        (/\ Parent[b] \in T
                         /\ \A d \in T \cap Branches : Parent[d] \in T) => c \in T}
  BY DEF Ancestors
<1>5. \A c \in Ancestors[b] : c \in S
  <2> HIDE DEF S
  <2>1. p \in S
    BY DEF S
  <2>2. QED
    BY <1>2, <1>3, <1>4, <2>1
<1>6. QED
  BY <1>5

\* A task that is awaited by a context that gathers, and is cancelled with it,
\* is cancelled too.
LEMMA AwaitedDown ==
    ASSUME NEW a \in Attempts, NEW b \in Branches,
           task[a][b] \in Alive, task[a][Parent[b]] = "gathering",
           Parent[b] \in Awaited(a)
    PROVE  b \in Awaited(a)
<1>1. \A c \in Ancestors[b] : task[a][c] = "gathering"
  <2>1. CASE Parent[b] \in Branches
    <3>1. \A c \in Ancestors[Parent[b]] : task[a][c] = "gathering"
      BY <2>1, RootHolds DEF Awaited
    <3>2. QED
      BY <2>1, <3>1, AncestorsOfChild
  <2>2. CASE Parent[b] \notin Branches
    BY <2>2, AncestorsOfChild
  <2>3. QED
    BY <2>1, <2>2
<1>2. QED
  BY <1>1 DEF Awaited

\* A set of branches is finite.
LEMMA HoldersFinite ==
    ASSUME NEW a
    PROVE  /\ IsFiniteSet(Holders(a))
           /\ Cardinality(Holders(a)) \in Nat
           /\ IsFiniteSet(Awaited(a) \cap Holders(a))
           /\ Cardinality(Awaited(a) \cap Holders(a)) \in Nat
<1>1. Holders(a) \in SUBSET Branches
  BY DEF Holders
<1>2. IsFiniteSet(Holders(a))
  BY <1>1, FS_Subset, FanOutAssumption
<1>3. IsFiniteSet(Awaited(a) \cap Holders(a))
  BY <1>2, FS_Intersection
<1>4. QED
  BY <1>2, <1>3, FS_CardinalityType

-----------------------------------------------------------------------------
\* Every variable keeps its type.
LEMMA InitTypeOK == Init => TypeOK
  BY FanOutAssumption DEF Init, TypeOK, Attempts, Unrecorded, TaskStates

\* Each step of a context, a cancellation or a crash keeps the types.
LEMMA NextTypeOK == TypeOK /\ [Next]_vars => TypeOK'
<1> SUFFICES ASSUME TypeOK, [Next]_vars
             PROVE  TypeOK'
  OBVIOUS
<1> USE FanOutAssumption DEF TypeOK, TaskStates
<1>1. CASE StartAttempt
  <2>1. attempt + 1 \in Attempts /\ attempt' \in 0..MaxAttempts
    BY <1>1 DEF StartAttempt, Attempts
  <2>2. haunted' \subseteq Attempts
    BY <1>1, <2>1 DEF StartAttempt
  <2>3. task' \in [Attempts -> [Contexts -> TaskStates]]
    BY <1>1, <2>1 DEF StartAttempt
  <2>4. QED
    BY <1>1, <2>1, <2>2, <2>3 DEF StartAttempt
<1>2. ASSUME NEW a \in Attempts, NEW c \in Contexts, ContextStep(a, c) \/ StepRaises(a, c)
      PROVE  TypeOK'
  <2>1. CASE StartBatch(a, c)
    BY <2>1 DEF StartBatch
  <2>2. CASE AcquireSlot(a, c)
    BY <2>2 DEF AcquireSlot
  <2>3. CASE ExceedBudget(a, c)
    BY <2>3 DEF ExceedBudget
  <2>4. CASE ReplayStep(a, c)
    <3>1. stored[c][pos[a][c]] \in 0..MaxAttempts
      BY <2>4, BodyInLength DEF ReplayStep
    <3>2. seen' \in [Attempts -> [Contexts -> [Length -> 0..MaxAttempts]]]
      BY <2>4, <3>1 DEF ReplayStep
    <3>3. QED
      BY <2>4, <3>2 DEF ReplayStep
  <2>5. CASE ExecuteStep(a, c)
    BY <2>5 DEF ExecuteStep
  <2>6. CASE PersistStep(a, c)
    <3>1. a \in 0..MaxAttempts
      BY DEF Attempts
    <3>2. stored' \in [Contexts -> [Length -> 0..MaxAttempts]]
      BY <2>6, <3>1 DEF PersistStep
    <3>3. seen' \in [Attempts -> [Contexts -> [Length -> 0..MaxAttempts]]]
      BY <2>6, <3>1 DEF PersistStep
    <3>4. pos' \in [Attempts -> [Contexts -> Nat \ {0}]]
      BY <2>6 DEF PersistStep
    <3>5. task' \in [Attempts -> [Contexts -> TaskStates]]
      BY <2>6 DEF PersistStep
    <3>6. QED
      BY <2>6, <3>2, <3>3, <3>4, <3>5 DEF PersistStep
  <2>7. CASE Return(a, c)
    BY <2>7 DEF Return
  <2>8. CASE GatherReturns(a, c)
    BY <2>8 DEF GatherReturns
  <2>9. CASE GatherRaises(a, c)
    BY <2>9 DEF GatherRaises
  <2>10. CASE StepRaises(a, c)
    BY <2>10 DEF StepRaises
  <2>11. QED
    BY <1>2, <2>1, <2>2, <2>3, <2>4, <2>5, <2>6, <2>7, <2>8, <2>9, <2>10
    DEF ContextStep
<1>3. ASSUME NEW a \in Attempts, CancelRoot(a)
      PROVE  TypeOK'
  <2>1. [c \in Contexts |-> IF c \in Awaited(a) THEN "cancelled" ELSE task[a][c]]
          \in [Contexts -> TaskStates]
    OBVIOUS
  <2>2. task' \in [Attempts -> [Contexts -> TaskStates]]
    BY <1>3, <2>1 DEF CancelRoot
  <2>3. slots' \in [Attempts -> Nat]
    <3>1. Cardinality(Awaited(a) \cap Holders(a)) \in Nat
      BY HoldersFinite
    <3>2. QED
      BY <1>3, <3>1 DEF CancelRoot
  <2>4. QED
    BY <1>3, <2>2, <2>3 DEF CancelRoot
<1>4. CASE Crash
  <2>1. task' \in [Attempts -> [Contexts -> TaskStates]]
    <3>1. \A a \in Attempts, c \in Contexts :
            (IF task[a][c] \in Alive THEN "cancelled" ELSE task[a][c]) \in TaskStates
      OBVIOUS
    <3>2. QED
      BY <1>4, <3>1 DEF Crash
  <2>2. slots' \in [Attempts -> Nat]
    <3>1. \A a \in Attempts : Cardinality(Holders(a)) \in Nat
      BY HoldersFinite
    <3>2. \A a \in Attempts : slots[a] + Cardinality(Holders(a)) \in Nat
      BY <3>1
    <3>3. QED
      BY <1>4, <3>2 DEF Crash
  <2>3. QED
    BY <1>4, <2>1, <2>2 DEF Crash
<1>5. CASE Quiescent \/ UNCHANGED vars
  BY <1>5 DEF Quiescent, vars
<1>6. QED
  BY <1>1, <1>2, <1>3, <1>4, <1>5 DEF Next

-----------------------------------------------------------------------------
\* What a spawned branch tells of the context it was spawned by.
LEMMA InitSpawned == Init => Spawned
  BY FanOutAssumption, RootHolds DEF Init, Spawned, Attempts

\* A step of the code of one context: c goes from an alive state to another
\* state, its code does not go back, nothing else happens.
Moves(a, c) ==
    /\ task[a][c] \in Alive
    /\ task'[a][c] \notin {"none", "waiting", "cancelled"}
    /\ pos'[a][c] \in Nat /\ pos[a][c] <= pos'[a][c]
    /\ \A e \in Attempts, d \in Contexts :
         (e = a /\ d = c) \/ (task'[e][d] = task[e][d] /\ pos'[e][d] = pos[e][d])
    /\ UNCHANGED attempt

\* A step of one context that keeps to its batch keeps every batch.
LEMMA StepSpawned ==
    ASSUME TypeOK, Spawned, NEW a \in Attempts, NEW c \in Contexts, Moves(a, c),
           task'[a][c] = "gathering" => AtBatch(a, c)',
           task[a][c] = "gathering" =>
             \/ task'[a][c] \in {"gathering", "failed"}
             \/ /\ Passed(a, c)'
                /\ \A b \in Children(c) : task[a][b] \notin Alive
    PROVE  Spawned'
<1> USE RootHolds DEF Moves
<1>1. ASSUME NEW e \in Attempts
      PROVE  task'[e][Root] # "waiting"
  BY DEF Spawned
<1>2. ASSUME NEW e \in Attempts, NEW d \in Contexts
      PROVE  /\ e > attempt' => task'[e][d] = "none"
             /\ task'[e][d] = "gathering" => AtBatch(e, d)'
  <2>1. /\ e > attempt => task[e][d] = "none"
        /\ task[e][d] = "gathering" => AtBatch(e, d)
    BY DEF Spawned
  <2>2. CASE e = a /\ d = c
    BY <2>1, <2>2 DEF Alive
  <2>3. CASE ~(e = a /\ d = c)
    <3>1. task'[e][d] = task[e][d] /\ pos'[e][d] = pos[e][d]
      BY <2>3
    <3>2. QED
      BY <2>1, <3>1 DEF AtBatch
  <2>4. QED
    BY <2>2, <2>3
<1>4. ASSUME NEW e \in Attempts, NEW b \in Branches, task'[e][b] # "none"
      PROVE  \/ task'[e][Parent[b]] \in {"gathering", "failed"}
             \/ /\ task'[e][b] \notin Alive
                /\ Passed(e, Parent[b])' \/ task'[e][Parent[b]] = "cancelled"
  <2> DEFINE p == Parent[b]
  <2>1. p \in Contexts /\ task[e][b] # "none"
    BY <1>4 DEF Alive
  <2>2. \/ task[e][p] \in {"gathering", "failed"}
        \/ /\ task[e][b] \notin Alive
           /\ Passed(e, p) \/ task[e][p] = "cancelled"
    BY <2>1 DEF Spawned
  <2>3. Passed(e, p) => Passed(e, p)'
    <3>1. pos[e][p] \in Nat /\ pos'[e][p] \in Nat /\ pos[e][p] <= pos'[e][p]
      <4>1. pos[e][p] \in Nat
        BY <2>1 DEF TypeOK
      <4>2. CASE e = a /\ p = c
        BY <4>1, <4>2
      <4>3. CASE ~(e = a /\ p = c)
        BY <2>1, <4>1, <4>3
      <4>4. QED
        BY <4>2, <4>3
    <3>2. DOMAIN Body[p] \subseteq Nat
      BY <2>1, FanOutAssumption
    <3>3. QED
      BY <3>1, <3>2 DEF Passed
  <2>4. CASE e = a /\ p = c
    <3>1. CASE task[a][c] = "gathering"
      <4>1. CASE task'[a][c] \in {"gathering", "failed"}
        BY <2>4, <4>1
      <4>2. CASE task'[a][c] \notin {"gathering", "failed"}
        <5>1. b # c /\ task[a][b] \notin Alive /\ Passed(a, c)'
          BY <2>4, <3>1, <4>2 DEF Children, Alive
        <5>2. task'[e][b] \notin Alive
          BY <2>4, <5>1
        <5>3. QED
          BY <2>4, <5>1, <5>2
      <4>3. QED
        BY <4>1, <4>2
    <3>2. CASE task[a][c] # "gathering"
      <4>1. b # c /\ task[a][b] \notin Alive /\ Passed(a, c)
        BY <2>2, <2>4, <3>2 DEF Alive
      <4>2. task'[e][b] \notin Alive
        BY <2>4, <4>1
      <4>3. QED
        BY <2>3, <2>4, <4>1, <4>2
    <3>3. QED
      BY <3>1, <3>2
  <2>5. CASE ~(e = a /\ p = c)
    <3>1. task'[e][p] = task[e][p]
      BY <2>1, <2>5
    <3>2. task[e][b] \notin Alive => task'[e][b] \notin Alive
      BY <2>1
    <3>3. QED
      BY <2>2, <2>3, <3>1, <3>2
  <2>6. QED
    BY <2>4, <2>5
<1>5. QED
  BY <1>1, <1>2, <1>4 DEF Spawned

\* Branches are alive only while their context is at their batch.
LEMMA NextSpawned == TypeOK /\ Spawned /\ [Next]_vars => Spawned'
<1> SUFFICES ASSUME TypeOK, Spawned, [Next]_vars
             PROVE  Spawned'
  OBVIOUS
<1>1. CASE StartAttempt
  <2> DEFINE n == attempt + 1
  <2>1. n \in Attempts /\ attempt \in Nat
    BY <1>1, FanOutAssumption DEF StartAttempt, Attempts, TypeOK
  <2>2. \A d \in Contexts : task[n][d] = "none"
    BY <2>1 DEF Spawned
  <2>3. \A e \in Attempts, d \in Contexts :
          task'[e][d] = IF e = n /\ d = Root THEN "running" ELSE task[e][d]
    BY <1>1, <2>1, RootHolds DEF StartAttempt, TypeOK
  <2>4. \A e \in Attempts : task'[e][Root] # "waiting"
    BY <2>3, RootHolds DEF Spawned
  <2>5. ASSUME NEW e \in Attempts, NEW d \in Contexts
        PROVE  /\ e > attempt' => task'[e][d] = "none"
               /\ task'[e][d] = "gathering" => AtBatch(e, d)'
    <3>1. /\ e > attempt => task[e][d] = "none"
          /\ task[e][d] = "gathering" => AtBatch(e, d)
      BY DEF Spawned
    <3>2. attempt' = attempt + 1 /\ pos' = pos /\ e \in Int
      BY <1>1, FanOutAssumption DEF StartAttempt, Attempts
    <3>3. QED
      BY <2>1, <2>3, <3>1, <3>2 DEF AtBatch
  <2>6. ASSUME NEW e \in Attempts, NEW b \in Branches, task'[e][b] # "none"
        PROVE  \/ task'[e][Parent[b]] \in {"gathering", "failed"}
               \/ /\ task'[e][b] \notin Alive
                  /\ Passed(e, Parent[b])' \/ task'[e][Parent[b]] = "cancelled"
    <3>1. task'[e][b] = task[e][b] /\ e # n
      BY <2>2, <2>3, <2>6, RootHolds
    <3>2. task'[e][Parent[b]] = task[e][Parent[b]]
      BY <2>3, <3>1, RootHolds
    <3>3. \/ task[e][Parent[b]] \in {"gathering", "failed"}
          \/ /\ task[e][b] \notin Alive
             /\ Passed(e, Parent[b]) \/ task[e][Parent[b]] = "cancelled"
      BY <2>6, <3>1 DEF Spawned
    <3>4. Passed(e, Parent[b])' <=> Passed(e, Parent[b])
      BY <1>1 DEF StartAttempt, Passed
    <3>5. QED
      BY <3>1, <3>2, <3>3, <3>4
  <2>7. QED
    BY <2>4, <2>5, <2>6 DEF Spawned
<1>2. ASSUME NEW a \in Attempts, NEW c \in Contexts, StartBatch(a, c)
      PROVE  Spawned'
  <2>1. /\ attempt' = attempt /\ pos' = pos
        /\ task[a][c] = "running" /\ AtBatch(a, c)
    BY <1>2 DEF StartBatch, AtBatch
  <2>2. \A e \in Attempts, d \in Contexts :
          task'[e][d] = IF e = a /\ d = c THEN "gathering"
                        ELSE IF e = a /\ d \in Children(c) THEN "waiting"
                        ELSE task[e][d]
    BY <1>2 DEF StartBatch, TypeOK
  <2>3. ~Passed(a, c)
    <3>1. pos[a][c] \in Nat
      BY DEF TypeOK
    <3>2. DOMAIN Body[c] \subseteq Nat
      BY FanOutAssumption
    <3>3. QED
      BY <2>1, <3>1, <3>2, OneBatch DEF Passed, AtBatch
  <2>4. \A b \in Children(c) : task[a][b] = "none"
    BY <2>1, <2>3 DEF Spawned, Children
  <2>5. \A e \in Attempts : task'[e][Root] # "waiting"
    BY <2>2, RootHolds DEF Spawned, Children
  <2>6. a <= attempt
    BY <1>2 DEF StartBatch
  <2>7. ASSUME NEW e \in Attempts, NEW d \in Contexts
        PROVE  /\ e > attempt' => task'[e][d] = "none"
               /\ task'[e][d] = "gathering" => AtBatch(e, d)'
    <3>1. /\ e > attempt => task[e][d] = "none"
          /\ task[e][d] = "gathering" => AtBatch(e, d)
      BY DEF Spawned
    <3>2. AtBatch(e, d)' <=> AtBatch(e, d)
      BY <2>1 DEF AtBatch
    <3>3. attempt \in Int /\ e \in Int
      BY FanOutAssumption DEF TypeOK, Attempts
    <3>4. QED
      BY <2>1, <2>2, <2>6, <3>1, <3>2, <3>3
  <2>8. ASSUME NEW e \in Attempts, NEW b \in Branches, task'[e][b] # "none"
        PROVE  \/ task'[e][Parent[b]] \in {"gathering", "failed"}
               \/ /\ task'[e][b] \notin Alive
                  /\ Passed(e, Parent[b])' \/ task'[e][Parent[b]] = "cancelled"
    <3>1. CASE e = a /\ Parent[b] = c
      BY <2>2, <3>1, RootHolds
    <3>2. CASE ~(e = a /\ Parent[b] = c)
      <4>1. Parent[b] \in Contexts /\ b \in Contexts /\ (e = a => b \notin Children(c))
        BY <3>2, RootHolds DEF Children
      <4>2. task[e][b] # "none"
        BY <2>1, <2>2, <2>8, <4>1
      <4>3. \/ task[e][Parent[b]] \in {"gathering", "failed"}
            \/ /\ task[e][b] \notin Alive
               /\ Passed(e, Parent[b]) \/ task[e][Parent[b]] = "cancelled"
        BY <4>2 DEF Spawned
      <4>4. Passed(e, Parent[b])' <=> Passed(e, Parent[b])
        BY <2>1 DEF Passed
      <4>5. task[e][b] \notin Alive => task'[e][b] = task[e][b]
        BY <2>1, <2>2, <4>1 DEF Alive
      <4>6. \/ task'[e][Parent[b]] = task[e][Parent[b]]
            \/ e = a /\ Parent[b] \in Children(c) /\ task'[e][Parent[b]] = "waiting"
               /\ task[e][Parent[b]] = "none"
        BY <2>2, <2>4, <3>2, <4>1
      <4>7. QED
        BY <4>3, <4>4, <4>5, <4>6
    <3>3. QED
      BY <3>1, <3>2
  <2>9. QED
    BY <2>5, <2>7, <2>8 DEF Spawned
<1>3. ASSUME NEW a \in Attempts, NEW c \in Contexts,
             (ContextStep(a, c) /\ ~StartBatch(a, c)) \/ StepRaises(a, c)
      PROVE  Spawned'
  <2> USE DEF Alive
  <2>1. CASE AcquireSlot(a, c)
    <3>1. Moves(a, c)
      BY <2>1 DEF AcquireSlot, Moves, TypeOK
    <3>2. task[a][c] = "waiting" /\ task'[a][c] = "running"
      BY <2>1 DEF AcquireSlot, TypeOK
    <3>3. QED
      BY <3>1, <3>2, StepSpawned
  <2>2. CASE ReplayStep(a, c)
    <3>1. Moves(a, c)
      BY <2>2 DEF ReplayStep, Moves, TypeOK
    <3>2. task[a][c] = "running" /\ task'[a][c] = "running"
      BY <2>2 DEF ReplayStep
    <3>3. QED
      BY <3>1, <3>2, StepSpawned
  <2>3. CASE ExecuteStep(a, c)
    <3>1. Moves(a, c)
      BY <2>3 DEF ExecuteStep, Moves, TypeOK
    <3>2. task[a][c] = "running" /\ task'[a][c] = "executing"
      BY <2>3 DEF ExecuteStep, TypeOK
    <3>3. QED
      BY <3>1, <3>2, StepSpawned
  <2>4. CASE PersistStep(a, c)
    <3>1. Moves(a, c)
      BY <2>4 DEF PersistStep, Moves, TypeOK
    <3>2. task[a][c] = "executing" /\ task'[a][c] = "running"
      BY <2>4 DEF PersistStep, TypeOK
    <3>3. QED
      BY <3>1, <3>2, StepSpawned
  <2>5. CASE ExceedBudget(a, c) \/ Return(a, c) \/ StepRaises(a, c)
    <3>1. Moves(a, c)
      BY <2>5 DEF ExceedBudget, Return, StepRaises, Moves, TypeOK
    <3>2. /\ task[a][c] \in {"running", "executing"}
          /\ task'[a][c] \in {"done", "failed"}
      BY <2>5 DEF ExceedBudget, Return, StepRaises, TypeOK
    <3>3. QED
      BY <3>1, <3>2, StepSpawned
  <2>6. CASE GatherReturns(a, c)
    <3>1. Moves(a, c)
      BY <2>6 DEF GatherReturns, Moves, TypeOK
    <3>2. task[a][c] = "gathering" /\ task'[a][c] = "running"
      BY <2>6 DEF GatherReturns, TypeOK
    <3>3. \A b \in Children(c) : task[a][b] \notin Alive
      BY <2>6 DEF GatherReturns
    <3>4. Passed(a, c)'
      <4>1. AtBatch(a, c)
        BY <3>2 DEF Spawned
      <4>2. pos'[a][c] = pos[a][c] + 1 /\ pos[a][c] \in Nat
        BY <2>6 DEF GatherReturns, TypeOK
      <4>3. QED
        BY <4>1, <4>2 DEF AtBatch, Passed
    <3>5. QED
      BY <3>1, <3>2, <3>3, <3>4, StepSpawned
  <2>7. CASE GatherRaises(a, c)
    <3>1. Moves(a, c)
      BY <2>7 DEF GatherRaises, Moves, TypeOK
    <3>2. task'[a][c] = "failed"
      BY <2>7 DEF GatherRaises, TypeOK
    <3>3. QED
      BY <3>1, <3>2, StepSpawned
  <2>8. QED
    BY <1>3, <2>1, <2>2, <2>3, <2>4, <2>5, <2>6, <2>7 DEF ContextStep
<1>4. ASSUME NEW a \in Attempts, CancelRoot(a)
      PROVE  Spawned'
  <2>1. attempt' = attempt /\ pos' = pos /\ a <= attempt /\ task[a][Root] \in Alive
    BY <1>4 DEF CancelRoot
  <2>2. \A e \in Attempts, d \in Contexts :
          task'[e][d] = IF e = a /\ d \in Awaited(a) THEN "cancelled" ELSE task[e][d]
    BY <1>4 DEF CancelRoot, TypeOK
  <2>3. \A d \in Awaited(a) : task[a][d] \in Alive
    BY <2>1 DEF Awaited
  <2>4. \A e \in Attempts : task'[e][Root] # "waiting"
    BY <2>2, RootHolds DEF Spawned
  <2>5. ASSUME NEW e \in Attempts, NEW d \in Contexts
        PROVE  /\ e > attempt' => task'[e][d] = "none"
               /\ task'[e][d] = "gathering" => AtBatch(e, d)'
    <3>1. /\ e > attempt => task[e][d] = "none"
          /\ task[e][d] = "gathering" => AtBatch(e, d)
      BY DEF Spawned
    <3>2. AtBatch(e, d)' <=> AtBatch(e, d)
      BY <2>1 DEF AtBatch
    <3>3. attempt \in Int /\ e \in Int
      BY FanOutAssumption DEF TypeOK, Attempts
    <3>4. QED
      BY <2>1, <2>2, <3>1, <3>2, <3>3
  <2>6. ASSUME NEW e \in Attempts, NEW b \in Branches, task'[e][b] # "none"
        PROVE  \/ task'[e][Parent[b]] \in {"gathering", "failed"}
               \/ /\ task'[e][b] \notin Alive
                  /\ Passed(e, Parent[b])' \/ task'[e][Parent[b]] = "cancelled"
    <3> DEFINE p == Parent[b]
    <3>1. p \in Contexts /\ b \in Contexts
      BY RootHolds
    <3>2. task[e][b] # "none"
      BY <2>2, <2>3, <2>6, <3>1 DEF Alive
    <3>3. \/ task[e][p] \in {"gathering", "failed"}
          \/ task[e][b] \notin Alive /\ (Passed(e, p) \/ task[e][p] = "cancelled")
      BY <3>2 DEF Spawned
    <3>4. Passed(e, p)' <=> Passed(e, p)
      BY <2>1 DEF Passed
    <3>5. CASE e = a /\ p \in Awaited(a)
      <4>1. task'[e][p] = "cancelled" /\ task[e][p] \in Alive
        BY <2>2, <2>3, <3>1, <3>5
      <4>2. CASE task[e][b] \in Alive
        <5>1. b \in Awaited(a)
          BY <3>3, <3>5, <4>1, <4>2, AwaitedDown DEF Alive
        <5>2. QED
          BY <2>2, <3>1, <3>5, <4>1, <5>1 DEF Alive
      <4>3. CASE task[e][b] \notin Alive
        BY <2>2, <3>1, <4>1, <4>3 DEF Alive
      <4>4. QED
        BY <4>2, <4>3
    <3>6. CASE ~(e = a /\ p \in Awaited(a))
      <4>1. task'[e][p] = task[e][p]
        BY <2>2, <3>1, <3>6
      <4>2. task[e][b] \notin Alive => task'[e][b] \notin Alive
        BY <2>2, <3>1 DEF Alive
      <4>3. QED
        BY <3>3, <3>4, <4>1, <4>2
    <3>7. QED
      BY <3>5, <3>6
  <2>7. QED
    BY <2>4, <2>5, <2>6 DEF Spawned
<1>5. CASE Crash
  <2>1. attempt' = attempt /\ pos' = pos
    BY <1>5 DEF Crash
  <2>2. \A e \in Attempts, d \in Contexts :
          task'[e][d] = IF task[e][d] \in Alive THEN "cancelled" ELSE task[e][d]
    BY <1>5 DEF Crash
  <2>3. \A e \in Attempts, d \in Contexts : task'[e][d] \notin Alive
    BY <2>2 DEF Alive
  <2>4. ASSUME NEW e \in Attempts, NEW d \in Contexts
        PROVE  /\ task'[e][d] # "waiting" /\ task'[e][d] # "gathering"
               /\ e > attempt' => task'[e][d] = "none"
    <3>1. e > attempt => task[e][d] = "none"
      BY DEF Spawned
    <3>2. QED
      BY <2>1, <2>2, <2>3, <3>1 DEF Alive
  <2>5. ASSUME NEW e \in Attempts, NEW b \in Branches, task'[e][b] # "none"
        PROVE  \/ task'[e][Parent[b]] \in {"gathering", "failed"}
               \/ /\ task'[e][b] \notin Alive
                  /\ Passed(e, Parent[b])' \/ task'[e][Parent[b]] = "cancelled"
    <3> DEFINE p == Parent[b]
    <3>1. p \in Contexts /\ b \in Contexts
      BY RootHolds
    <3>2. task[e][b] # "none"
      BY <2>2, <2>5, <3>1 DEF Alive
    <3>3. \/ task[e][p] \in {"gathering", "failed"}
          \/ task[e][b] \notin Alive /\ (Passed(e, p) \/ task[e][p] = "cancelled")
      BY <3>2 DEF Spawned
    <3>4. Passed(e, p)' <=> Passed(e, p)
      BY <2>1 DEF Passed
    <3>5. task'[e][p] = IF task[e][p] \in Alive THEN "cancelled" ELSE task[e][p]
      BY <2>2, <3>1
    <3>6. QED
      BY <2>3, <3>1, <3>3, <3>4, <3>5 DEF Alive
  <2>6. QED
    BY <2>4, <2>5, RootHolds DEF Spawned
<1>6. CASE Quiescent \/ UNCHANGED vars
  BY <1>6 DEF Quiescent, vars, Spawned, AtBatch, Passed
<1>7. QED
  BY <1>1, <1>2, <1>3, <1>4, <1>5, <1>6 DEF Next, ContextStep

-----------------------------------------------------------------------------
\* What a step does to the slots of attempt e, and to who holds them: nothing;
\* one branch takes a slot, or gives it back; or a cancelled run, or a dying
\* process, gives back several.
SlotMove(e) ==
    \/ Holders(e)' = Holders(e) /\ slots'[e] = slots[e]
    \/ \E b \in Branches \ Holders(e) :
         Holders(e)' = Holders(e) \cup {b} /\ slots'[e] = slots[e] - 1
    \/ \E b \in Holders(e) : Holders(e)' = Holders(e) \ {b} /\ slots'[e] = slots[e] + 1
    \/ /\ Holders(e)' = Holders(e) \ Awaited(e)
       /\ slots'[e] = slots[e] + Cardinality(Awaited(e) \cap Holders(e))
    \/ Holders(e)' = {} /\ slots'[e] = slots[e] + Cardinality(Holders(e))

\* A step of a branch moves one slot, or none; the end of a batch gives back what
\* its branches hold.
LEMMA ContextMovesSlots ==
    ASSUME TypeOK, Spawned, NEW e \in Attempts, NEW a \in Attempts, NEW c \in Contexts,
           ContextStep(a, c) \/ StepRaises(a, c)
    PROVE  SlotMove(e)
<1> USE RootHolds
<1>1. CASE StartBatch(a, c)
  <2>1. \A b \in Children(c) : task[a][b] = "none"
    <3>1. task[a][c] = "running" /\ AtBatch(a, c)
      BY <1>1 DEF StartBatch, AtBatch
    <3>2. pos[a][c] \in Nat /\ DOMAIN Body[c] \subseteq Nat
      BY FanOutAssumption DEF TypeOK
    <3>3. ~Passed(a, c)
      BY <3>1, <3>2, OneBatch DEF Passed, AtBatch
    <3>4. QED
      BY <3>1, <3>3 DEF Spawned, Children
  <2>2. \A b \in Branches : task'[e][b] \in Holding <=> task[e][b] \in Holding
    BY <1>1, <2>1 DEF StartBatch, TypeOK, Children, Holding
  <2>3. slots' = slots
    BY <1>1 DEF StartBatch
  <2>4. QED
    BY <2>2, <2>3 DEF SlotMove, Holders
<1>2. CASE AcquireSlot(a, c)
  <2>1. c \in Branches
    BY <1>2 DEF AcquireSlot, Spawned, Contexts
  <2>2. \A b \in Branches : task'[e][b] = IF e = a /\ b = c THEN "running" ELSE task[e][b]
    BY <1>2 DEF AcquireSlot, TypeOK
  <2>3. task[a][c] = "waiting" /\ slots' = [slots EXCEPT ![a] = slots[a] - 1]
    BY <1>2 DEF AcquireSlot
  <2>4. CASE e = a
    <3>1. slots'[e] = slots[e] - 1
      BY <2>3, <2>4 DEF TypeOK
    <3>2. c \in Branches \ Holders(e) /\ Holders(e)' = Holders(e) \cup {c}
      BY <2>1, <2>2, <2>3, <2>4 DEF Holders, Holding
    <3>3. QED
      BY <3>1, <3>2 DEF SlotMove
  <2>5. CASE e # a
    <3>1. slots'[e] = slots[e]
      BY <2>3, <2>5 DEF TypeOK
    <3>2. Holders(e)' = Holders(e)
      BY <2>2, <2>5 DEF Holders
    <3>3. QED
      BY <3>1, <3>2 DEF SlotMove
  <2>6. QED
    BY <2>4, <2>5
<1>3. CASE ReplayStep(a, c) \/ ExecuteStep(a, c) \/ PersistStep(a, c) \/ GatherReturns(a, c)
  <2>1. slots' = slots
    BY <1>3 DEF ReplayStep, ExecuteStep, PersistStep, GatherReturns
  <2>2. \A b \in Branches : task'[e][b] \in Holding <=> task[e][b] \in Holding
    BY <1>3 DEF ReplayStep, ExecuteStep, PersistStep, GatherReturns, TypeOK, Holding
  <2>3. QED
    BY <2>1, <2>2 DEF SlotMove, Holders
<1>4. CASE ExceedBudget(a, c) \/ Return(a, c) \/ StepRaises(a, c) \/ GatherRaises(a, c)
  <2>1. /\ task[a][c] \in Holding
        /\ slots' = IF c = Root THEN slots ELSE [slots EXCEPT ![a] = slots[a] + 1]
    BY <1>4 DEF ExceedBudget, Return, StepRaises, GatherRaises, Holding
  <2>2. PICK s \in {"done", "failed"} : task' = [task EXCEPT ![a][c] = s]
    BY <1>4 DEF ExceedBudget, Return, StepRaises, GatherRaises
  <2>3. \A b \in Branches : task'[e][b] = IF e = a /\ b = c THEN s ELSE task[e][b]
    BY <2>2 DEF TypeOK
  <2>4. CASE e = a /\ c # Root
    <3>1. slots'[e] = slots[e] + 1
      BY <2>1, <2>4 DEF TypeOK
    <3>2. c \in Holders(e) /\ Holders(e)' = Holders(e) \ {c}
      BY <2>1, <2>3, <2>4 DEF Holders, Holding, Contexts
    <3>3. QED
      BY <3>1, <3>2 DEF SlotMove
  <2>5. CASE ~(e = a /\ c # Root)
    <3>1. slots'[e] = slots[e]
      BY <2>1, <2>5 DEF TypeOK
    <3>2. Holders(e)' = Holders(e)
      BY <2>3, <2>5 DEF Holders
    <3>3. QED
      BY <3>1, <3>2 DEF SlotMove
  <2>6. QED
    BY <2>4, <2>5
<1>5. QED
  BY <1>1, <1>2, <1>3, <1>4 DEF ContextStep

\* So does every step of the runtime.
LEMMA NextMovesSlots ==
    ASSUME TypeOK, Spawned, [Next]_vars, NEW e \in Attempts
    PROVE  SlotMove(e)
<1>1. CASE StartAttempt
  <2>1. attempt + 1 \in Attempts /\ slots' = slots
    BY <1>1, FanOutAssumption DEF StartAttempt, Attempts, TypeOK
  <2>2. \A b \in Branches : task'[e][b] = task[e][b]
    BY <1>1, <2>1, RootHolds DEF StartAttempt, TypeOK
  <2>3. QED
    BY <2>1, <2>2 DEF SlotMove, Holders
<1>2. ASSUME NEW a \in Attempts, NEW c \in Contexts, ContextStep(a, c) \/ StepRaises(a, c)
      PROVE  SlotMove(e)
  BY <1>2, ContextMovesSlots
<1>3. ASSUME NEW a \in Attempts, CancelRoot(a)
      PROVE  SlotMove(e)
  <2> DEFINE freed == Cardinality(Awaited(a) \cap Holders(a))
  <2>1. \A b \in Branches :
          task'[e][b] = IF e = a /\ b \in Awaited(a) THEN "cancelled" ELSE task[e][b]
    BY <1>3, RootHolds DEF CancelRoot, TypeOK
  <2>2. slots' = [slots EXCEPT ![a] = slots[a] + freed]
    BY <1>3 DEF CancelRoot
  <2> HIDE DEF freed
  <2>3. CASE e = a
    <3>1. slots'[e] = slots[e] + freed
      BY <2>2, <2>3 DEF TypeOK
    <3>2. Holders(e)' = Holders(e) \ Awaited(e)
      BY <2>1, <2>3 DEF Holders, Holding
    <3>3. QED
      BY <2>3, <3>1, <3>2 DEF SlotMove, freed
  <2>4. CASE e # a
    <3>1. slots'[e] = slots[e]
      BY <2>2, <2>4 DEF TypeOK
    <3>2. Holders(e)' = Holders(e)
      BY <2>1, <2>4 DEF Holders
    <3>3. QED
      BY <3>1, <3>2 DEF SlotMove
  <2>5. QED
    BY <2>3, <2>4
<1>4. CASE Crash
  <2>1. slots'[e] = slots[e] + Cardinality(Holders(e))
    BY <1>4 DEF Crash
  <2>2. \A b \in Branches : task'[e][b] \notin Alive
    BY <1>4, RootHolds DEF Crash, Alive
  <2>3. Holders(e)' = {}
    BY <2>2 DEF Holders, Holding, Alive
  <2>4. QED
    BY <2>1, <2>3 DEF SlotMove
<1>5. CASE Quiescent \/ UNCHANGED vars
  BY <1>5 DEF Quiescent, vars, SlotMove, Holders
<1>6. QED
  BY <1>1, <1>2, <1>3, <1>4, <1>5 DEF Next

\* Whatever the step, what a semaphore has lost its holders have.
LEMMA SlotMoveKeepsCount ==
    ASSUME NEW e \in Attempts, TypeOK, SlotMove(e),
           slots[e] + Cardinality(Holders(e)) = MaxConcurrency
    PROVE  slots'[e] + Cardinality(Holders(e)') = MaxConcurrency
<1> DEFINE H == Holders(e)
<1>1. /\ IsFiniteSet(H) /\ Cardinality(H) \in Nat
      /\ Cardinality(Awaited(e) \cap H) \in Nat
  BY HoldersFinite
<1>2. slots[e] \in Nat /\ MaxConcurrency \in Nat
  BY FanOutAssumption DEF TypeOK
<1>3. CASE Holders(e)' = H /\ slots'[e] = slots[e]
  BY <1>3
<1>4. ASSUME NEW b \in Branches \ H, Holders(e)' = H \cup {b}, slots'[e] = slots[e] - 1
      PROVE  slots'[e] + Cardinality(Holders(e)') = MaxConcurrency
  <2>1. Cardinality(H \cup {b}) = Cardinality(H) + 1
    BY <1>1, FS_AddElement
  <2>2. QED
    BY <1>1, <1>2, <1>4, <2>1
<1>5. ASSUME NEW b \in H, Holders(e)' = H \ {b}, slots'[e] = slots[e] + 1
      PROVE  slots'[e] + Cardinality(Holders(e)') = MaxConcurrency
  <2>1. Cardinality(H \ {b}) = Cardinality(H) - 1
    BY <1>1, FS_RemoveElement
  <2>2. QED
    BY <1>1, <1>2, <1>5, <2>1
<1>6. CASE Holders(e)' = H \ Awaited(e) /\ slots'[e] = slots[e] + Cardinality(Awaited(e) \cap H)
  <2>1. Cardinality(H \ Awaited(e)) = Cardinality(H) - Cardinality(H \cap Awaited(e))
    BY <1>1, FS_Difference
  <2>2. H \cap Awaited(e) = Awaited(e) \cap H
    OBVIOUS
  <2>3. Cardinality(Holders(e)') = Cardinality(H) - Cardinality(Awaited(e) \cap H)
    BY <1>6, <2>1, <2>2, Zenon
  <2>4. slots'[e] = slots[e] + Cardinality(Awaited(e) \cap H)
    BY <1>6
  <2>5. QED
    BY <1>1, <1>2, <2>3, <2>4
<1>7. CASE Holders(e)' = {} /\ slots'[e] = slots[e] + Cardinality(H)
  <2>1. Cardinality(Holders(e)') = 0
    BY <1>7, FS_EmptySet
  <2>2. QED
    BY <1>1, <1>2, <1>7, <2>1
<1>8. QED
  BY <1>3, <1>4, <1>5, <1>6, <1>7 DEF SlotMove

-----------------------------------------------------------------------------
\* What a step does to the steps attempt e has begun: it begins no other one, or
\* one that it has counted and that the budget allows.
BegunMove(e) ==
    \/ Begun(e)' \subseteq Begun(e) /\ counter'[e] >= counter[e]
    \/ \E s \in Contexts \X Length :
         /\ Begun(e)' \subseteq Begun(e) \cup {s}
         /\ counter'[e] = counter[e] + 1
         /\ counter[e] + 1 <= MaxSteps

\* The steps a run has begun can be counted.
LEMMA BegunFinite ==
    ASSUME NEW a
    PROVE  IsFiniteSet(Begun(a)) /\ Cardinality(Begun(a)) \in Nat
<1> DEFINE f == [c \in Contexts |-> DOMAIN Body[c]]
<1> DEFINE Domains == {DOMAIN Body[c] : c \in Contexts}
<1>1. IsFiniteSet(Contexts)
  BY FS_AddElement, FanOutAssumption DEF Contexts
<1>2. f \in Surjection(Contexts, Domains)
  BY DEF Surjection
<1>3. IsFiniteSet(Domains)
  <2> HIDE DEF f, Domains
  <2>1. QED
    BY <1>1, <1>2, FS_Surjection
<1>4. \A D \in Domains : IsFiniteSet(D)
  <2> SUFFICES ASSUME NEW c \in Contexts
               PROVE  IsFiniteSet(DOMAIN Body[c])
    OBVIOUS
  <2>1. Len(Body[c]) \in Nat /\ DOMAIN Body[c] = 1..Len(Body[c])
    BY FanOutAssumption
  <2>2. QED
    BY <2>1, FS_Interval
<1>5. IsFiniteSet(Length)
  <2> HIDE DEF Domains
  <2>1. IsFiniteSet(UNION Domains)
    BY <1>3, <1>4, FS_UNION
  <2>2. QED
    BY <2>1 DEF Length, Domains
<1>6. IsFiniteSet(Contexts \X Length)
  BY <1>1, <1>5, FS_Product
<1>7. Begun(a) \in SUBSET (Contexts \X Length)
  BY DEF Begun
<1>8. IsFiniteSet(Begun(a))
  BY <1>6, <1>7, FS_Subset
<1>9. QED
  BY <1>8, FS_CardinalityType

\* Nothing is begun when no result is got and no task starts to execute.
LEMMA NothingBegun ==
    ASSUME NEW e \in Attempts,
           \A c \in Contexts, i \in Length :
             /\ seen'[e][c][i] # 0 => seen[e][c][i] # 0
             /\ task'[e][c] = "executing" =>
                  task[e][c] = "executing" /\ pos'[e][c] = pos[e][c]
    PROVE  Begun(e)' \subseteq Begun(e)
  BY DEF Begun

\* A step begins one step of the body at most, and only within the budget.
LEMMA NextBegins ==
    ASSUME TypeOK, [Next]_vars, NEW e \in Attempts
    PROVE  BegunMove(e)
<1> USE DEF TypeOK
<1>1. CASE StartAttempt
  <2>1. attempt + 1 \in Attempts /\ counter' = counter /\ seen' = seen /\ pos' = pos
    BY <1>1, FanOutAssumption DEF StartAttempt, Attempts
  <2>2. \A c \in Contexts : task'[e][c] = "executing" => task[e][c] = "executing"
    BY <1>1, <2>1 DEF StartAttempt
  <2>3. Begun(e)' \subseteq Begun(e)
    BY <2>1, <2>2, NothingBegun
  <2>4. counter'[e] >= counter[e]
    BY <2>1
  <2>5. QED
    BY <2>3, <2>4 DEF BegunMove
<1>2. ASSUME NEW a \in Attempts, NEW c \in Contexts, ContextStep(a, c) \/ StepRaises(a, c)
      PROVE  BegunMove(e)
  <2>1. CASE StartBatch(a, c) \/ AcquireSlot(a, c) \/ ExceedBudget(a, c) \/ Return(a, c)
              \/ GatherReturns(a, c) \/ GatherRaises(a, c) \/ StepRaises(a, c)
    <3> USE DEF StartBatch, AcquireSlot, ExceedBudget, Return, GatherReturns, GatherRaises,
                StepRaises
    <3>1. seen' = seen
      BY <2>1
    <3>2. counter'[e] >= counter[e]
      <4>1. counter' = counter \/ counter' = [counter EXCEPT ![a] = counter[a] + 1]
        <5>1. CASE ExceedBudget(a, c)
          BY <5>1
        <5>2. CASE ~ExceedBudget(a, c)
          BY <2>1, <5>2
        <5>3. QED
          BY <5>1, <5>2
      <4>2. counter[a] \in Nat /\ counter[e] \in Nat
        OBVIOUS
      <4>3. CASE counter' = counter
        BY <4>2, <4>3
      <4>4. CASE counter' = [counter EXCEPT ![a] = counter[a] + 1]
        <5>1. counter'[e] = IF e = a THEN counter[a] + 1 ELSE counter[e]
          BY <4>4
        <5>2. QED
          BY <4>2, <5>1
      <4>5. QED
        BY <4>1, <4>3, <4>4
    <3>3. \A d \in Contexts : task'[e][d] = "executing" =>
            task[e][d] = "executing" /\ pos'[e][d] = pos[e][d]
      <4>1. CASE StartBatch(a, c)
        BY <4>1
      <4>2. CASE GatherReturns(a, c)
        BY <4>2
      <4>3. CASE AcquireSlot(a, c) \/ ExceedBudget(a, c) \/ Return(a, c) \/ GatherRaises(a, c)
                   \/ StepRaises(a, c)
        <5>1. pos' = pos
          BY <4>3
        <5>2. PICK s \in {"running", "done", "failed"} : task' = [task EXCEPT ![a][c] = s]
          BY <4>3
        <5>3. QED
          BY <5>1, <5>2
      <4>4. QED
        BY <2>1, <4>1, <4>2, <4>3
    <3>4. Begun(e)' \subseteq Begun(e)
      BY <3>1, <3>3, NothingBegun
    <3>5. QED
      BY <3>2, <3>4 DEF BegunMove
  <2>2. CASE ReplayStep(a, c) \/ ExecuteStep(a, c)
    <3> DEFINE s == <<c, pos[a][c]>>
    <3>1. /\ s \in Contexts \X Length
          /\ counter' = [counter EXCEPT ![a] = counter[a] + 1]
          /\ counter[a] + 1 <= MaxSteps
      BY <2>2, BodyInLength DEF ReplayStep, ExecuteStep
    <3>2. \A d \in Contexts, i \in Length : seen'[e][d][i] # 0 =>
            seen[e][d][i] # 0 \/ (e = a /\ d = c /\ i = pos[a][c])
      BY <2>2 DEF ReplayStep, ExecuteStep
    <3>3. \A d \in Contexts : task'[e][d] = "executing" =>
            \/ task[e][d] = "executing" /\ pos'[e][d] = pos[e][d]
            \/ e = a /\ d = c /\ pos'[e][d] = pos[a][c]
      BY <2>2 DEF ReplayStep, ExecuteStep
    <3>4. CASE e = a
      <4>1. Begun(e)' \subseteq Begun(e) \cup {s}
        BY <3>2, <3>3 DEF Begun
      <4>2. counter'[e] = counter[e] + 1 /\ counter[e] + 1 <= MaxSteps
        BY <3>1, <3>4
      <4>3. QED
        BY <3>1, <4>1, <4>2 DEF BegunMove
    <3>5. CASE e # a
      <4>1. counter'[e] >= counter[e]
        BY <3>1, <3>5
      <4>2. QED
        BY <3>2, <3>3, <3>5, <4>1, NothingBegun DEF BegunMove
    <3>6. QED
      BY <3>4, <3>5
  <2>3. CASE PersistStep(a, c)
    <3>1. counter' = counter /\ task[a][c] = "executing"
      BY <2>3 DEF PersistStep
    <3>2. \A d \in Contexts, i \in Length : seen'[e][d][i] # 0 =>
            seen[e][d][i] # 0 \/ (e = a /\ d = c /\ i = pos[a][c])
      BY <2>3 DEF PersistStep
    <3>3. \A d \in Contexts : task'[e][d] = "executing" =>
            task[e][d] = "executing" /\ pos'[e][d] = pos[e][d]
      BY <2>3 DEF PersistStep
    <3>4. Begun(e)' \subseteq Begun(e)
      BY <3>1, <3>2, <3>3 DEF Begun
    <3>5. QED
      BY <3>1, <3>4 DEF BegunMove
  <2>4. QED
    BY <1>2, <2>1, <2>2, <2>3 DEF ContextStep
<1>3. CASE Crash \/ (\E a \in Attempts : CancelRoot(a)) \/ Quiescent \/ UNCHANGED vars
  <2>1. counter' = counter /\ seen' = seen /\ pos' = pos
    BY <1>3 DEF Crash, CancelRoot, Quiescent, vars
  <2>2. ASSUME NEW c \in Contexts, task'[e][c] = "executing"
        PROVE  task[e][c] = "executing"
    <3>1. CASE Crash
      BY <2>2, <3>1 DEF Crash
    <3>2. ASSUME NEW a \in Attempts, CancelRoot(a)
          PROVE  task[e][c] = "executing"
      <4>1. task'[e][c] = IF e = a /\ c \in Awaited(a) THEN "cancelled" ELSE task[e][c]
        BY <3>2 DEF CancelRoot
      <4>2. QED
        BY <2>2, <4>1
    <3>3. CASE Quiescent \/ UNCHANGED vars
      BY <2>2, <3>3 DEF Quiescent, vars
    <3>4. QED
      BY <1>3, <3>1, <3>2, <3>3
  <2>3. Begun(e)' \subseteq Begun(e)
    BY <2>1, <2>2, NothingBegun
  <2>4. counter'[e] >= counter[e]
    BY <2>1
  <2>5. QED
    BY <2>3, <2>4 DEF BegunMove
<1>4. QED
  BY <1>1, <1>2, <1>3 DEF Next

\* What is begun was counted, and fits into the budget.
Counted ==
    \A a \in Attempts :
        Cardinality(Begun(a)) <= counter[a] /\ Cardinality(Begun(a)) <= MaxSteps

\* A set has at most one element more than a set that it leaves in one point.
LEMMA OneMore ==
    ASSUME NEW S, NEW T, NEW x, IsFiniteSet(S), T \subseteq S \cup {x}
    PROVE  /\ Cardinality(S) \in Nat /\ Cardinality(T) \in Nat
           /\ Cardinality(T) <= Cardinality(S) + 1
<1> DEFINE U == S \cup {x}
<1>1. IsFiniteSet(U) /\ Cardinality(U) = IF x \in S THEN Cardinality(S) ELSE Cardinality(S) + 1
  BY FS_AddElement
<1> HIDE DEF U
<1>2. IsFiniteSet(T) /\ Cardinality(T) <= Cardinality(U)
  BY <1>1, FS_Subset DEF U
<1>3. Cardinality(S) \in Nat /\ Cardinality(T) \in Nat /\ Cardinality(U) \in Nat
  BY <1>1, <1>2, FS_CardinalityType
<1>4. QED
  BY <1>1, <1>2, <1>3

\* So their number stays within the counter and the budget.
LEMMA BegunMoveCounts ==
    ASSUME TypeOK, NEW e \in Attempts, BegunMove(e), counter'[e] \in Nat,
           Cardinality(Begun(e)) <= counter[e], Cardinality(Begun(e)) <= MaxSteps
    PROVE  Cardinality(Begun(e)') <= counter'[e] /\ Cardinality(Begun(e)') <= MaxSteps
<1> DEFINE B == Begun(e)
<1>1. IsFiniteSet(B) /\ Cardinality(B) \in Nat
  BY BegunFinite
<1>2. counter[e] \in Nat /\ MaxSteps \in Nat
  BY FanOutAssumption DEF TypeOK
<1>3. CASE Begun(e)' \subseteq B /\ counter'[e] >= counter[e]
  <2>1. IsFiniteSet(Begun(e)') /\ Cardinality(Begun(e)') <= Cardinality(B)
    BY <1>1, <1>3, FS_Subset
  <2>2. Cardinality(Begun(e)') \in Nat
    BY <2>1, FS_CardinalityType
  <2>3. QED
    BY <1>1, <1>2, <1>3, <2>1, <2>2
<1>4. ASSUME NEW s \in Contexts \X Length, Begun(e)' \subseteq B \cup {s},
             counter'[e] = counter[e] + 1, counter[e] + 1 <= MaxSteps
      PROVE  Cardinality(Begun(e)') <= counter'[e] /\ Cardinality(Begun(e)') <= MaxSteps
  <2> HIDE DEF B
  <2>1. Cardinality(Begun(e)') \in Nat /\ Cardinality(Begun(e)') <= Cardinality(B) + 1
    BY <1>1, <1>4, OneMore
  <2>2. Cardinality(B) <= counter[e]
    BY DEF B
  <2>3. QED
    BY <1>1, <1>2, <1>4, <2>1, <2>2
<1>5. QED
  BY <1>3, <1>4 DEF BegunMove

-----------------------------------------------------------------------------
\* The theorems.

\* Types, and what a spawned branch tells of the context it was spawned by.
THEOREM BranchInvariant == Spec => [](TypeOK /\ Spawned)
<1>1. Init => TypeOK /\ Spawned
  BY InitTypeOK, InitSpawned
<1>2. TypeOK /\ Spawned /\ [Next]_vars => (TypeOK /\ Spawned)'
  BY NextTypeOK, NextSpawned
<1>3. QED
  BY <1>1, <1>2, PTL DEF Spec

\* TypeOK: every variable of a run's body keeps its type.
THEOREM BranchTypeCorrect == Spec => []TypeOK
  BY BranchInvariant, PTL

\* NothingLeftBehind: a parallel that returned, or was cancelled with its run,
\* left no branch running; only one that failed fast can have.
THEOREM ReturnedBatchIsOver == Spec => []NothingLeftBehind
<1>1. Spawned => NothingLeftBehind
  BY DEF Spawned, NothingLeftBehind, Alive
<1>2. QED
  BY <1>1, BranchInvariant, PTL

\* SlotsAccounted: the semaphore of a run is exact on every way out of a thunk.
THEOREM SlotsAreExact == Spec => []SlotsAccounted
<1>1. Init => SlotsAccounted
  <2> SUFFICES ASSUME Init, NEW a \in Attempts
               PROVE  slots[a] + Cardinality(Holders(a)) = MaxConcurrency
    BY DEF SlotsAccounted
  <2>1. Holders(a) = {} /\ slots[a] = MaxConcurrency
    BY RootHolds DEF Init, Holders, Holding
  <2>2. QED
    BY <2>1, FS_EmptySet, FanOutAssumption
<1>2. TypeOK /\ Spawned /\ SlotsAccounted /\ [Next]_vars => SlotsAccounted'
  <2> SUFFICES ASSUME TypeOK, Spawned, SlotsAccounted, [Next]_vars, NEW a \in Attempts
               PROVE  slots'[a] + Cardinality(Holders(a)') = MaxConcurrency
    BY DEF SlotsAccounted
  <2>1. SlotMove(a)
    BY NextMovesSlots
  <2>2. slots[a] + Cardinality(Holders(a)) = MaxConcurrency
    BY DEF SlotsAccounted
  <2>3. QED
    BY <2>1, <2>2, SlotMoveKeepsCount
<1>3. QED
  BY <1>1, <1>2, BranchInvariant, PTL DEF Spec

\* StepBudget: however the branches interleave, one attempt never executes and
\* replays more steps than the run's budget.
THEOREM BudgetIsTheRuns == Spec => []StepBudget
<1>1. Init => Counted
  <2> SUFFICES ASSUME Init, NEW a \in Attempts
               PROVE  Cardinality(Begun(a)) <= counter[a] /\ Cardinality(Begun(a)) <= MaxSteps
    BY DEF Counted
  <2>1. Begun(a) = {} /\ counter[a] = 0
    BY DEF Init, Begun, Unrecorded
  <2>2. QED
    BY <2>1, FS_EmptySet, FanOutAssumption
<1>2. TypeOK /\ TypeOK' /\ Counted /\ [Next]_vars => Counted'
  <2> SUFFICES ASSUME TypeOK, TypeOK', Counted, [Next]_vars, NEW a \in Attempts
               PROVE  Cardinality(Begun(a)') <= counter'[a] /\ Cardinality(Begun(a)') <= MaxSteps
    BY DEF Counted
  <2>1. BegunMove(a) /\ counter'[a] \in Nat
    BY NextBegins DEF TypeOK
  <2>2. Cardinality(Begun(a)) <= counter[a] /\ Cardinality(Begun(a)) <= MaxSteps
    BY DEF Counted
  <2>3. QED
    BY <2>1, <2>2, BegunMoveCounts
<1>3. Counted => StepBudget
  BY DEF Counted, StepBudget
<1>4. QED
  BY <1>1, <1>2, <1>3, BranchInvariant, PTL DEF Spec

\* NoSlotDeadlock: a run whose branches open fewer batches than it has slots
\* never has them all held by branches that wait for a slot.
THEOREM FewerBatchesThanSlots ==
    ASSUME Cardinality(Inner) < MaxConcurrency
    PROVE  Spec => []NoSlotDeadlock
<1>1. ASSUME TypeOK, Spawned, SlotsAccounted, NEW a \in Attempts, SlotDeadlock(a)
      PROVE  FALSE
  <2>1. Holders(a) \subseteq Inner
    BY <1>1, RootHolds DEF SlotDeadlock, Spawned, AtBatch, Inner, Holders
  <2>2. IsFiniteSet(Inner)
    BY FS_Subset, FanOutAssumption DEF Inner
  <2>3. Cardinality(Holders(a)) <= Cardinality(Inner)
    BY <2>1, <2>2, FS_Subset
  <2>4. slots[a] = 0 /\ slots[a] + Cardinality(Holders(a)) = MaxConcurrency
    BY <1>1 DEF SlotDeadlock, SlotsAccounted
  <2>5. Cardinality(Holders(a)) \in Nat /\ Cardinality(Inner) \in Nat
    BY <2>2, HoldersFinite, FS_CardinalityType
  <2>6. QED
    BY <2>3, <2>4, <2>5, FanOutAssumption
<1>2. TypeOK /\ Spawned /\ SlotsAccounted => NoSlotDeadlock
  BY <1>1 DEF NoSlotDeadlock
<1>3. QED
  BY <1>2, BranchInvariant, SlotsAreExact, PTL

-----------------------------------------------------------------------------
\* What a returning attempt has on record.  Only the last attempt has a Root that
\* runs; an attempt that did not start beside branches of an earlier one is the only
\* one that has tasks as long as its Root runs, so what it has seen is what the
\* store holds; and once its Root has returned, what the output is built from is
\* stored, so that nobody executes it.
Reads(a, c) ==
    /\ task[a][c] = "done" => pos[a][c] \notin DOMAIN Body[c]
    /\ task[a][c] = "executing" =>
          pos[a][c] \in DOMAIN Body[c] /\ Body[c][pos[a][c]] = "step"
    /\ \A i \in DOMAIN Body[c] :
          i < pos[a][c] /\ Body[c][i] = "step" => seen[a][c][i] # 0

ReadsAll == \A a \in Attempts, c \in Contexts : Reads(a, c)

LastRuns ==
    \A a \in Attempts :
        /\ task[a][Root] \in Alive => a = attempt
        /\ a > attempt => \A c \in Contexts, i \in Length : seen[a][c][i] = 0

Alone ==
    \A a \in Attempts \ haunted : a <= attempt =>
        \A b \in Attempts, c \in Contexts : b < a => task[b][c] \notin Alive

Agrees ==
    \A a \in Attempts \ haunted : task[a][Root] \in Alive =>
        \A c \in Contexts, i \in Length : seen[a][c][i] # 0 => seen[a][c][i] = stored[c][i]

Recorded(a, c) ==
    /\ \A i \in DOMAIN Body[c] : Body[c][i] = "step" =>
          seen[a][c][i] # 0 /\ seen[a][c][i] = stored[c][i]
    /\ \A b \in Attempts : task[b][c] # "executing"

Returned ==
    \A a \in Attempts \ haunted : task[a][Root] = "done" =>
        \A c \in Output(a) : Recorded(a, c)

OnRecord == ReadsAll /\ LastRuns /\ Alone /\ Agrees /\ Returned

Acts(a, c) == ContextStep(a, c) \/ StepRaises(a, c)

LEMMA AncestorsClosed ==
    ASSUME NEW b \in Branches
    PROVE  /\ Parent[b] \in Ancestors[b]
           /\ \A d \in Ancestors[b] \cap Branches : Parent[d] \in Ancestors[b]
           /\ Ancestors[b] \subseteq Contexts
<1>1. Ancestors[b] = {c \in Contexts : \A T \in SUBSET Contexts :
                        (/\ Parent[b] \in T
                         /\ \A d \in T \cap Branches : Parent[d] \in T) => c \in T}
  BY DEF Ancestors
<1> QED
  BY <1>1, RootHolds

\* A step of context c of attempt a touches nothing else but the branches it spawns,
\* and the store at its own place.
LEMMA ActsOnly ==
    ASSUME TypeOK, Spawned, NEW a \in Attempts, NEW c \in Contexts, Acts(a, c)
    PROVE  /\ task[a][c] \in Alive /\ a <= attempt /\ UNCHANGED <<attempt, haunted>>
           /\ \A b \in Attempts, d \in Contexts : b # a \/ d # c =>
                 /\ seen'[b][d] = seen[b][d] /\ pos'[b][d] = pos[b][d]
                 /\ task'[b][d] = task[b][d] \/ (b = a /\ d \in Branches /\ task'[b][d] = "waiting")
<1> USE DEF TypeOK, Acts, ContextStep, Alive
<1>1. CASE StartBatch(a, c)
  BY <1>1 DEF StartBatch, Children
<1>2. CASE AcquireSlot(a, c) \/ ExceedBudget(a, c) \/ ExecuteStep(a, c) \/ Return(a, c)
           \/ GatherRaises(a, c) \/ StepRaises(a, c)
  BY <1>2 DEF AcquireSlot, ExceedBudget, ExecuteStep, Return, GatherRaises, StepRaises
<1>3. CASE ReplayStep(a, c) \/ PersistStep(a, c) \/ GatherReturns(a, c)
  BY <1>3 DEF ReplayStep, PersistStep, GatherReturns
<1> QED
  BY <1>1, <1>2, <1>3

\* What it does there.
LEMMA ActsWhere ==
    ASSUME TypeOK, Spawned, ReadsAll, NEW a \in Attempts, NEW c \in Contexts, Acts(a, c)
    PROVE  \/ /\ UNCHANGED <<stored, seen>> /\ pos'[a][c] = pos[a][c]
              /\ task'[a][c] = "done" => pos[a][c] \notin DOMAIN Body[c]
              /\ task'[a][c] = "executing" =>
                    /\ pos[a][c] \in DOMAIN Body[c] /\ Body[c][pos[a][c]] = "step"
                    /\ stored[c][pos[a][c]] = 0
           \/ /\ UNCHANGED <<stored, seen>> /\ pos'[a][c] = pos[a][c] + 1
              /\ task'[a][c] = "running"
              /\ pos[a][c] \in DOMAIN Body[c] /\ Body[c][pos[a][c]] = "batch"
           \/ \E i \in Length : \E v \in Attempts :
              /\ pos[a][c] = i /\ pos'[a][c] = i + 1 /\ task'[a][c] = "running"
              /\ seen'[a][c] = [seen[a][c] EXCEPT ![i] = v]
              /\ \/ UNCHANGED stored /\ v = stored[c][i]
                 \/ /\ task[a][c] = "executing"
                    /\ stored' = [stored EXCEPT ![c][i] = v]
<1> USE DEF TypeOK, Acts, ContextStep, Alive
<1>1. CASE StartBatch(a, c)
  BY <1>1, RootHolds DEF StartBatch, Children
<1>2. CASE AcquireSlot(a, c) \/ ExceedBudget(a, c) \/ ExecuteStep(a, c) \/ Return(a, c)
           \/ GatherRaises(a, c) \/ StepRaises(a, c)
  BY <1>2 DEF AcquireSlot, ExceedBudget, ExecuteStep, Return, GatherRaises, StepRaises
<1>3. CASE GatherReturns(a, c)
  BY <1>3 DEF GatherReturns, Spawned, AtBatch
<1>4. CASE ReplayStep(a, c)
  <2>1. pos[a][c] \in Length /\ stored[c][pos[a][c]] \in Attempts
    BY <1>4, BodyInLength DEF ReplayStep, Attempts
  <2>2. task'[a][c] = "running" /\ pos'[a][c] = pos[a][c] + 1 /\ stored' = stored
    BY <1>4 DEF ReplayStep
  <2>3. seen'[a][c] = [seen[a][c] EXCEPT ![pos[a][c]] = stored[c][pos[a][c]]]
    BY <1>4 DEF ReplayStep
  <2> QED
    BY <2>1, <2>2, <2>3
<1>5. CASE PersistStep(a, c)
  <2>1. task[a][c] = "executing" /\ pos[a][c] \in Length
    BY <1>5, BodyInLength DEF PersistStep, ReadsAll, Reads
  <2>2. task'[a][c] = "running" /\ pos'[a][c] = pos[a][c] + 1
    BY <1>5 DEF PersistStep
  <2>3. /\ seen'[a][c] = [seen[a][c] EXCEPT ![pos[a][c]] = a]
        /\ stored' = [stored EXCEPT ![c][pos[a][c]] = a]
    BY <1>5 DEF PersistStep
  <2> QED
    BY <2>1, <2>2, <2>3
<1> QED
  BY <1>1, <1>2, <1>3, <1>4, <1>5

\* A cancellation or a crash ends tasks, and starts none.
Ends ==
    /\ UNCHANGED <<stored, attempt, pos, seen, haunted>>
    /\ \A a \in Attempts, c \in Contexts :
          task'[a][c] = task[a][c] \/ (task[a][c] \in Alive /\ task'[a][c] = "cancelled")

LEMMA FanOutMoves ==
    ASSUME TypeOK, [Next]_vars
    PROVE  \/ StartAttempt \/ Ends
           \/ \E a \in Attempts, c \in Contexts : Acts(a, c)
<1> USE DEF TypeOK, Alive
<1>1. ASSUME NEW a \in Attempts, CancelRoot(a) PROVE Ends
  BY <1>1, RootHolds DEF CancelRoot, Ends, Awaited
<1>2. CASE Crash
  BY <1>2 DEF Crash, Ends
<1>3. CASE Quiescent \/ UNCHANGED vars
  BY <1>3 DEF Quiescent, vars, Ends
<1> QED
  BY <1>1, <1>2, <1>3 DEF Next, Acts

LEMMA BehindNext ==
    ASSUME NEW p \in Nat, NEW c \in Contexts
    PROVE  \A i \in DOMAIN Body[c] : i < p + 1 => i < p \/ i = p
<1>1. \A i \in DOMAIN Body[c] : i \in Nat
  BY FanOutAssumption
<1> QED
  BY <1>1

LEMMA ReadsAllStep ==
    ASSUME TypeOK, Spawned, ReadsAll, [Next]_vars PROVE ReadsAll'
<1> SUFFICES ASSUME NEW b \in Attempts, NEW d \in Contexts PROVE Reads(b, d)'
  BY DEF ReadsAll
<1>0. Reads(b, d)
  BY DEF ReadsAll
<1>1. ASSUME pos'[b][d] = pos[b][d], seen'[b][d] = seen[b][d],
             task'[b][d] \in {task[b][d], "running", "waiting", "cancelled"}
      PROVE  Reads(b, d)'
  BY <1>0, <1>1 DEF Reads
<1>2. CASE StartAttempt
  <2>1. /\ pos' = pos /\ seen' = seen
        /\ task'[b][d] = task[b][d] \/ task'[b][d] = "running"
    BY <1>2 DEF StartAttempt, TypeOK
  <2> QED
    BY <1>1, <2>1
<1>3. CASE Ends
  BY <1>1, <1>3 DEF Ends
<1>4. ASSUME NEW a \in Attempts, NEW c \in Contexts, Acts(a, c), b # a \/ d # c
      PROVE  Reads(b, d)'
  <2>1. /\ seen'[b][d] = seen[b][d] /\ pos'[b][d] = pos[b][d]
        /\ task'[b][d] = task[b][d] \/ task'[b][d] = "waiting"
    BY <1>4, ActsOnly
  <2> QED
    BY <1>1, <2>1
<1>5. CASE Acts(b, d)
  <2>0. pos[b][d] \in Nat /\ seen[b][d] \in [Length -> 0..MaxAttempts]
    BY DEF TypeOK
  <2>1. \A i \in DOMAIN Body[d] : i < pos[b][d] + 1 => i < pos[b][d] \/ i = pos[b][d]
    BY <2>0, BehindNext
  <2>2. CASE /\ UNCHANGED <<stored, seen>> /\ pos'[b][d] = pos[b][d]
             /\ task'[b][d] = "done" => pos[b][d] \notin DOMAIN Body[d]
             /\ task'[b][d] = "executing" =>
                   pos[b][d] \in DOMAIN Body[d] /\ Body[d][pos[b][d]] = "step"
    BY <1>0, <2>2 DEF Reads
  <2>3. CASE /\ UNCHANGED <<stored, seen>> /\ pos'[b][d] = pos[b][d] + 1
             /\ task'[b][d] = "running" /\ Body[d][pos[b][d]] = "batch"
    <3>1. \A i \in DOMAIN Body[d] :
             i < pos[b][d] + 1 /\ Body[d][i] = "step" => seen[b][d][i] # 0
      BY <1>0, <2>1, <2>3 DEF Reads
    <3> QED
      BY <2>3, <3>1 DEF Reads
  <2>4. CASE \E i \in Length : \E v \in Attempts :
                /\ pos[b][d] = i /\ pos'[b][d] = i + 1 /\ task'[b][d] = "running"
                /\ seen'[b][d] = [seen[b][d] EXCEPT ![i] = v]
                /\ \/ UNCHANGED stored /\ v = stored[d][i]
                   \/ /\ task[b][d] = "executing"
                      /\ stored' = [stored EXCEPT ![d][i] = v]
    <3>0. PICK i \in Length, v \in Attempts :
                /\ pos[b][d] = i /\ pos'[b][d] = i + 1 /\ task'[b][d] = "running"
                /\ seen'[b][d] = [seen[b][d] EXCEPT ![i] = v]
      BY <2>4
    <3>1. v # 0
      BY DEF Attempts
    <3>2. \A j \in Length : seen'[b][d][j] = IF j = i THEN v ELSE seen[b][d][j]
      BY <2>0, <3>0
    <3>3. \A j \in DOMAIN Body[d] : j \in Length
      BY BodyInLength
    <3>4. \A j \in DOMAIN Body[d] :
             j < i + 1 /\ Body[d][j] = "step" => seen'[b][d][j] # 0
      BY <1>0, <2>1, <3>0, <3>1, <3>2, <3>3 DEF Reads
    <3> QED
      BY <3>0, <3>4 DEF Reads
  <2> QED
    BY <1>5, <2>2, <2>3, <2>4, ActsWhere
<1> QED
  BY <1>2, <1>3, <1>4, <1>5, FanOutMoves

\* Nobody comes to life in an attempt that is over.
LEMMA AliveWas ==
    ASSUME TypeOK, Spawned, [Next]_vars, ~StartAttempt,
           NEW a \in Attempts, NEW c \in Contexts, task'[a][c] \in Alive
    PROVE  /\ a <= attempt /\ UNCHANGED <<attempt, haunted>>
           /\ \E d \in Contexts : task[a][d] \in Alive
           /\ c = Root => task[a][c] \in Alive
<1>1. CASE Ends
  <2>1. task[a][c] \in Alive
    BY <1>1 DEF Ends, Alive
  <2>2. a <= attempt
    BY <2>1 DEF Spawned, Alive, TypeOK, Attempts
  <2> QED
    BY <1>1, <2>1, <2>2 DEF Ends
<1>2. ASSUME NEW b \in Attempts, NEW d \in Contexts, Acts(b, d)
      PROVE  /\ a <= attempt /\ UNCHANGED <<attempt, haunted>>
             /\ \E e \in Contexts : task[a][e] \in Alive
             /\ c = Root => task[a][c] \in Alive
  <2>1. task[b][d] \in Alive /\ b <= attempt /\ UNCHANGED <<attempt, haunted>>
    BY <1>2, ActsOnly
  <2>2. CASE a = b
    <3>1. c = Root => task[a][c] \in Alive
      <4>1. c = d \/ task'[a][c] = task[a][c] \/ c \in Branches
        BY <1>2, <2>2, ActsOnly
      <4> QED
        BY <2>1, <2>2, <4>1, RootHolds
    <3> QED
      BY <2>1, <2>2, <3>1
  <2>3. CASE a # b
    <3>1. task'[a][c] = task[a][c]
      BY <1>2, <2>3, ActsOnly
    <3>2. a <= attempt
      BY <3>1 DEF Spawned, Alive, TypeOK, Attempts
    <3> QED
      BY <2>1, <3>1, <3>2
  <2> QED
    BY <2>2, <2>3
<1> QED
  BY <1>1, <1>2, FanOutMoves

LEMMA LastRunsStep ==
    ASSUME TypeOK, Spawned, LastRuns, [Next]_vars PROVE LastRuns'
<1> SUFFICES ASSUME NEW a \in Attempts
             PROVE  /\ task'[a][Root] \in Alive => a = attempt'
                    /\ a > attempt' => \A c \in Contexts, i \in Length : seen'[a][c][i] = 0
  BY DEF LastRuns
<1>0. attempt \in Nat /\ a \in Nat
  BY DEF TypeOK, Attempts
<1>1. CASE StartAttempt
  <2>1. attempt' = attempt + 1 /\ seen' = seen /\ \A b \in Attempts : task[b][Root] \notin Alive
    BY <1>1 DEF StartAttempt
  <2>2. a # attempt + 1 => task'[a] = task[a]
    BY <1>1 DEF StartAttempt, TypeOK
  <2>3. a > attempt' => a > attempt
    BY <1>0, <2>1
  <2> QED
    BY <2>1, <2>2, <2>3 DEF LastRuns
<1>2. CASE ~StartAttempt
  <2>1. task'[a][Root] \in Alive => task[a][Root] \in Alive /\ attempt' = attempt
    BY <1>2, AliveWas, RootHolds
  <2>2. attempt' = attempt /\ (a > attempt => seen'[a] = seen[a])
    <3>1. CASE Ends
      BY <3>1 DEF Ends
    <3>2. ASSUME NEW b \in Attempts, NEW c \in Contexts, Acts(b, c)
          PROVE  attempt' = attempt /\ (a > attempt => seen'[a] = seen[a])
      <4>1. b <= attempt /\ attempt' = attempt
        BY <3>2, ActsOnly
      <4>2. CASE a > attempt
        <5>1. a # b
          BY <1>0, <4>1, <4>2 DEF Attempts
        <5>2. \A d \in Contexts : seen'[a][d] = seen[a][d]
          BY <3>2, <5>1, ActsOnly
        <5>3. seen' \in [Attempts -> [Contexts -> [Length -> 0..MaxAttempts]]]
          BY NextTypeOK DEF TypeOK
        <5> QED
          BY <4>1, <5>2, <5>3 DEF TypeOK
      <4> QED
        BY <4>1, <4>2
    <3> QED
      BY <1>2, <3>1, <3>2, FanOutMoves
  <2> QED
    BY <2>1, <2>2 DEF LastRuns
<1> QED
  BY <1>1, <1>2

LEMMA AloneStep ==
    ASSUME TypeOK, Spawned, Alone, [Next]_vars PROVE Alone'
<1> SUFFICES ASSUME NEW a \in Attempts, a \notin haunted', a <= attempt',
                    NEW b \in Attempts, NEW c \in Contexts, b < a, task'[b][c] \in Alive
             PROVE  FALSE
  BY DEF Alone
<1>0. attempt \in Nat /\ a \in Nat /\ b \in Nat
  BY DEF TypeOK, Attempts
<1>1. CASE StartAttempt
  <2>1. /\ attempt' = attempt + 1 /\ \A e \in Attempts : task[e][Root] \notin Alive
        /\ haunted \subseteq haunted'
        /\ (\E e \in Attempts, d \in Branches : task[e][d] \in Alive) => attempt + 1 \in haunted'
    BY <1>1 DEF StartAttempt
  <2>2. b # attempt + 1
    BY <1>0, <2>1
  <2>3. task'[b] = task[b]
    BY <1>1, <2>2 DEF StartAttempt, TypeOK
  <2>4. task[b][c] \in Alive
    BY <2>3
  <2>5. CASE a = attempt + 1
    BY <2>1, <2>4, <2>5 DEF Contexts
  <2>6. CASE a <= attempt
    BY <2>1, <2>4, <2>6 DEF Alone
  <2> QED
    BY <1>0, <2>1, <2>5, <2>6
<1>2. CASE ~StartAttempt
  <2>1. UNCHANGED <<attempt, haunted>> /\ \E d \in Contexts : task[b][d] \in Alive
    BY <1>2, AliveWas
  <2> QED
    BY <2>1 DEF Alone
<1> QED
  BY <1>1, <1>2

LEMMA AgreesStep ==
    ASSUME TypeOK, Spawned, ReadsAll, LastRuns, Alone, Agrees, [Next]_vars PROVE Agrees'
<1> SUFFICES ASSUME NEW a \in Attempts, a \notin haunted', task'[a][Root] \in Alive,
                    NEW c \in Contexts, NEW i \in Length, seen'[a][c][i] # 0
             PROVE  seen'[a][c][i] = stored'[c][i]
  BY DEF Agrees
<1>1. CASE StartAttempt
  <2>1. seen' = seen /\ \A e \in Attempts : task[e][Root] \notin Alive
    BY <1>1 DEF StartAttempt
  <2>2. a = attempt + 1
    BY <1>1, <2>1 DEF StartAttempt, TypeOK
  <2>3. a > attempt
    BY <2>2 DEF TypeOK
  <2> QED
    BY <2>1, <2>3 DEF LastRuns
<1>2. CASE ~StartAttempt
  <2>1. a \notin haunted /\ task[a][Root] \in Alive
    BY <1>2, AliveWas, RootHolds
  <2>2. a = attempt
    BY <2>1 DEF LastRuns
  <2>3. \A d \in Contexts, j \in Length : seen[a][d][j] # 0 => seen[a][d][j] = stored[d][j]
    BY <2>1 DEF Agrees
  <2>4. CASE Ends
    BY <2>3, <2>4 DEF Ends
  <2>5. ASSUME NEW b \in Attempts, NEW d \in Contexts, Acts(b, d)
        PROVE  seen'[a][c][i] = stored'[c][i]
    <3>1. b = a
      <4>1. task[b][d] \in Alive /\ b <= attempt
        BY <2>5, ActsOnly
      <4>2. ~(b < a)
        BY <2>1, <2>2, <4>1 DEF Alone, TypeOK
      <4> QED
        BY <2>2, <4>1, <4>2 DEF Attempts
    <3>2. c # d => seen'[a][c] = seen[a][c]
      BY <2>5, ActsOnly
    <3>3. CASE UNCHANGED <<stored, seen>>
      BY <2>3, <3>3
    <3>4. CASE \E n \in Length : \E v \in Attempts :
              /\ pos[b][d] = n /\ pos'[b][d] = n + 1 /\ task'[b][d] = "running"
              /\ seen'[b][d] = [seen[b][d] EXCEPT ![n] = v]
              /\ \/ UNCHANGED stored /\ v = stored[d][n]
                 \/ /\ task[b][d] = "executing"
                    /\ stored' = [stored EXCEPT ![d][n] = v]
      <4>1. PICK n \in Length, v \in Attempts :
              /\ seen'[b][d] = [seen[b][d] EXCEPT ![n] = v]
              /\ \/ UNCHANGED stored /\ v = stored[d][n]
                 \/ stored' = [stored EXCEPT ![d][n] = v]
        BY <3>4
      <4>2. /\ seen[b][d] \in [Length -> 0..MaxAttempts]
            /\ stored \in [Contexts -> [Length -> 0..MaxAttempts]]
        BY DEF TypeOK
      <4>3. /\ c = d /\ i = n => seen'[a][c][i] = v /\ stored'[c][i] = v
            /\ ~(c = d /\ i = n) => seen'[a][c][i] = seen[a][c][i] /\ stored'[c][i] = stored[c][i]
        BY <3>1, <3>2, <4>1, <4>2
      <4> QED
        BY <2>3, <4>3
    <3> QED
      BY <2>5, <3>3, <3>4, ActsWhere
  <2> QED
    BY <1>2, <2>4, <2>5, FanOutMoves
<1> QED
  BY <1>1, <1>2

\* What belongs to the output of an attempt that has returned was done when it did.
LEMMA OutputWas ==
    ASSUME TypeOK, Spawned, NEW a \in Attempts, NEW d \in Contexts, Acts(a, d),
           task[a][Root] = "done", NEW c \in Contexts, c \in Output(a)'
    PROVE  c \in Output(a) /\ c # d
<1>1. task[a][d] \in Alive
  BY ActsOnly
<1>2. d \in Branches /\ d # Root
  BY <1>1 DEF Contexts, Alive
<1>3. ASSUME task'[a][Parent[d]] = "done" PROVE FALSE
  <2>1. Parent[d] \in Contexts /\ task[a][d] # "none"
    BY <1>1, <1>2, RootHolds DEF Alive
  <2>2. task[a][Parent[d]] \in {"gathering", "failed"}
    BY <1>1, <1>2, <2>1 DEF Spawned
  <2>3. Parent[d] = d
    BY <1>3, <2>1, <2>2, ActsOnly
  <2>4. task[a][d] = "gathering"
    BY <1>1, <2>2, <2>3 DEF Alive
  <2> QED
    BY <1>3, <2>3, <2>4 DEF Acts, ContextStep, StartBatch, AcquireSlot, ExceedBudget, ReplayStep,
       ExecuteStep, PersistStep, Return, GatherReturns, GatherRaises, StepRaises, TypeOK
<1>4. task'[a][c] = "done" /\ (c # Root => \A e \in Ancestors[c] : task'[a][e] = "done")
  BY DEF Output
<1>5. c # d
  BY <1>2, <1>3, <1>4, AncestorsClosed
<1>6. \A e \in Contexts : e # d /\ task'[a][e] = "done" => task[a][e] = "done"
  BY ActsOnly
<1>7. ASSUME c # Root, NEW e \in Ancestors[c] PROVE task[a][e] = "done"
  <2>1. c \in Branches
    BY <1>7 DEF Contexts
  <2>2. e \in Contexts /\ task'[a][e] = "done"
    BY <1>4, <1>7, <2>1, AncestorsClosed
  <2>3. e # d
    BY <1>2, <1>3, <1>4, <1>7, <2>1, AncestorsClosed
  <2> QED
    BY <1>6, <2>2, <2>3
<1> QED
  BY <1>4, <1>5, <1>6, <1>7 DEF Output

LEMMA ReturnedStep ==
    ASSUME TypeOK, Spawned, OnRecord, [Next]_vars PROVE Returned'
<1> USE DEF OnRecord
<1> SUFFICES ASSUME NEW a \in Attempts, a \notin haunted', task'[a][Root] = "done",
                    NEW c \in Contexts, c \in Output(a)'
             PROVE  Recorded(a, c)'
  BY DEF Returned, Output
<1>1. CASE StartAttempt
  <2>1. /\ seen' = seen /\ stored' = stored /\ haunted \subseteq haunted'
        /\ \A b \in Attempts, d \in Contexts :
              task'[b][d] = task[b][d] \/ task'[b][d] = "running"
    BY <1>1 DEF StartAttempt, TypeOK
  <2>2. c \in Output(a)
    <3>1. \A d \in Contexts : task'[a][d] = "done" => task[a][d] = "done"
      BY <2>1
    <3>2. c # Root => Ancestors[c] \subseteq Contexts
      BY AncestorsClosed DEF Contexts
    <3> QED
      BY <3>1, <3>2 DEF Output
  <2>3. task[a][Root] = "done" /\ a \notin haunted
    BY <2>1, RootHolds
  <2>4. Recorded(a, c)
    BY <2>2, <2>3 DEF Returned
  <2> QED
    BY <2>1, <2>4 DEF Recorded
<1>2. CASE Ends
  <2>1. /\ seen' = seen /\ stored' = stored /\ haunted = haunted'
        /\ \A b \in Attempts, d \in Contexts :
              task'[b][d] = task[b][d] \/ task'[b][d] = "cancelled"
    BY <1>2 DEF Ends
  <2>2. c \in Output(a)
    <3>1. \A d \in Contexts : task'[a][d] = "done" => task[a][d] = "done"
      BY <2>1
    <3>2. c # Root => Ancestors[c] \subseteq Contexts
      BY AncestorsClosed DEF Contexts
    <3> QED
      BY <3>1, <3>2 DEF Output
  <2>3. task[a][Root] = "done"
    BY <2>1, RootHolds
  <2>4. Recorded(a, c)
    BY <2>1, <2>2, <2>3 DEF Returned
  <2> QED
    BY <2>1, <2>4 DEF Recorded
<1>3. ASSUME NEW b \in Attempts, NEW d \in Contexts, Acts(b, d), task[a][Root] = "done"
      PROVE  Recorded(a, c)'
  <2>1. a \notin haunted /\ task[b][d] \in Alive
    BY <1>3, ActsOnly
  <2>2. c \in Output(a) /\ (b = a => c # d)
    <3>1. CASE b = a
      BY <1>3, <3>1, OutputWas
    <3>2. CASE b # a
      <4>1. \A e \in Contexts : task'[a][e] = task[a][e]
        BY <1>3, <3>2, ActsOnly
      <4>2. c # Root => Ancestors[c] \subseteq Contexts
        BY AncestorsClosed DEF Contexts
      <4> QED
        BY <3>2, <4>1, <4>2 DEF Output
    <3> QED
      BY <3>1, <3>2
  <2>3. Recorded(a, c)
    BY <1>3, <2>1, <2>2 DEF Returned
  <2>4. seen'[a][c] = seen[a][c]
    BY <1>3, <2>2, ActsOnly
  <2>5. stored'[c] = stored[c] /\ (c = d => task'[b][d] # "executing")
    <3>0. c = d => task[b][d] # "executing"
      BY <2>3 DEF Recorded
    <3>1. CASE /\ UNCHANGED <<stored, seen>>
               /\ task'[b][d] = "executing" =>
                     /\ pos[b][d] \in DOMAIN Body[d] /\ Body[d][pos[b][d]] = "step"
                     /\ stored[d][pos[b][d]] = 0
      BY <2>3, <3>1 DEF Recorded
    <3>2. CASE UNCHANGED <<stored, seen>> /\ task'[b][d] = "running"
      BY <3>2
    <3>3. CASE \E n \in Length : \E v \in Attempts :
              /\ pos[b][d] = n /\ pos'[b][d] = n + 1 /\ task'[b][d] = "running"
              /\ seen'[b][d] = [seen[b][d] EXCEPT ![n] = v]
              /\ \/ UNCHANGED stored /\ v = stored[d][n]
                 \/ /\ task[b][d] = "executing"
                    /\ stored' = [stored EXCEPT ![d][n] = v]
      BY <3>0, <3>3 DEF TypeOK
    <3> QED
      BY <1>3, <3>1, <3>2, <3>3, ActsWhere
  <2>6. \A e \in Attempts : task'[e][c] # "executing"
    <3> SUFFICES ASSUME NEW e \in Attempts PROVE task'[e][c] # "executing"
      OBVIOUS
    <3>1. CASE e = b /\ c = d
      BY <2>5, <3>1
    <3>2. CASE ~(e = b /\ c = d)
      <4>1. task'[e][c] = task[e][c] \/ task'[e][c] = "waiting"
        BY <1>3, <3>2, ActsOnly
      <4> QED
        BY <2>3, <4>1 DEF Recorded
    <3> QED
      BY <3>1, <3>2
  <2> QED
    BY <2>3, <2>4, <2>5, <2>6 DEF Recorded
<1>4. ASSUME NEW b \in Attempts, NEW d \in Contexts, Acts(b, d), task[a][Root] # "done"
      PROVE  Recorded(a, c)'
  <2>1. b = a /\ d = Root
    BY <1>4, RootHolds, ActsOnly
  <2>2. /\ task[a][Root] \in Alive /\ a <= attempt /\ haunted' = haunted
        /\ \A e \in Contexts \ {Root} :
              task'[a][e] = task[a][e] \/ task'[a][e] = "waiting"
        /\ \A e \in Attempts \ {a} : task'[e][c] = task[e][c]
    BY <1>4, <2>1, ActsOnly
  <2>3. UNCHANGED <<stored, seen>>
    BY <1>4, <2>1, ActsWhere
  <2>4. ReadsAll'
    BY ReadsAllStep
  <2>5. task'[a][c] = "done" /\ pos'[a][c] \notin DOMAIN Body[c]
    BY <2>4 DEF Output, ReadsAll, Reads
  <2>6. \A i \in DOMAIN Body[c] : i < pos'[a][c]
    <3>1. pos'[a][c] \in Nat \ {0}
      <4>1. TypeOK'
        BY NextTypeOK
      <4> QED
        BY <4>1 DEF TypeOK
    <3>2. Body[c] \in Seq({"step", "batch"})
      BY FanOutAssumption
    <3>3. PICK n : n = pos'[a][c]
      OBVIOUS
    <3>4. n \in Nat \ {0} /\ n \notin 1 .. Len(Body[c]) /\ Len(Body[c]) \in Nat
      BY <2>5, <3>1, <3>2, <3>3
    <3>5. \A i \in 1 .. Len(Body[c]) : i < n
      BY <3>4
    <3> QED
      BY <3>2, <3>3, <3>5
  <2>7. \A i \in DOMAIN Body[c] : Body[c][i] = "step" => seen'[a][c][i] # 0
    BY <2>4, <2>6 DEF ReadsAll, Reads
  <2>8. \A i \in DOMAIN Body[c] : Body[c][i] = "step" => seen'[a][c][i] = stored'[c][i]
    BY <2>2, <2>3, <2>7, BodyInLength DEF Agrees
  <2>9. \A e \in Attempts : task'[e][c] # "executing"
    <3> SUFFICES ASSUME NEW e \in Attempts, e # a PROVE task[e][c] # "executing"
      BY <2>2, <2>5
    <3>1. a = attempt
      BY <2>2 DEF LastRuns
    <3>2. CASE e < a
      BY <2>2, <3>2 DEF Alone, Alive
    <3>3. CASE e > attempt
      BY <3>3 DEF Spawned
    <3> QED
      BY <3>1, <3>2, <3>3 DEF Attempts, TypeOK
  <2> QED
    BY <2>7, <2>8, <2>9 DEF Recorded
<1> QED
  BY <1>1, <1>2, <1>3, <1>4, FanOutMoves

LEMMA InitOnRecord == Init => OnRecord
<1> SUFFICES ASSUME Init PROVE OnRecord
  OBVIOUS
<1>1. /\ \A a \in Attempts, c \in Contexts : task[a][c] = "none" /\ pos[a][c] = 1
      /\ \A a \in Attempts, c \in Contexts, i \in Length : seen[a][c][i] = 0
  BY DEF Init, Unrecorded
<1>2. ReadsAll
  <2>1. \A c \in Contexts : \A i \in DOMAIN Body[c] : ~(i < 1)
    BY FanOutAssumption
  <2> QED
    BY <1>1, <2>1 DEF ReadsAll, Reads
<1>3. LastRuns /\ Alone /\ Agrees /\ Returned
  BY <1>1, RootHolds DEF LastRuns, Alone, Agrees, Returned, Alive
<1> QED
  BY <1>2, <1>3 DEF OnRecord

\* What an attempt that returns has built its output from is on record and stays: a
\* later attempt of the run replays it.  WorkflowContext._run_step reads the store and
\* writes it an await later, in branches that interleave, fail and outlive a batch.
THEOREM OutputIsOnRecord == Spec => []OutputIsRecord
<1>1. TypeOK /\ Spawned /\ OnRecord /\ [Next]_vars => OnRecord'
  BY ReadsAllStep, LastRunsStep, AloneStep, AgreesStep, ReturnedStep DEF OnRecord
<1>2. OnRecord => OutputIsRecord
  BY DEF OnRecord, Returned, Recorded, OutputIsRecord
<1> QED
  BY <1>1, <1>2, InitOnRecord, BranchInvariant, PTL DEF Spec
=============================================================================
