----------------------------- MODULE RunLedger -----------------------------
(***************************************************************************)
(* What a durable workflow run promises, said without tasks, crashes,      *)
(* gates, timeouts or buses.  A ledger keeps for every run                 *)
(*                                                                         *)
(*   - a status, the one an operator reads in the run journal;             *)
(*   - a record: the result of each step, or the frozen script of a run    *)
(*     whose body a model wrote.  An entry is written while the run is     *)
(*     open, once, and never changes;                                      *)
(*   - the outputs that were delivered to the user.                        *)
(*                                                                         *)
(* Steps that a model answers are not deterministic, so this is a real     *)
(* promise: whatever is delivered for a run is THE record of that run, and *)
(* it is delivered only once the run is known to be complete.              *)
(***************************************************************************)
EXTENDS Naturals

CONSTANTS Runs,     \* run identifiers
          Steps,    \* the steps of a workflow body
          Values,   \* results a step can have
          NoValue   \* "not recorded"

VARIABLES status, record, outputs

ledgerVars == <<status, record, outputs>>

LedgerInit ==
    /\ status = [r \in Runs |-> "none"]
    /\ record = [r \in Runs |-> [i \in Steps |-> NoValue]]
    /\ outputs = [r \in Runs |-> {}]

\* A start, a resume after a crash, or a redelivered start of a finished run.
Open(r) ==
    /\ status' = [status EXCEPT ![r] = "running"]
    /\ UNCHANGED <<record, outputs>>

\* A step's first result is the one that counts.
Record(r, i, v) ==
    /\ status[r] = "running"
    /\ record[r][i] = NoValue
    /\ record' = [record EXCEPT ![r][i] = v]
    /\ UNCHANGED <<status, outputs>>

Complete(r) ==
    /\ status[r] = "running"
    /\ \A i \in Steps : record[r][i] # NoValue
    /\ status' = [status EXCEPT ![r] = "completed"]
    /\ UNCHANGED <<record, outputs>>

Fail(r) ==
    /\ status[r] = "running"
    /\ status' = [status EXCEPT ![r] = "failed"]
    /\ UNCHANGED <<record, outputs>>

Deliver(r) ==
    /\ status[r] = "completed"
    /\ outputs' = [outputs EXCEPT ![r] = @ \cup {record[r]}]
    /\ UNCHANGED <<status, record>>

LedgerNext ==
    \E r \in Runs :
        \/ Open(r)
        \/ \E i \in Steps, v \in Values : Record(r, i, v)
        \/ Complete(r)
        \/ Fail(r)
        \/ Deliver(r)

LedgerSpec == LedgerInit /\ [][LedgerNext]_ledgerVars
=============================================================================
