----------------------------- MODULE Heartbeat -----------------------------
(***************************************************************************)
(* HeartbeatManager: a loop that goes through a list of conditions, with   *)
(* an await at each, while add_condition and remove_condition change the   *)
(* list: the one in place, the other by putting a new list in its stead.   *)
(***************************************************************************)
EXTENDS Integers, SequencesExt

CONSTANT Conditions    \* names of conditions

VARIABLES
    conditions,   \* HeartbeatManager._conditions
    loop,         \* the task of _loop: "off", "asleep", "checking", "dead"
    round,        \* the list that _tick iterates, and how far it has come
    \* history
    due,          \* conditions that are registered since before the tick
    checks        \* how often the tick has checked a condition

beatVars == <<conditions, loop, round, due, checks>>

NoRound == [list |-> <<>>, at |-> 1, shared |-> FALSE]

BeatTypeOK ==
    /\ conditions \in Seq(Conditions)
    /\ loop \in {"off", "asleep", "checking", "dead"}
    /\ round \in [list : Seq(Conditions), at : Nat, shared : BOOLEAN]
    /\ due \subseteq Conditions
    /\ checks \in [Conditions -> Nat]

BeatInit ==
    /\ conditions = <<>>
    /\ loop = "off"
    /\ round = NoRound
    /\ due = {}
    /\ checks = [k \in Conditions |-> 0]

-----------------------------------------------------------------------------
\* Names are not given twice.
AddCondition(k) ==
    /\ ~Contains(conditions, k)
    /\ conditions' = Append(conditions, k)
    /\ round' = IF round.shared THEN [round EXCEPT !.list = conditions'] ELSE round
    /\ UNCHANGED <<loop, due, checks>>

\* MUTANT of RemoveCondition: the list is changed in place.
RemoveInPlace(k) ==
    /\ Contains(conditions, k)
    /\ conditions' = RemoveFirst(conditions, k)
    /\ round' = IF round.shared THEN [round EXCEPT !.list = conditions'] ELSE round
    /\ due' = due \ {k}
    /\ UNCHANGED <<loop, checks>>

\* A new list, also when no condition has that name; no two have the same.
RemoveCondition(k) ==
    /\ conditions' = RemoveFirst(conditions, k)
    /\ round' = [round EXCEPT !.shared = FALSE]
    /\ due' = due \ {k}
    /\ UNCHANGED <<loop, checks>>

BeatStart ==
    /\ loop \in {"off", "dead"}
    /\ loop' = "asleep"
    /\ UNCHANGED <<conditions, round, due, checks>>

BeatStop ==
    /\ loop # "off"
    /\ loop' = "off"
    /\ round' = NoRound
    /\ due' = {}
    /\ checks' = [k \in Conditions |-> 0]
    /\ UNCHANGED conditions

\* The process is over.
BeatDies ==
    /\ conditions' = <<>>
    /\ loop' = "off"
    /\ round' = NoRound
    /\ due' = {}
    /\ checks' = [k \in Conditions |-> 0]

\* The sleep is over; _tick calls check() of the first condition.
TickBegins ==
    /\ loop = "asleep" /\ conditions # <<>>
    /\ loop' = "checking"
    /\ round' = [list |-> conditions, at |-> 1, shared |-> TRUE]
    /\ due' = {k \in Conditions : Contains(conditions, k)}
    /\ checks' = [k \in Conditions |-> 0]
    /\ UNCHANGED conditions

Checking(k) ==
    /\ loop = "checking" /\ round.at \in DOMAIN round.list
    /\ k = round.list[round.at]

\* check() has returned, or raised, which is logged; whatever there is to
\* publish has been.
Checked(k) ==
    /\ Checking(k)
    /\ checks' = [checks EXCEPT ![k] = @ + 1]
    /\ round' = [round EXCEPT !.at = @ + 1]
    /\ UNCHANGED <<conditions, loop, due>>

\* publish has raised: nothing catches it, and the loop is over.
LoopDies(k) ==
    /\ Checking(k)
    /\ loop' = "dead"
    /\ round' = NoRound
    /\ due' = {}
    /\ UNCHANGED <<conditions, checks>>

TickEnds ==
    /\ loop = "checking" /\ round.at > Len(round.list)
    /\ loop' = "asleep"
    /\ round' = NoRound
    /\ due' = {}
    /\ UNCHANGED <<conditions, checks>>

-----------------------------------------------------------------------------
\* A tick that ends has checked each condition that was registered all the
\* while exactly once, and in a tick no condition is checked twice, whatever
\* was added and removed between its awaits.
TickChecksAll ==
    [][TickEnds => \A k \in Conditions :
                      IF k \in due THEN checks[k] = 1 ELSE checks[k] <= 1]_beatVars
=============================================================================
