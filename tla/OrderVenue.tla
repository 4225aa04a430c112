----------------------------- MODULE OrderVenue -----------------------------
(***************************************************************************)
(* What a caller of ExecutionVenue.submit_order (src/trade/execution/      *)
(* venue.py) relies on: an order is executed at most once, however often   *)
(* it is submitted, and neither acknowledged nor called a duplicate unless *)
(* it was executed.                                                        *)
(***************************************************************************)
EXTENDS Integers

CONSTANT Orders

VARIABLES
    executions,   \* order -> how often it was executed
    confirmed     \* orders the caller knows to have been executed

vars == <<executions, confirmed>>

Init ==
    /\ executions = [o \in Orders |-> 0]
    /\ confirmed = {}

Execute(o) ==
    /\ executions[o] = 0
    /\ executions' = [executions EXCEPT ![o] = 1]
    /\ UNCHANGED confirmed

Confirm(o) ==
    /\ executions[o] = 1
    /\ confirmed' = confirmed \cup {o}
    /\ UNCHANGED executions

\* The caller submits o again and waits for another answer.
Ask(o) ==
    /\ confirmed' = confirmed \ {o}
    /\ UNCHANGED executions

Next == \E o \in Orders : Execute(o) \/ Confirm(o) \/ Ask(o)

Spec == Init /\ [][Next]_vars

=============================================================================
