------------------------------ MODULE OrderFlow ------------------------------
(***************************************************************************)
(* What the order pipeline of hw_7 promises about its counts, whatever the *)
(* threads do: orders are pushed, then popped, then completed, each once   *)
(* and none before the step that precedes it, and a consumer leaves only   *)
(* after the last order is complete.                                       *)
(***************************************************************************)
EXTENDS Naturals

CONSTANTS
    Total,     \* the number of orders
    Consumers

VARIABLES
    pushed, popped, completed, \* how many orders have got that far
    left                       \* the consumers that have left

fvars == <<pushed, popped, completed, left>>

Init == pushed = 0 /\ popped = 0 /\ completed = 0 /\ left = {}

Push ==
    /\ pushed < Total
    /\ pushed' = pushed + 1
    /\ UNCHANGED <<popped, completed, left>>

Pop ==
    /\ popped < pushed
    /\ popped' = popped + 1
    /\ UNCHANGED <<pushed, completed, left>>

Complete ==
    /\ completed < popped
    /\ completed' = completed + 1
    /\ UNCHANGED <<pushed, popped, left>>

Leave(c) ==
    /\ completed = Total
    /\ left' = left \cup {c}
    /\ UNCHANGED <<pushed, popped, completed>>

Next == Push \/ Pop \/ Complete \/ \E c \in Consumers : Leave(c)

Spec == Init /\ [][Next]_fvars
=============================================================================
