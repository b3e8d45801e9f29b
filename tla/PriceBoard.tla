----------------------------- MODULE PriceBoard -----------------------------
(***************************************************************************)
(* What phase_2's server promises of its prices: they are published in     *)
(* order, each is open from then on until one client wins it, and a price  *)
(* that is won is won for good.                                            *)
(***************************************************************************)
EXTENDS Naturals, Sequences

CONSTANT Players

VARIABLES
    published, \* how many prices there are: 0 .. published - 1
    open,      \* those that nobody has won
    awards     \* who has won which, in order

board == <<published, open, awards>>

Init == published = 0 /\ open = {} /\ awards = <<>>

Publish ==
    /\ published' = published + 1
    /\ open' = open \cup {published}
    /\ UNCHANGED awards

Win(c, id) ==
    /\ id \in open
    /\ open' = open \ {id}
    /\ awards' = Append(awards, [client |-> c, id |-> id])
    /\ UNCHANGED published

Next == Publish \/ \E c \in Players, id \in open : Win(c, id)

Spec == Init /\ [][Next]_board
=============================================================================
