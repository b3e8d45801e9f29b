--------------------------- MODULE ChallengeRounds ---------------------------
(***************************************************************************)
(* What the challenge game of phase_6 promises: rounds follow one another, *)
(* and each has at most one winner, who is declared while it lasts.        *)
(***************************************************************************)
EXTENDS Naturals

CONSTANTS Players, Nobody

VARIABLES round, winner

rvars == <<round, winner>>

Init == round = 0 /\ winner = Nobody

NewRound == round' = round + 1 /\ winner' = Nobody

Win(p) ==
    /\ round > 0 /\ winner = Nobody
    /\ winner' = p
    /\ UNCHANGED round

Next == NewRound \/ \E p \in Players : Win(p)

Spec == Init /\ [][Next]_rvars
=============================================================================
