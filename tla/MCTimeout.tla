-------------------------------- MODULE MCTimeout --------------------------------
(* Instances of TimeoutManager: two ids and a handful of instants. *)
EXTENDS TimeoutManager

CONSTANTS a, b

TwoIds == {a, b}
OnlyA == {a}
OnlyB == {b}

Early == {0, 1}
=============================================================================
