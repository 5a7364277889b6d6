--------------------------------- MODULE MCZipper ---------------------------------
(* An instance of Zipper: every tree of at most four nodes. *)
EXTENDS Zipper

CONSTANTS root, a, b, c, fresh, failed

FourIds == {root, a, b, c}
TwoStates == {fresh, failed}
=============================================================================
