-------------------------------- MODULE MCDeque --------------------------------
(* Instances of StreamableDeque: a few receivers, a few values, every drop phase. *)
EXTENDS StreamableDeque, TLC

CONSTANTS r1, r2, r3

TwoReceivers == {r1, r2}
ThreeReceivers == {r1, r2, r3}
OnlyR1 == {r1}
NoReceivers == {}

Sym == Permutations(Receiver)

DropsWhenTaken == {"running", "woken"}
DropsWhileWaiting == {"waiting"}
DropsWhileWaking == {"waking"}
NoDrops == {}
=============================================================================
