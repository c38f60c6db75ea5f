---------------------------- MODULE MCDoipUtils ----------------------------
(* Instances of DoipUtils for TLC. *)
EXTENDS DoipUtils, TLC

CONSTANTS a, b

MCKinds == {[type |-> "identity", port |-> 1], [type |-> "status", port |-> 1]}
TwoPairs == {a, b}
Symmetry == Permutations(TwoPairs)
=============================================================================
