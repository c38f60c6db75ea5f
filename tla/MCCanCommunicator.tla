------------------------ MODULE MCCanCommunicator ------------------------
(* Instances of CanCommunicator for TLC: two identifiers, of which any may   *)
(* be blacklisted, and timeouts of two and three ticks.                      *)
EXTENDS CanCommunicator

MCIds == {"engine", "door"}
TwoOrThree == {2, 3}
=============================================================================
