--------------------------- MODULE MCUdsExchange ---------------------------
(* Instances of UdsExchange for TLC. *)
EXTENDS UdsExchange, TLC

CONSTANTS read, reset   \* two services, interchangeable

TwoServices == {read, reset}
Symmetry == Permutations(TwoServices)

(* Two sets of faults: unsolicited answers are checked with three calls and *)
(* an ECU that keeps its timing, everything else with two calls.            *)
AllButNoise == FaultKinds \ {"noise"}
NoLoss == {"noise"}
=============================================================================
