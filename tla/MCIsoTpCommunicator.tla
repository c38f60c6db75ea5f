----------------------- MODULE MCIsoTpCommunicator -----------------------
(* Instances of IsoTpCommunicator for TLC: two stacks on one communicator.   *)
EXTENDS IsoTpCommunicator

MCStacks == {"tester", "monitor"}
=============================================================================
