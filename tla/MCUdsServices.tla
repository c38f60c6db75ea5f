--------------------------- MODULE MCUdsServices ---------------------------
(* An instance of UdsServices for TLC. *)
EXTENDS UdsServices

MCTargets == {1, 2}
MCCalls == [flash |-> 6, authenticate |-> 3, access |-> 2, read |-> 1]
MCLists == {<< <<1, 1>> >>, << <<1, 1>>, <<1, 2>> >>, << <<1, 2>>, <<2, 1>>, <<1, 1>> >>}
MCValues == {<<>>, <<2>>, <<1, 2>>, <<2, 2, 1>>}
=============================================================================
