---------------------------- MODULE MCUdsClient ----------------------------
(* Instances of UdsClient for TLC: sessions 1 (default), 3 (extended) and   *)
(* 26 (0x1A, manufacturer specific).                                         *)
EXTENDS UdsClient

MCSessions == {1, 3, 26}
(* The manufacturer's session is reached through the extended one only. *)
MCReachable == ({1, 3} \X {1, 3}) \cup {<<3, 26>>, <<26, 1>>, <<26, 26>>}
(* An ECU that refuses it altogether. *)
MCRefusing == {1, 3} \X {1, 3}
(* What int() makes of the digits "01", "03" and "1A". *)
MCDecimal == [s \in MCSessions |-> IF s = 26 THEN 0 ELSE s]

Manufacturers == <<[id |-> 3, elevate |-> TRUE], [id |-> 26, elevate |-> FALSE]>>
Extended == <<[id |-> 3, elevate |-> FALSE]>>
Plain == <<[id |-> 3, elevate |-> FALSE], [id |-> 26, elevate |-> FALSE]>>

AllFaults == FaultKinds
OnlyCrashes == {"crashes"}
OnlySlow == {"slow"}
=============================================================================
