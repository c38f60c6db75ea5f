----------------------- MODULE MCConfigurationManager -----------------------
(* Instances of ConfigurationManager for TLC. *)
EXTENDS ConfigurationManager, TLC

CONSTANTS eth0, vlan1, can0, can1, gw

(* An address with two prefixes. *)
MCIps == {<<1, 24>>, <<1, 16>>}
MCSupported == (can0 :> Modes) @@ (can1 :> {})
=============================================================================
