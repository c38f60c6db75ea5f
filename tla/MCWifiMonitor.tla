--------------------------- MODULE MCWifiMonitor ---------------------------
(***************************************************************************)
(* Instance of WifiMonitor: an object, to which a second one is one of the *)
(* others that set the interface, and frames with every outcome of the     *)
(* classification.                                                         *)
(***************************************************************************)
EXTENDS WifiMonitor

CONSTANT a   \* the object

RsnOf(akms, ciphers, bits) ==
  [id |-> "rsn", akms |-> akms, ciphers |-> ciphers, capabilities |-> TRUE, bits |-> bits]
RsnShort == [RsnOf({}, {"CCMP"}, {}) EXCEPT !.capabilities = FALSE]
Other(id) == [id |-> id]

Beacon(privacy, elements) == [kind |-> "beacon", privacy |-> privacy, elements |-> elements]

MCContents ==
  {Beacon(TRUE, <<Other("ssid"), RsnOf(akms, ciphers, bits)>>) :
     akms \in {{"SAE"}, {"SAE", "PSK"}}, ciphers \in {{"CCMP"}, {"CCMP", "TKIP"}}, bits \in {{0, 1, 6, 7}, {0, 7}, {6, 7}}}
  \cup {Beacon(TRUE, <<Other("wpa"), RsnShort, RsnOf({"SAE"}, {"CCMP"}, {0, 1})>>),
        Beacon(TRUE, <<Other("broken"), RsnShort>>),
        Beacon(FALSE, <<Other("ssid")>>),
        [kind |-> "probe", elements |-> <<Other("ssid")>>],
        [kind |-> "data"], [kind |-> "control"]}

MCNoContent == [kind |-> "none"]
=============================================================================
