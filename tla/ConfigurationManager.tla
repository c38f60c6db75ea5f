------------------------ MODULE ConfigurationManager ------------------------
(***************************************************************************)
(* ConfigurationManager: actions on the links, addresses, routes and CAN   *)
(* modes of the kernel.  It asks NDB, a database in its process, which     *)
(* interfaces there are: NDB knows at once what is changed through it, and *)
(* some time later of a VLAN, which is made behind its back over IPRoute.  *)
(* The kernel and the libraries are external and may refuse any change.    *)
(* An action that raises ends the list it is in; what was done stays.      *)
(***************************************************************************)
EXTENDS Naturals, FiniteSets

CONSTANTS
  Eths,        \* Ethernet interfaces there from the start
  Vlans,       \* names of VLAN interfaces that may be created
  Cans,        \* CAN interfaces
  Ips,         \* addresses with a prefix: pairs
  Gateways,    \* gateways of routes
  Bitrates,    \* bitrates of CAN
  Supported,   \* control modes that each CAN controller has
  MaxActions,  \* bound: actions configured
  MaxRefusals  \* bound: changes refused without a reason given here

Links == Eths \cup Vlans \cup Cans
Modes == {"fd", "cc_len8_dlc"}
ASSUME SupportedAssumption == Supported \in [Cans -> SUBSET Modes]
ASSUME NamesAssumption == "none" \notin Links \cup Gateways /\ Gateways \cap Links = {}
ASSUME BitratesAssumption == Bitrates \subseteq Nat \ {0}
ASSUME BoundAssumption == MaxActions \in Nat /\ MaxRefusals \in Nat

VARIABLES
  links,     \* interfaces that exist
  ups,       \* those that are up
  addrs,     \* addresses: pairs of interface and address
  routes,    \* routes: pairs of destination and gateway or interface
  can,       \* setting of each CAN interface
  known,     \* interfaces NDB knows
  options,   \* _can_ctrlmode_options: the modes that are "on"
  result,    \* the last action and what became of it
  actions,   \* actions configured
  refusals,  \* changes refused
  strays,    \* history: routes no action was to take away, see NoRouteIsOrphaned
  wanted     \* history: modes asked on of this manager

kernel == <<links, ups, addrs, routes, can>>
history == <<strays, wanted>>
vars == <<kernel, known, options, result, actions, refusals, history>>

(* data: whether a bitrate for the data of CAN FD was ever set. *)
NoSetting == [bitrate |-> 0, mode |-> {}, data |-> FALSE]

Init ==
  /\ links \in {Eths \cup cs : cs \in SUBSET Cans}
  /\ ups \in SUBSET Eths
  /\ addrs = {} /\ routes = {}
  /\ can = [c \in Cans |-> NoSetting]
  /\ known = links
  /\ options = {}
  /\ result = [act |-> [op |-> "none"], did |-> "nothing"]
  /\ actions = 0 /\ refusals = 0
  /\ strays = {} /\ wanted = {}

-----------------------------------------------------------------------------
(* An action is "done", "skipped" because it need or can not be done,       *)
(* "logged" when its failure was swallowed, or it "raised".                 *)
End(act, did) ==
  /\ actions < MaxActions
  /\ actions' = actions + 1
  /\ result' = [act |-> act, did |-> did]

Skip(act) == End(act, "skipped") /\ UNCHANGED <<kernel, known, options, refusals, history>>

Refused == refusals < MaxRefusals /\ refusals' = refusals + 1
Accepted == UNCHANGED refusals

(* A new manager reads the kernel anew and has no modes on. *)
NewManager ==
  /\ End([op |-> "new"], "done")
  /\ known' = links
  /\ options' = {} /\ wanted' = {}
  /\ UNCHANGED <<kernel, refusals, strays>>

NdbLearns ==
  /\ known # links
  /\ known' = links
  /\ UNCHANGED <<kernel, options, result, actions, refusals, history>>

-----------------------------------------------------------------------------
(* _create_vlan_interface. *)

Vlan(v) == [op |-> "vlan", link |-> v]

VlanExists(v) == v \in known /\ Skip(Vlan(v))

CreateVlan(v) ==
  /\ v \notin known \cup links
  /\ links' = links \cup {v}
  /\ ups' = ups \cup {v}
  /\ Accepted
  /\ End(Vlan(v), "done")
  /\ UNCHANGED <<addrs, routes, can, known, options, history>>

(* It exists already and NDB has not learned of it; or it is refused, as    *)
(* when there is no if_link; or it is made and cannot be set up.            *)
CreateVlanRaises(v) ==
  /\ v \notin known
  /\ \/ v \in links /\ Accepted /\ UNCHANGED links
     \/ v \notin links /\ Refused /\ links' \in {links, links \cup {v}}
  /\ End(Vlan(v), "raised")
  /\ UNCHANGED <<ups, addrs, routes, can, known, options, history>>

-----------------------------------------------------------------------------
(* _configure_ip and _remove_ip.  via: a gateway, "none" when no route is   *)
(* asked for, or the interface itself for a route without a gateway.        *)

Ip(op, i, p, via) == [op |-> op, link |-> i, ip |-> p, via |-> via]
Vias(i) == Gateways \cup {"none", i}

(* The address is looked for without its prefix. *)
Listed(i, p) == \E q \in Ips : q[1] = p[1] /\ <<i, q>> \in addrs

RouteOf(act) == IF act.via = "none" THEN {} ELSE {<<act.ip, act.via>>}
RoutesTo(p) == {r \in routes : r[1] = p}

(* The kernel has one route to a destination. *)
RouteIsFree(act) == act.via # "none" => RoutesTo(act.ip) = {}

IpStep == UNCHANGED <<links, ups, can, known, options, wanted>>

AddSkipped(act) == (act.link \notin known \/ Listed(act.link, act.ip)) /\ Skip(act)

(* Mutant: the address is committed and the route is not. *)
AddWithoutRoute(act) ==
  /\ act.link \in known /\ ~Listed(act.link, act.ip)
  /\ RouteIsFree(act) /\ Accepted
  /\ addrs' = addrs \cup {<<act.link, act.ip>>}
  /\ End(act, "done")
  /\ IpStep /\ UNCHANGED <<routes, strays>>

(* The route is committed first, and the address as the with statement ends. *)
Add(act) ==
  /\ act.link \in known /\ ~Listed(act.link, act.ip)
  /\ RouteIsFree(act) /\ Accepted
  /\ routes' = routes \cup RouteOf(act)
  /\ addrs' = addrs \cup {<<act.link, act.ip>>}
  /\ End(act, "done")
  /\ strays' = strays \ RouteOf(act)
  /\ IpStep

(* The route is refused, for instance because its gateway cannot be reached *)
(* before the address is there.  The end of the with statement commits the  *)
(* address all the same, which may fail in its turn.                        *)
AddRouteRaises(act) ==
  /\ act.link \in known /\ ~Listed(act.link, act.ip)
  /\ act.via # "none"
  /\ IF RoutesTo(act.ip) = {} THEN Refused ELSE Accepted
  /\ addrs' \in {addrs, addrs \cup {<<act.link, act.ip>>}}
  /\ End(act, "raised")
  /\ IpStep /\ UNCHANGED <<routes, strays>>

(* The address is refused: the route stays. *)
AddAddressRaises(act) ==
  /\ act.link \in known /\ ~Listed(act.link, act.ip)
  /\ RouteIsFree(act) /\ Refused
  /\ routes' = routes \cup RouteOf(act)
  /\ strays' = strays \cup RouteOf(act)
  /\ End(act, "raised")
  /\ IpStep /\ UNCHANGED addrs

(* routes.get with a gateway finds the route by that gateway, and without   *)
(* one the route to the destination.                                        *)
Found(act) ==
  {r \in RoutesTo(act.ip) : act.via # "none" /\ (act.via \in Gateways => r[2] = act.via)}

RemoveSkipped(act) == (act.link \notin known \/ ~Listed(act.link, act.ip)) /\ Skip(act)

(* History: the routes to the address that the action does not ask for. *)
Unnamed(act) == {r \in RoutesTo(act.ip) : act.via = "none" \/ act.via \in Gateways \ {r[2]}}

(* Mutant: the removal of the route is not committed. *)
RemoveAddressOnly(act) ==
  /\ act.link \in known /\ <<act.link, act.ip>> \in addrs
  /\ addrs' = addrs \ {<<act.link, act.ip>>}
  /\ Accepted
  /\ End(act, "done")
  /\ strays' = strays \cup Unnamed(act)
  /\ IpStep /\ UNCHANGED routes

Remove(act) ==
  /\ act.link \in known /\ <<act.link, act.ip>> \in addrs
  /\ routes' = routes \ Found(act)
  /\ addrs' = addrs \ {<<act.link, act.ip>>}
  /\ Accepted
  /\ End(act, "done")
  /\ strays' = strays \cup Unnamed(act)
  /\ IpStep

(* The removal of the route is refused, or after it that of the address; or *)
(* the address is there with another prefix, which NDB does not find.       *)
RemoveRaises(act) ==
  /\ act.link \in known /\ Listed(act.link, act.ip)
  /\ \/ Refused /\ routes' \in {routes, routes \ Found(act)}
     \/ <<act.link, act.ip>> \notin addrs /\ Accepted /\ routes' = routes \ Found(act)
  /\ End(act, "raised")
  /\ IpStep /\ UNCHANGED <<addrs, strays>>

-----------------------------------------------------------------------------
(* _configure_eth_interface.  flags: not given, with IFF_UP (the default)   *)
(* or without; state: not given, up or down.  Which of flags and state wins *)
(* when they differ is up to pyroute2.                                      *)

Eth(i, flags, state) == [op |-> "eth", link |-> i, flags |-> flags, state |-> state]
Asked(act) == {act.flags, act.state} \ {"none"}

EthSkipped(act) == act.link \notin known /\ Skip(act)

(* The VLANs on an interface follow it up and down. *)
Followers(i, v) == IF i \in Eths THEN SUBSET v ELSE {{}}

BringUp(i) ==
  /\ \E vs \in IF i \in ups THEN {{}} ELSE Followers(i, links \cap Vlans) :
       ups' = ups \cup {i} \cup vs
  /\ UNCHANGED routes

(* The routes by a link that goes down go with it, those by a gateway that  *)
(* is reached over it too.                                                  *)
TakeDown(i) ==
  IF i \notin ups THEN UNCHANGED <<ups, routes>>
  ELSE \E vs \in Followers(i, ups \cap Vlans), lost \in SUBSET Gateways :
         /\ ups' = ups \ ({i} \cup vs)
         /\ routes' = {r \in routes : r[2] \notin {i} \cup vs \cup lost}

(* Mutant: the interface need not exist. *)
ConfigureAnyEth(act) ==
  /\ \/ "up" \in Asked(act) /\ BringUp(act.link)
     \/ "down" \in Asked(act) /\ TakeDown(act.link)
  /\ Accepted
  /\ End(act, "done")
  /\ UNCHANGED <<links, addrs, can, known, options, history>>

ConfigureEth(act) ==
  /\ act.link \in known
  /\ \/ "up" \in Asked(act) /\ BringUp(act.link)
     \/ "down" \in Asked(act) /\ TakeDown(act.link)
     \/ Asked(act) = {} /\ UNCHANGED <<ups, routes>>
  /\ Accepted
  /\ End(act, "done")
  /\ UNCHANGED <<links, addrs, can, known, options, history>>

ConfigureEthRaises(act) ==
  /\ act.link \in known
  /\ Refused
  /\ End(act, "raised")
  /\ UNCHANGED <<kernel, known, options, history>>

(* _connect_wifi_device: a connection that cannot be activated is logged.   *)
ConnectWifi ==
  \E did \in {"done", "logged", "raised"} :
    /\ End([op |-> "wifi"], did)
    /\ UNCHANGED <<kernel, known, options, refusals, history>>

-----------------------------------------------------------------------------
(* _configure_can. *)

Can(c, b, on, state) == [op |-> "can", link |-> c, bitrate |-> b, on |-> on, state |-> state]

CanSkipped(act) == act.link \notin known /\ Skip(act)

(* Taking the interface down is refused: nothing is caught here. *)
CanDownRaises(act) ==
  /\ act.link \in ups
  /\ Refused
  /\ End(act, "raised")
  /\ UNCHANGED <<kernel, known, options, history>>

(* An option is never turned off again. *)
Options(act) == options \cup act.on

Setting(act) ==
  [bitrate |-> act.bitrate, mode |-> Options(act), data |-> can[act.link].data \/ "fd" \in act.on]

(* The controller must have the modes. *)
KernelSets(act) ==
  /\ Options(act) \subseteq Supported[act.link]
  /\ can' = [can EXCEPT ![act.link] = Setting(act)]
  /\ Accepted

(* Besides it may refuse an FD mode that comes without a data bitrate.  The *)
(* bitrate may have been set by then.                                       *)
KernelRefuses(act) ==
  /\ IF ~(Options(act) \subseteq Supported[act.link]) \/ "fd" \in options \ act.on
       THEN Accepted ELSE Refused
  /\ can' \in {can, [can EXCEPT ![act.link].bitrate = act.bitrate]}

(* A controller without a bitrate, or in FD mode without one for its data,  *)
(* cannot be set up.                                                        *)
CanStart(s) == s.bitrate # 0 /\ ("fd" \in s.mode => s.data)

(* Mutant: the interface is not set up again after a failure. *)
ConfigureCanReturns(act) ==
  /\ act.link \in known
  /\ \/ KernelSets(act) /\ End(act, "done") /\ (act.state = "up" => CanStart(can'[act.link]))
     \/ KernelRefuses(act) /\ End(act, "logged")
  /\ ups' = IF act.state = "up" /\ result'.did = "done" THEN ups \cup {act.link} ELSE ups \ {act.link}
  /\ options' = Options(act) /\ wanted' = wanted \cup act.on
  /\ UNCHANGED <<links, addrs, routes, known, strays>>

(* The interface is taken down, set, or not, and set up if this is asked.   *)
ConfigureCan(act) ==
  /\ act.link \in known
  /\ \/ KernelSets(act) /\ End(act, "done")
     \/ KernelRefuses(act) /\ End(act, "logged")
  /\ act.state = "up" => CanStart(can'[act.link])
  /\ ups' = IF act.state = "up" THEN ups \cup {act.link} ELSE ups \ {act.link}
  /\ options' = Options(act) /\ wanted' = wanted \cup act.on
  /\ UNCHANGED <<links, addrs, routes, known, strays>>

(* Setting it up raises, with its settings as they are or refused besides:  *)
(* it stays down.                                                           *)
CanUpRaises(act) ==
  /\ act.link \in known /\ act.state = "up"
  /\ \/ (KernelSets(act) \/ KernelRefuses(act)) /\ ~CanStart(can'[act.link])
     \/ /\ Refused
        /\ \/ Options(act) \subseteq Supported[act.link] /\ can' = [can EXCEPT ![act.link] = Setting(act)]
           \/ can' \in {can, [can EXCEPT ![act.link].bitrate = act.bitrate]}
  /\ ups' = ups \ {act.link}
  /\ options' = Options(act) /\ wanted' = wanted \cup act.on
  /\ End(act, "raised")
  /\ UNCHANGED <<links, addrs, routes, known, strays>>

-----------------------------------------------------------------------------
IpActions(op) == UNION {{Ip(op, i, p, via) : p \in Ips, via \in Vias(i)} : i \in Eths \cup Vlans}
EthActions ==
  {Eth(i, f, s) : i \in Eths \cup Vlans, f \in {"none", "up", "down"}, s \in {"none", "up", "down"}}
CanActions == {Can(c, b, on, s) : c \in Cans, b \in Bitrates, on \in SUBSET Modes, s \in {"up", "down"}}

Next ==
  \/ NewManager \/ NdbLearns \/ ConnectWifi
  \/ \E v \in Vlans : VlanExists(v) \/ CreateVlan(v) \/ CreateVlanRaises(v)
  \/ \E act \in IpActions("add") :
       AddSkipped(act) \/ Add(act) \/ AddRouteRaises(act) \/ AddAddressRaises(act)
  \/ \E act \in IpActions("remove") : RemoveSkipped(act) \/ Remove(act) \/ RemoveRaises(act)
  \/ \E act \in EthActions : EthSkipped(act) \/ ConfigureEth(act) \/ ConfigureEthRaises(act)
  \/ \E act \in CanActions :
       CanSkipped(act) \/ CanDownRaises(act) \/ ConfigureCan(act) \/ CanUpRaises(act)

Spec == Init /\ [][Next]_vars

-----------------------------------------------------------------------------
(* Properties. *)

(* The variables have their types; NDB knows no interface that is not there,*)
(* addresses are on interfaces, and a destination has one route.            *)
TypeOK ==
  /\ links \subseteq Links /\ known \subseteq links /\ ups \subseteq links
  /\ addrs \subseteq links \X Ips
  /\ routes \subseteq Ips \X (Gateways \cup links)
  /\ \A r, s \in routes : r[1] = s[1] => r = s
  /\ can \in [Cans -> [bitrate : Bitrates \cup {0}, mode : SUBSET Modes, data : BOOLEAN]]
  /\ options \subseteq Modes
  /\ result.did \in {"nothing", "done", "skipped", "logged", "raised"}
  /\ actions \in 0..MaxActions /\ refusals \in 0..MaxRefusals
  /\ strays \subseteq Ips \X (Gateways \cup Links) /\ wanted \subseteq Modes

Settled(act) == act.op = "eth" => Cardinality(Asked(act)) < 2

(* What an action that was carried out asks for is so in the kernel.        *)
InForce(act) ==
  CASE act.op = "vlan" -> act.link \in links \cap ups
    [] act.op = "add" -> <<act.link, act.ip>> \in addrs /\ RouteOf(act) \subseteq routes
    [] act.op = "remove" -> <<act.link, act.ip>> \notin addrs /\ Found(act) = {}
    [] act.op = "eth" -> /\ Asked(act) = {"up"} => act.link \in ups
                         /\ Asked(act) = {"down"} => act.link \notin ups
    [] act.op = "can" -> /\ can[act.link].bitrate = act.bitrate
                         /\ act.on \subseteq can[act.link].mode
                         /\ can[act.link].mode \subseteq wanted
                         /\ act.state = "up" <=> act.link \in ups
    [] OTHER -> TRUE

(* An action that was carried out is in force, whatever NDB had not learned *)
(* and earlier actions left half done: VLAN, address with its route, state  *)
(* of the interface, and its modes; a CAN mode that is not asked for is off *)
(* unless this manager was asked for it before, for this interface or for   *)
(* another (configuration_manager.py:100-236).                              *)
DoneIsInForce == result.did = "done" => InForce(result.act)

(* The modes of a controller are those that the action asks for: False and  *)
(* None turn them off (models.py:102-103).  The code does not do this: see  *)
(* conf_modes.cfg.                                                          *)
ModesAreAsAsked ==
  result.did = "done" /\ result.act.op = "can" => can[result.act.link].mode = result.act.on

(* Only the repetition of a CAN action may change the kernel and raise.     *)
Spares(act, did) == did # "raised" \/ act.op # "can"

(* A configuration that is published again changes nothing: an action that  *)
(* follows itself and was carried out leaves the kernel as it was, raises   *)
(* or not: a VLAN that NDB has not learned of included, and a CAN interface *)
(* that is taken down and up again and the settings that are refused the    *)
(* second time; only when it cannot be set up again does it stay down       *)
(* (configuration_manager.py:101, 131, 155, 198-223).                       *)
RepeatChangesNothing ==
  [][(/\ actions' # actions /\ result'.act = result.act /\ result.did = "done"
      /\ Spares(result.act, result'.did) /\ Settled(result.act))
       => kernel' = kernel]_vars

(* A route to an address goes with the address (lines 159-170), except when *)
(* the removal does not ask for it (no route, or another gateway) or the    *)
(* address was refused after its route was made (lines 136-148).            *)
NoRouteIsOrphaned ==
  \A r \in routes : r \in strays \/ \E i \in links : <<i, r[1]>> \in addrs

(* The kernel keeps its types, and its routes have their addresses.         *)
KernelInv == TypeOK /\ NoRouteIsOrphaned

=============================================================================
