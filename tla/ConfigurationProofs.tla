------------------------ MODULE ConfigurationProofs ------------------------
(***************************************************************************)
(* Proofs about the management of the device: ConfigurationManager, for    *)
(* any set of interfaces, addresses and gateways, whatever the kernel      *)
(* refuses; and SerialShell, for any output of the commands, whatever the  *)
(* reads return of it.                                                     *)
(***************************************************************************)
EXTENDS ConfigurationManager, SerialShell, FiniteSetTheorems, SequenceTheorems, TLAPS

SettingType == [bitrate : Bitrates \cup {0}, mode : SUBSET Modes, data : BOOLEAN]
Dids == {"nothing", "done", "skipped", "logged", "raised"}

(* The parts of TypeOK, by what changes them.                               *)
LinkTypes ==
  /\ links \subseteq Links /\ known \subseteq links /\ ups \subseteq links
  /\ addrs \subseteq links \X Ips
  /\ strays \subseteq Ips \X (Gateways \cup Links)
RouteTypes ==
  /\ routes \subseteq Ips \X (Gateways \cup links)
  /\ \A r, s \in routes : r[1] = s[1] => r = s
CanTypes == can \in [Cans -> SettingType] /\ options \subseteq Modes /\ wanted = options
Counts == result.did \in Dids /\ actions \in 0..MaxActions /\ refusals \in 0..MaxRefusals

(* A CAN action that was carried out left the modes of the controller with  *)
(* those of the manager, and a bitrate for the data where it is needed.     *)
ModesAgree ==
  (result.did = "done" /\ result.act.op = "can") =>
    /\ can[result.act.link].mode = options
    /\ "fd" \in result.act.on => can[result.act.link].data

ConfInv == LinkTypes /\ RouteTypes /\ CanTypes /\ Counts /\ NoRouteIsOrphaned
KernelIInv == ConfInv /\ DoneIsInForce /\ ModesAgree

-----------------------------------------------------------------------------
(* The actions asked for.                                                   *)

LEMMA IpActionOf ==
  ASSUME NEW op, NEW act \in IpActions(op)
  PROVE  /\ act.op = op /\ act.link \in Eths \cup Vlans /\ act.ip \in Ips
         /\ act.via \in Gateways \cup {"none", act.link}
         /\ act = Ip(op, act.link, act.ip, act.via)
<1>1. PICK i \in Eths \cup Vlans : act \in {Ip(op, i, p, via) : p \in Ips, via \in Vias(i)}
  BY DEF IpActions
<1>3. PICK p \in Ips, via \in Vias(i) : act = Ip(op, i, p, via)
  BY <1>1
<1>2. act.op = op /\ act.link = i /\ act.ip = p /\ act.via = via
  BY <1>3 DEF Ip
<1> QED
  BY <1>2, <1>3 DEF Vias

LEMMA EthActionOf ==
  ASSUME NEW act \in EthActions
  PROVE  /\ act.op = "eth" /\ act.link \in Eths \cup Vlans
         /\ act.flags \in {"none", "up", "down"} /\ act.state \in {"none", "up", "down"}
BY DEF EthActions, Eth

LEMMA CanActionOf ==
  ASSUME NEW act \in CanActions
  PROVE  /\ act.op = "can" /\ act.link \in Cans /\ act.bitrate \in Bitrates
         /\ act.on \subseteq Modes /\ act.state \in {"up", "down"}
<1>1. PICK c \in Cans, b \in Bitrates, on \in SUBSET Modes, s \in {"up", "down"} : act = Can(c, b, on, s)
  BY DEF CanActions
<1> QED
  BY <1>1 DEF Can

(* What the kernel may make of the setting of a controller.                 *)
LEMMA SettingOf ==
  ASSUME CanTypes, NEW act \in CanActions
  PROVE  /\ Options(act) \subseteq Modes
         /\ Setting(act) \in SettingType
         /\ Setting(act).bitrate = act.bitrate /\ Setting(act).mode = Options(act)
         /\ [can EXCEPT ![act.link] = Setting(act)] \in [Cans -> SettingType]
         /\ [can EXCEPT ![act.link] = Setting(act)][act.link] = Setting(act)
         /\ [can EXCEPT ![act.link].bitrate = act.bitrate] \in [Cans -> SettingType]
<1>1. act.link \in Cans /\ act.bitrate \in Bitrates /\ act.on \subseteq Modes
  BY CanActionOf
<1>2. Options(act) \subseteq Modes
  BY <1>1 DEF Options, CanTypes
<1>3. can[act.link] \in SettingType
  BY <1>1 DEF CanTypes
<1>4. can[act.link].data \in BOOLEAN
  BY <1>3 DEF SettingType
<1> DEFINE d == can[act.link].data \/ "fd" \in act.on
<1>5. d \in BOOLEAN /\ Setting(act) = [bitrate |-> act.bitrate, mode |-> Options(act), data |-> d]
  BY DEF Setting
<1> HIDE DEF d
<1>6. Setting(act) \in SettingType /\ Setting(act).bitrate = act.bitrate /\ Setting(act).mode = Options(act)
  BY <1>1, <1>2, <1>5 DEF SettingType
<1>7. [can[act.link] EXCEPT !.bitrate = act.bitrate] \in SettingType
  BY <1>1, <1>3 DEF SettingType
<1> DEFINE s == Setting(act)
           b == [can[act.link] EXCEPT !.bitrate = act.bitrate]
<1>8. s \in SettingType /\ b \in SettingType
  BY <1>6, <1>7
<1>9. [can EXCEPT ![act.link].bitrate = act.bitrate] = [can EXCEPT ![act.link] = b]
  OBVIOUS
<1> HIDE DEF s, b
<1>10. [can EXCEPT ![act.link] = s] \in [Cans -> SettingType] /\ [can EXCEPT ![act.link] = s][act.link] = s
  BY <1>1, <1>8 DEF CanTypes
<1>11. [can EXCEPT ![act.link] = b] \in [Cans -> SettingType]
  BY <1>1, <1>8 DEF CanTypes
<1> QED
  BY <1>2, <1>6, <1>9, <1>10, <1>11 DEF s

-----------------------------------------------------------------------------
(* How a step changes the counts and what it says of itself.                *)

USE DEF kernel, history

LEMMA EndOf ==
  ASSUME Counts, NEW act, NEW did \in Dids, End(act, did), refusals' = refusals \/ Refused
  PROVE  Counts' /\ actions' # actions /\ result'.act = act /\ result'.did = did
<1>1. result' = [act |-> act, did |-> did] /\ actions < MaxActions /\ actions' = actions + 1
  BY DEF End
<1>2. result'.act = act /\ result'.did = did
  BY <1>1
<1>3. actions' \in 0..MaxActions /\ actions' # actions
  BY <1>1, BoundAssumption DEF Counts
<1>4. refusals' \in 0..MaxRefusals
  BY BoundAssumption DEF Counts, Refused
<1> QED
  BY <1>2, <1>3, <1>4 DEF Counts

-----------------------------------------------------------------------------
(* What an action must show: the invariant is kept, and a repetition        *)
(* changes nothing.                                                         *)

Repeated ==
  /\ actions' # actions /\ result'.act = result.act /\ result.did = "done"
  /\ Spares(result.act, result'.did) /\ Settled(result.act)
Kept == KernelIInv' /\ (Repeated => kernel' = kernel)

(* Nothing is asserted of an action that was not carried out.               *)
LEMMA NotDone ==
  ASSUME ConfInv', result'.did # "done", Repeated => kernel' = kernel
  PROVE  Kept
BY DEF Kept, KernelIInv, DoneIsInForce, ModesAgree

LEMMA DoneOnce ==
  ASSUME ConfInv', NEW act, result'.act = act, InForce(act)', act.op # "can",
         Repeated => kernel' = kernel
  PROVE  Kept
<1>1. InForce(result.act)'
  BY DEF InForce, RouteOf, Found, RoutesTo, Asked
<1> QED
  BY <1>1 DEF Kept, KernelIInv, DoneIsInForce, ModesAgree

LEMMA KernelStays ==
  ASSUME ConfInv, UNCHANGED <<kernel, known, options, history>>, Counts'
  PROVE  ConfInv'
BY DEF ConfInv, LinkTypes, RouteTypes, CanTypes, NoRouteIsOrphaned

LEMMA SkipKept ==
  ASSUME KernelIInv, NEW act, Skip(act)
  PROVE  Kept
<1>1. Counts' /\ result'.did = "skipped"
  BY EndOf DEF Skip, KernelIInv, ConfInv, Dids
<1>2. ConfInv'
  BY <1>1, KernelStays DEF Skip, KernelIInv, ConfInv, CanTypes
<1> QED
  BY <1>1, <1>2, NotDone DEF Skip

(* Manager, NDB and WiFi.                                                   *)
LEMMA ManagerKept ==
  ASSUME KernelIInv, NewManager \/ NdbLearns \/ ConnectWifi
  PROVE  Kept
<1>0. ConfInv /\ Counts
  BY DEF KernelIInv, ConfInv
<1>1. CASE NewManager
  <2> DEFINE act == [op |-> "new"]
  <2>1. Counts' /\ result'.act = act
    BY <1>0, <1>1, EndOf DEF NewManager, Dids
  <2>2. act.op = "new"
    OBVIOUS
  <2> HIDE DEF act
  <2>3. ConfInv'
    BY <1>0, <1>1, <2>1 DEF NewManager, ConfInv, LinkTypes, RouteTypes, CanTypes, NoRouteIsOrphaned
  <2>4. InForce(act)'
    BY <2>2 DEF InForce
  <2> QED
    BY <1>1, <2>1, <2>2, <2>3, <2>4, DoneOnce DEF NewManager
<1>2. CASE NdbLearns
  <2>1. ConfInv'
    BY <1>0, <1>2 DEF NdbLearns, ConfInv, LinkTypes, RouteTypes, CanTypes, NoRouteIsOrphaned, Counts
  <2>2. DoneIsInForce' /\ ModesAgree'
    BY <1>2 DEF NdbLearns, KernelIInv, DoneIsInForce, ModesAgree, InForce, RouteOf, Found, RoutesTo
  <2> QED
    BY <1>2, <2>1, <2>2 DEF Kept, KernelIInv, NdbLearns
<1>3. CASE ConnectWifi
  <2> DEFINE act == [op |-> "wifi"]
  <2>1. PICK did \in {"done", "logged", "raised"} : End(act, did) /\ UNCHANGED <<kernel, known, options, refusals, history>>
    BY <1>3 DEF ConnectWifi
  <2>2. act.op = "wifi"
    OBVIOUS
  <2> HIDE DEF act
  <2>3. Counts' /\ result'.act = act
    BY <1>0, <2>1, EndOf DEF Dids
  <2>4. ConfInv'
    BY <1>0, <2>1, <2>3, KernelStays DEF ConfInv, CanTypes
  <2>5. InForce(act)'
    BY <2>2 DEF InForce
  <2> QED
    BY <2>1, <2>2, <2>3, <2>4, <2>5, DoneOnce
<1> QED
  BY <1>1, <1>2, <1>3


(* Interfaces may come, and addresses and routes with them.                 *)
LEMMA LinksGrow ==
  ASSUME LinkTypes, RouteTypes, links \subseteq links', links' \subseteq Links
  PROVE  /\ known \subseteq links' /\ ups \subseteq links'
         /\ addrs \subseteq links' \X Ips
         /\ routes \subseteq Ips \X (Gateways \cup links')
BY DEF LinkTypes, RouteTypes

LEMMA VlanKept ==
  ASSUME KernelIInv, NEW v \in Vlans, VlanExists(v) \/ CreateVlan(v) \/ CreateVlanRaises(v)
  PROVE  Kept
<1>0. ConfInv /\ LinkTypes /\ RouteTypes /\ CanTypes /\ Counts /\ v \in Links
      /\ Vlan(v).op = "vlan" /\ Vlan(v).link = v
  BY DEF KernelIInv, ConfInv, Links, Vlan
<1>1. CASE VlanExists(v)
  BY <1>1, SkipKept DEF VlanExists
<1>2. CASE CreateVlan(v)
  <2>1. Counts' /\ result'.act = Vlan(v)
    BY <1>0, <1>2, EndOf DEF CreateVlan, Accepted, Dids
  <2>2. LinkTypes' /\ RouteTypes'
    BY <1>0, <1>2, LinksGrow DEF CreateVlan, LinkTypes, RouteTypes
  <2>3. CanTypes' /\ NoRouteIsOrphaned'
    BY <1>0, <1>2 DEF CreateVlan, CanTypes, NoRouteIsOrphaned, ConfInv
  <2>4. InForce(Vlan(v))'
    BY <1>0, <1>2 DEF CreateVlan, InForce
  <2>5. ~Repeated
    BY <1>0, <1>2, <2>1 DEF Repeated, CreateVlan, KernelIInv, DoneIsInForce, InForce
  <2> QED
    BY <1>0, <2>1, <2>2, <2>3, <2>4, <2>5, DoneOnce DEF ConfInv
<1>3. CASE CreateVlanRaises(v)
  <2>1. Counts' /\ result'.did = "raised"
    BY <1>0, <1>3, EndOf DEF CreateVlanRaises, Accepted, Dids
  <2>2. links \subseteq links' /\ links' \subseteq Links
    BY <1>0, <1>3 DEF CreateVlanRaises, LinkTypes
  <2>3. LinkTypes' /\ RouteTypes'
    BY <1>0, <1>3, <2>2, LinksGrow DEF CreateVlanRaises, LinkTypes, RouteTypes
  <2>4. CanTypes' /\ NoRouteIsOrphaned'
    BY <1>0, <1>3, <2>2 DEF CreateVlanRaises, CanTypes, NoRouteIsOrphaned, ConfInv
  <2>5. ASSUME Repeated PROVE kernel' = kernel
    <3>1. v \in links
      BY <1>0, <1>3, <2>5 DEF Repeated, CreateVlanRaises, End, KernelIInv, DoneIsInForce, InForce
    <3> QED
      BY <1>3, <3>1 DEF CreateVlanRaises
  <2> QED
    BY <2>1, <2>3, <2>4, <2>5, NotDone DEF ConfInv
<1> QED
  BY <1>1, <1>2, <1>3

(* A step on addresses and routes alone, and what it must keep of them.     *)
LEMMA IpKept ==
  ASSUME ConfInv, IpStep, Counts', addrs' \subseteq links \X Ips,
         RouteTypes', strays' \subseteq Ips \X (Gateways \cup Links), NoRouteIsOrphaned'
  PROVE  ConfInv'
BY DEF ConfInv, IpStep, LinkTypes, CanTypes

LEMMA AddKept ==
  ASSUME KernelIInv, NEW act \in IpActions("add"),
         AddSkipped(act) \/ Add(act) \/ AddRouteRaises(act) \/ AddAddressRaises(act)
  PROVE  Kept
<1>0. ConfInv /\ LinkTypes /\ RouteTypes /\ CanTypes /\ Counts /\ NoRouteIsOrphaned
      /\ act.op = "add" /\ act.ip \in Ips /\ act.via \in Gateways \cup {"none", act.link}
  BY IpActionOf DEF KernelIInv, ConfInv
<1>1. CASE AddSkipped(act)
  BY <1>1, SkipKept DEF AddSkipped
<1> DEFINE rs == routes \cup RouteOf(act)
(* The route goes to the address, and no other does.                        *)
<1>2. ASSUME act.link \in links, RouteIsFree(act)
      PROVE  /\ rs \subseteq Ips \X (Gateways \cup links)
             /\ \A r, s \in rs : r[1] = s[1] => r = s
             /\ \A r \in RouteOf(act) : r[1] = act.ip
             /\ RouteOf(act) \subseteq Ips \X (Gateways \cup Links)
  <2>1. \A r \in RouteOf(act) : r = <<act.ip, act.via>> /\ act.via # "none"
    BY DEF RouteOf
  <2>2. RouteOf(act) \subseteq Ips \X (Gateways \cup links)
    BY <1>0, <1>2, <2>1
  <2>3. \A r \in RouteOf(act), s \in routes : r[1] # s[1]
    BY <1>2, <2>1 DEF RouteIsFree, RoutesTo
  <2>4. \A r, s \in rs : r[1] = s[1] => r = s
    BY <1>0, <2>1, <2>3 DEF RouteTypes
  <2>5. RouteOf(act) \subseteq Ips \X (Gateways \cup Links)
    BY <1>0, <2>2 DEF LinkTypes
  <2> QED
    BY <1>0, <2>1, <2>2, <2>4, <2>5 DEF RouteTypes
<1>3. addrs \subseteq links \X Ips /\ (act.link \in known => act.link \in links)
  BY <1>0 DEF LinkTypes
(* An action that was carried out has its address, and is skipped.          *)
<1>7. ASSUME ~Listed(act.link, act.ip), result'.act = act PROVE ~Repeated
  <2>1. <<act.link, act.ip>> \notin addrs
    BY <1>0, <1>7 DEF Listed
  <2> QED
    BY <1>0, <1>7, <2>1 DEF Repeated, KernelIInv, DoneIsInForce, InForce
<1>4. CASE Add(act)
  <2>1. act.link \in links /\ RouteIsFree(act) /\ routes' = rs /\ links' = links
        /\ addrs' = addrs \cup {<<act.link, act.ip>>} /\ strays' = strays \ RouteOf(act)
    BY <1>3, <1>4 DEF Add, IpStep
  <2>2. Counts' /\ result'.act = act
    BY <1>0, <1>4, EndOf DEF Add, Accepted, Dids
  <2>3. RouteTypes'
    BY <1>2, <2>1 DEF RouteTypes
  <2>4. NoRouteIsOrphaned'
    <3> SUFFICES ASSUME NEW r \in routes'
                 PROVE  r \in strays' \/ \E i \in links' : <<i, r[1]>> \in addrs'
      BY DEF NoRouteIsOrphaned
    <3>1. CASE r \in RouteOf(act)
      BY <1>2, <2>1, <3>1
    <3>2. CASE r \in routes \ RouteOf(act)
      BY <1>0, <2>1, <3>2 DEF NoRouteIsOrphaned
    <3> QED
      BY <2>1, <3>1, <3>2
  <2>5. ConfInv'
    BY <1>0, <1>3, <1>4, <2>1, <2>2, <2>3, <2>4, IpKept DEF Add, LinkTypes
  <2>6. InForce(act)'
    BY <1>0, <2>1 DEF InForce, RouteOf
  <2>7. ~Repeated
    BY <1>4, <1>7, <2>2 DEF Add
  <2> QED
    BY <1>0, <2>2, <2>5, <2>6, <2>7, DoneOnce
<1>5. CASE AddRouteRaises(act)
  <2>1. Counts' /\ result'.did = "raised" /\ result'.act = act
    BY <1>0, <1>5, EndOf DEF AddRouteRaises, Accepted, Dids
  <2>2. addrs \subseteq addrs' /\ addrs' \subseteq links \X Ips
    BY <1>0, <1>3, <1>5 DEF AddRouteRaises
  <2>3. NoRouteIsOrphaned' /\ RouteTypes'
    BY <1>0, <1>5, <2>2 DEF AddRouteRaises, IpStep, NoRouteIsOrphaned, RouteTypes
  <2>4. ConfInv'
    BY <1>0, <1>5, <2>1, <2>2, <2>3, IpKept DEF AddRouteRaises, LinkTypes
  <2>5. ~Repeated
    BY <1>5, <1>7, <2>1 DEF AddRouteRaises
  <2> QED
    BY <2>1, <2>4, <2>5, NotDone
<1>6. CASE AddAddressRaises(act)
  <2>1. act.link \in links /\ RouteIsFree(act) /\ routes' = rs /\ links' = links
        /\ addrs' = addrs /\ strays' = strays \cup RouteOf(act)
    BY <1>3, <1>6 DEF AddAddressRaises, IpStep
  <2>2. Counts' /\ result'.did = "raised" /\ result'.act = act
    BY <1>0, <1>6, EndOf DEF AddAddressRaises, Accepted, Dids
  <2>3. RouteTypes' /\ strays' \subseteq Ips \X (Gateways \cup Links)
    BY <1>0, <1>2, <2>1 DEF RouteTypes, LinkTypes
  <2>4. NoRouteIsOrphaned'
    <3> SUFFICES ASSUME NEW r \in routes'
                 PROVE  r \in strays' \/ \E i \in links' : <<i, r[1]>> \in addrs'
      BY DEF NoRouteIsOrphaned
    <3>1. CASE r \in routes
      BY <1>0, <2>1, <3>1 DEF NoRouteIsOrphaned
    <3>2. CASE r \in RouteOf(act)
      BY <2>1, <3>2
    <3> QED
      BY <2>1, <3>1, <3>2
  <2>5. ConfInv'
    BY <1>0, <1>3, <1>6, <2>1, <2>2, <2>3, <2>4, IpKept DEF AddAddressRaises
  <2>6. ~Repeated
    BY <1>6, <1>7, <2>2 DEF AddAddressRaises
  <2> QED
    BY <2>2, <2>5, <2>6, NotDone
<1> QED
  BY <1>1, <1>4, <1>5, <1>6

LEMMA RemoveKept ==
  ASSUME KernelIInv, NEW act \in IpActions("remove"),
         RemoveSkipped(act) \/ Remove(act) \/ RemoveRaises(act)
  PROVE  Kept
<1>0. ConfInv /\ LinkTypes /\ RouteTypes /\ CanTypes /\ Counts /\ NoRouteIsOrphaned
      /\ act.op = "remove" /\ act.ip \in Ips /\ act.via \in Gateways \cup {"none", act.link}
  BY IpActionOf DEF KernelIInv, ConfInv
<1>1. CASE RemoveSkipped(act)
  BY <1>1, SkipKept DEF RemoveSkipped
<1>2. ASSUME routes' \subseteq routes, links' = links PROVE RouteTypes'
  BY <1>0, <1>2 DEF RouteTypes
<1>3. CASE Remove(act)
  <2>1. Counts' /\ result'.act = act
    BY <1>0, <1>3, EndOf DEF Remove, Accepted, Dids
  <2>2. /\ routes' = routes \ Found(act) /\ addrs' = addrs \ {<<act.link, act.ip>>} /\ links' = links
        /\ strays' = strays \cup Unnamed(act)
    BY <1>3 DEF Remove, IpStep
  <2>3. NoRouteIsOrphaned'
    <3> SUFFICES ASSUME NEW r \in routes'
                 PROVE  r \in strays' \/ \E i \in links' : <<i, r[1]>> \in addrs'
      BY DEF NoRouteIsOrphaned
    <3>1. r \in routes
      BY <2>2
    <3>2. CASE r[1] = act.ip
      <4>1. r \in RoutesTo(act.ip) /\ r \notin Found(act)
        BY <2>2, <3>1, <3>2 DEF RoutesTo
      <4>2. r \in Unnamed(act)
        BY <4>1 DEF Found, Unnamed
      <4> QED
        BY <2>2, <4>2
    <3>3. CASE r[1] # act.ip
      <4>1. r \in strays \/ \E i \in links : <<i, r[1]>> \in addrs
        BY <1>0, <3>1 DEF NoRouteIsOrphaned
      <4>2. \A i \in links : <<i, r[1]>> # <<act.link, act.ip>>
        BY <3>3
      <4> QED
        BY <2>2, <4>1, <4>2
    <3> QED
      BY <3>2, <3>3
  <2>8. Unnamed(act) \subseteq Ips \X (Gateways \cup Links)
    BY <1>0 DEF Unnamed, RoutesTo, RouteTypes, LinkTypes
  <2>4. strays' \subseteq Ips \X (Gateways \cup Links) /\ addrs' \subseteq links \X Ips /\ RouteTypes'
    BY <1>0, <1>2, <2>2, <2>8 DEF LinkTypes
  <2>5. ConfInv'
    BY <1>0, <1>3, <2>1, <2>3, <2>4, IpKept DEF Remove
  <2>6. InForce(act)'
    <3>1. <<act.link, act.ip>> \notin addrs'
      BY <2>2
    <3>2. Found(act)' = {}
      BY <2>2 DEF Found, RoutesTo
    <3> QED
      BY <1>0, <3>1, <3>2 DEF InForce
  <2>7. ~Repeated
    BY <1>0, <1>3, <2>1 DEF Remove, Repeated, KernelIInv, DoneIsInForce, InForce
  <2> QED
    BY <1>0, <2>1, <2>5, <2>6, <2>7, DoneOnce
<1>4. CASE RemoveRaises(act)
  <2>1. Counts' /\ result'.did = "raised" /\ result'.act = act
    BY <1>0, <1>4, EndOf DEF RemoveRaises, Accepted, Dids
  <2>2. routes' \subseteq routes /\ links' = links /\ addrs' = addrs /\ strays' = strays
    BY <1>4 DEF RemoveRaises, IpStep
  <2>3. NoRouteIsOrphaned'
    BY <1>0, <2>2 DEF NoRouteIsOrphaned
  <2>4. ConfInv'
    BY <1>0, <1>2, <1>4, <2>1, <2>2, <2>3, IpKept DEF RemoveRaises, LinkTypes
  <2>5. ASSUME Repeated PROVE kernel' = kernel
    <3>1. Found(act) = {}
      BY <1>0, <2>1, <2>5 DEF Repeated, KernelIInv, DoneIsInForce, InForce
    <3>2. routes' = routes
      BY <1>4, <3>1 DEF RemoveRaises
    <3> QED
      BY <1>4, <3>2 DEF RemoveRaises, IpStep
  <2> QED
    BY <2>1, <2>4, <2>5, NotDone
<1> QED
  BY <1>1, <1>3, <1>4


(* One of up and down, or none.                                             *)
LEMMA AskedOf ==
  ASSUME NEW act \in EthActions
  PROVE  /\ Asked(act) \subseteq {"up", "down"}
         /\ Settled(act) => Asked(act) # {"up", "down"}
<1>1. Asked(act) \subseteq {"up", "down"}
  BY EthActionOf DEF Asked
<1>2. Cardinality({"up", "down"}) = 2
  <2>1. /\ IsFiniteSet({"up"}) /\ Cardinality({"up"}) = 1 /\ "down" \notin {"up"}
    BY FS_Singleton
  <2>2. Cardinality({"up"} \cup {"down"}) = Cardinality({"up"}) + 1
    BY <2>1, FS_AddElement
  <2>3. {"up"} \cup {"down"} = {"up", "down"}
    OBVIOUS
  <2> QED
    BY <2>1, <2>2, <2>3
<1>3. ASSUME Settled(act), Asked(act) = {"up", "down"} PROVE FALSE
  <2>1. Cardinality(Asked(act)) < 2
    BY <1>3, EthActionOf DEF Settled
  <2> QED
    BY <1>2, <1>3, <2>1
<1> QED
  BY <1>1, <1>3

(* An interface goes up or down, perhaps with VLANs on it.                  *)
LEMMA UpOrDown ==
  ASSUME LinkTypes, RouteTypes, NEW i \in links, BringUp(i) \/ TakeDown(i)
  PROVE  ups' \subseteq links /\ routes' \subseteq routes
<1>1. CASE BringUp(i)
  <2>1. PICK vs \in IF i \in ups THEN {{}} ELSE Followers(i, links \cap Vlans) : ups' = ups \cup {i} \cup vs
    BY <1>1 DEF BringUp
  <2>2. vs \subseteq links
    BY <2>1 DEF Followers
  <2> QED
    BY <1>1, <2>1, <2>2 DEF BringUp, LinkTypes
<1>2. CASE TakeDown(i)
  BY <1>2 DEF TakeDown, LinkTypes
<1> QED
  BY <1>1, <1>2

LEMMA EthKept ==
  ASSUME KernelIInv, NEW act \in EthActions,
         EthSkipped(act) \/ ConfigureEth(act) \/ ConfigureEthRaises(act)
  PROVE  Kept
<1>0. ConfInv /\ LinkTypes /\ RouteTypes /\ CanTypes /\ Counts /\ NoRouteIsOrphaned /\ act.op = "eth"
  BY EthActionOf DEF KernelIInv, ConfInv
<1>1. CASE EthSkipped(act)
  BY <1>1, SkipKept DEF EthSkipped
<1>2. CASE ConfigureEthRaises(act)
  <2>1. Counts' /\ result'.did = "raised"
    BY <1>0, <1>2, EndOf DEF ConfigureEthRaises, Dids
  <2>2. ConfInv'
    BY <1>0, <1>2, <2>1, KernelStays DEF ConfigureEthRaises, CanTypes
  <2> QED
    BY <1>2, <2>1, <2>2, NotDone DEF ConfigureEthRaises
<1>3. CASE ConfigureEth(act)
  <2>1. /\ Counts' /\ result'.act = act
        /\ act.link \in links /\ UNCHANGED <<links, addrs, can, known, options, history>>
    BY <1>0, <1>3, EndOf DEF ConfigureEth, Accepted, Dids, LinkTypes
  <2>2. ups' \subseteq links /\ routes' \subseteq routes
    BY <1>0, <1>3, <2>1, UpOrDown DEF ConfigureEth, LinkTypes
  <2>3. ConfInv'
    BY <1>0, <2>1, <2>2 DEF ConfInv, LinkTypes, RouteTypes, CanTypes, NoRouteIsOrphaned
  <2>4. Asked(act) \subseteq {"up", "down"}
    BY AskedOf
  <2>5. CASE Asked(act) = {"up"}
    <3>1. BringUp(act.link)
      BY <1>3, <2>5 DEF ConfigureEth
    <3>2. act.link \in ups'
      BY <3>1 DEF BringUp
    <3>3. InForce(act)'
      BY <1>0, <2>5, <3>2 DEF InForce, Asked
    <3>4. ASSUME Repeated PROVE kernel' = kernel
      <4>1. act.link \in ups
        BY <1>0, <2>1, <2>5, <3>4 DEF Repeated, KernelIInv, DoneIsInForce, InForce
      <4>2. ups' = ups /\ routes' = routes
        BY <3>1, <4>1 DEF BringUp
      <4> QED
        BY <2>1, <4>2
    <3> QED
      BY <1>0, <2>1, <2>3, <3>3, <3>4, DoneOnce
  <2>6. CASE Asked(act) = {"down"}
    <3>1. TakeDown(act.link)
      BY <1>3, <2>6 DEF ConfigureEth
    <3>2. act.link \notin ups'
      BY <3>1 DEF TakeDown
    <3>3. InForce(act)'
      BY <1>0, <2>6, <3>2 DEF InForce, Asked
    <3>4. ASSUME Repeated PROVE kernel' = kernel
      <4>1. act.link \notin ups
        BY <1>0, <2>1, <2>6, <3>4 DEF Repeated, KernelIInv, DoneIsInForce, InForce
      <4>2. ups' = ups /\ routes' = routes
        BY <3>1, <4>1 DEF TakeDown
      <4> QED
        BY <2>1, <4>2
    <3> QED
      BY <1>0, <2>1, <2>3, <3>3, <3>4, DoneOnce
  <2>7. CASE Asked(act) = {}
    <3>1. InForce(act)'
      BY <1>0, <2>7 DEF InForce, Asked
    <3>2. kernel' = kernel
      BY <1>3, <2>7 DEF ConfigureEth
    <3> QED
      BY <1>0, <2>1, <2>3, <3>1, <3>2, DoneOnce
  <2>8. CASE Asked(act) = {"up", "down"}
    <3>1. InForce(act)'
      BY <1>0, <2>8 DEF InForce, Asked
    <3>2. ~Repeated
      <4>1. ~Settled(act)
        BY <2>8, AskedOf
      <4> QED
        BY <2>1, <4>1 DEF Repeated
    <3> QED
      BY <1>0, <2>1, <2>3, <3>1, <3>2, DoneOnce
  <2> QED
    BY <2>4, <2>5, <2>6, <2>7, <2>8
<1> QED
  BY <1>1, <1>2, <1>3


(* A CAN step leaves everything alone but its controller and the modes.     *)
LEMMA CanStepKept ==
  ASSUME ConfInv, NEW act \in CanActions, UNCHANGED <<links, addrs, routes, known, strays>>,
         act.link \in known, ups' \in {ups \cup {act.link}, ups \ {act.link}},
         can' \in [Cans -> SettingType], options' = Options(act), wanted' = wanted \cup act.on, Counts'
  PROVE  ConfInv'
<1>1. options' \subseteq Modes
  BY SettingOf DEF ConfInv
<1>2. wanted' = options'
  BY DEF ConfInv, CanTypes, Options
<1> QED
  BY <1>1, <1>2 DEF ConfInv, LinkTypes, RouteTypes, CanTypes, NoRouteIsOrphaned

LEMMA CanMade ==
  ASSUME ConfInv, NEW act \in CanActions,
         \/ KernelSets(act) \/ KernelRefuses(act)
         \/ can' = [can EXCEPT ![act.link] = Setting(act)]
         \/ can' \in {can, [can EXCEPT ![act.link].bitrate = act.bitrate]}
  PROVE  can' \in [Cans -> SettingType]
BY SettingOf DEF ConfInv, CanTypes, KernelSets, KernelRefuses

(* What was set and is set again stays as it is.                            *)
LEMMA SameSetting ==
  ASSUME KernelIInv, NEW act \in CanActions, result.did = "done", result.act = act
  PROVE  /\ [can EXCEPT ![act.link] = Setting(act)] = can
         /\ [can EXCEPT ![act.link].bitrate = act.bitrate] = can
         /\ act.state = "up" <=> act.link \in ups
<1>1. act.op = "can" /\ act.link \in Cans /\ act.on \subseteq Modes
  BY CanActionOf
<1>2. can \in [Cans -> SettingType]
  BY DEF KernelIInv, ConfInv, CanTypes
<1>3. /\ can[act.link].bitrate = act.bitrate /\ act.on \subseteq can[act.link].mode
      /\ act.state = "up" <=> act.link \in ups
  BY <1>1 DEF KernelIInv, DoneIsInForce, InForce
<1>4. can[act.link].mode = options /\ ("fd" \in act.on => can[act.link].data)
  BY <1>1 DEF KernelIInv, ModesAgree
<1>5. Options(act) = can[act.link].mode
  BY <1>3, <1>4 DEF Options
<1>6. can[act.link] \in SettingType
  BY <1>1, <1>2
<1>7. (can[act.link].data \/ "fd" \in act.on) = can[act.link].data
  BY <1>4, <1>6 DEF SettingType
<1>8. Setting(act) = [bitrate |-> can[act.link].bitrate, mode |-> can[act.link].mode,
                      data |-> can[act.link].data]
  BY <1>3, <1>5, <1>7 DEF Setting
<1>9. can[act.link] = [bitrate |-> can[act.link].bitrate, mode |-> can[act.link].mode,
                      data |-> can[act.link].data]
  BY <1>6, Zenon DEF SettingType
<1>10. Setting(act) = can[act.link]
  BY <1>8, <1>9
<1>11. [can EXCEPT ![act.link] = can[act.link]] = can
  BY <1>1, <1>2
<1>12. [can EXCEPT ![act.link].bitrate = act.bitrate] = can
  <2>1. [can[act.link] EXCEPT !.bitrate = can[act.link].bitrate] = can[act.link]
    BY <1>6 DEF SettingType
  <2>2. [can EXCEPT ![act.link].bitrate = act.bitrate]
          = [can EXCEPT ![act.link] = [can[act.link] EXCEPT !.bitrate = act.bitrate]]
    OBVIOUS
  <2> QED
    BY <1>3, <1>11, <2>1, <2>2
<1> QED
  BY <1>3, <1>10, <1>11, <1>12

LEMMA CanKept ==
  ASSUME KernelIInv, NEW act \in CanActions,
         CanSkipped(act) \/ CanDownRaises(act) \/ ConfigureCan(act) \/ CanUpRaises(act)
  PROVE  Kept
<1>0. /\ ConfInv /\ LinkTypes /\ CanTypes /\ Counts
      /\ act.op = "can" /\ act.link \in Cans /\ act.state \in {"up", "down"}
  BY CanActionOf DEF KernelIInv, ConfInv
<1>1. CASE CanSkipped(act)
  BY <1>1, SkipKept DEF CanSkipped
<1>2. CASE CanDownRaises(act)
  <2>1. Counts' /\ result'.did = "raised"
    BY <1>0, <1>2, EndOf DEF CanDownRaises, Dids
  <2>2. ConfInv'
    BY <1>0, <1>2, <2>1, KernelStays DEF CanDownRaises, CanTypes
  <2> QED
    BY <1>2, <2>1, <2>2, NotDone DEF CanDownRaises
<1>3. CASE ConfigureCan(act)
  <2>1. /\ act.link \in known /\ options' = Options(act) /\ wanted' = wanted \cup act.on
        /\ ups' = IF act.state = "up" THEN ups \cup {act.link} ELSE ups \ {act.link}
        /\ UNCHANGED <<links, addrs, routes, known, strays>>
    BY <1>3 DEF ConfigureCan
  <2>2. (KernelSets(act) /\ End(act, "done")) \/ (KernelRefuses(act) /\ End(act, "logged"))
    BY <1>3 DEF ConfigureCan
  <2>3. Counts' /\ result'.act = act
    BY <1>0, <2>2, EndOf DEF KernelSets, KernelRefuses, Accepted, Dids
  <2>4. can' \in [Cans -> SettingType]
    BY <1>0, <2>2, CanMade
  <2>5. ConfInv'
    BY <1>0, <2>1, <2>3, <2>4, CanStepKept
  <2>6. ASSUME Repeated PROVE kernel' = kernel
    <3>1. /\ [can EXCEPT ![act.link] = Setting(act)] = can
          /\ [can EXCEPT ![act.link].bitrate = act.bitrate] = can
          /\ act.state = "up" <=> act.link \in ups
      BY <2>3, <2>6, SameSetting DEF Repeated
    <3>2. can' = can
      BY <2>2, <3>1 DEF KernelSets, KernelRefuses
    <3>3. ups' = ups
      BY <2>1, <3>1
    <3> QED
      BY <2>1, <3>2, <3>3
  <2>7. CASE KernelSets(act) /\ End(act, "done")
    <3>1. can' = [can EXCEPT ![act.link] = Setting(act)]
      BY <2>7 DEF KernelSets
    <3>2. can'[act.link] = Setting(act)
      BY <1>0, <3>1, SettingOf
    <3>3. can'[act.link].bitrate = act.bitrate /\ can'[act.link].mode = options' /\ act.on \subseteq options'
      BY <1>0, <2>1, <3>2, SettingOf DEF Options
    <3>4. ASSUME "fd" \in act.on PROVE can'[act.link].data
      <4>1. (can[act.link].data \/ "fd" \in act.on) = TRUE
        BY <3>4
      <4>2. Setting(act) = [bitrate |-> act.bitrate, mode |-> Options(act), data |-> TRUE]
        BY <4>1 DEF Setting
      <4> QED
        BY <3>2, <4>2
    <3>5. act.state = "up" <=> act.link \in ups'
      BY <2>1
    <3>6. can'[act.link].mode \subseteq wanted'
      BY <2>5, <3>3 DEF ConfInv, CanTypes
    <3>7. InForce(result.act)'
      BY <1>0, <2>3, <3>3, <3>5, <3>6 DEF InForce
    <3>8. ModesAgree'
      BY <2>3, <3>3, <3>4 DEF ModesAgree
    <3> QED
      BY <2>5, <2>6, <3>7, <3>8 DEF Kept, KernelIInv, DoneIsInForce
  <2>8. CASE End(act, "logged")
    <3>1. result'.did = "logged"
      BY <2>8 DEF End
    <3> QED
      BY <2>5, <2>6, <3>1, NotDone
  <2> QED
    BY <2>2, <2>7, <2>8
<1>4. CASE CanUpRaises(act)
  <2>1. refusals' = refusals \/ Refused
    BY <1>4 DEF CanUpRaises, KernelSets, KernelRefuses, Accepted
  <2>2. Counts' /\ result'.did = "raised" /\ result'.act = act
    BY <1>0, <1>4, <2>1, EndOf DEF CanUpRaises, Dids
  <2>3. can' \in [Cans -> SettingType]
    BY <1>0, <1>4, CanMade DEF CanUpRaises
  <2>4. ConfInv'
    BY <1>0, <1>4, <2>2, <2>3, CanStepKept DEF CanUpRaises
  <2> QED
    BY <1>0, <2>2, <2>4, NotDone DEF Repeated, Spares
<1> QED
  BY <1>1, <1>2, <1>3, <1>4

-----------------------------------------------------------------------------
(* The theorems.                                                            *)

LEMMA InitKernelIInv == Init => KernelIInv
<1> SUFFICES ASSUME Init PROVE KernelIInv
  OBVIOUS
<1>1. PICK cs \in SUBSET Cans : links = Eths \cup cs
  BY DEF Init
<1>2. LinkTypes
  BY <1>1 DEF Init, LinkTypes, Links
<1>3. RouteTypes /\ NoRouteIsOrphaned
  BY DEF Init, RouteTypes, NoRouteIsOrphaned
<1>4. NoSetting \in SettingType
  BY DEF NoSetting, SettingType
<1>5. CanTypes
  BY <1>4 DEF Init, CanTypes
<1>6. result.did = "nothing"
  BY DEF Init
<1>7. Counts
  BY <1>6, BoundAssumption DEF Init, Counts, Dids
<1> QED
  BY <1>2, <1>3, <1>5, <1>6, <1>7 DEF KernelIInv, ConfInv, DoneIsInForce, ModesAgree

LEMMA NextKernelIInv == KernelIInv /\ [Next]_vars => KernelIInv' /\ (Repeated => kernel' = kernel)
<1> SUFFICES ASSUME KernelIInv, [Next]_vars PROVE Kept
  BY DEF Kept
<1>1. CASE NewManager \/ NdbLearns \/ ConnectWifi
  BY <1>1, ManagerKept
<1>2. ASSUME NEW v \in Vlans, VlanExists(v) \/ CreateVlan(v) \/ CreateVlanRaises(v) PROVE Kept
  BY <1>2, VlanKept
<1>3. ASSUME NEW act \in IpActions("add"),
             AddSkipped(act) \/ Add(act) \/ AddRouteRaises(act) \/ AddAddressRaises(act)
      PROVE  Kept
  BY <1>3, AddKept
<1>4. ASSUME NEW act \in IpActions("remove"), RemoveSkipped(act) \/ Remove(act) \/ RemoveRaises(act)
      PROVE  Kept
  BY <1>4, RemoveKept
<1>5. ASSUME NEW act \in EthActions, EthSkipped(act) \/ ConfigureEth(act) \/ ConfigureEthRaises(act)
      PROVE  Kept
  BY <1>5, EthKept
<1>6. ASSUME NEW act \in CanActions,
             CanSkipped(act) \/ CanDownRaises(act) \/ ConfigureCan(act) \/ CanUpRaises(act)
      PROVE  Kept
  BY <1>6, CanKept
<1>7. CASE UNCHANGED vars
  <2>1. KernelIInv'
    BY <1>7 DEF vars, KernelIInv, ConfInv, LinkTypes, RouteTypes, CanTypes, Counts,
       NoRouteIsOrphaned, DoneIsInForce, ModesAgree, InForce, RouteOf, Found, RoutesTo
  <2> QED
    BY <1>7, <2>1 DEF Kept, Repeated, vars
<1> QED
  BY <1>1, <1>2, <1>3, <1>4, <1>5, <1>6, <1>7 DEF Next

LEMMA SpecKernelIInv == Spec => []KernelIInv
BY InitKernelIInv, NextKernelIInv, PTL DEF Spec

(* Addresses and routes, links and controllers keep together, and no route  *)
(* outlives its address (configuration_manager.py:127-176).                 *)
THEOREM KernelIsConsistent == Spec => []KernelInv
<1>1. KernelIInv => KernelInv
  BY DEF KernelIInv, ConfInv, LinkTypes, RouteTypes, CanTypes, Counts, SettingType, Dids, TypeOK, KernelInv
<1> QED
  BY <1>1, SpecKernelIInv, PTL

(* What an action that was carried out asks for is so in the kernel         *)
(* (configuration_manager.py:100-236).                                      *)
THEOREM DoneStaysInForce == Spec => []DoneIsInForce
<1>1. KernelIInv => DoneIsInForce
  BY DEF KernelIInv
<1> QED
  BY <1>1, SpecKernelIInv, PTL

(* A configuration that is published again changes nothing                  *)
(* (configuration_manager.py:101, 131, 155, 198-223).                       *)
THEOREM RepetitionChangesNothing == Spec => RepeatChangesNothing
<1> DEFINE Again == /\ actions' # actions /\ result'.act = result.act
                    /\ result.did = "done" /\ Spares(result.act, result'.did) /\ Settled(result.act)
<1>1. KernelIInv /\ [Next]_vars => [Again => kernel' = kernel]_vars
  BY NextKernelIInv DEF Repeated
<1> QED
  BY <1>1, SpecKernelIInv, PTL DEF Spec, RepeatChangesNothing

-----------------------------------------------------------------------------
(* The serial shell. *)

USE OutputAssumption, BannerAssumption, LimitAssumption, CommandsAssumption

Among(words, set) == \E i \in DOMAIN words : words[i] \in set

(* Some banner has a character that the pattern of the prompt looks for.    *)
BannersFool == \E banner \in Banners : Among(banner, {"angle", "hash"})

(* The text a line makes the console write, what it asks for then, and      *)
(* where it is.                                                             *)
TypedAt(line, text, prompt) ==
  /\ text \in Seq(Words) /\ prompt \in {"login:", "Password:", "prompt"}
  /\ device' \in {"name", "password", "command"}
  /\ user' \in {"none", "user", "other"}
  /\ device = "command" /\ line # "logout" => device' = "command"
  /\ ~Among(text, {"login:", "Password:", "prompt"})
  /\ Among(text, {"angle", "hash"}) => BannersFool
  /\ line \notin {"command", "logout"} =>
       /\ prompt = "prompt" \/ Among(text, {"bash"}) => device' = "command"
       /\ prompt = "login:" => device' = "name"
  /\ device = "name" /\ line = "user" =>
       (prompt = "Password:" /\ device' = "password") \/ prompt = "prompt"
  /\ device = "password" /\ line = "password" =>
       Among(text, {"Login incorrect"}) \/ prompt = "prompt"

LEMMA Alphabet ==
  ASSUME NEW set, NEW text \in Seq(set), NEW other, set \cap other = {}
  PROVE  ~Among(text, other)
<1>1. \A i \in DOMAIN text : text[i] \in set
  BY ElementOfSeq
<1> QED
  BY <1>1 DEF Among

LEMMA AlphabetOfWords ==
  ASSUME NEW set, NEW text \in Seq(set), set \subseteq Words
  PROVE  text \in Seq(Words)
  OBVIOUS

LEMMA TwoWords ==
  ASSUME NEW a, NEW b
  PROVE  /\ <<a, b>> \in Seq({a, b})
         /\ \A set : a \in set => Among(<<a, b>>, set)
<1>1. DOMAIN <<a, b>> = {1, 2} /\ <<a, b>>[1] = a
  OBVIOUS
<1> QED
  BY <1>1 DEF Among

LEMMA NoWords == <<>> \in Seq(Words) /\ \A other : ~Among(<<>>, other)
<1>1. <<>> \in Seq(Words) /\ Len(<<>>) = 0
  BY EmptySeq
<1>2. DOMAIN <<>> = 1..0
  BY <1>1, LenProperties
<1> QED
  BY <1>1, <1>2 DEF Among

LEMMA AtNameSays ==
  ASSUME ShellTypeOK, NEW line, device = "name", AtName(line)
  PROVE  \E text, prompt : Asks(text, prompt, 0) /\ TypedAt(line, text, prompt)
<1>0. user \in {"none", "user", "other"}
  BY DEF ShellTypeOK
<1>1. CASE line = "" /\ (\E banner \in Banners : Asks(banner, "login:", 0)) /\ UNCHANGED <<device, user>>
  <2>1. PICK banner \in Banners : Asks(banner, "login:", 0)
    BY <1>1
  <2> DEFINE set == {"text", "angle", "hash", "eol"}
  <2>2. banner \in Seq(set)
    BY BannerAssumption
  <2>3. set \subseteq Words /\ set \cap {"login:", "Password:", "prompt"} = {} /\ set \cap {"bash"} = {}
    BY DEF Words
  <2> HIDE DEF set
  <2>4. /\ banner \in Seq(Words) /\ ~Among(banner, {"login:", "Password:", "prompt"})
        /\ ~Among(banner, {"bash"})
    BY <2>2, <2>3, Alphabet, AlphabetOfWords
  <2>5. Among(banner, {"angle", "hash"}) => BannersFool
    BY DEF BannersFool
  <2>6. TypedAt(line, banner, "login:")
    BY <1>1, <1>0, <2>4, <2>5 DEF TypedAt
  <2> QED
    BY <2>1, <2>6
<1>2. CASE line = "user" /\ Asks(<<"Last login:", "eol">>, "prompt", 0) /\ device' = "command" /\ user' = "user"
  <2> DEFINE set == {"Last login:", "eol"}
             text == <<"Last login:", "eol">>
  <2>1. text \in Seq(set)
    BY TwoWords
  <2>2. /\ set \subseteq Words /\ set \cap {"login:", "Password:", "prompt"} = {} /\ set \cap {"angle", "hash"} = {}
    BY DEF Words
  <2> HIDE DEF set, text
  <2>3. /\ text \in Seq(Words) /\ ~Among(text, {"login:", "Password:", "prompt"})
        /\ ~Among(text, {"angle", "hash"})
    BY <2>1, <2>2, Alphabet, AlphabetOfWords
  <2>4. TypedAt(line, text, "prompt")
    BY <1>2, <2>3 DEF TypedAt
  <2> QED
    BY <1>2, <2>4 DEF text
<1>3. CASE line # "" /\ Asks(<<>>, "Password:", 0) /\ device' = "password" /\ user' \in {"user", "other"}
  <2>1. TypedAt(line, <<>>, "Password:")
    BY <1>3, NoWords DEF TypedAt
  <2> QED
    BY <1>3, <2>1
<1> QED
  BY <1>1, <1>2, <1>3 DEF AtName

LEMMA AtPasswordSays ==
  ASSUME ShellTypeOK, NEW line, device = "password", AtPassword(line)
  PROVE  \E text, prompt : Asks(text, prompt, 0) /\ TypedAt(line, text, prompt)
<1>0. user' \in {"none", "user", "other"}
  BY DEF ShellTypeOK, AtPassword
<1>1. CASE Asks(<<"Last login:", "eol">>, "prompt", 0) /\ device' = "command"
  <2> DEFINE set == {"Last login:", "eol"}
             text == <<"Last login:", "eol">>
  <2>1. text \in Seq(set)
    BY TwoWords
  <2>2. /\ set \subseteq Words /\ set \cap {"login:", "Password:", "prompt"} = {} /\ set \cap {"angle", "hash"} = {}
    BY DEF Words
  <2> HIDE DEF set, text
  <2>3. /\ text \in Seq(Words) /\ ~Among(text, {"login:", "Password:", "prompt"})
        /\ ~Among(text, {"angle", "hash"})
    BY <2>1, <2>2, Alphabet, AlphabetOfWords
  <2>4. TypedAt(line, text, "prompt")
    BY <1>0, <1>1, <2>3 DEF TypedAt
  <2> QED
    BY <1>1, <2>4 DEF text
<1>2. CASE Asks(<<"Login incorrect", "eol">>, "login:", 0) /\ device' = "name"
  <2> DEFINE set == {"Login incorrect", "eol"}
             text == <<"Login incorrect", "eol">>
  <2>1. text \in Seq(set) /\ Among(text, {"Login incorrect"})
    BY TwoWords
  <2>2. /\ set \subseteq Words /\ set \cap {"login:", "Password:", "prompt"} = {}
        /\ set \cap {"angle", "hash"} = {} /\ set \cap {"bash"} = {}
    BY DEF Words
  <2> HIDE DEF set, text
  <2>3. /\ text \in Seq(Words) /\ ~Among(text, {"login:", "Password:", "prompt"})
        /\ ~Among(text, {"angle", "hash"}) /\ ~Among(text, {"bash"})
    BY <2>1, <2>2, Alphabet, AlphabetOfWords
  <2>4. TypedAt(line, text, "login:")
    BY <1>0, <1>2, <2>1, <2>3 DEF TypedAt
  <2> QED
    BY <1>2, <2>4 DEF text
<1> QED
  BY <1>1, <1>2 DEF AtPassword

(* What a command writes. *)
LEMMA CommandWords ==
  ASSUME ShellTypeOK, NEW out \in Outputs
  PROVE  Echoed \o out \o Marker \in Seq({"command", "mark", "er", "eol", "hit", "miss"})
<1> DEFINE set == {"command", "mark", "er", "eol", "hit", "miss"}
<1>1. Marker \in Seq(set) /\ <<"command">> \in Seq(set) /\ <<>> \in Seq(set)
  BY DEF Marker
<1>2. Echoed \in Seq(set)
  <2> HIDE DEF set
  <2> QED
    BY <1>1, ConcatProperties DEF Echoed
<1>3. out \in Seq(set)
  <2>1. out \in Seq({"hit", "miss", "eol"}) /\ {"hit", "miss", "eol"} \subseteq set
    OBVIOUS
  <2> HIDE DEF set
  <2> QED
    BY <2>1
<1> HIDE DEF set
<1>4. Echoed \o out \o Marker \in Seq(set)
  BY <1>1, <1>2, <1>3, ConcatProperties
<1> QED
  BY <1>4 DEF set

LEMMA AtCommandSays ==
  ASSUME ShellTypeOK, NEW line, device = "command", AtCommand(line),
         line = "command" => Len(handed) < MaxCommands
  PROVE  \E text, prompt : \E of \in 0..MaxCommands : Asks(text, prompt, of) /\ TypedAt(line, text, prompt)
<1>t. user' \in {"none", "user", "other"} /\ device' \in {"name", "command"} /\ (line # "logout" => device' = "command")
  BY DEF ShellTypeOK, AtCommand
<1>0. 0 \in 0..MaxCommands
  OBVIOUS
<1>1. ASSUME NEW set, NEW text \in Seq(set), NEW of \in 0..MaxCommands, Asks(text, "prompt", of), line # "logout",
             set \subseteq Words, set \cap {"login:", "Password:", "prompt"} = {}, set \cap {"angle", "hash"} = {}
      PROVE  \E x, y : \E n \in 0..MaxCommands : Asks(x, y, n) /\ TypedAt(line, x, y)
  <2>1. /\ text \in Seq(Words) /\ ~Among(text, {"login:", "Password:", "prompt"})
        /\ ~Among(text, {"angle", "hash"})
    BY <1>1, Alphabet, AlphabetOfWords
  <2>2. TypedAt(line, text, "prompt")
    BY <1>1, <1>t, <2>1 DEF TypedAt
  <2> QED
    BY <1>1, <2>2
<1>2. CASE line = ""
  <2>1. Asks(<<>>, "prompt", 0)
    BY <1>2 DEF AtCommand
  <2>2. TypedAt(line, <<>>, "prompt")
    BY <1>t, <1>2, NoWords DEF TypedAt
  <2> QED
    BY <1>0, <2>1, <2>2
<1>3. CASE line = "ps"
  <2>1. PICK shell \in {"bash", "sh"} : Asks(<<shell, "eol">>, "prompt", 0)
    BY <1>3 DEF AtCommand
  <2>2. /\ <<shell, "eol">> \in Seq({shell, "eol"}) /\ {shell, "eol"} \subseteq Words
        /\ {shell, "eol"} \cap {"login:", "Password:", "prompt"} = {} /\ {shell, "eol"} \cap {"angle", "hash"} = {}
    BY TwoWords DEF Words
  <2> QED
    BY <1>0, <1>1, <1>3, <2>1, <2>2
<1>4. CASE line = "command"
  <2> DEFINE set == {"command", "mark", "er", "eol", "hit", "miss"}
  <2>1. PICK out \in Outputs : Asks(Echoed \o out \o Marker, "prompt", Len(handed) + 1)
    BY <1>4 DEF AtCommand
  <2>2. Echoed \o out \o Marker \in Seq(set)
    BY CommandWords
  <2>3. Len(handed) + 1 \in 0..MaxCommands
    <3>1. Len(handed) \in Nat
      BY LenProperties DEF ShellTypeOK
    <3> QED
      BY <1>4, <3>1
  <2>4. set \subseteq Words /\ set \cap {"login:", "Password:", "prompt"} = {} /\ set \cap {"angle", "hash"} = {}
    BY DEF Words
  <2> HIDE DEF set
  <2> QED
    BY <1>1, <1>4, <2>1, <2>2, <2>3, <2>4
<1>5. CASE line = "logout"
  <2>1. Asks(<<>>, "login:", 0)
    BY <1>5 DEF AtCommand
  <2>2. TypedAt(line, <<>>, "login:")
    BY <1>t, <1>5, NoWords DEF TypedAt
  <2> QED
    BY <1>0, <2>1, <2>2
<1>6. CASE line \notin {"", "ps", "command", "logout"}
  <2>1. Asks(<<"not found", "eol">>, "prompt", 0)
    <3>1. line # "" /\ line # "ps" /\ line # "command" /\ line # "logout"
      BY <1>6
    <3> QED
      BY <3>1 DEF AtCommand
  <2>2. /\ <<"not found", "eol">> \in Seq({"not found", "eol"}) /\ {"not found", "eol"} \subseteq Words
        /\ {"not found", "eol"} \cap {"login:", "Password:", "prompt"} = {}
        /\ {"not found", "eol"} \cap {"angle", "hash"} = {}
    BY TwoWords DEF Words
  <2> QED
    BY <1>0, <1>1, <1>6, <2>1, <2>2
<1> QED
  BY <1>2, <1>3, <1>4, <1>5, <1>6

-----------------------------------------------------------------------------
(* What a line adds to the stream, and what a read takes from it. *)

LEMMA StreamFacts ==
  ASSUME ShellTypeOK
  PROVE  /\ stream \in Seq(Pieces) /\ Len(stream) \in Nat /\ DOMAIN stream = 1..Len(stream)
         /\ \A i \in DOMAIN stream : stream[i] \in Pieces
         /\ stream = <<>> <=> Len(stream) = 0
         /\ written \in Nat
<1>1. stream \in Seq(Pieces) /\ written \in Nat
  BY DEF ShellTypeOK
<1>2. Len(stream) \in Nat /\ DOMAIN stream = 1..Len(stream)
  BY <1>1, LenProperties
<1> QED
  BY <1>1, <1>2, ElementOfSeq, EmptySeq

(* The stream ends in what the console asks for, and a blank.               *)
AsksFor(prompt) ==
  /\ stream # <<>> /\ Len(stream) > 1
  /\ stream[Len(stream)].is = "space" /\ stream[Len(stream) - 1].is = prompt

LEMMA AsksWords ==
  ASSUME NEW text \in Seq(Words), NEW prompt \in Words
  PROVE  LET words == text \o <<prompt, "space">>
         IN /\ words \in Seq(Words) /\ Len(words) \in Nat /\ Len(words) > 1
            /\ words[Len(words)] = "space" /\ words[Len(words) - 1] = prompt
            /\ \A w : Among(words, {w}) <=> Among(text, {w}) \/ w \in {prompt, "space"}
<1> DEFINE ask == <<prompt, "space">>
<1>1. ask \in Seq(Words) /\ Len(ask) = 2 /\ ask[1] = prompt /\ ask[2] = "space"
  <2>1. "space" \in Words
    BY DEF Words
  <2> QED
    BY <2>1
<1> HIDE DEF ask
<1> DEFINE words == text \o ask
<1>2. /\ words \in Seq(Words) /\ Len(words) = Len(text) + Len(ask)
      /\ \A i \in 1..(Len(text) + Len(ask)) : words[i] = IF i <= Len(text) THEN text[i] ELSE ask[i - Len(text)]
  BY <1>1, ConcatProperties
<1>3. Len(text) \in Nat /\ DOMAIN text = 1..Len(text)
  BY LenProperties
<1>4. DOMAIN words = 1..(Len(text) + 2)
  BY <1>1, <1>2, LenProperties
<1> HIDE DEF words
<1>5. \A i \in DOMAIN text : i \in DOMAIN words /\ words[i] = text[i]
  BY <1>1, <1>2, <1>3, <1>4
<1>6. words[Len(text) + 1] = prompt /\ words[Len(text) + 2] = "space"
  <2>1. /\ Len(text) + 1 \in 1..(Len(text) + 2) /\ ~(Len(text) + 1 <= Len(text)) /\ (Len(text) + 1) - Len(text) = 1
        /\ Len(text) + 2 \in 1..(Len(text) + 2) /\ ~(Len(text) + 2 <= Len(text)) /\ (Len(text) + 2) - Len(text) = 2
    BY <1>3
  <2> QED
    BY <1>1, <1>2, <2>1
<1>7. Len(words) = Len(text) + 2 /\ Len(words) - 1 = Len(text) + 1 /\ Len(words) \in Nat /\ Len(words) > 1
  BY <1>1, <1>2, <1>3
<1>8. ASSUME NEW w PROVE Among(words, {w}) <=> Among(text, {w}) \/ w \in {prompt, "space"}
  <2>1. ASSUME NEW i \in DOMAIN words PROVE i \in DOMAIN text \/ i = Len(text) + 1 \/ i = Len(text) + 2
    BY <1>3, <1>4
  <2>2. Len(text) + 1 \in DOMAIN words /\ Len(text) + 2 \in DOMAIN words
    BY <1>3, <1>4
  <2> QED
    BY <1>5, <1>6, <2>1, <2>2 DEF Among
<1> QED
  BY <1>2, <1>6, <1>7, <1>8 DEF words, ask

LEMMA SaysEffect ==
  ASSUME ShellTypeOK, NEW words \in Seq(Words), Len(words) > 1, NEW of \in 0..MaxCommands, Says(words, of)
  PROVE  /\ stream' \in Seq(Pieces) /\ written' \in Nat /\ written' = written + Len(words)
         /\ Len(words) \in Nat /\ Len(stream') = Len(stream) + Len(words)
         /\ \A i \in DOMAIN stream : i \in DOMAIN stream' /\ stream'[i] = stream[i]
         /\ \A i \in DOMAIN stream' : i \notin DOMAIN stream => stream'[i].n = written + (i - Len(stream))
         /\ \A w : Has(stream', w) <=> Has(stream, w) \/ Among(words, {w})
         /\ stream' # <<>> /\ Len(stream') > 1
         /\ stream'[Len(stream')].is = words[Len(words)]
         /\ stream'[Len(stream') - 1].is = words[Len(words) - 1]
<1> DEFINE more == [i \in DOMAIN words |-> [is |-> words[i], of |-> of, n |-> written + i]]
<1>1. Len(words) \in Nat /\ DOMAIN words = 1..Len(words) /\ Len(words) > 1
  BY LenProperties
<1>2. \A i \in DOMAIN words : words[i] \in Words
  BY ElementOfSeq
<1>3. \A i \in DOMAIN words : more[i] \in Pieces
  <2> SUFFICES ASSUME NEW i \in 1..Len(words) PROVE [is |-> words[i], of |-> of, n |-> written + i] \in Pieces
    BY <1>1
  <2>1. written + i \in Nat \ {0}
    BY <1>1, StreamFacts
  <2> QED
    BY <1>1, <1>2, <2>1 DEF Pieces
<1>4. more \in Seq(Pieces) /\ Len(more) = Len(words)
  <2>1. more \in [1..Len(words) -> Pieces]
    BY <1>1, <1>3
  <2> HIDE DEF more
  <2>2. more \in Seq(Pieces)
    BY <1>1, <2>1, IsASeq
  <2> QED
    BY <1>1, <2>1, <2>2, LenProperties
<1>5. /\ \A i \in 1..Len(words) : more[i].is = words[i] /\ more[i].n = written + i
  BY <1>1
<1>6. stream' = stream \o more /\ written' = written + Len(words)
  BY DEF Says
<1> HIDE DEF more
<1>7. /\ stream' \in Seq(Pieces) /\ Len(stream') = Len(stream) + Len(words)
      /\ \A i \in 1..(Len(stream) + Len(words)) :
           stream'[i] = IF i <= Len(stream) THEN stream[i] ELSE more[i - Len(stream)]
  <2>1. /\ stream \o more \in Seq(Pieces) /\ Len(stream \o more) = Len(stream) + Len(more)
        /\ \A i \in 1..(Len(stream) + Len(more)) :
             (stream \o more)[i] = IF i <= Len(stream) THEN stream[i] ELSE more[i - Len(stream)]
    <3>1. stream \in Seq(Pieces) /\ more \in Seq(Pieces)
      BY <1>4, StreamFacts
    <3> QED
      BY <3>1, ConcatProperties
  <2> QED
    BY <1>4, <1>6, <2>1
<1>8. DOMAIN stream' = 1..(Len(stream) + Len(words))
  BY <1>7, LenProperties
<1>9. \A i \in DOMAIN stream : i \in DOMAIN stream' /\ stream'[i] = stream[i]
  BY <1>1, <1>7, <1>8, StreamFacts
<1>10. \A i \in DOMAIN stream' : i \notin DOMAIN stream =>
         /\ i - Len(stream) \in DOMAIN words /\ stream'[i] = more[i - Len(stream)]
  BY <1>1, <1>7, <1>8, StreamFacts
<1>11. \A j \in DOMAIN words : Len(stream) + j \in DOMAIN stream' /\ stream'[Len(stream) + j] = more[j]
  <2> SUFFICES ASSUME NEW j \in 1..Len(words)
               PROVE  Len(stream) + j \in DOMAIN stream' /\ stream'[Len(stream) + j] = more[j]
    BY <1>1
  <2>1. Len(stream) + j \in 1..(Len(stream) + Len(words)) /\ ~(Len(stream) + j <= Len(stream))
        /\ (Len(stream) + j) - Len(stream) = j
    BY <1>1, StreamFacts
  <2> QED
    BY <1>7, <1>8, <2>1
<1>12. ASSUME NEW w PROVE Has(stream', w) <=> Has(stream, w) \/ Among(words, {w})
  <2>1. ASSUME Has(stream', w) PROVE Has(stream, w) \/ Among(words, {w})
    <3>1. PICK i \in DOMAIN stream' : stream'[i].is = w
      BY <2>1 DEF Has
    <3>2. CASE i \in DOMAIN stream
      BY <1>9, <3>1, <3>2 DEF Has
    <3>3. CASE i \notin DOMAIN stream
      BY <1>1, <1>5, <1>10, <3>1, <3>3 DEF Among
    <3> QED
      BY <3>2, <3>3
  <2>2. ASSUME Has(stream, w) PROVE Has(stream', w)
    BY <1>9, <2>2 DEF Has
  <2>3. ASSUME Among(words, {w}) PROVE Has(stream', w)
    BY <1>1, <1>5, <1>11, <2>3 DEF Has, Among
  <2> QED
    BY <2>1, <2>2, <2>3
<1>13. /\ stream' # <<>> /\ Len(stream') > 1
       /\ stream'[Len(stream')].is = words[Len(words)]
       /\ stream'[Len(stream') - 1].is = words[Len(words) - 1]
  <2>1. stream'[Len(stream')] = more[Len(words)] /\ more[Len(words)].is = words[Len(words)]
    BY <1>1, <1>5, <1>7, <1>11
  <2>2. /\ stream'[Len(stream) + (Len(words) - 1)] = more[Len(words) - 1]
        /\ more[Len(words) - 1].is = words[Len(words) - 1]
    <3>1. Len(words) - 1 \in 1..Len(words)
      BY <1>1
    <3> QED
      BY <1>1, <1>5, <1>11, <3>1
  <2>3. Len(stream') - 1 = Len(stream) + (Len(words) - 1) /\ Len(stream') > 1
    BY <1>1, <1>7, StreamFacts
  <2>4. stream' # <<>>
    BY <1>7, <2>3, EmptySeq
  <2> QED
    BY <2>1, <2>2, <2>3, <2>4
<1>14. \A i \in DOMAIN stream' : i \notin DOMAIN stream => stream'[i].n = written + (i - Len(stream))
  BY <1>1, <1>5, <1>10
<1>15. written' = written + Len(words) /\ written' \in Nat
  BY <1>1, <1>6, StreamFacts
<1>16. /\ stream' \in Seq(Pieces) /\ Len(stream') = Len(stream) + Len(words) /\ Len(words) \in Nat
  BY <1>1, <1>7
<1> QED
  BY <1>9, <1>12, <1>13, <1>14, <1>15, <1>16

LEMMA AsksEffect ==
  ASSUME ShellTypeOK, NEW text \in Seq(Words), NEW prompt \in {"login:", "Password:", "prompt"},
         NEW of \in 0..MaxCommands, Asks(text, prompt, of)
  PROVE  /\ stream' \in Seq(Pieces) /\ written' \in Nat
         /\ \E more \in Nat : written' = written + more /\ Len(stream') = Len(stream) + more
         /\ \A i \in DOMAIN stream : i \in DOMAIN stream' /\ stream'[i] = stream[i]
         /\ \A i \in DOMAIN stream' : i \notin DOMAIN stream => stream'[i].n = written + (i - Len(stream))
         /\ \A w : Has(stream', w) <=> Has(stream, w) \/ Among(text, {w}) \/ w \in {prompt, "space"}
         /\ AsksFor(prompt)'
<1> DEFINE words == text \o <<prompt, "space">>
<1>0. prompt \in Words
  BY DEF Words
<1>1. /\ words \in Seq(Words) /\ Len(words) \in Nat /\ Len(words) > 1
      /\ words[Len(words)] = "space" /\ words[Len(words) - 1] = prompt
      /\ \A w : Among(words, {w}) <=> Among(text, {w}) \/ w \in {prompt, "space"}
  BY <1>0, AsksWords
<1>2. Says(words, of)
  BY DEF Asks
<1> HIDE DEF words
<1>3. /\ stream' \in Seq(Pieces) /\ written' \in Nat /\ written' = written + Len(words)
      /\ Len(stream') = Len(stream) + Len(words)
      /\ \A i \in DOMAIN stream : i \in DOMAIN stream' /\ stream'[i] = stream[i]
      /\ \A i \in DOMAIN stream' : i \notin DOMAIN stream => stream'[i].n = written + (i - Len(stream))
      /\ \A w : Has(stream', w) <=> Has(stream, w) \/ Among(words, {w})
      /\ stream' # <<>> /\ Len(stream') > 1
      /\ stream'[Len(stream')].is = words[Len(words)]
      /\ stream'[Len(stream') - 1].is = words[Len(words) - 1]
  BY <1>1, <1>2, SaysEffect
<1>4. AsksFor(prompt)'
  BY <1>1, <1>3 DEF AsksFor
<1> QED
  BY <1>1, <1>3, <1>4

(* A text without its last character has no word that it had not, and lacks *)
(* none but the last.                                                       *)
LEMMA ButLastFacts ==
  ASSUME NEW chunk \in Seq(Pieces)
  PROVE  LET rest == ButLast(chunk)
         IN /\ rest \in Seq(Pieces) /\ Len(rest) \in Nat /\ Len(rest) <= Len(chunk) /\ DOMAIN rest = 1..Len(rest)
            /\ \A i \in DOMAIN rest : /\ i \in DOMAIN chunk /\ rest[i].n = chunk[i].n
                                      /\ rest[i].is = chunk[i].is \/ rest[i].is = "cut"
            /\ (chunk # <<>> /\ chunk[Len(chunk)].is = "space") =>
                 /\ Len(rest) = Len(chunk) - 1
                 /\ \A i \in DOMAIN rest : rest[i] = chunk[i]
<1> DEFINE rest == ButLast(chunk)
           Shorter(r) ==
             /\ r \in Seq(Pieces) /\ Len(r) \in Nat /\ Len(r) <= Len(chunk) /\ DOMAIN r = 1..Len(r)
             /\ \A i \in DOMAIN r : /\ i \in DOMAIN chunk /\ r[i].n = chunk[i].n
                                    /\ r[i].is = chunk[i].is \/ r[i].is = "cut"
             /\ (chunk # <<>> /\ chunk[Len(chunk)].is = "space") =>
                  Len(r) = Len(chunk) - 1 /\ \A i \in DOMAIN r : r[i] = chunk[i]
<1>0. Len(chunk) \in Nat /\ DOMAIN chunk = 1..Len(chunk) /\ (chunk = <<>> <=> Len(chunk) = 0)
  BY LenProperties, EmptySeq
<1>1. ASSUME chunk = <<>> PROVE Shorter(rest)
  <2>1. rest = <<>>
    BY <1>1 DEF ButLast
  <2> HIDE DEF rest
  <2>2. rest \in Seq(Pieces) /\ Len(rest) = 0 /\ DOMAIN rest = {}
    BY <1>0, <1>1, <2>1
  <2> QED
    BY <1>0, <1>1, <2>2
<1>2. ASSUME chunk # <<>>, chunk[Len(chunk)].is \in Characters PROVE Shorter(rest)
  <2>1. rest = SubSeq(chunk, 1, Len(chunk) - 1)
    BY <1>2 DEF ButLast
  <2> HIDE DEF rest
  <2> DEFINE n == Len(chunk) - 1
  <2>2. n \in Nat /\ n + 1 = Len(chunk)
    BY <1>0, <1>2
  <2>3. \A i \in 1..n : chunk[i] \in Pieces
    BY <1>0, <2>2, ElementOfSeq
  <2>4. rest \in Seq(Pieces) /\ Len(rest) = n /\ \A i \in 1..n : rest[i] = chunk[i]
    <3>1. rest = SubSeq(chunk, 1, n)
      BY <2>1
    <3> HIDE DEF n
    <3> QED
      BY <2>2, <2>3, <3>1, SubSeqProperties
  <2>5. DOMAIN rest = 1..n
    BY <2>4, LenProperties
  <2> HIDE DEF n
  <2>6. Len(rest) = Len(chunk) - 1
    BY <2>4 DEF n
  <2> QED
    BY <1>0, <2>2, <2>4, <2>5, <2>6
<1>3. ASSUME chunk # <<>>, chunk[Len(chunk)].is \notin Characters PROVE Shorter(rest)
  <2>1. rest = chunk \/ rest = [chunk EXCEPT ![Len(chunk)].is = "cut"]
    BY <1>3 DEF ButLast
  <2>2. chunk[Len(chunk)].is # "space"
    BY <1>3 DEF Characters
  <2> HIDE DEF rest
  <2>3. CASE rest = chunk
    <3>1. /\ rest \in Seq(Pieces) /\ Len(rest) \in Nat /\ Len(rest) <= Len(chunk) /\ DOMAIN rest = 1..Len(rest)
      BY <1>0, <2>3
    <3>2. \A i \in DOMAIN rest : i \in DOMAIN chunk /\ rest[i].n = chunk[i].n /\ rest[i].is = chunk[i].is
      BY <2>3
    <3> QED
      BY <2>2, <3>1, <3>2
  <2>4. CASE rest = [chunk EXCEPT ![Len(chunk)].is = "cut"]
    <3> DEFINE last1 == [chunk[Len(chunk)] EXCEPT !.is = "cut"]
    <3>1. Len(chunk) \in 1..Len(chunk)
      BY <1>0, <1>3
    <3>2. chunk[Len(chunk)] \in Pieces
      BY <1>0, <3>1, ElementOfSeq
    <3>3. last1 \in Pieces /\ last1.n = chunk[Len(chunk)].n /\ last1.is = "cut"
      BY <3>2 DEF Pieces, Words
    <3>4. rest = [chunk EXCEPT ![Len(chunk)] = last1]
      BY <2>4
    <3> HIDE DEF last1
    <3>5. rest \in Seq(Pieces) /\ Len(rest) = Len(chunk)
      BY <3>1, <3>3, <3>4, ExceptSeq
    <3>6. DOMAIN rest = DOMAIN chunk
      BY <1>0, <3>5, LenProperties
    <3>7. \A i \in DOMAIN chunk : rest[i] = IF i = Len(chunk) THEN last1 ELSE chunk[i]
      BY <3>4
    <3> QED
      <4>1. /\ rest \in Seq(Pieces) /\ Len(rest) \in Nat /\ Len(rest) <= Len(chunk) /\ DOMAIN rest = 1..Len(rest)
        BY <1>0, <3>5, <3>6
      <4>2. \A i \in DOMAIN rest : /\ i \in DOMAIN chunk /\ rest[i].n = chunk[i].n
                                   /\ rest[i].is = chunk[i].is \/ rest[i].is = "cut"
        BY <3>3, <3>6, <3>7
      <4> QED
        BY <2>2, <4>1, <4>2
  <2> QED
    BY <2>1, <2>3, <2>4
<1> QED
  BY <1>1, <1>2, <1>3

LEMMA ReadEffect ==
  ASSUME ShellTypeOK, NEW k \in 0..Len(stream), Read(k)
  PROVE  /\ last' \in Seq(Pieces) /\ stream' \in Seq(Pieces)
         /\ slow' \in 0..MaxSlow /\ slow <= slow' /\ torn' \in BOOLEAN /\ fooled' \in BOOLEAN
         /\ Len(last') <= k /\ Len(stream') = Len(stream) - k
         /\ \A i \in DOMAIN last' : i \in DOMAIN stream /\ i \in Nat /\ i > 0 /\ i <= k /\ last'[i].n = stream[i].n
         /\ \A i \in 1..(Len(stream) - k) : i + k \in DOMAIN stream /\ stream'[i] = stream[i + k]
         /\ \A w : /\ w # "cut" /\ Has(last', w) => Has(stream, w)
                   /\ Has(stream', w) => Has(stream, w)
         /\ fooled => fooled'
         /\ fooled' => fooled \/ Has(stream, "angle") \/ Has(stream, "hash")
         /\ IsCommandPrompt(last') => Has(stream, "prompt") \/ fooled'
         /\ slow' = 0 => slow = 0 /\ stream' = <<>> /\ k = Len(stream)
         /\ k = Len(stream) /\ stream # <<>> /\ stream[Len(stream)].is = "space" =>
              /\ \A w : w # "space" => (Has(last', w) <=> Has(stream, w))
              /\ AsksFor("prompt") => IsCommandPrompt(last')
<1> DEFINE chunk == SubSeq(stream, 1, k)
<1>1. /\ last' = ButLast(chunk) /\ stream' = SubSeq(stream, k + 1, Len(stream))
      /\ slow' = IF k < Len(stream) THEN slow + 1 ELSE slow
      /\ slow' <= MaxSlow
      /\ torn' = (torn \/ (k > 0 /\ stream[k].is \in {"mark", "er"}))
      /\ fooled' = (fooled \/ (IsCommandPrompt(last') /\ ~EndsAtPrompt(last')))
  BY DEF Read, Arrived
<1>2. slow \in 0..MaxSlow /\ torn \in BOOLEAN /\ fooled \in BOOLEAN /\ MaxSlow \in Nat
  BY DEF ShellTypeOK
<1>3. chunk \in Seq(Pieces) /\ Len(chunk) = k /\ \A i \in 1..k : i \in DOMAIN stream /\ chunk[i] = stream[i]
  BY StreamFacts, SubSeqProperties
<1>d. DOMAIN chunk = 1..k
  BY <1>3, LenProperties
<1> HIDE DEF chunk
<1>4. /\ stream' \in Seq(Pieces) /\ Len(stream') = Len(stream) - k
      /\ \A i \in 1..(Len(stream) - k) : i + k \in DOMAIN stream /\ stream'[i] = stream[i + k]
  <2> DEFINE n == Len(stream)
             m == k + 1
  <2>1. n \in Int /\ m \in Int /\ k \in 0..n /\ \A i \in m..n : stream[i] \in Pieces
    BY StreamFacts
  <2> HIDE DEF n, m
  <2>2. /\ SubSeq(stream, m, n) \in Seq(Pieces)
        /\ Len(SubSeq(stream, m, n)) = IF m <= n THEN n - m + 1 ELSE 0
        /\ \A i \in 1..(n - m + 1) : SubSeq(stream, m, n)[i] = stream[m + i - 1]
    BY <2>1, SubSeqProperties
  <2>3. stream' = SubSeq(stream, m, n)
    BY <1>1 DEF m, n
  <2>4. stream' \in Seq(Pieces) /\ Len(stream') = Len(stream) - k
    BY <2>1, <2>2, <2>3 DEF m, n
  <2>5. ASSUME NEW i \in 1..(Len(stream) - k) PROVE i + k \in DOMAIN stream /\ stream'[i] = stream[i + k]
    <3>1. i \in 1..(n - m + 1) /\ m + i - 1 = i + k /\ i + k \in 1..Len(stream)
      BY <2>1, <2>5, StreamFacts DEF m, n
    <3> QED
      BY <2>2, <2>3, <3>1, StreamFacts
  <2> QED
    BY <2>4, <2>5
<1>5. /\ last' \in Seq(Pieces) /\ Len(last') \in Nat /\ Len(last') <= k /\ DOMAIN last' = 1..Len(last')
      /\ \A i \in DOMAIN last' : /\ i \in 1..k /\ last'[i].n = stream[i].n
                                 /\ last'[i].is = stream[i].is \/ last'[i].is = "cut"
      /\ (chunk # <<>> /\ chunk[Len(chunk)].is = "space") =>
           Len(last') = Len(chunk) - 1 /\ \A i \in DOMAIN last' : last'[i] = stream[i]
  <2>1. /\ last' \in Seq(Pieces) /\ Len(last') \in Nat /\ Len(last') <= Len(chunk) /\ DOMAIN last' = 1..Len(last')
        /\ \A i \in DOMAIN last' : /\ i \in DOMAIN chunk /\ last'[i].n = chunk[i].n
                                   /\ last'[i].is = chunk[i].is \/ last'[i].is = "cut"
        /\ (chunk # <<>> /\ chunk[Len(chunk)].is = "space") =>
             Len(last') = Len(chunk) - 1 /\ \A i \in DOMAIN last' : last'[i] = chunk[i]
    BY <1>1, <1>3, ButLastFacts
  <2> QED
    BY <1>3, <1>d, <2>1
<1>6. DOMAIN stream' = 1..(Len(stream) - k)
  BY <1>4, LenProperties
<1>7. \A i \in DOMAIN last' : i \in DOMAIN stream /\ i \in Nat /\ i > 0 /\ i <= k /\ last'[i].n = stream[i].n
  BY <1>3, <1>5
<1>8. \A w : (w # "cut" /\ Has(last', w) => Has(stream, w)) /\ (Has(stream', w) => Has(stream, w))
  BY <1>4, <1>5, <1>6, <1>7 DEF Has
<1>9. ASSUME IsCommandPrompt(last')
      PROVE  \/ EndsAtPrompt(last') /\ Has(stream, "prompt")
             \/ ~EndsAtPrompt(last') /\ (Has(stream, "angle") \/ Has(stream, "hash"))
  <2>1. CASE last' # <<>> /\ last'[Len(last')].is \in {"prompt", "hash"}
    <3>1. Len(last') \in DOMAIN last'
      BY <1>5, <2>1, EmptySeq
    <3>2. Has(last', last'[Len(last')].is)
      BY <3>1 DEF Has
    <3>3. Has(stream, last'[Len(last')].is)
      BY <1>8, <2>1, <3>2
    <3> QED
      BY <2>1, <3>3 DEF EndsAtPrompt
  <2>2. CASE ~EndsAtPrompt(last') /\ \E i \in DOMAIN last' : last'[i].is = "angle"
    BY <1>8, <2>2 DEF Has
  <2>3. CASE EndsAtPrompt(last')
    BY <2>1, <2>3 DEF EndsAtPrompt
  <2> QED
    BY <1>9, <2>1, <2>2, <2>3 DEF IsCommandPrompt
<1>10. /\ fooled' \in BOOLEAN /\ (fooled => fooled')
       /\ fooled' => fooled \/ Has(stream, "angle") \/ Has(stream, "hash")
       /\ IsCommandPrompt(last') => Has(stream, "prompt") \/ fooled'
  <2>1. fooled' <=> fooled \/ (IsCommandPrompt(last') /\ ~EndsAtPrompt(last'))
    BY <1>1, <1>2, Zenon
  <2>2. fooled' \in BOOLEAN
    <3>1. fooled \/ (IsCommandPrompt(last') /\ ~EndsAtPrompt(last')) \in BOOLEAN
      BY DEF IsCommandPrompt, EndsAtPrompt
    <3> QED
      BY <1>1
  <2> QED
    BY <1>9, <2>1, <2>2
<1>11. ASSUME slow' = 0 PROVE slow = 0 /\ stream' = <<>> /\ k = Len(stream)
  <2>0. k \in 0..Len(stream) /\ Len(stream) \in Nat /\ slow \in Nat
    BY <1>2, StreamFacts
  <2>1. k = Len(stream) /\ slow = 0
    BY <1>1, <1>11, <2>0
  <2>2. stream' = <<>>
    BY <1>4, <2>1, StreamFacts, EmptySeq
  <2> QED
    BY <2>1, <2>2
<1>12. ASSUME k = Len(stream), stream # <<>>, stream[Len(stream)].is = "space"
       PROVE  /\ \A w : w # "space" => (Has(last', w) <=> Has(stream, w))
              /\ AsksFor("prompt") => IsCommandPrompt(last')
  <2>1. k \in 1..k /\ k > 0
    BY <1>12, StreamFacts
  <2>2. chunk # <<>> /\ chunk[Len(chunk)].is = "space"
    BY <1>3, <1>12, <2>1, EmptySeq
  <2>3. Len(last') = k - 1 /\ \A i \in DOMAIN last' : last'[i] = stream[i]
    BY <1>3, <1>5, <2>2
  <2>4. ASSUME NEW w, w # "space", Has(stream, w) PROVE Has(last', w)
    <3>1. PICK i \in DOMAIN stream : stream[i].is = w
      BY <2>4 DEF Has
    <3>2. i \in DOMAIN last'
      BY <1>5, <1>12, <2>3, <2>4, <3>1, StreamFacts
    <3> QED
      BY <2>3, <3>1, <3>2 DEF Has
  <2>5. ASSUME NEW w, Has(last', w) PROVE Has(stream, w)
    BY <1>7, <2>3, <2>5 DEF Has
  <2>6. ASSUME AsksFor("prompt") PROVE IsCommandPrompt(last')
    <3>1. Len(stream) > 1 /\ stream[Len(stream) - 1].is = "prompt"
      BY <2>6 DEF AsksFor
    <3>2. Len(last') = Len(stream) - 1 /\ Len(last') \in DOMAIN last'
      BY <1>5, <1>12, <2>3, <3>1, StreamFacts
    <3>3. last'[Len(last')].is = "prompt" /\ last' # <<>>
      BY <2>3, <3>1, <3>2, <1>5, EmptySeq
    <3> QED
      BY <3>3 DEF IsCommandPrompt
  <2> QED
    BY <2>4, <2>5, <2>6
<1>13. slow' \in 0..MaxSlow /\ slow <= slow'
  BY <1>1, <1>2
<1>14. torn' \in BOOLEAN
  BY <1>1, <1>2
<1> QED
  BY <1>4, <1>5, <1>7, <1>8, <1>10, <1>11, <1>12, <1>13, <1>14

-----------------------------------------------------------------------------
(* What login knows of the console. *)

Entering ==
  {"knock", "first", "validate", "validated", "login", "knockAgain", "name", "asked", "password", "sent"}

(* A prompt that is still to be read is that of the shell. *)
Prompted == Has(stream, "prompt") \/ Has(stream, "bash")

(* Whoever is logged in, and was not fooled, is at the shell, and until the  *)
(* logout so is, in login, whoever can still read a prompt.                  *)
Console ==
  /\ pc \in Entering \cup {"left", "failed"} => ~loggedIn
  /\ pc = "reading" => loggedIn /\ Len(handed) > 0
  /\ LoggedInMeansShell
  /\ pc \in Entering /\ Prompted => device = "command"

(* A console that answers nothing lets login try and fail.                   *)
Silence ==
  device = "silent" => stream = <<>> /\ pc \in {"knock", "first", "login", "knockAgain", "failed"}

(* Only the text of a banner looks like a prompt and is none.                *)
Fooling == fooled \/ Has(stream, "angle") \/ Has(stream, "hash") => BannersFool

(* The counters before they end the login. *)
Limits ==
  /\ pc \in Entering => odds <= OddReads
  /\ pc \in {"name", "asked", "password", "sent"} => tries > 0

(* While every read returns all there is, what is in the stream is the       *)
(* console's answer to the line typed last.                                  *)
AnswersAreRead ==
  slow = 0 =>
    /\ ~exposed
    /\ pc \in {"knock", "validate", "knockAgain", "name", "password"} => stream = <<>>
    /\ pc \in {"first", "validated", "login"} /\ Has(stream, "login:") => device = "name"
    /\ pc = "name" => device = "name"
    /\ pc \in {"asked", "sent"} => stream # <<>> /\ stream[Len(stream)].is = "space"
    /\ pc = "asked" => IF IsPasswordPrompt(stream) THEN device = "password" ELSE AsksFor("prompt")
    /\ pc = "password" => device = "password"
    /\ pc = "sent" => AsksFor("prompt") \/ IsFailurePrompt(stream)

(* The pieces in the stream are the last that were written, and what the     *)
(* calls have returned was read before them.                                 *)
Numbered ==
  /\ Len(stream) <= written
  /\ \A i \in DOMAIN stream : stream[i].n = (written - Len(stream)) + i
  /\ \A c \in DOMAIN handed : \A i \in DOMAIN handed[c] : handed[c][i].n <= written - Len(stream)

ShellInv ==
  ShellTypeOK /\ Console /\ Silence /\ Fooling /\ Limits /\ AnswersAreRead /\ Numbered /\ OutputOnceInOrder

-----------------------------------------------------------------------------
(* A line typed. *)

LEMMA TypeEffect ==
  ASSUME ShellTypeOK, NEW line, Type(line), line = "command" => Len(handed) < MaxCommands
  PROVE  \/ device = "silent" /\ UNCHANGED <<stream, written, device, user>>
         \/ \E text, prompt : \E of \in 0..MaxCommands : Asks(text, prompt, of) /\ TypedAt(line, text, prompt)
<1>1. 0 \in 0..MaxCommands
  OBVIOUS
<1>2. CASE device = "name" /\ AtName(line)
  BY <1>1, <1>2, AtNameSays
<1>3. CASE device = "password" /\ AtPassword(line)
  BY <1>1, <1>3, AtPasswordSays
<1>4. CASE device = "command" /\ AtCommand(line)
  BY <1>4, AtCommandSays
<1> QED
  BY <1>2, <1>3, <1>4 DEF Type

(* Nothing is read or lost by a line.                                        *)
LEMMA LineTypes ==
  ASSUME ShellTypeOK, Numbered, NEW line, Type(line), line = "command" => Len(handed) < MaxCommands
  PROVE  /\ stream' \in Seq(Pieces) /\ written' \in Nat /\ UNCHANGED <<free, echo>>
         /\ device' \in {"name", "password", "command", "silent"} /\ user' \in {"none", "user", "other"}
         /\ exposed' \in BOOLEAN
         /\ Len(stream') <= written' /\ written' - Len(stream') = written - Len(stream)
         /\ \A i \in DOMAIN stream' : stream'[i].n = (written' - Len(stream')) + i
<1>0. exposed' \in BOOLEAN /\ UNCHANGED <<free, echo>>
  BY DEF Type, ShellTypeOK
<1>1. CASE device = "silent" /\ UNCHANGED <<stream, written, device, user>>
  BY <1>0, <1>1 DEF ShellTypeOK, Numbered
<1>2. ASSUME NEW text, NEW prompt, NEW of \in 0..MaxCommands, Asks(text, prompt, of), TypedAt(line, text, prompt)
      PROVE  /\ stream' \in Seq(Pieces) /\ written' \in Nat
             /\ device' \in {"name", "password", "command"} /\ user' \in {"none", "user", "other"}
             /\ Len(stream') <= written' /\ written' - Len(stream') = written - Len(stream)
             /\ \A i \in DOMAIN stream' : stream'[i].n = (written' - Len(stream')) + i
  <2>1. /\ text \in Seq(Words) /\ prompt \in {"login:", "Password:", "prompt"}
        /\ device' \in {"name", "password", "command"} /\ user' \in {"none", "user", "other"}
    BY <1>2 DEF TypedAt
  <2>2. /\ stream' \in Seq(Pieces) /\ written' \in Nat
        /\ \E more \in Nat : written' = written + more /\ Len(stream') = Len(stream) + more
        /\ \A i \in DOMAIN stream : i \in DOMAIN stream' /\ stream'[i] = stream[i]
        /\ \A i \in DOMAIN stream' : i \notin DOMAIN stream => stream'[i].n = written + (i - Len(stream))
    BY <1>2, <2>1, AsksEffect
  <2>3. Len(stream') <= written' /\ written' - Len(stream') = written - Len(stream)
    BY <2>2, StreamFacts DEF Numbered
  <2>4. ASSUME NEW i \in DOMAIN stream' PROVE stream'[i].n = (written' - Len(stream')) + i
    <3>1. i \in Nat
      BY <2>2, <2>4, LenProperties
    <3>2. CASE i \in DOMAIN stream
      BY <2>2, <2>3, <3>2 DEF Numbered
    <3>3. CASE i \notin DOMAIN stream
      BY <2>2, <2>3, <3>1, <3>3, StreamFacts
    <3> QED
      BY <3>2, <3>3
  <2> QED
    BY <2>1, <2>2, <2>3, <2>4
<1> QED
  BY <1>0, <1>1, <1>2, TypeEffect

(* Where the console is after a line, and what there is to read of it.       *)
LEMMA LineEffect ==
  ASSUME ShellTypeOK, Silence, Fooling, NEW line, Type(line), line = "command" => Len(handed) < MaxCommands
  PROVE  /\ device = "command" /\ line # "logout" => device' = "command"
         /\ device' = "silent" => device = "silent" /\ stream' = <<>>
         /\ Has(stream', "angle") \/ Has(stream', "hash") => BannersFool
         /\ line \notin {"command", "logout"} =>
              /\ (Prompted => device = "command") => (Prompted' => device' = "command")
              /\ stream = <<>> /\ Has(stream', "login:") => device' = "name"
         /\ device # "silent" => stream' # <<>> /\ stream'[Len(stream')].is = "space"
         /\ stream = <<>> /\ device = "name" /\ line = "user" =>
              IF IsPasswordPrompt(stream') THEN device' = "password" ELSE AsksFor("prompt")'
         /\ stream = <<>> /\ device = "password" /\ line = "password" =>
              AsksFor("prompt")' \/ IsFailurePrompt(stream')
         /\ line # "password" \/ device = "password" => exposed' = exposed
<1>0. line # "password" \/ device = "password" => exposed' = exposed
  BY DEF Type, ShellTypeOK
<1>e. stream = <<>> => \A w : ~Has(stream, w)
  BY StreamFacts DEF Has
<1>1. CASE device = "silent" /\ UNCHANGED <<stream, written, device, user>>
  <2>1. stream' = <<>> /\ stream = <<>> /\ Prompted' = Prompted
    BY <1>1 DEF Silence, Prompted
  <2>2. ~Has(stream', "login:") /\ ~Has(stream', "angle") /\ ~Has(stream', "hash")
    BY <1>e, <2>1
  <2> QED
    BY <1>0, <1>1, <2>1, <2>2
<1>2. CASE \E text, prompt : \E of \in 0..MaxCommands : Asks(text, prompt, of) /\ TypedAt(line, text, prompt)
  <2>1. PICK text, prompt : \E of \in 0..MaxCommands : Asks(text, prompt, of) /\ TypedAt(line, text, prompt)
    BY <1>2
  <2>t. /\ text \in Seq(Words) /\ prompt \in {"login:", "Password:", "prompt"}
        /\ device' \in {"name", "password", "command"}
        /\ device = "command" /\ line # "logout" => device' = "command"
        /\ \A w \in {"login:", "Password:", "prompt"} : ~Among(text, {w})
    BY <2>1 DEF TypedAt, Among
  <2>2. /\ \A w : Has(stream', w) <=> Has(stream, w) \/ Among(text, {w}) \/ w \in {prompt, "space"}
        /\ AsksFor(prompt)'
    BY <2>1, <2>t, AsksEffect
  <2>3. Has(stream', "angle") \/ Has(stream', "hash") => BannersFool
    <3>1. Among(text, {"angle"}) \/ Among(text, {"hash"}) => BannersFool
      BY <2>1 DEF TypedAt, Among
    <3>2. prompt \notin {"angle", "hash"}
      BY <2>t
    <3> QED
      BY <2>2, <3>1, <3>2 DEF Fooling
  <2>4. ASSUME line \notin {"command", "logout"}
        PROVE  /\ (Prompted => device = "command") => (Prompted' => device' = "command")
               /\ stream = <<>> /\ Has(stream', "login:") => device' = "name"
    <3>1. /\ prompt = "prompt" \/ Among(text, {"bash"}) => device' = "command"
          /\ prompt = "login:" => device' = "name"
      BY <2>1, <2>4 DEF TypedAt
    <3>2. Prompted' => Prompted \/ prompt = "prompt" \/ Among(text, {"bash"})
      BY <2>t, <2>2 DEF Prompted
    <3>3. Has(stream', "login:") => Has(stream, "login:") \/ prompt = "login:"
      BY <2>t, <2>2
    <3> QED
      BY <1>e, <2>4, <2>t, <3>1, <3>2, <3>3
  <2>5. stream' # <<>> /\ stream'[Len(stream')].is = "space"
    BY <2>2 DEF AsksFor
  <2>6. ASSUME stream = <<>>, device = "name", line = "user"
        PROVE  IF IsPasswordPrompt(stream') THEN device' = "password" ELSE AsksFor("prompt")'
    <3>1. (prompt = "Password:" /\ device' = "password") \/ prompt = "prompt"
      BY <2>1, <2>6 DEF TypedAt
    <3>2. Has(stream', "Password:") <=> prompt = "Password:"
      BY <1>e, <2>2, <2>6, <2>t
    <3> QED
      BY <2>2, <3>1, <3>2 DEF IsPasswordPrompt
  <2>7. ASSUME stream = <<>>, device = "password", line = "password"
        PROVE  AsksFor("prompt")' \/ IsFailurePrompt(stream')
    <3>1. Among(text, {"Login incorrect"}) \/ prompt = "prompt"
      BY <2>1, <2>7 DEF TypedAt
    <3> QED
      BY <2>2, <3>1 DEF IsFailurePrompt
  <2> QED
    BY <1>0, <2>t, <2>3, <2>4, <2>5, <2>6, <2>7
<1> QED
  BY <1>1, <1>2, TypeEffect

(* What a line keeps, when the step touches neither what was read nor what   *)
(* was returned.                                                             *)
LEMMA LineKeeps ==
  ASSUME ShellTypeOK, Numbered, OutputOnceInOrder, NEW line, Type(line),
         line = "command" => Len(handed) < MaxCommands,
         UNCHANGED <<last, handed, reads>>
  PROVE  Numbered' /\ OutputOnceInOrder'
<1>1. /\ Len(stream') <= written' /\ written' - Len(stream') = written - Len(stream)
      /\ \A i \in DOMAIN stream' : stream'[i].n = (written' - Len(stream')) + i
  BY LineTypes
<1>2. handed' = handed
  OBVIOUS
<1>3. \A c \in DOMAIN handed' : \A i \in DOMAIN handed'[c] : handed'[c][i].n <= written' - Len(stream')
  BY <1>1, <1>2 DEF Numbered
<1>4. Numbered'
  BY <1>1, <1>3 DEF Numbered
<1> QED
  BY <1>2, <1>4 DEF OutputOnceInOrder

LEMMA WriteKeeps ==
  ASSUME ShellInv, NEW at, NEW line, NEW next, Write(at, line, next),
         <<at, line, next>> \in {<<"knock", "", "first">>, <<"validate", "ps", "validated">>,
                                 <<"knockAgain", "", "login">>, <<"name", "user", "asked">>,
                                 <<"password", "password", "sent">>}
  PROVE  ShellInv'
<1>1. /\ ShellTypeOK /\ Console /\ Silence /\ Fooling /\ Limits /\ AnswersAreRead /\ Numbered /\ OutputOnceInOrder
  BY DEF ShellInv
<1>2. /\ pc = at /\ Type(line) /\ pc' = next /\ UNCHANGED loggedIn
      /\ UNCHANGED <<last, empties, odds, tries, filter, handed, slow, torn, fooled>>
  BY DEF Write, GoOn, counters, work, reads
<1>3. line \notin {"command", "logout"} /\ at \in Entering /\ next \in Entering
  BY DEF Entering
<1>4. /\ stream' \in Seq(Pieces) /\ written' \in Nat /\ UNCHANGED <<free, echo>>
      /\ device' \in {"name", "password", "command", "silent"} /\ user' \in {"none", "user", "other"}
      /\ exposed' \in BOOLEAN
  BY <1>1, <1>2, <1>3, LineTypes
<1>5. ShellTypeOK'
  <2>1. next \in {"first", "validated", "login", "asked", "sent"}
    OBVIOUS
  <2> QED
    BY <1>1, <1>2, <1>4, <2>1 DEF ShellTypeOK
<1>6. Numbered' /\ OutputOnceInOrder'
  BY <1>1, <1>2, <1>3, LineKeeps DEF reads
<1>7. /\ device = "command" /\ line # "logout" => device' = "command"
      /\ device' = "silent" => device = "silent" /\ stream' = <<>>
      /\ Has(stream', "angle") \/ Has(stream', "hash") => BannersFool
      /\ (Prompted => device = "command") => (Prompted' => device' = "command")
      /\ stream = <<>> /\ Has(stream', "login:") => device' = "name"
      /\ device # "silent" => stream' # <<>> /\ stream'[Len(stream')].is = "space"
      /\ stream = <<>> /\ device = "name" /\ line = "user" =>
           IF IsPasswordPrompt(stream') THEN device' = "password" ELSE AsksFor("prompt")'
      /\ stream = <<>> /\ device = "password" /\ line = "password" =>
           AsksFor("prompt")' \/ IsFailurePrompt(stream')
      /\ line # "password" \/ device = "password" => exposed' = exposed
  BY <1>1, <1>2, <1>3, LineEffect
<1>8. Console'
  <2>1. ~loggedIn /\ ~loggedIn'
    BY <1>1, <1>2, <1>3 DEF Console
  <2> QED
    BY <1>1, <1>2, <1>3, <1>7, <2>1 DEF Console, Entering, LoggedInMeansShell
<1>s. Silence' /\ Fooling'
  BY <1>1, <1>2, <1>7 DEF Silence, Fooling
<1>9. Limits'
  BY <1>1, <1>2, <1>3 DEF Limits, Entering
<1>10. AnswersAreRead'
  <2> SUFFICES ASSUME slow' = 0 PROVE AnswersAreRead'
    BY DEF AnswersAreRead
  <2>1. ~exposed /\ stream = <<>> /\ (at = "name" => device = "name") /\ (at = "password" => device = "password")
    BY <1>1, <1>2 DEF AnswersAreRead
  <2>2. ~exposed'
    BY <1>7, <2>1
  <2>3. next \in {"first", "validated", "login"} => (Has(stream', "login:") => device' = "name")
    BY <1>7, <2>1
  <2>4. next = "asked" =>
          IF IsPasswordPrompt(stream') THEN device' = "password" ELSE AsksFor("prompt")'
    BY <1>7, <2>1
  <2>5. next = "sent" => AsksFor("prompt")' \/ IsFailurePrompt(stream')
    BY <1>7, <2>1
  <2>6. next \in {"asked", "sent"} => stream' # <<>> /\ stream'[Len(stream')].is = "space"
    BY <1>7, <2>1
  <2>7. next \in {"first", "validated", "login", "asked", "sent"} /\ pc' = next
    BY <1>2
  <2> QED
    BY <2>2, <2>3, <2>4, <2>5, <2>6, <2>7 DEF AnswersAreRead
<1> QED
  BY <1>5, <1>6, <1>8, <1>s, <1>9, <1>10 DEF ShellInv

-----------------------------------------------------------------------------
(* A read. *)

(* What is read was written after all that has been returned.                *)
LEMMA ReadNumbers ==
  ASSUME ShellTypeOK, Numbered, NEW k \in 0..Len(stream), Read(k)
  PROVE  /\ Len(stream') <= written' /\ written - Len(stream) <= written' - Len(stream')
         /\ \A i \in DOMAIN stream' : stream'[i].n = (written' - Len(stream')) + i
         /\ \A i \in DOMAIN last' : /\ i \in Nat /\ i > 0
                                    /\ last'[i].n = (written - Len(stream)) + i
                                    /\ last'[i].n <= written' - Len(stream')
<1>1. /\ last' \in Seq(Pieces) /\ stream' \in Seq(Pieces)
      /\ Len(stream') = Len(stream) - k
      /\ \A i \in DOMAIN last' : i \in DOMAIN stream /\ i \in Nat /\ i > 0 /\ i <= k /\ last'[i].n = stream[i].n
      /\ \A i \in 1..(Len(stream) - k) : i + k \in DOMAIN stream /\ stream'[i] = stream[i + k]
  BY ReadEffect
<1>2. DOMAIN stream' = 1..(Len(stream) - k)
  BY <1>1, LenProperties
<1>3. written' = written /\ written \in Nat /\ Len(stream) \in Nat /\ Len(stream) <= written
  BY StreamFacts DEF Read, Arrived, Numbered
<1>4. Len(stream') <= written' /\ written - Len(stream) <= written' - Len(stream')
  BY <1>1, <1>3
<1>5. ASSUME NEW i \in DOMAIN stream' PROVE stream'[i].n = (written' - Len(stream')) + i
  <2>1. stream[i + k].n = (written - Len(stream)) + (i + k)
    BY <1>1, <1>2, <1>5 DEF Numbered
  <2>2. i \in Int /\ k \in Int /\ stream'[i] = stream[i + k]
    BY <1>1, <1>2, <1>5
  <2>3. Len(stream') = Len(stream) - k /\ written' = written
    BY <1>1, <1>3
  <2> QED
    BY <1>3, <2>1, <2>2, <2>3
<1>6. ASSUME NEW i \in DOMAIN last'
      PROVE  /\ i \in Nat /\ i > 0 /\ last'[i].n = (written - Len(stream)) + i
             /\ last'[i].n <= written' - Len(stream')
  <2>1. stream[i].n = (written - Len(stream)) + i
    BY <1>1, <1>2, <1>6 DEF Numbered
  <2> QED
    BY <1>1, <1>2, <1>3, <1>6, <2>1
<1> QED
  BY <1>4, <1>5, <1>6

LEMMA ReadKeeps ==
  ASSUME ShellTypeOK, Numbered, OutputOnceInOrder, NEW k \in 0..Len(stream), Read(k), UNCHANGED work,
         pc' \in Entering \cup {"reading", "left", "idle", "failed"}, loggedIn' \in BOOLEAN,
         empties' \in 0..EmptyReads, odds' \in 0..(OddReads + 1), tries' \in 0..Tries
  PROVE  ShellTypeOK' /\ Numbered' /\ OutputOnceInOrder'
<1>1. /\ last' \in Seq(Pieces) /\ stream' \in Seq(Pieces)
      /\ slow' \in 0..MaxSlow /\ torn' \in BOOLEAN /\ fooled' \in BOOLEAN
  BY ReadEffect
<1>2. UNCHANGED <<device, user, free, echo, written, exposed, filter, handed>>
  BY DEF Read, Arrived, work
<1>3. ShellTypeOK'
  <2>1. pc' \in {"knock", "first", "validate", "validated", "login", "knockAgain", "name", "asked",
                 "password", "sent", "reading", "left", "idle", "failed"}
    BY DEF Entering
  <2> QED
    BY <1>1, <1>2, <2>1 DEF ShellTypeOK
<1>4. /\ Len(stream') <= written' /\ written - Len(stream) <= written' - Len(stream')
      /\ \A i \in DOMAIN stream' : stream'[i].n = (written' - Len(stream')) + i
  BY ReadNumbers
<1>5. ASSUME NEW c \in DOMAIN handed', NEW i \in DOMAIN handed'[c]
      PROVE  handed'[c][i].n <= written' - Len(stream')
  <2>1. handed'[c][i].n <= written - Len(stream)
    BY <1>2, <1>5 DEF Numbered
  <2>2. handed'[c][i].n \in Nat /\ Len(stream) \in Nat /\ Len(stream') \in Nat /\ written \in Nat
    <3>1. handed \in Seq(Seq(Pieces))
      BY DEF ShellTypeOK
    <3>2. handed[c] \in Seq(Pieces)
      BY <1>2, <1>5, <3>1, ElementOfSeq
    <3>3. handed[c][i] \in Pieces
      BY <1>2, <1>5, <3>2, ElementOfSeq
    <3> QED
      BY <1>1, <1>2, <3>3, StreamFacts, LenProperties DEF Pieces
  <2> QED
    BY <1>2, <1>4, <2>1, <2>2
<1>6. Numbered'
  BY <1>4, <1>5 DEF Numbered
<1> QED
  BY <1>2, <1>3, <1>6 DEF OutputOnceInOrder


(* Who was not fooled before was so by what he reads.                        *)
LEMMA ReadFools ==
  ASSUME ShellTypeOK, Fooling, NEW k \in 0..Len(stream), Read(k)
  PROVE  Fooling' /\ (fooled => fooled')
<1>1. /\ \A w : Has(stream', w) => Has(stream, w)
      /\ fooled => fooled'
      /\ fooled' => fooled \/ Has(stream, "angle") \/ Has(stream, "hash")
  BY ReadEffect
<1> QED
  BY <1>1 DEF Fooling

(* Only who reaches idle is logged in.                                       *)
Result == IF pc' = "idle" THEN loggedIn' = TRUE ELSE loggedIn' = FALSE

LEMMA NoSessionYet ==
  ASSUME ShellInv, pc \in Entering
  PROVE  loggedIn = FALSE
<1>1. loggedIn \in BOOLEAN /\ ~loggedIn
  BY DEF ShellInv, ShellTypeOK, Console
<1> QED
  BY <1>1, Zenon

LEMMA NoElements == DOMAIN <<>> = {}
<1>1. <<>> \in Seq({}) /\ Len(<<>>) = 0
  BY EmptySeq
<1> QED
  BY <1>1, LenProperties

(* Where nothing is written, nothing is read.                                *)
LEMMA SilentRead ==
  ASSUME ShellTypeOK, Silence, device = "silent", NEW k \in 0..Len(stream), Read(k)
  PROVE  stream' = <<>> /\ last' = <<>>
<1>1. stream = <<>> /\ Len(stream) = 0 /\ k = 0
  BY StreamFacts DEF Silence
<1>2. /\ last' \in Seq(Pieces) /\ stream' \in Seq(Pieces) /\ Len(last') <= k /\ Len(stream') = Len(stream) - k
  BY ReadEffect
<1>3. Len(last') \in Nat /\ Len(stream') = 0
  BY <1>1, <1>2, LenProperties
<1> QED
  BY <1>1, <1>2, <1>3, EmptySeq

LEMMA SilentReadSays ==
  ASSUME ShellTypeOK, Silence, device = "silent", NEW k \in 0..Len(stream), Read(k)
  PROVE  last' = <<>> /\ ~IsCommandPrompt(last') /\ \A w : ~Has(last', w)
<1>1. last' = <<>> /\ DOMAIN <<>> = {}
  BY SilentRead, NoElements
<1> QED
  BY <1>1 DEF IsCommandPrompt, Has

(* A read of login: it goes on, fails, or has seen the shell.                *)
LEMMA LoginReadKeeps ==
  ASSUME ShellInv, NEW k \in 0..Len(stream), Read(k), UNCHANGED work,
         pc \in Entering, pc' \in Entering \cup {"idle", "failed"}, Result,
         empties' \in 0..EmptyReads, odds' \in 0..(OddReads + 1), tries' \in 0..Tries, Limits',
         loggedIn' => IsCommandPrompt(last') \/ Has(last', "bash"),
         device = "silent" => pc' \in {"login", "knockAgain", "failed"},
         AnswersAreRead'
  PROVE  ShellInv'
<1>1. /\ ShellTypeOK /\ Console /\ Silence /\ Fooling /\ Limits /\ AnswersAreRead /\ Numbered /\ OutputOnceInOrder
  BY DEF ShellInv
<1>2. ShellTypeOK' /\ Numbered' /\ OutputOnceInOrder'
  <2>1. loggedIn' \in BOOLEAN
    BY DEF Result
  <2> QED
    BY <1>1, <2>1, ReadKeeps
<1>3. device' = device
  BY DEF Read, Arrived
<1>4. Fooling' /\ (IsCommandPrompt(last') \/ Has(last', "bash") => Prompted \/ fooled')
  BY <1>1, ReadEffect, ReadFools DEF Prompted
<1>5. Prompted' => Prompted
  BY <1>1, ReadEffect DEF Prompted
<1>6. pc' # "reading" /\ (pc' \in Entering \cup {"left", "failed"} => ~loggedIn')
  BY DEF Entering, Result
<1>7. Console'
  BY <1>1, <1>3, <1>4, <1>5, <1>6 DEF Console, LoggedInMeansShell
<1>8. Silence'
  BY <1>1, <1>3, SilentRead DEF Silence
<1> QED
  BY <1>1, <1>2, <1>4, <1>7, <1>8 DEF ShellInv

(* A read that missed nothing returns all the console has to say.            *)
LEMMA ReadAnswers ==
  ASSUME ShellInv, NEW k \in 0..Len(stream), Read(k), slow' = 0
  PROVE  /\ ~exposed' /\ stream' = <<>> /\ device' = device
         /\ \A w : ~Has(stream', w)
         /\ pc \in {"first", "validated", "login"} /\ Has(last', "login:") => device' = "name"
         /\ pc = "asked" => IF IsPasswordPrompt(last') THEN device' = "password" ELSE IsCommandPrompt(last')
         /\ pc = "sent" => IsCommandPrompt(last') \/ IsFailurePrompt(last')
<1>1. ShellTypeOK /\ AnswersAreRead
  BY DEF ShellInv
<1>2. /\ slow = 0 /\ stream' = <<>> /\ k = Len(stream)
      /\ Has(last', "login:") => Has(stream, "login:")
      /\ stream # <<>> /\ stream[Len(stream)].is = "space" =>
           /\ \A w : w # "space" => (Has(last', w) <=> Has(stream, w))
           /\ AsksFor("prompt") => IsCommandPrompt(last')
  BY <1>1, ReadEffect
<1>3. device' = device /\ exposed' = exposed
  BY DEF Read, Arrived
<1>4. \A w : ~Has(stream', w)
  BY <1>2, NoElements DEF Has
<1>5. pc = "asked" => IF IsPasswordPrompt(last') THEN device' = "password" ELSE IsCommandPrompt(last')
  BY <1>1, <1>2, <1>3 DEF AnswersAreRead, IsPasswordPrompt
<1>6. pc = "sent" => IsCommandPrompt(last') \/ IsFailurePrompt(last')
  BY <1>1, <1>2 DEF AnswersAreRead, IsFailurePrompt
<1> QED
  BY <1>1, <1>2, <1>3, <1>4, <1>5, <1>6 DEF AnswersAreRead

LEMMA FirstKeeps ==
  ASSUME ShellInv, NEW k \in 0..Len(stream), First(k)
  PROVE  ShellInv'
<1>1. /\ pc = "first" /\ Read(k) /\ UNCHANGED work /\ UNCHANGED loggedIn /\ pc' \in {"validate", "login"}
      /\ empties' = empties /\ odds' = odds /\ tries' = tries
  BY DEF First, GoOn, counters
<1>s. device = "silent" => pc' = "login"
  <2> SUFFICES ASSUME device = "silent" PROVE pc' = "login"
    OBVIOUS
  <2>1. ~IsCommandPrompt(last')
    BY <1>1, SilentReadSays DEF ShellInv
  <2> QED
    BY <2>1 DEF First, GoOn
<1>2. /\ ShellTypeOK /\ Console /\ Limits
  BY DEF ShellInv
<1>3. pc \in Entering /\ pc' \in Entering /\ ~loggedIn' /\ Result
  BY <1>1, NoSessionYet DEF Entering, Result
<1>4. AnswersAreRead'
  BY <1>1, ReadAnswers DEF AnswersAreRead
<1>5. Limits'
  BY <1>1, <1>2, <1>3 DEF Limits
<1>6. empties' \in 0..EmptyReads /\ odds' \in 0..(OddReads + 1) /\ tries' \in 0..Tries
  BY <1>1, <1>2 DEF ShellTypeOK
<1> QED
  BY <1>1, <1>s, <1>3, <1>4, <1>5, <1>6, LoginReadKeeps

LEMMA ValidatedKeeps ==
  ASSUME ShellInv, NEW k \in 0..Len(stream), Validated(k)
  PROVE  ShellInv'
<1>1. /\ pc = "validated" /\ Read(k) /\ UNCHANGED work
      /\ \/ Has(last', "bash") /\ pc' = "idle" /\ loggedIn' = TRUE
         \/ pc' = "login" /\ loggedIn' = loggedIn
      /\ empties' = empties /\ odds' = odds /\ tries' = tries
  BY DEF Validated, GoOn, Login, counters
<1>s. device # "silent"
  BY <1>1 DEF ShellInv, Silence
<1>2. /\ ShellTypeOK /\ Console /\ Limits
  BY DEF ShellInv
<1>i. pc \in Entering /\ pc' \in Entering \cup {"idle", "failed"}
  BY <1>1 DEF Entering
<1>n. loggedIn = FALSE
  BY <1>i, NoSessionYet
<1>3. /\ pc \in Entering /\ pc' \in Entering \cup {"idle", "failed"} /\ Result
      /\ loggedIn' => Has(last', "bash")
  <2>1. CASE Has(last', "bash") /\ pc' = "idle" /\ loggedIn' = TRUE
    BY <1>i, <2>1 DEF Result
  <2>2. CASE pc' = "login" /\ loggedIn' = loggedIn
    BY <1>i, <1>n, <2>2 DEF Result
  <2> QED
    BY <1>1, <2>1, <2>2
<1>4. AnswersAreRead'
  BY <1>1, ReadAnswers DEF AnswersAreRead
<1>5. Limits'
  BY <1>1, <1>2, <1>3 DEF Limits, Entering
<1>6. empties' \in 0..EmptyReads /\ odds' \in 0..(OddReads + 1) /\ tries' \in 0..Tries
  BY <1>1, <1>2 DEF ShellTypeOK
<1> QED
  BY <1>1, <1>s, <1>3, <1>4, <1>5, <1>6, LoginReadKeeps

LEMMA LoginLoopKeeps ==
  ASSUME ShellInv, NEW k \in 0..Len(stream), LoginRead(k)
  PROVE  ShellInv'
<1>1. pc = "login" /\ Read(k) /\ UNCHANGED work
  BY DEF LoginRead
<1>s. device = "silent" => last' = <<>> /\ ~IsCommandPrompt(last') /\ \A w : ~Has(last', w)
  BY <1>1, SilentReadSays DEF ShellInv
<1>2. /\ ShellTypeOK /\ Console /\ Limits
  BY DEF ShellInv
<1>3. /\ pc \in Entering /\ loggedIn = FALSE /\ odds <= OddReads
      /\ empties \in 0..EmptyReads /\ odds \in 0..(OddReads + 1) /\ tries \in 0..Tries
  BY <1>1, <1>2, NoSessionYet DEF Entering, Limits, ShellTypeOK
<1>4. /\ pc' \in {"login", "knockAgain", "name", "idle", "failed"}
      /\ Result /\ (loggedIn' => IsCommandPrompt(last'))
      /\ empties' \in 0..EmptyReads /\ odds' \in 0..(OddReads + 1) /\ tries' \in 0..Tries
      /\ pc' \notin {"idle", "failed"} => odds' <= OddReads
      /\ pc' = "name" => tries' > 0 /\ Has(last', "login:")
      /\ device = "silent" => pc' \in {"login", "knockAgain"}
  <2>1. CASE last' = <<>> /\ EmptyRead
    BY <1>3, <2>1 DEF EmptyRead, GoOn, Result
  <2>2. CASE IsCommandPrompt(last') /\ Login(TRUE) /\ UNCHANGED counters
    BY <1>3, <1>s, <2>2 DEF Login, counters, Result
  <2>3. CASE IsLoginPrompt(last') /\ GoOn("name") /\ tries' = Tries /\ UNCHANGED <<empties, odds>>
    <3>1. pc' = "name" /\ loggedIn' = FALSE /\ empties' = empties /\ odds' = odds /\ tries' = Tries
      BY <1>3, <2>3 DEF GoOn
    <3>2. Has(last', "login:")
      BY <2>3 DEF IsLoginPrompt
    <3>3. Tries \in 0..Tries /\ Tries > 0
      BY LimitAssumption
    <3> QED
      BY <1>3, <1>s, <3>1, <3>2, <3>3 DEF Result
  <2>4. CASE last' # <<>> /\ OddRead
    BY <1>3, <1>s, <2>4 DEF OddRead, GoOn, Login, Result
  <2> QED
    BY <2>1, <2>2, <2>3, <2>4 DEF LoginRead
<1>5. AnswersAreRead'
  BY <1>1, <1>4, ReadAnswers DEF AnswersAreRead
<1>6. Limits'
  BY <1>4 DEF Limits, Entering
<1>7. pc' \in Entering \cup {"idle", "failed"}
  BY <1>4 DEF Entering
<1> QED
  BY <1>1, <1>3, <1>4, <1>5, <1>6, <1>7, LoginReadKeeps

(* The end of a round of _login_with_password.                               *)
LEMMA JudgeEffect ==
  ASSUME ShellInv, pc \in {"asked", "sent"}, Judge
  PROVE  /\ pc' \in {"name", "idle", "failed"} /\ Result
         /\ loggedIn' => IsCommandPrompt(last')
         /\ IsCommandPrompt(last') \/ IsFailurePrompt(last') => pc' \in {"idle", "failed"}
         /\ empties' = empties /\ odds' = odds /\ tries' \in 0..Tries
         /\ pc' = "name" => tries' > 0
<1>1. tries \in 0..Tries /\ tries > 0 /\ loggedIn = FALSE
  BY NoSessionYet DEF ShellInv, ShellTypeOK, Limits, Entering
<1>2. empties' = empties /\ odds' = odds
  BY DEF Judge
<1>3. CASE IsCommandPrompt(last') /\ Login(TRUE) /\ UNCHANGED tries
  BY <1>1, <1>2, <1>3 DEF Login, Result
<1>4. CASE ~IsCommandPrompt(last') /\ IsFailurePrompt(last') /\ Login(FALSE) /\ UNCHANGED tries
  BY <1>1, <1>2, <1>4 DEF Login, Result
<1>5. CASE /\ ~IsCommandPrompt(last') /\ ~IsFailurePrompt(last')
           /\ tries' = tries - 1
           /\ IF tries' = 0 THEN Login(FALSE) ELSE GoOn("name")
  BY <1>1, <1>2, <1>5 DEF Login, GoOn, Result
<1> QED
  BY <1>3, <1>4, <1>5 DEF Judge

LEMMA NameAskedKeeps ==
  ASSUME ShellInv, NEW k \in 0..Len(stream), NameAsked(k)
  PROVE  ShellInv'
<1>1. pc = "asked" /\ Read(k) /\ UNCHANGED work
  BY DEF NameAsked
<1>s. device # "silent"
  BY <1>1 DEF ShellInv, Silence
<1>2. /\ ShellTypeOK /\ Console /\ Limits
  BY DEF ShellInv
<1>3. /\ pc \in Entering /\ loggedIn = FALSE /\ odds <= OddReads /\ tries > 0
      /\ empties \in 0..EmptyReads /\ odds \in 0..(OddReads + 1) /\ tries \in 0..Tries
  BY <1>1, <1>2, NoSessionYet DEF Entering, Limits, ShellTypeOK
<1>4. /\ pc' \in {"password", "name", "idle", "failed"}
      /\ Result /\ (loggedIn' => IsCommandPrompt(last'))
      /\ empties' = empties /\ odds' = odds /\ tries' \in 0..Tries
      /\ pc' \in {"password", "name"} => tries' > 0
      /\ pc' = "password" => IsPasswordPrompt(last')
      /\ pc' = "name" => ~IsPasswordPrompt(last') /\ ~IsCommandPrompt(last')
  <2>1. CASE IsPasswordPrompt(last') /\ GoOn("password") /\ UNCHANGED counters
    BY <1>3, <2>1 DEF GoOn, counters, Result
  <2>2. CASE ~IsPasswordPrompt(last') /\ Judge
    BY <1>1, <2>2, JudgeEffect
  <2> QED
    BY <2>1, <2>2 DEF NameAsked
<1>5. AnswersAreRead'
  BY <1>1, <1>4, ReadAnswers DEF AnswersAreRead
<1>6. Limits'
  BY <1>3, <1>4 DEF Limits, Entering
<1>7. pc' \in Entering \cup {"idle", "failed"}
  BY <1>4 DEF Entering
<1> QED
  BY <1>1, <1>s, <1>3, <1>4, <1>5, <1>6, <1>7, LoginReadKeeps

LEMMA SentKeeps ==
  ASSUME ShellInv, NEW k \in 0..Len(stream), Sent(k)
  PROVE  ShellInv'
<1>1. pc = "sent" /\ Read(k) /\ Judge /\ UNCHANGED work
  BY DEF Sent
<1>s. device # "silent"
  BY <1>1 DEF ShellInv, Silence
<1>2. /\ ShellTypeOK /\ Console /\ Limits
  BY DEF ShellInv
<1>3. /\ pc \in Entering /\ odds <= OddReads /\ empties \in 0..EmptyReads /\ odds \in 0..(OddReads + 1)
  BY <1>1, <1>2 DEF Entering, Limits, ShellTypeOK
<1>4. /\ pc' \in {"name", "idle", "failed"} /\ Result
      /\ loggedIn' => IsCommandPrompt(last')
      /\ IsCommandPrompt(last') \/ IsFailurePrompt(last') => pc' \in {"idle", "failed"}
      /\ empties' = empties /\ odds' = odds /\ tries' \in 0..Tries
      /\ pc' = "name" => tries' > 0
  BY <1>1, JudgeEffect
<1>5. AnswersAreRead'
  BY <1>1, <1>4, ReadAnswers DEF AnswersAreRead
<1>6. Limits'
  BY <1>3, <1>4 DEF Limits, Entering
<1>7. pc' \in Entering \cup {"idle", "failed"}
  BY <1>4 DEF Entering
<1> QED
  BY <1>1, <1>s, <1>3, <1>4, <1>5, <1>6, <1>7, LoginReadKeeps


-----------------------------------------------------------------------------
(* Commands and teardown. *)

LEMMA NothingInIt == DOMAIN <<>> = {} /\ Len(<<>>) = 0 /\ <<>> \in Seq(Pieces) /\ <<>> \in Seq(Seq(Pieces))
<1>1. <<>> \in Seq(Pieces) /\ <<>> \in Seq(Seq(Pieces))
  BY EmptySeq
<1>2. Len(<<>>) = 0
  BY <1>1, EmptySeq
<1>3. DOMAIN <<>> = 1..0
  BY <1>1, <1>2, LenProperties
<1> QED
  BY <1>1, <1>2, <1>3

LEMMA HandedFacts ==
  ASSUME ShellTypeOK
  PROVE  /\ handed \in Seq(Seq(Pieces)) /\ Len(handed) \in Nat /\ DOMAIN handed = 1..Len(handed)
         /\ \A c \in DOMAIN handed : /\ handed[c] \in Seq(Pieces)
                                     /\ \A i \in DOMAIN handed[c] : i \in Nat /\ handed[c][i].n \in Nat
<1>1. handed \in Seq(Seq(Pieces))
  BY DEF ShellTypeOK
<1>2. Len(handed) \in Nat /\ DOMAIN handed = 1..Len(handed)
  BY <1>1, LenProperties
<1>3. ASSUME NEW c \in DOMAIN handed
      PROVE  handed[c] \in Seq(Pieces) /\ \A i \in DOMAIN handed[c] : i \in Nat /\ handed[c][i].n \in Nat
  <2>1. handed[c] \in Seq(Pieces)
    BY <1>1, <1>3, ElementOfSeq
  <2>2. DOMAIN handed[c] = 1..Len(handed[c]) /\ Len(handed[c]) \in Nat
    BY <2>1, LenProperties
  <2>3. \A i \in DOMAIN handed[c] : handed[c][i] \in Pieces
    BY <2>1, ElementOfSeq
  <2> QED
    BY <2>1, <2>2, <2>3 DEF Pieces
<1> QED
  BY <1>1, <1>2, <1>3

(* A call that has read nothing yet.                                         *)
LEMMA OneMoreCall ==
  ASSUME ShellTypeOK, OutputOnceInOrder, Len(handed) < MaxCommands, handed' = Append(handed, <<>>)
  PROVE  /\ handed' \in Seq(Seq(Pieces)) /\ Len(handed') = Len(handed) + 1 /\ Len(handed') <= MaxCommands
         /\ \A c \in DOMAIN handed' :
              \/ c \in DOMAIN handed /\ handed'[c] = handed[c]
              \/ handed'[c] = <<>>
         /\ OutputOnceInOrder'
<1>1. handed \in Seq(Seq(Pieces)) /\ Len(handed) \in Nat /\ DOMAIN handed = 1..Len(handed)
  BY HandedFacts
<1>2. <<>> \in Seq(Pieces)
  BY EmptySeq
<1>3. /\ handed' \in Seq(Seq(Pieces)) /\ Len(handed') = Len(handed) + 1
      /\ \A c \in 1..Len(handed) : handed'[c] = handed[c]
      /\ handed'[Len(handed) + 1] = <<>>
  BY <1>1, <1>2, AppendProperties
<1>4. \A c \in DOMAIN handed' : (c \in DOMAIN handed /\ handed'[c] = handed[c]) \/ handed'[c] = <<>>
  <2>1. DOMAIN handed' = 1..(Len(handed) + 1)
    BY <1>3, LenProperties
  <2> QED
    BY <1>1, <1>3, <2>1
<1>5. OutputOnceInOrder'
  <2> SUFFICES ASSUME NEW c \in DOMAIN handed', NEW d \in DOMAIN handed',
                      NEW i \in DOMAIN handed'[c], NEW j \in DOMAIN handed'[d],
                      c < d \/ (c = d /\ i < j)
               PROVE  handed'[c][i].n < handed'[d][j].n
    BY DEF OutputOnceInOrder
  <2>1. DOMAIN <<>> = {}
    BY NothingInIt
  <2>2. c \in DOMAIN handed /\ d \in DOMAIN handed /\ handed'[c] = handed[c] /\ handed'[d] = handed[d]
    BY <1>4, <2>1
  <2> QED
    BY <2>2 DEF OutputOnceInOrder
<1>6. Len(handed') <= MaxCommands
  BY <1>1, <1>3
<1> QED
  BY <1>3, <1>4, <1>5, <1>6

LEMMA OneMore == \A n \in Nat : n + 1 > 0
  OBVIOUS

LEMMA ExecKeeps ==
  ASSUME ShellInv, NEW f \in {"", "hit"}, Exec(f)
  PROVE  ShellInv'
<1>1. /\ pc = "idle" /\ loggedIn /\ Len(handed) < MaxCommands /\ Type("command")
      /\ handed' = Append(handed, <<>>) /\ filter' = f /\ pc' = "reading" /\ loggedIn' = loggedIn
      /\ UNCHANGED <<last, empties, odds, tries, slow, fooled>> /\ torn' = FALSE
  BY DEF Exec, GoOn, counters, reads
<1>2. ShellTypeOK /\ Console /\ Silence /\ Fooling /\ Limits /\ AnswersAreRead /\ Numbered /\ OutputOnceInOrder
  BY DEF ShellInv
<1>3. /\ handed' \in Seq(Seq(Pieces)) /\ Len(handed') = Len(handed) + 1 /\ Len(handed') <= MaxCommands
      /\ \A c \in DOMAIN handed' : (c \in DOMAIN handed /\ handed'[c] = handed[c]) \/ handed'[c] = <<>>
      /\ OutputOnceInOrder'
  BY <1>1, <1>2, OneMoreCall
<1>4. /\ stream' \in Seq(Pieces) /\ written' \in Nat /\ UNCHANGED <<free, echo>>
      /\ device' \in {"name", "password", "command", "silent"} /\ user' \in {"none", "user", "other"}
      /\ exposed' \in BOOLEAN
      /\ Len(stream') <= written' /\ written' - Len(stream') = written - Len(stream)
      /\ \A i \in DOMAIN stream' : stream'[i].n = (written' - Len(stream')) + i
  BY <1>1, <1>2, LineTypes
<1>5. /\ device = "command" => device' = "command"
      /\ device' = "silent" => device = "silent"
      /\ Has(stream', "angle") \/ Has(stream', "hash") => BannersFool
      /\ exposed' = exposed
  <2>1. "command" # "logout" /\ "command" # "password"
    OBVIOUS
  <2>2. /\ device = "command" /\ "command" # "logout" => device' = "command"
        /\ device' = "silent" => device = "silent" /\ stream' = <<>>
        /\ Has(stream', "angle") \/ Has(stream', "hash") => BannersFool
        /\ "command" # "password" \/ device = "password" => exposed' = exposed
    BY <1>1, <1>2, LineEffect
  <2> QED
    BY <2>1, <2>2
<1>6. ShellTypeOK'
  BY <1>1, <1>2, <1>3, <1>4 DEF ShellTypeOK
<1>7. Numbered'
  <2>1. ASSUME NEW c \in DOMAIN handed', NEW i \in DOMAIN handed'[c]
        PROVE  handed'[c][i].n <= written' - Len(stream')
    <3>1. DOMAIN <<>> = {}
      BY NothingInIt
    <3>2. c \in DOMAIN handed /\ handed'[c] = handed[c]
      BY <1>3, <2>1, <3>1
    <3> QED
      BY <1>2, <1>4, <2>1, <3>2 DEF Numbered
  <2> QED
    BY <1>4, <2>1 DEF Numbered
<1>8. Console'
  <2>1. Len(handed') > 0
    <3>1. Len(handed) \in Nat
      BY <1>2, HandedFacts
    <3>2. Len(handed') = Len(handed) + 1
      BY <1>3
    <3> QED
      BY <3>1, <3>2, OneMore, Zenon
  <2> QED
    BY <1>1, <1>2, <1>5, <2>1 DEF Console, Entering, LoggedInMeansShell
<1>9. Limits' /\ AnswersAreRead'
  BY <1>1, <1>2, <1>5 DEF Limits, AnswersAreRead, Entering
<1>s. Silence' /\ Fooling'
  BY <1>1, <1>2, <1>5 DEF Silence, Fooling
<1> QED
  BY <1>s, <1>3, <1>6, <1>7, <1>8, <1>9 DEF ShellInv

LEMMA ExecRefusedKeeps ==
  ASSUME ShellInv, ExecRefused
  PROVE  ShellInv'
<1>1. /\ pc = "idle" /\ Len(handed) < MaxCommands /\ handed' = Append(handed, <<>>)
      /\ UNCHANGED <<pc, last, loggedIn, empties, odds, tries, filter, slow, torn, fooled>>
      /\ UNCHANGED <<device, user, free, echo, stream, written, exposed>>
  BY DEF ExecRefused, counters, reads, console
<1>2. ShellTypeOK /\ Console /\ Silence /\ Fooling /\ Limits /\ AnswersAreRead /\ Numbered /\ OutputOnceInOrder
  BY DEF ShellInv
<1>3. /\ handed' \in Seq(Seq(Pieces)) /\ Len(handed') <= MaxCommands
      /\ \A c \in DOMAIN handed' : (c \in DOMAIN handed /\ handed'[c] = handed[c]) \/ handed'[c] = <<>>
      /\ OutputOnceInOrder'
  BY <1>1, <1>2, OneMoreCall
<1>4. ShellTypeOK'
  BY <1>1, <1>2, <1>3 DEF ShellTypeOK
<1>5. Numbered'
  <2>1. ASSUME NEW c \in DOMAIN handed', NEW i \in DOMAIN handed'[c]
        PROVE  handed'[c][i].n <= written' - Len(stream')
    <3>1. DOMAIN <<>> = {}
      BY NothingInIt
    <3>2. c \in DOMAIN handed /\ handed'[c] = handed[c]
      BY <1>3, <2>1, <3>1
    <3> QED
      BY <1>1, <1>2, <2>1, <3>2 DEF Numbered
  <2> QED
    BY <1>1, <1>2, <2>1 DEF Numbered
<1>6. Console'
  BY <1>1, <1>2 DEF Console, Entering, LoggedInMeansShell
<1>7. Limits' /\ AnswersAreRead'
  BY <1>1, <1>2 DEF Limits, AnswersAreRead, Entering
<1>s. Silence' /\ Fooling'
  BY <1>1, <1>2 DEF Silence, Fooling, Has
<1> QED
  BY <1>s, <1>3, <1>4, <1>5, <1>6, <1>7 DEF ShellInv

(* The call under way returns what was read last, which was written after    *)
(* all the others have returned.                                             *)
LEMMA CallAnswered ==
  ASSUME ShellInv, pc = "reading", NEW k \in 0..Len(stream), Read(k),
         handed' = [handed EXCEPT ![Len(handed)] = last']
  PROVE  /\ handed' \in Seq(Seq(Pieces)) /\ Len(handed') = Len(handed)
         /\ Numbered' /\ OutputOnceInOrder'
<1>1. ShellTypeOK /\ Console /\ Numbered /\ OutputOnceInOrder
  BY DEF ShellInv
<1>2. /\ handed \in Seq(Seq(Pieces)) /\ Len(handed) \in Nat /\ DOMAIN handed = 1..Len(handed)
      /\ \A c \in DOMAIN handed : /\ handed[c] \in Seq(Pieces)
                                  /\ \A i \in DOMAIN handed[c] : i \in Nat /\ handed[c][i].n \in Nat
  BY <1>1, HandedFacts
<1>3. Len(handed) \in DOMAIN handed
  BY <1>1, <1>2 DEF Console
<1>4. last' \in Seq(Pieces) /\ stream' \in Seq(Pieces) /\ written' = written
  BY <1>1, ReadEffect DEF Read, Arrived
<1>5. handed' \in Seq(Seq(Pieces)) /\ Len(handed') = Len(handed) /\ DOMAIN handed' = DOMAIN handed
  BY <1>2, <1>3, <1>4, ExceptSeq
<1>6. \A c \in DOMAIN handed : handed'[c] = IF c = Len(handed) THEN last' ELSE handed[c]
  BY <1>2
<1>7. /\ Len(stream') <= written' /\ written - Len(stream) <= written' - Len(stream')
      /\ \A i \in DOMAIN stream' : stream'[i].n = (written' - Len(stream')) + i
      /\ \A i \in DOMAIN last' : /\ i \in Nat /\ i > 0
                                 /\ last'[i].n = (written - Len(stream)) + i
                                 /\ last'[i].n <= written' - Len(stream')
  BY <1>1, ReadNumbers
<1>8. written \in Nat /\ Len(stream) \in Nat /\ Len(stream') \in Nat
  BY <1>1, <1>4, StreamFacts, LenProperties
<1>9. \A c \in DOMAIN handed : \A i \in DOMAIN handed[c] : handed[c][i].n <= written - Len(stream)
  BY <1>1 DEF Numbered
<1>10. ASSUME NEW c \in DOMAIN handed', NEW i \in DOMAIN handed'[c]
       PROVE  handed'[c][i].n <= written' - Len(stream')
  <2>1. CASE c = Len(handed)
    BY <1>5, <1>6, <1>7, <1>10, <2>1
  <2>2. CASE c # Len(handed)
    <3>1. handed'[c] = handed[c] /\ c \in DOMAIN handed /\ i \in DOMAIN handed[c]
      BY <1>5, <1>6, <1>10, <2>2
    <3>2. handed[c][i].n <= written - Len(stream) /\ handed[c][i].n \in Nat
      BY <1>2, <1>9, <3>1
    <3> QED
      BY <1>4, <1>7, <1>8, <3>1, <3>2
  <2> QED
    BY <2>1, <2>2
<1>11. Numbered'
  BY <1>7, <1>10 DEF Numbered
<1>12. OutputOnceInOrder'
  <2> SUFFICES ASSUME NEW c \in DOMAIN handed, NEW d \in DOMAIN handed,
                      NEW i \in DOMAIN handed'[c], NEW j \in DOMAIN handed'[d],
                      c < d \/ (c = d /\ i < j)
               PROVE  handed'[c][i].n < handed'[d][j].n
    BY <1>5 DEF OutputOnceInOrder
  <2>1. CASE d # Len(handed)
    <3>1. c # Len(handed)
      BY <1>2, <2>1
    <3>2. handed'[c] = handed[c] /\ handed'[d] = handed[d]
      BY <1>6, <2>1, <3>1
    <3> QED
      BY <1>1, <3>2 DEF OutputOnceInOrder
  <2>2. CASE d = Len(handed) /\ c # Len(handed)
    <3>1. handed'[c] = handed[c] /\ handed'[d] = last'
      BY <1>6, <2>2
    <3>2. handed[c][i].n <= written - Len(stream) /\ handed[c][i].n \in Nat
      BY <1>2, <1>9, <3>1
    <3>3. last'[j].n = (written - Len(stream)) + j /\ j \in Nat /\ j > 0
      BY <1>7, <3>1
    <3> QED
      BY <1>8, <3>1, <3>2, <3>3
  <2>3. CASE d = Len(handed) /\ c = Len(handed)
    <3>1. handed'[c] = last' /\ handed'[d] = last' /\ i < j
      BY <1>2, <1>6, <2>3
    <3>2. /\ last'[i].n = (written - Len(stream)) + i /\ i \in Nat
          /\ last'[j].n = (written - Len(stream)) + j /\ j \in Nat
      BY <1>7, <3>1
    <3> QED
      BY <1>8, <3>1, <3>2
  <2> QED
    BY <2>1, <2>2, <2>3
<1> QED
  BY <1>5, <1>11, <1>12

LEMMA OutputKeeps ==
  ASSUME ShellInv, NEW k \in 0..Len(stream), Output(k)
  PROVE  ShellInv'
<1>1. /\ pc = "reading" /\ Read(k) /\ filter' = filter
      /\ pc' \in {"idle", "reading"} /\ loggedIn' = loggedIn
      /\ empties' = empties /\ odds' = odds /\ tries' = tries
      /\ handed' = handed \/ handed' = [handed EXCEPT ![Len(handed)] = last']
  BY DEF Output, GoOn, counters
<1>2. ShellTypeOK /\ Console /\ Silence /\ Fooling /\ Limits /\ AnswersAreRead /\ Numbered /\ OutputOnceInOrder
  BY DEF ShellInv
<1>3. loggedIn' \in BOOLEAN /\ pc' \in Entering \cup {"reading", "left", "idle", "failed"}
      /\ empties' \in 0..EmptyReads /\ odds' \in 0..(OddReads + 1) /\ tries' \in 0..Tries
  BY <1>1, <1>2 DEF ShellTypeOK
<1>4. ShellTypeOK' /\ Numbered' /\ OutputOnceInOrder' /\ Len(handed') = Len(handed)
  <2>1. CASE handed' = handed
    <3>1. UNCHANGED work
      BY <1>1, <2>1 DEF work
    <3> QED
      BY <1>1, <1>2, <1>3, <2>1, <3>1, ReadKeeps
  <2>2. CASE handed' = [handed EXCEPT ![Len(handed)] = last']
    <3>1. handed' \in Seq(Seq(Pieces)) /\ Len(handed') = Len(handed) /\ Numbered' /\ OutputOnceInOrder'
      BY <1>1, <2>2, CallAnswered
    <3>2. /\ last' \in Seq(Pieces) /\ stream' \in Seq(Pieces)
          /\ slow' \in 0..MaxSlow /\ torn' \in BOOLEAN /\ fooled' \in BOOLEAN
      BY <1>1, <1>2, ReadEffect
    <3>3. UNCHANGED <<device, user, free, echo, written, exposed>>
      BY <1>1 DEF Read, Arrived
    <3>4. ShellTypeOK'
      BY <1>1, <1>2, <1>3, <3>1, <3>2, <3>3 DEF ShellTypeOK
    <3> QED
      BY <3>1, <3>4
  <2> QED
    BY <1>1, <2>1, <2>2
<1>5. device' = device /\ exposed' = exposed
  BY <1>1 DEF Read, Arrived
<1>6. slow' = 0 => slow = 0
  BY <1>1, <1>2, ReadEffect
<1>s. Silence' /\ Fooling' /\ (fooled => fooled')
  <2>1. Fooling' /\ (fooled => fooled')
    BY <1>1, <1>2, ReadFools
  <2>2. device # "silent"
    BY <1>1, <1>2 DEF Silence
  <2> QED
    BY <1>5, <2>1, <2>2 DEF Silence
<1>7. Console'
  BY <1>1, <1>2, <1>4, <1>5, <1>s DEF Console, Entering, LoggedInMeansShell
<1>8. Limits' /\ AnswersAreRead'
  BY <1>1, <1>2, <1>5, <1>6 DEF Limits, AnswersAreRead, Entering
<1> QED
  BY <1>4, <1>s, <1>7, <1>8 DEF ShellInv

LEMMA LogoutKeeps ==
  ASSUME ShellInv, Logout
  PROVE  ShellInv'
<1>1. /\ pc = "idle" /\ Type("logout") /\ loggedIn' = FALSE /\ pc' = "left"
      /\ UNCHANGED <<last, empties, odds, tries, filter, handed, slow, torn, fooled>>
  BY DEF Logout, counters, work, reads
<1>2. ShellTypeOK /\ Console /\ Silence /\ Fooling /\ Limits /\ AnswersAreRead /\ Numbered /\ OutputOnceInOrder
  BY DEF ShellInv
<1>3. /\ stream' \in Seq(Pieces) /\ written' \in Nat /\ UNCHANGED <<free, echo>>
      /\ device' \in {"name", "password", "command", "silent"} /\ user' \in {"none", "user", "other"}
      /\ exposed' \in BOOLEAN
  BY <1>1, <1>2, LineTypes
<1>4. /\ exposed' = exposed
      /\ device' = "silent" => device = "silent"
      /\ Has(stream', "angle") \/ Has(stream', "hash") => BannersFool
  BY <1>1, <1>2, LineEffect
<1>5. Numbered' /\ OutputOnceInOrder'
  BY <1>1, <1>2, LineKeeps DEF reads
<1>6. ShellTypeOK'
  BY <1>1, <1>2, <1>3 DEF ShellTypeOK
<1>7. Console' /\ Limits'
  BY <1>1 DEF Console, Limits, Entering, LoggedInMeansShell
<1>8. AnswersAreRead' /\ Silence' /\ Fooling'
  BY <1>1, <1>2, <1>4 DEF AnswersAreRead, Silence, Fooling
<1> QED
  BY <1>5, <1>6, <1>7, <1>8 DEF ShellInv

LEMMA LoggedOutKeeps ==
  ASSUME ShellInv, NEW k \in 0..Len(stream), LoggedOut(k)
  PROVE  ShellInv'
<1>1. /\ pc = "left" /\ Read(k) /\ UNCHANGED work /\ pc' = "idle" /\ loggedIn' = loggedIn
      /\ empties' = empties /\ odds' = odds /\ tries' = tries
  BY DEF LoggedOut, GoOn, counters
<1>2. ShellTypeOK /\ Console /\ Silence /\ Fooling /\ Limits /\ AnswersAreRead /\ Numbered /\ OutputOnceInOrder
  BY DEF ShellInv
<1>3. loggedIn' \in BOOLEAN /\ pc' \in Entering \cup {"reading", "left", "idle", "failed"}
      /\ empties' \in 0..EmptyReads /\ odds' \in 0..(OddReads + 1) /\ tries' \in 0..Tries
  BY <1>1, <1>2 DEF ShellTypeOK
<1>4. ShellTypeOK' /\ Numbered' /\ OutputOnceInOrder'
  BY <1>1, <1>2, <1>3, ReadKeeps
<1>5. device' = device /\ exposed' = exposed
  BY <1>1 DEF Read, Arrived
<1>6. slow' = 0 => slow = 0
  BY <1>1, <1>2, ReadEffect
<1>s. Silence' /\ Fooling'
  <2>1. Fooling' /\ device # "silent"
    BY <1>1, <1>2, ReadFools DEF Silence
  <2> QED
    BY <1>5, <2>1 DEF Silence
<1>7. Console' /\ Limits' /\ AnswersAreRead'
  BY <1>1, <1>2, <1>5, <1>6 DEF Console, Limits, AnswersAreRead, Entering, LoggedInMeansShell
<1> QED
  BY <1>4, <1>s, <1>7 DEF ShellInv

(* What is lost of the output is not returned, and nothing after it sooner.  *)
LEMMA LostNumbers ==
  ASSUME ShellTypeOK, Numbered, NEW k \in 0..Len(stream), Arrived(k), handed' = handed
  PROVE  /\ stream' \in Seq(Pieces) /\ Numbered'
         /\ \A w : Has(stream', w) => Has(stream, w)
<1> DEFINE n == Len(stream)
           m == k + 1
<1>1. /\ stream' = SubSeq(stream, m, n) /\ written' = written
  BY DEF Arrived
<1>2. n \in Int /\ m \in Int /\ k \in 0..n /\ \A i \in m..n : stream[i] \in Pieces
  BY StreamFacts
<1> HIDE DEF n, m
<1>3. /\ SubSeq(stream, m, n) \in Seq(Pieces)
      /\ Len(SubSeq(stream, m, n)) = IF m <= n THEN n - m + 1 ELSE 0
      /\ \A i \in 1..(n - m + 1) : SubSeq(stream, m, n)[i] = stream[m + i - 1]
  BY <1>2, SubSeqProperties
<1>4. stream' \in Seq(Pieces) /\ Len(stream') = Len(stream) - k
  BY <1>1, <1>2, <1>3 DEF m, n
<1>5. DOMAIN stream' = 1..(Len(stream) - k)
  BY <1>4, LenProperties
<1>6. ASSUME NEW i \in DOMAIN stream' PROVE i + k \in DOMAIN stream /\ stream'[i] = stream[i + k]
  <2>1. i \in 1..(n - m + 1) /\ m + i - 1 = i + k /\ i + k \in 1..Len(stream)
    BY <1>2, <1>5, <1>6, StreamFacts DEF m, n
  <2> QED
    BY <1>1, <1>3, <2>1, StreamFacts
<1>7. written \in Nat /\ Len(stream) \in Nat /\ Len(stream) <= written /\ k \in 0..Len(stream)
  BY StreamFacts DEF Numbered
<1>8. ASSUME NEW i \in DOMAIN stream' PROVE stream'[i].n = (written' - Len(stream')) + i
  <2>1. stream[i + k].n = (written - Len(stream)) + (i + k)
    BY <1>6, <1>8 DEF Numbered
  <2> QED
    <3>1. i \in Int /\ k \in Int /\ stream'[i] = stream[i + k]
      BY <1>5, <1>6, <1>7, <1>8
    <3>2. Len(stream') = Len(stream) - k /\ written' = written
      BY <1>1, <1>4
    <3> QED
      BY <1>7, <2>1, <3>1, <3>2
<1>9. ASSUME NEW c \in DOMAIN handed', NEW i \in DOMAIN handed'[c]
      PROVE  handed'[c][i].n <= written' - Len(stream')
  <2>1. handed'[c][i].n <= written - Len(stream) /\ handed'[c][i].n \in Nat
    BY <1>9, HandedFacts DEF Numbered
  <2> QED
    BY <1>1, <1>4, <1>7, <2>1
<1>10. Len(stream') <= written'
  BY <1>1, <1>4, <1>7
<1> QED
  BY <1>4, <1>6, <1>8, <1>9, <1>10 DEF Numbered, Has

LEMMA RaiseKeeps ==
  ASSUME ShellInv, NEW k \in 0..Len(stream), Raise(k)
  PROVE  ShellInv'
<1>1. /\ pc \notin {"idle", "failed"} /\ Arrived(k)
      /\ slow' = IF k \in 1..(Len(stream) - 1) THEN slow + 1 ELSE slow
      /\ slow' <= MaxSlow
      /\ IF pc \in {"reading", "left"} THEN pc' = "idle" /\ loggedIn' = loggedIn
                                     ELSE pc' = "failed" /\ loggedIn' = FALSE
      /\ UNCHANGED <<last, empties, odds, tries, filter, handed, torn, fooled>>
      /\ UNCHANGED <<device, user, free, echo, written, exposed>>
  BY DEF Raise, GoOn, Login, Arrived, counters, work
<1>2. ShellTypeOK /\ Console /\ Silence /\ Fooling /\ Limits /\ AnswersAreRead /\ Numbered /\ OutputOnceInOrder
  BY DEF ShellInv
<1>3. slow \in 0..MaxSlow /\ loggedIn \in BOOLEAN
  BY <1>2 DEF ShellTypeOK
<1>4. slow' \in 0..MaxSlow /\ (slow' = 0 => slow = 0)
  <2>1. slow' = slow \/ slow' = slow + 1
    BY <1>1
  <2> QED
    BY <1>1, <1>3, <2>1
<1>5. pc' \in {"idle", "failed"} /\ loggedIn' \in BOOLEAN
  BY <1>1, <1>3
<1>6. stream' \in Seq(Pieces) /\ Numbered' /\ \A w : Has(stream', w) => Has(stream, w)
  BY <1>1, <1>2, LostNumbers
<1>7. ShellTypeOK'
  <2>1. /\ stream' \in Seq(Pieces) /\ slow' \in 0..MaxSlow /\ loggedIn' \in BOOLEAN
        /\ pc' \in {"knock", "first", "validate", "validated", "login", "knockAgain", "name", "asked",
                    "password", "sent", "reading", "left", "idle", "failed"}
    BY <1>4, <1>5, <1>6
  <2>2. /\ UNCHANGED <<last, empties, odds, tries, filter, handed, torn, fooled>>
        /\ UNCHANGED <<device, user, free, echo, written, exposed>>
    BY <1>1
  <2> QED
    BY <1>2, <2>1, <2>2 DEF ShellTypeOK
<1>8. Console'
  <2>1. pc' = "failed" => ~loggedIn'
    BY <1>1
  <2>2. loggedIn' => loggedIn /\ device' = device /\ fooled' = fooled
    BY <1>1, <1>3
  <2>3. loggedIn' => device' = "command" \/ fooled'
    BY <1>2, <2>2 DEF Console, LoggedInMeansShell
  <2> QED
    BY <1>5, <2>1, <2>3 DEF Console, Entering, LoggedInMeansShell
<1>9. Silence'
  <2>1. ASSUME device = "silent" PROVE stream' = <<>> /\ pc' = "failed"
    <3>1. stream = <<>> /\ pc \notin {"reading", "left"}
      BY <1>2, <2>1 DEF Silence
    <3>2. \A w : ~Has(stream, w)
      BY <3>1, NoElements DEF Has
    <3>3. ASSUME stream' # <<>> PROVE FALSE
      <4>1. Len(stream') \in Nat /\ Len(stream') # 0 /\ DOMAIN stream' = 1..Len(stream')
        BY <1>6, <3>3, EmptySeq, LenProperties
      <4>2. 1 \in DOMAIN stream'
        BY <4>1
      <4> QED
        BY <1>6, <3>2, <4>2 DEF Has
    <3> QED
      BY <1>1, <3>1, <3>3
  <2> QED
    BY <1>1, <2>1 DEF Silence
<1>10. Fooling' /\ Limits' /\ AnswersAreRead'
  BY <1>1, <1>2, <1>4, <1>5, <1>6 DEF Fooling, Limits, AnswersAreRead, Entering
<1>11. OutputOnceInOrder'
  BY <1>1, <1>2 DEF OutputOnceInOrder
<1> QED
  BY <1>6, <1>7, <1>8, <1>9, <1>10, <1>11 DEF ShellInv

LEMMA LogoutRaisesKeeps ==
  ASSUME ShellInv, LogoutRaises
  PROVE  ShellInv'
<1>1. /\ pc = "idle" /\ loggedIn' = FALSE
      /\ UNCHANGED <<pc, last, empties, odds, tries, filter, handed, slow, torn, fooled>>
      /\ UNCHANGED <<device, user, free, echo, stream, written, exposed>>
  BY DEF LogoutRaises, counters, work, console, reads
<1>2. ShellTypeOK /\ Console /\ Silence /\ Fooling /\ Limits /\ AnswersAreRead /\ Numbered /\ OutputOnceInOrder
  BY DEF ShellInv
<1>3. ShellTypeOK'
  BY <1>1, <1>2 DEF ShellTypeOK
<1>4. Console' /\ Limits' /\ AnswersAreRead'
  BY <1>1, <1>2 DEF Console, Limits, AnswersAreRead, Entering, LoggedInMeansShell
<1>5. Silence' /\ Fooling' /\ Numbered' /\ OutputOnceInOrder'
  BY <1>1, <1>2 DEF Silence, Fooling, Has, Numbered, OutputOnceInOrder
<1> QED
  BY <1>3, <1>4, <1>5 DEF ShellInv

LEMMA ShellInvInit == ShellInit => ShellInv
<1> SUFFICES ASSUME ShellInit PROVE ShellInv
  OBVIOUS
<1>1. /\ stream = <<>> /\ handed = <<>> /\ last = <<>>
      /\ <<>> \in Seq(Pieces) /\ <<>> \in Seq(Seq(Pieces)) /\ Len(<<>>) = 0 /\ DOMAIN <<>> = {}
  BY NothingInIt DEF ShellInit
<1>2. ShellTypeOK
  <2>1. /\ empties = 0 /\ odds = 0 /\ tries = 0 /\ written = 0 /\ slow = 0 /\ pc = "knock"
        /\ loggedIn = FALSE /\ filter = "" /\ device \in {"name", "command", "silent"} /\ user = "none"
        /\ free \in BOOLEAN /\ echo \in BOOLEAN /\ torn = FALSE /\ fooled = FALSE /\ exposed = FALSE
    BY DEF ShellInit
  <2>2. EmptyReads \in Nat /\ OddReads \in Nat /\ Tries \in Nat /\ MaxSlow \in Nat /\ MaxCommands \in Nat
    BY LimitAssumption, CommandsAssumption
  <2>3. /\ empties \in 0..EmptyReads /\ odds \in 0..(OddReads + 1) /\ tries \in 0..Tries
        /\ written \in Nat /\ slow \in 0..MaxSlow
    <3>1. ASSUME NEW n \in Nat PROVE 0 \in 0..n /\ 0 \in 0..(n + 1) /\ 0 \in Nat
      OBVIOUS
    <3> QED
      BY <2>1, <2>2, <3>1
  <2>4. /\ last \in Seq(Pieces) /\ stream \in Seq(Pieces)
        /\ handed \in Seq(Seq(Pieces)) /\ Len(handed) <= MaxCommands
    BY <1>1, <2>2
  <2> QED
    BY <2>1, <2>3, <2>4 DEF ShellTypeOK
<1>3. \A w : ~Has(stream, w)
  BY <1>1 DEF Has
<1>4. Console /\ Limits
  <2>1. pc = "knock" /\ loggedIn = FALSE /\ odds = 0 /\ OddReads \in Nat
    BY LimitAssumption DEF ShellInit
  <2>2. ~Prompted
    BY <1>3 DEF Prompted
  <2>3. Console
    BY <2>1, <2>2 DEF Console, LoggedInMeansShell
  <2> QED
    BY <2>1, <2>3 DEF Limits
<1>s. Silence /\ Fooling
  BY <1>1, <1>3 DEF ShellInit, Silence, Fooling
<1>5. AnswersAreRead
  BY DEF ShellInit, AnswersAreRead
<1>6. Numbered
  <2>1. DOMAIN stream = {} /\ DOMAIN handed = {} /\ Len(stream) = 0 /\ written = 0
    BY <1>1 DEF ShellInit
  <2> QED
    BY <2>1 DEF Numbered
<1>7. OutputOnceInOrder
  <2>1. DOMAIN handed = {}
    BY <1>1
  <2> QED
    BY <2>1 DEF OutputOnceInOrder
<1> QED
  BY <1>2, <1>4, <1>s, <1>5, <1>6, <1>7 DEF ShellInv

LEMMA ShellInvKept == ShellInv /\ [ShellNext]_shellVars => ShellInv'
<1> SUFFICES ASSUME ShellInv, [ShellNext]_shellVars PROVE ShellInv'
  OBVIOUS
<1>1. CASE Knock
  BY <1>1, WriteKeeps DEF Knock
<1>2. CASE Validate
  BY <1>2, WriteKeeps DEF Validate
<1>3. CASE KnockAgain
  BY <1>3, WriteKeeps DEF KnockAgain
<1>4. CASE TypeUser
  BY <1>4, WriteKeeps DEF TypeUser
<1>5. CASE TypePassword
  BY <1>5, WriteKeeps DEF TypePassword
<1>6. ASSUME NEW k \in 0..Len(stream),
             \/ First(k) \/ Validated(k) \/ LoginRead(k) \/ NameAsked(k) \/ Sent(k)
             \/ Output(k) \/ LoggedOut(k)
      PROVE  ShellInv'
  BY <1>6, FirstKeeps, ValidatedKeeps, LoginLoopKeeps, NameAskedKeeps, SentKeeps, OutputKeeps, LoggedOutKeeps
<1>7. ASSUME NEW f \in {"", "hit"}, Exec(f) PROVE ShellInv'
  BY <1>7, ExecKeeps
<1>8. CASE ExecRefused
  BY <1>8, ExecRefusedKeeps
<1>9. CASE Logout
  BY <1>9, LogoutKeeps
<1>11. ASSUME NEW k \in 0..Len(stream), Raise(k) PROVE ShellInv'
  BY <1>11, RaiseKeeps
<1>12. CASE LogoutRaises
  BY <1>12, LogoutRaisesKeeps
<1>13. CASE UNCHANGED shellVars
  <2>1. UNCHANGED <<pc, last, loggedIn, empties, odds, tries, filter, handed, device, user, free, echo,
                    stream, written, exposed, slow, torn, fooled>>
    BY <1>13 DEF shellVars, counters, work, console, reads
  <2>2. ShellTypeOK' <=> ShellTypeOK
    BY <2>1 DEF ShellTypeOK
  <2>3. Prompted' <=> Prompted
    BY <2>1 DEF Prompted
  <2>4. (Console' <=> Console) /\ (Limits' <=> Limits) /\ (Silence' <=> Silence) /\ (Fooling' <=> Fooling)
    BY <2>1, <2>3 DEF Console, LoggedInMeansShell, Limits, Silence, Fooling, Has
  <2>5. AnswersAreRead' <=> AnswersAreRead
    BY <2>1 DEF AnswersAreRead, AsksFor
  <2>6. Numbered' <=> Numbered
    BY <2>1 DEF Numbered
  <2>7. OutputOnceInOrder' <=> OutputOnceInOrder
    BY <2>1 DEF OutputOnceInOrder
  <2> QED
    BY <2>2, <2>4, <2>5, <2>6, <2>7 DEF ShellInv
<1> QED
  BY <1>1, <1>2, <1>3, <1>4, <1>5, <1>6, <1>7, <1>8, <1>9, <1>11, <1>12, <1>13 DEF ShellNext, Step

(* Whatever the console writes, wherever the reads cut it up and whichever  *)
(* of them raise, the variables have their types; _logged_in is only set    *)
(* while the console is at the shell or when the pattern of the prompt was  *)
(* fooled, which it is by the text of a banner only; and the password is    *)
(* typed at no other prompt than the one that asks for it unless a read     *)
(* ended too early (serial_device_shell.py:109-115, 183-195, 208-224,       *)
(* 257-295).                                                                *)
THEOREM SessionsAreShells == ShellSpec => []SessionInv
<1>1. ShellInv => SessionInv
  <2> SUFFICES ASSUME ShellInv PROVE SessionInv
    OBVIOUS
  <2>0. slow \in 0..MaxSlow
    BY DEF ShellInv, ShellTypeOK
  <2>1. slow \in Nat
    BY <2>0
  <2>2. exposed => slow > 0
    BY <2>1 DEF ShellInv, AnswersAreRead
  <2>3. OnlyBannersFool
    BY DEF ShellInv, Fooling, BannersFool, Among, OnlyBannersFool
  <2> QED
    BY <2>2, <2>3 DEF ShellInv, Console, SessionInv, PasswordOnlyWhereAsked
<1> QED
  BY <1>1, ShellInvInit, ShellInvKept, PTL DEF ShellSpec

(* Of all that exec_command returned, call after call, no piece of the      *)
(* output comes twice or before one that was written earlier, for every     *)
(* output a command may have and every way the reads cut it up              *)
(* (serial_device_shell.py:165-175).                                        *)
THEOREM OutputIsNeverRepeated == ShellSpec => []OutputOnceInOrder
<1>1. ShellInv => OutputOnceInOrder
  BY DEF ShellInv
<1> QED
  BY <1>1, ShellInvInit, ShellInvKept, PTL DEF ShellSpec

=============================================================================
