------------------------------- MODULE SomeIp -------------------------------
(***************************************************************************)
(* SomeipUtils over the communicators of DatagramSockets: find_service     *)
(* over a UdpCommunicator, which asks and takes answers, or over the       *)
(* multicast group, which only listens; subscribe_evtgrp and method_invoke *)
(* over the service discovery socket and the end point socket.  External   *)
(* are the servers, which offer services, accept and refuse subscriptions, *)
(* notify subscribers and answer methods, all of it when they please, and  *)
(* the caller, who also uses the communicators directly.                   *)
(***************************************************************************)
EXTENDS DatagramSockets, SequencesExt

CONSTANTS
  Sd,         \* the UdpCommunicator for service discovery
  Ep,         \* the UdpCommunicator of the end point
  Offers,     \* service discovery messages the servers may send of themselves
  Services,
  Groups,
  Methods,
  Codes,      \* return codes of SomeIpReturnCode other than the two the code looks at
  Retries,    \* values of recv_retry
  MaxCalls,   \* bound: calls of SomeipUtils
  MaxUnasked  \* bound: offers and notifications the servers send unasked

ASSUME SomeIpAssumption ==
  /\ Sd # Ep /\ Udps = {Sd, Ep}
  /\ Retries \subseteq Nat /\ MaxCalls \in Nat /\ MaxUnasked \in Nat
  /\ "E_UNKNOWN_METHOD" \notin Codes /\ "unlisted" \notin Codes

VARIABLES
  job,        \* what the caller does: "discover" services, or "use" the one it knows
  current,    \* the call under way, or the last one, with what it asked for and what is left of it
  taken,      \* history: datagrams the call took, in order
  verdict,    \* history: what the servers made of this call's subscription
  strays,     \* history: what was on its way, or to come, when the call began
  subscribed, \* subscriptions the servers hold: pairs of service and group
  calls,      \* calls of SomeipUtils so far
  unasked     \* messages sent unasked so far

servers == <<subscribed, unasked>>
history == <<taken, verdict, strays>>
someIpVars == <<job, sockets, direct, current, history, servers, calls>>

-----------------------------------------------------------------------------
(* Messages.  An entry of a service discovery message refers to two runs of  *)
(* its options, each a first index and a number, counted from zero.          *)

NoGroup == "no group"

(* The event group of an entry is what stands at its place: an offer has     *)
(* its minor version there, which may equal any group.                       *)
Entry(type, service, eventGroup, first, second) ==
  [type |-> type, service |-> service, group |-> eventGroup, first |-> first, second |-> second]
SdMessage(entries, options, error) ==
  [what |-> "sd", entries |-> entries, options |-> options, error |-> error]
Verdict(type, service, eventGroup) ==
  SdMessage(<<Entry(type, service, eventGroup, <<0, 0>>, <<0, 0>>)>>, <<>>, FALSE)
Event(eventGroup) == [what |-> "event", group |-> eventGroup]
Reply(method, code) == [what |-> "reply", method |-> method, code |-> code]

NoCall == [op |-> "none", over |-> Sd, service |-> "none", asked |-> "none", left |-> 0]

NothingRuns == current.left = 0 /\ waits = Nobody

SomeIpInit ==
  /\ SocketsInit
  /\ job \in {"discover", "use"}
  /\ current = NoCall
  /\ taken = <<>>
  /\ verdict = "none"
  /\ strays = [sd |-> FALSE, ep |-> FALSE]
  /\ subscribed = {}
  /\ calls = 0
  /\ unasked = 0

-----------------------------------------------------------------------------
(* _parse_find_service_response and _parse_options_for_offer_service. *)

(* Mutant: the second run of options is left out. *)
IndicesOfTheFirst(e) == SetToSortSeq(e.first[1]..(e.first[1] + e.first[2] - 1), <)

(* The indices of both runs, an index twice when it is in both. *)
Indices(e) ==
  SortSeq([i \in 1..e.first[2] |-> e.first[1] + i - 1]
            \o [i \in 1..e.second[2] |-> e.second[1] + i - 1], <)

(* Options beyond the one after the last end the list, that one raises.      *)
Endpoints(e, options) ==
  LET in == SelectSeq(Indices(e), LAMBDA i : i <= Len(options))
      meant == SelectSeq(in, LAMBDA i : i < Len(options) /\ options[i + 1].type = "endpoint")
  IN [i \in DOMAIN meant |-> options[meant[i] + 1].addr]

PointsAfterLast(e, options) == \E i \in DOMAIN Indices(e) : Indices(e)[i] = Len(options)

Ignored(m) == m.what # "sd" \/ m.error \/ m.entries = <<>> \/ m.options = <<>>

Offered(m) == SelectSeq(m.entries, LAMBDA e : e.type = "offer")

(* The services a datagram adds to the list, and whether parsing it raises.  *)
Found(m) ==
  IF Ignored(m) THEN <<>>
  ELSE [i \in DOMAIN Offered(m) |->
          [service |-> Offered(m)[i].service, endpoints |-> Endpoints(Offered(m)[i], m.options)]]

ParsingRaises(m) ==
  ~Ignored(m) /\ \E i \in DOMAIN Offered(m) : PointsAfterLast(Offered(m)[i], m.options)

-----------------------------------------------------------------------------
(* Calls. *)

OnTheWay(receiver, Test(_)) ==
  \/ \E d \in wire : d.receiver = receiver /\ Test(d.message)
  \/ \E i \in DOMAIN queue[receiver] : Test(queue[receiver][i])

IsVerdictOn(m, service, eventGroup) ==
  m.what = "sd" /\ m.entries # <<>> /\ m.entries[1].service = service /\ m.entries[1].group = eventGroup

BeginCall(op, over, service, asked, left) ==
  /\ NothingRuns
  /\ calls < MaxCalls
  /\ calls' = calls + 1
  /\ taken' = <<>>
  /\ strays' = [sd |-> OnTheWay(Sd, LAMBDA m : IsVerdictOn(m, service, asked)),
                ep |-> subscribed \ {<<service, asked>>} # {}
                       \/ OnTheWay(Ep, LAMBDA m : m # Event(asked))]
  /\ current' = [op |-> op, over |-> over, service |-> service, asked |-> asked, left |-> left]

End == current' = [current EXCEPT !.left = 0]

(* send raises, and so does the call. *)
SendRaises(op, over, service, asked) ==
  /\ BeginCall(op, over, service, asked, 0)
  /\ got' = Raised(SendError(over))
  /\ verdict' = "none"
  /\ UNCHANGED <<sockets, waits, ops, servers>>

(* What the servers send in answer to what a communicator sends: nothing, or *)
(* one of some messages.                                                     *)
Answers(s, messages) ==
  /\ udp' = Transmitted(s)
  /\ \E sent \in {{}} \cup {{Datagram(s, AnswerPort(s), m)} : m \in messages} : wire' = wire \cup sent
  /\ UNCHANGED <<group, queue>>

(* find_service over UDP asks first; the servers answer with any offer.      *)
FindOverUdp ==
  \E service \in Services, retries \in Retries :
    \/ /\ Live(Sd)
       /\ BeginCall("find", Sd, service, NoGroup, retries)
       /\ Answers(Sd, Offers)
       /\ verdict' = "none"
       /\ got' = Result("services", NoDatagram)
       /\ UNCHANGED <<waits, ops, servers>>
    \/ SendRaises("find", Sd, service, NoGroup)

FindOverGroup ==
  \E service \in Services, retries \in Retries :
    /\ BeginCall("find", Group, service, NoGroup, retries)
    /\ verdict' = "none"
    /\ got' = Result("services", NoDatagram)
    /\ UNCHANGED <<sockets, waits, ops, servers>>

(* One turn of the loop: what is queued is parsed, or the timeout passes.    *)
FindReceives ==
  /\ current.op = "find" /\ current.left > 0
  /\ IF ~CanReceive(current.over)
     THEN /\ got' = Raised(ReceiveError(current.over))
          /\ End
          /\ UNCHANGED <<queue, taken>>
     ELSE IF queue[current.over] = <<>>
     THEN /\ current' = [current EXCEPT !.left = @ - 1]
          /\ UNCHANGED <<queue, got, taken>>
     ELSE LET m == Head(queue[current.over]) IN
          /\ Take(current.over)
          /\ taken' = Append(taken, m)
          /\ IF ParsingRaises(m)
             THEN got' = Raised("IndexError") /\ End
             ELSE /\ got' = [got EXCEPT !.services = @ \o Found(m)]
                  /\ current' = [current EXCEPT !.left = @ - 1]
  /\ UNCHANGED <<udp, group, wire, waits, ops, verdict, strays, servers, calls>>

(* The request names the port the end point socket was configured with,      *)
(* bound or not.  A server that accepts it notifies the end point at once,   *)
(* or does not.                                                              *)
Subscribe ==
  \E service \in Services, g \in Groups :
    \/ /\ Live(Sd)
       /\ BeginCall("subscribe", Sd, service, g, 1)
       /\ udp' = Transmitted(Sd)
       /\ got' = Gave("None")
       /\ \E v \in {"none", "ack", "nack"}, told, notified \in BOOLEAN :
            /\ verdict' = v
            /\ told => v # "none"
            /\ notified => v = "ack"
            /\ subscribed' = IF v = "ack" THEN subscribed \cup {<<service, g>>} ELSE subscribed
            /\ wire' = wire
                 \cup (IF told THEN {Datagram(Sd, AnswerPort(Sd), Verdict(v, service, g))} ELSE {})
                 \cup (IF notified THEN {Datagram(Ep, "own", Event(g))} ELSE {})
       /\ UNCHANGED <<group, queue, waits, ops, unasked>>
    \/ SendRaises("subscribe", Sd, service, g)

(* Mutant: the event group of the answer is not compared. *)
IsSubscriptionAnswerToAny(m) == m.what = "sd" /\ m.entries # <<>> /\ m.entries[1].service = current.service

(* Of the first entry, group and service are compared, and not its type.     *)
IsSubscriptionAnswer(m) == IsVerdictOn(m, current.service, current.asked)

SubscribeReceives ==
  /\ current.op = "subscribe" /\ current.left = 1
  /\ IF queue[Sd] = <<>>
     THEN End /\ UNCHANGED <<queue, taken>>
     ELSE /\ Take(Sd)
          /\ taken' = Append(taken, Head(queue[Sd]))
          /\ IF IsSubscriptionAnswer(Head(queue[Sd]))
             THEN current' = [current EXCEPT !.op = "initial"]
             ELSE End
  /\ UNCHANGED <<udp, group, wire, direct, verdict, strays, servers, calls>>

(* The group is found; whatever the end point receives is its initial data.  *)
InitialReceives ==
  /\ current.op = "initial" /\ current.left = 1
  /\ End
  /\ IF ~Live(Ep)
     THEN got' = Raised(ReceiveError(Ep)) /\ UNCHANGED <<queue, taken>>
     ELSE IF queue[Ep] = <<>>
     THEN got' = Result("group", NoDatagram) /\ UNCHANGED <<queue, taken>>
     ELSE /\ got' = Result("group", Head(queue[Ep]))
          /\ Take(Ep)
          /\ taken' = Append(taken, Head(queue[Ep]))
  /\ UNCHANGED <<udp, group, wire, waits, ops, verdict, strays, servers, calls>>

Invoke ==
  \E service \in Services, method \in Methods :
    \/ /\ Live(Ep)
       /\ BeginCall("invoke", Ep, service, method, 1)
       /\ Answers(Ep, {Reply(method, code) : code \in Codes \cup {"E_UNKNOWN_METHOD", "unlisted"}})
       /\ verdict' = "none"
       /\ got' = Gave("None")
       /\ UNCHANGED <<waits, ops, servers>>
    \/ SendRaises("invoke", Ep, service, method)

(* A notification parses as an answer of the event's own method.  *)
MethodOf(m) == IF m.what = "event" THEN m.group ELSE m.method
CodeOf(m) == IF m.what = "event" THEN "E_OK" ELSE m.code

(* Mutant: every answer is for a method. *)
AnyReply(m) == IF CodeOf(m) = "unlisted" THEN Raised("ValidationError") ELSE Result("method", m)

(* Whatever answers is taken for the method, but for the one return code; a  *)
(* code that SomeIpReturnCode does not list raises.                          *)
InvokeResult(m) ==
  IF CodeOf(m) = "E_UNKNOWN_METHOD" THEN Gave("None")
  ELSE IF CodeOf(m) = "unlisted" THEN Raised("ValidationError")
  ELSE Result("method", m)

InvokeReceives ==
  /\ current.op = "invoke" /\ current.left = 1
  /\ End
  /\ IF queue[Ep] = <<>>
     THEN UNCHANGED <<queue, got, taken>>
     ELSE /\ got' = InvokeResult(Head(queue[Ep]))
          /\ Take(Ep)
          /\ taken' = Append(taken, Head(queue[Ep]))
  /\ UNCHANGED <<udp, group, wire, waits, ops, verdict, strays, servers, calls>>

-----------------------------------------------------------------------------
(* The network, the servers, and the caller. *)

Unasked == unasked < MaxUnasked /\ unasked' = unasked + 1

(* Services are offered to the group, and to who is known to look for them.  *)
(* To the end point of a subscriber go the events of its groups.             *)
Offer ==
  /\ Unasked
  /\ \E m \in Offers, r \in IF job = "discover" THEN {Group} ELSE {Sd} :
       wire' = wire \cup {Datagram(r, "own", m)}
  /\ UNCHANGED <<udp, group, queue, direct, current, history, subscribed, calls>>

Notify ==
  /\ Unasked
  /\ \E s \in subscribed : wire' = wire \cup {Datagram(Ep, "own", Event(s[2]))}
  /\ UNCHANGED <<udp, group, queue, direct, current, history, subscribed, calls>>

(* A subscription ends with its time to live, or with its server.            *)
Expire ==
  /\ \E s \in subscribed : subscribed' = subscribed \ {s}
  /\ UNCHANGED <<sockets, direct, current, history, unasked, calls>>

Network ==
  /\ Arrive
  /\ UNCHANGED <<direct, current, history, servers, calls>>

DirectUse ==
  /\ current.left = 0
  /\ Unblock \/ \E r \in IF job = "discover" THEN {Sd, Group} ELSE {Sd, Ep} : Direct(r)
  /\ current' = NoCall
  /\ taken' = <<>>
  /\ verdict' = "none"
  /\ UNCHANGED <<strays, servers, calls>>

AllCallsDone == NothingRuns /\ calls = MaxCalls /\ wire = {} /\ UNCHANGED someIpVars

(* A receive_from on a blocking socket nothing is sent to never returns. *)
BlockedForEver == waits # Nobody /\ wire = {} /\ UNCHANGED someIpVars

Calls ==
  \/ job = "discover" /\ (FindOverUdp \/ FindOverGroup)
  \/ job = "use" /\ (Subscribe \/ Invoke)
Steps == FindReceives \/ SubscribeReceives \/ InitialReceives \/ InvokeReceives

SomeIpNext ==
  /\ \/ Calls \/ Steps \/ DirectUse
     \/ Network \/ Offer \/ Notify \/ Expire
     \/ AllCallsDone \/ BlockedForEver
  /\ job' = job

SomeIpSpec == SomeIpInit /\ [][SomeIpNext]_someIpVars

-----------------------------------------------------------------------------

SomeIpTypeOK ==
  /\ SocketsTypeOK
  /\ job \in {"discover", "use"}
  /\ current.op \in {"none", "find", "subscribe", "initial", "invoke"}
  /\ current.over \in Receivers
  /\ \E r \in Retries \cup {1} : current.left \in 0..r
  /\ verdict \in {"none", "ack", "nack"}
  /\ subscribed \subseteq Services \X Groups
  /\ calls \in 0..MaxCalls /\ unasked \in 0..MaxUnasked

(* MulticastCommunicator is open with both sockets, or closed with neither,  *)
(* however its opens failed.                                                 *)
GroupIsWhole == group.open = group.in /\ group.open = group.out

(* What was received by a socket is gone with it, whatever took its place.   *)
QueuesAreOwned ==
  /\ \A s \in Udps : queue[s] # <<>> => udp[s] \in {"bound", "ephemeral"}
  /\ queue[Group] # <<>> => GroupIsOpen

(* Nothing blocks but a receive_from on a socket whose open had failed.      *)
OnlyAFailedOpenBlocks == waits # Nobody => udp[waits] \in {"unbound", "ephemeral"}

(* The communicators are in one of the states their operations know, through *)
(* any order of opens, closes, sends and receives, failed ones included.     *)
SocketsInv == SomeIpTypeOK /\ GroupIsWhole /\ QueuesAreOwned /\ OnlyAFailedOpenBlocks

Ended(op) == current.op = op /\ current.left = 0

(* What an offer says by itself: the options each of its runs refers to, one *)
(* that both refer to twice.                                                 *)
Bagged(seq, indices) == BagOfAll(LAMBDA i : seq[i], SetToBag(indices))
Covers(run, i) == run[1] <= i - 1 /\ i - 1 < run[1] + run[2]
EndpointsReferred(e, options) ==
  LET addrs == [i \in DOMAIN options |-> options[i].addr]
      EndpointsOf(run) ==
        Bagged(addrs, {i \in DOMAIN options : options[i].type = "endpoint" /\ Covers(run, i)})
  IN EndpointsOf(e.first) (+) EndpointsOf(e.second)

(* find_service reports the offers of the datagrams it took, those of other  *)
(* services too, each with the end points its own entry refers to, as often  *)
(* as it refers to them; what is not an offer, or comes with an error or     *)
(* without options, adds nothing, and it takes no more datagrams than        *)
(* recv_retry.  It raises over an offer that refers to the option after the  *)
(* last one, and over nothing else it took (someip_utils.py:58-145).         *)
FindTellsTheOffers ==
  /\ Ended("find") /\ got.kind = "services" =>
       LET told == {<<got.services[i].service,
                      Bagged(got.services[i].endpoints, DOMAIN got.services[i].endpoints)>> :
                        i \in DOMAIN got.services}
           good == {m \in ToSet(taken) : m.what = "sd" /\ ~m.error /\ m.options # <<>>}
           meant == UNION {{<<m.entries[i].service, EndpointsReferred(m.entries[i], m.options)>> :
                              i \in {j \in DOMAIN m.entries : m.entries[j].type = "offer"}} : m \in good}
       IN told = meant /\ \E r \in Retries : Len(taken) <= r
  /\ Ended("find") /\ got.kind = "IndexError" =>
       \E e \in ToSet(Last(taken).entries), i \in {Len(Last(taken).options) + 1} :
         e.type = "offer" /\ (Covers(e.first, i) \/ Covers(e.second, i))

(* A group that subscribe_evtgrp returns was answered for: by what the       *)
(* servers said to this call, unless an answer on the same group was on its  *)
(* way when the call began, or an offer of the service stands for one whose  *)
(* minor version equals the group.  Its initial data is an event of the      *)
(* group, unless the end point had something else to come.  A call that      *)
(* raises after the servers answered does so for want of an end point socket *)
(* (someip_utils.py:178-201).  Whether the servers accepted is not told: see *)
(* RefusalsAreNone.                                                          *)
SubscriptionIsAnswered ==
  /\ Ended("initial") /\ got.kind = "group" =>
       /\ taken[1] \in Offers \cup {Verdict(verdict, current.service, current.asked)} \/ strays.sd
       /\ got.datagram \in {NoDatagram, Event(current.asked)} \/ strays.ep
  /\ current.op \in {"subscribe", "initial"} /\ current.left = 0 /\ got.kind \notin {"None", "group"} =>
       verdict = "none" \/ ~Live(Ep)

(* A group is returned when servers accepted the subscription, None when     *)
(* they refused it (someip_utils.py:167-168: "if found. None otherwise").    *)
(* The code does not do this: see someip_refused.cfg.                        *)
RefusalsAreNone ==
  Ended("initial") /\ got.kind = "group" => verdict = "ack" \/ strays.sd

(* What method_invoke returns is the answer of the method it asked for, and  *)
(* never that there is no such method, unless an answer to an earlier call,  *)
(* or an event, was on its way to the end point or still to come.            *)
InvokeIsOwn ==
  Ended("invoke") /\ got.kind = "method" =>
    /\ CodeOf(got.datagram) \in Codes \cup {"E_OK"}
    /\ MethodOf(got.datagram) = current.asked \/ strays.ep
=============================================================================
