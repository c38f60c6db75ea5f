------------------------------ MODULE DoipLink ------------------------------
(***************************************************************************)
(* DoipCommunicator over TcpCommunicator, with the readers DoipUtils makes *)
(* for it: the connection is opened again when it was lost, routing is     *)
(* activated on a new connection, a diagnostic request is sent and its     *)
(* acknowledgement awaited, a diagnostic response is read.  A DoIP message *)
(* travels as one or two pieces, so that a recv may return half a message  *)
(* or several.  The TCP stream, the gateway at its other end and the       *)
(* Parser of doipclient are external.                                      *)
(***************************************************************************)
EXTENDS Naturals, Sequences

CONSTANTS
  ActivationNeeded,  \* DoipCommunicator.routing_activation_needed
  Faults,            \* what may go wrong on the connection and in the gateway
  MaxCalls,          \* bound: calls of the communicator
  MaxUnsolicited     \* bound: alive checks and generic nacks of the gateway

FaultKinds == {"split", "coalesce", "slow", "closes", "refusesConnection",
               "refusesActivation", "nack", "unsolicited"}

ASSUME ActivationAssumption == ActivationNeeded \in BOOLEAN
ASSUME FaultAssumption == Faults \subseteq FaultKinds
ASSUME BoundAssumption == MaxCalls \in Nat /\ MaxUnsolicited \in Nat

VARIABLES
  sock,         \* state of TcpCommunicator._socket
  conn,         \* connections made so far; the last one is the current one
  peer,         \* whether the gateway still holds its end of the connection
  toPeer,       \* requests on their way to the gateway
  net,          \* messages on their way to the tester
  rx,           \* pieces in the receive buffer of the socket
  granted,      \* the gateway has activated routing on this connection
  working,      \* number of the request the gateway works on, 0 when none
  unsolicited,  \* messages it has sent unasked
  pc,           \* where the tester is
  op,           \* the call it is in
  stage,        \* what the reader it is in waits for
  parser,       \* the Parser of that reader
  data,         \* what the last recv returned to it
  written,      \* local variable sent_bytes of send_uds_request: all or nothing
  calls,        \* calls begun
  sentOn,       \* history: connection of each diagnostic request, by number
  answers,      \* history: what each recv of the communicator returned
  taken,        \* history: requests whose response left the socket whole
  disturbed,    \* history: request and response may be out of step here
  unactivated,  \* history: the activation of this connection failed, as was told
  unsent,       \* history: requests whose send returned that nothing was sent
  served        \* history: requests the gateway passed on to the ECU

tcp == <<sock, conn, peer>>
wire == <<toPeer, net, rx>>
gateway == <<granted, working, unsolicited>>
reader == <<stage, parser, data>>
reports == <<written, unactivated, unsent>>
history == <<sentOn, answers, taken, disturbed, reports, served>>
vars == <<tcp, wire, gateway, pc, op, reader, calls, history>>

(* A message carries the number of the request it is about, 0 for none: the *)
(* bytes do not, so the tester's code never reads tag.                      *)
Message == [kind : {"activated", "refused", "ack", "nack", "response", "unsolicited"}, tag : Nat]
NoMessage == [kind |-> "none", tag |-> 0]
Msg(k, n) == [kind |-> k, tag |-> n]

(* Pieces of a message: all of it, its start, the rest of it. *)
Piece(m, p) == [msg |-> m, part |-> p]
Parts == {"all", "start", "rest"}

Requests == Len(sentOn)

Init ==
  /\ sock = "none"
  /\ conn = 0
  /\ peer = "up"
  /\ toPeer = <<>>
  /\ net = <<>>
  /\ rx = <<>>
  /\ granted = FALSE
  /\ working = 0
  /\ unsolicited = 0
  /\ pc = "idle"
  /\ op = "none"
  /\ stage = "none"
  /\ parser = NoMessage
  /\ data = <<>>
  /\ calls = 0
  /\ sentOn = <<>>
  /\ answers = <<>>
  /\ taken = {}
  /\ disturbed = FALSE
  /\ written = FALSE
  /\ unactivated = FALSE
  /\ unsent = {}
  /\ served = {}

-----------------------------------------------------------------------------
(* TcpCommunicator. *)

(* A peek finds bytes, or would block; at the end of the stream it finds    *)
(* none, and on a socket that is not connected it raises.                   *)
IsOpen == sock = "connected" /\ (peer = "down" => net \o rx # <<>>)

(* Nothing of a connection outlives it. *)
ForgetConnection ==
  /\ peer' = "up"
  /\ toPeer' = <<>>
  /\ net' = <<>>
  /\ rx' = <<>>
  /\ granted' = FALSE
  /\ working' = 0

Connect ==
  /\ sock' = "connected"
  /\ conn' = conn + 1
  /\ disturbed' = FALSE
  /\ unactivated' = FALSE
  /\ ForgetConnection

ConnectRaises ==
  /\ "refusesConnection" \in Faults
  /\ sock' = "unconnected"
  /\ ForgetConnection
  /\ UNCHANGED <<conn, disturbed, unactivated>>

-----------------------------------------------------------------------------
(* The calls of DoipCommunicator. *)

EndReader == stage' = "none" /\ parser' = NoMessage /\ data' = <<>>
BeginReader(s) == stage' = s /\ parser' = NoMessage /\ data' = <<>>

(* Mutant: send() returns the bytes only of an acknowledged request. *)
ReportedWhenAcknowledged == pc = "parse" /\ parser = NoMessage /\ data[1] = Piece(Msg("ack", Requests), "all")

(* send() returns the bytes handed to the socket, acknowledged or not. *)
Reported == written

(* The call returns or raises: recv with what it has read, send with the    *)
(* bytes sent, and a call that reconnected with nothing, as long as routing *)
(* could not be activated.                                                  *)
Return(result) ==
  /\ pc' = "idle"
  /\ op' = "none"
  /\ EndReader
  /\ written' = FALSE
  /\ unactivated' = (unactivated \/ stage = "activation")
  /\ unsent' = IF stage = "ack" /\ ~Reported THEN unsent \cup {Requests} ELSE unsent
  /\ answers' = IF op # "recv" THEN answers
                ELSE Append(answers, [tag |-> result, asked |-> Requests, conn |-> conn,
                                      inStep |-> ~disturbed'])

(* What a call does once the connection is there and routing activated. *)
Proceed(o) ==
  /\ pc' = CASE o = "open" -> "idle" [] o = "send" -> "transmit" [] o = "recv" -> "read"
  /\ op' = IF o = "open" THEN "none" ELSE o
  /\ IF o = "recv" THEN BeginReader("response") ELSE EndReader

(* Mutant: only open() activates routing. *)
ActivateInOpenOnly(o) ==
  IF ActivationNeeded /\ o = "open" THEN pc' = "activate" /\ op' = o /\ EndReader ELSE Proceed(o)

AfterConnect(o) ==
  IF ActivationNeeded THEN pc' = "activate" /\ op' = o /\ EndReader ELSE Proceed(o)

(* open(), and the reconnection that send() and recv() begin with: a new    *)
(* socket, connected, or an exception from connect.                         *)
Reconnect(o) ==
  /\ \/ Connect /\ AfterConnect(o)
     \/ ConnectRaises /\ UNCHANGED <<pc, op, reader>>
  /\ UNCHANGED <<sentOn, answers, taken, written, unsent, served, unsolicited>>

Begin ==
  /\ pc = "idle"
  /\ calls < MaxCalls
  /\ calls' = calls + 1

(* The first open is not counted: nothing works before it. *)
Open ==
  /\ pc = "idle"
  /\ sock # "none" => calls < MaxCalls
  /\ calls' = IF sock = "none" THEN calls ELSE calls + 1
  /\ Reconnect("open")

UseOpenConnection(o) ==
  /\ Begin
  /\ IsOpen
  /\ Proceed(o)
  /\ UNCHANGED <<tcp, wire, gateway, history>>

UseNewConnection(o) ==
  /\ Begin
  /\ ~IsOpen
  /\ sock # "none"
  /\ Reconnect(o)

(* close() of the socket that was never made raises, in each of the calls. *)
NeverOpened ==
  /\ Begin
  /\ sock = "none"
  /\ UNCHANGED <<tcp, wire, gateway, pc, op, reader, history>>

Close ==
  /\ Begin
  /\ sock # "none"
  /\ sock' = "closed"
  /\ ForgetConnection
  /\ UNCHANGED <<conn, unsolicited, pc, op, reader, history>>

(* The routing activation request, and the reader for its response.  On a   *)
(* connection the gateway has left it may still be accepted by the socket,  *)
(* or fail, which closes the socket.                                        *)
Activate ==
  /\ pc = "activate"
  /\ \/ /\ toPeer' = IF peer = "up" THEN Append(toPeer, Msg("activation", 0)) ELSE toPeer
        /\ pc' = "read"
        /\ BeginReader("activation")
        /\ UNCHANGED <<tcp, net, rx, granted, working, op, answers, disturbed, reports>>
     \/ /\ peer = "down"
        /\ sock' = "closed"
        /\ ForgetConnection
        /\ UNCHANGED <<conn, disturbed>>
        /\ Return(0)
  /\ UNCHANGED <<unsolicited, calls, sentOn, taken, served>>

(* An earlier request of this connection has not been answered. *)
Abandons ==
  /\ Requests > 0
  /\ sentOn[Requests] = conn
  /\ \A i \in DOMAIN answers : answers[i].tag # Requests

(* Mutant: send() does not await the acknowledgement. *)
TransmitOnly ==
  /\ pc = "transmit"
  /\ sentOn' = Append(sentOn, conn)
  /\ toPeer' = IF peer = "up" THEN Append(toPeer, Msg("diagnostic", Requests + 1)) ELSE toPeer
  /\ disturbed' = (disturbed \/ Abandons)
  /\ pc' = "idle"
  /\ op' = "none"
  /\ EndReader
  /\ UNCHANGED <<tcp, net, rx, gateway, calls, answers, taken, reports, served>>

(* The diagnostic request; its acknowledgement is awaited in every case,    *)
(* also when the socket of a connection the gateway has left takes nothing. *)
Transmit ==
  /\ pc = "transmit"
  /\ sentOn' = Append(sentOn, conn)
  /\ toPeer' = IF peer = "up" THEN Append(toPeer, Msg("diagnostic", Requests + 1)) ELSE toPeer
  /\ written' \in IF peer = "up" THEN {TRUE} ELSE BOOLEAN
  /\ disturbed' = (disturbed \/ Abandons)
  /\ pc' = "read"
  /\ BeginReader("ack")
  /\ UNCHANGED <<tcp, net, rx, gateway, op, calls, answers, taken, unactivated, unsent, served>>

-----------------------------------------------------------------------------
(* DoipUtils._read_doip. *)

(* The Parser of doipclient: the first message the pieces complete, and     *)
(* what it keeps of them; a stream joined in mid-message makes no sense.    *)
Lost == Msg("garbage", 0)
Parsed(held, pieces) ==
  LET first == Head(pieces)
      whole == first.part = "all" \/ (first.part = "rest" /\ held = first.msg)
      joined == first.part = "start" /\ Len(pieces) > 1
  IN IF held = Lost THEN [msg |-> NoMessage, keep |-> Lost]
     ELSE IF whole \/ joined THEN [msg |-> first.msg, keep |-> NoMessage]
     ELSE [msg |-> NoMessage, keep |-> IF first.part = "start" THEN first.msg ELSE Lost]

(* More is on its way on this connection. *)
Outstanding == wire # <<<<>>, <<>>, <<>>>> \/ working # 0

(* The reader returns None, and its caller gives up. *)
GiveUp == Return(0)

Responses(pieces) ==
  {n \in 1..Requests : \E i \in DOMAIN pieces :
     pieces[i].msg = Msg("response", n) /\ pieces[i].part # "start"}

Receive ==
  /\ pc = "read"
  /\ rx # <<>>
  /\ data' = rx
  /\ rx' = <<>>
  /\ taken' = taken \cup Responses(rx)
  /\ pc' = "parse"
  /\ UNCHANGED <<tcp, toPeer, net, gateway, op, stage, parser, calls, sentOn, answers, disturbed, reports, served>>

(* Mutant: an empty recv does not end the reader. *)
ReceiveNothingAgain == pc = "read" /\ rx = <<>> /\ UNCHANGED vars

(* recv waits its whole timeout, or finds the end of the stream. *)
ReceiveNothing ==
  /\ pc = "read"
  /\ rx = <<>>
  /\ ~Outstanding \/ "slow" \in Faults
  /\ disturbed' = (disturbed \/ Outstanding)
  /\ GiveUp
  /\ UNCHANGED <<tcp, wire, gateway, calls, sentOn, taken, served>>

(* The deadline is looked at between a recv and the parser: what the recv   *)
(* returned is dropped.                                                     *)
DeadlinePassed ==
  /\ pc = "parse"
  /\ "slow" \in Faults
  /\ disturbed' = TRUE
  /\ GiveUp
  /\ UNCHANGED <<tcp, wire, gateway, calls, sentOn, taken, served>>

parsed == Parsed(parser, data)

ReadOn ==
  /\ pc = "parse"
  /\ parsed.msg = NoMessage
  /\ parser' = parsed.keep
  /\ data' = <<>>
  /\ pc' = "read"
  /\ UNCHANGED <<tcp, wire, gateway, op, stage, calls, history>>

(* The first message is the reader's result; whatever follows it in the     *)
(* same bytes goes with the reader's Parser.                                *)
Drops == Len(data) > (IF data[1].part = "start" THEN 2 ELSE 1)

FirstMessage ==
  /\ pc = "parse"
  /\ parsed.msg # NoMessage
  /\ disturbed' = (disturbed \/ Drops)
  /\ UNCHANGED <<tcp, wire, gateway, calls, sentOn, taken, served>>

RoutingActivated ==
  /\ FirstMessage
  /\ stage = "activation"
  /\ parsed.msg.kind = "activated"
  /\ Proceed(op)
  /\ UNCHANGED <<answers, reports>>

(* The connection is kept: the next call takes it for an activated one. *)
ActivationFailed ==
  /\ FirstMessage
  /\ stage = "activation"
  /\ parsed.msg.kind # "activated"
  /\ Return(0)

(* send() returns the bytes sent, whatever the acknowledgement was. *)
AckRead ==
  /\ FirstMessage
  /\ stage = "ack"
  /\ Return(0)

(* Mutant: a message of another kind returns the last response again. *)
ResponseReadAgain ==
  /\ FirstMessage
  /\ stage = "response"
  /\ Return(IF parsed.msg.kind = "response" THEN parsed.msg.tag
            ELSE IF answers # <<>> THEN answers[Len(answers)].tag ELSE 0)

ResponseRead ==
  /\ FirstMessage
  /\ stage = "response"
  /\ Return(IF parsed.msg.kind = "response" THEN parsed.msg.tag ELSE 0)

TesterStep ==
  \/ Activate \/ Transmit
  \/ Receive \/ ReceiveNothing \/ DeadlinePassed
  \/ ReadOn \/ RoutingActivated \/ ActivationFailed \/ AckRead \/ ResponseRead

-----------------------------------------------------------------------------
(* The TCP stream and the gateway. *)

(* The next message arrives, or its first or second half: a response may be *)
(* longer than a segment, the other messages have a dozen bytes.            *)
Arrive ==
  /\ net # <<>>
  /\ rx = <<>> \/ "coalesce" \in Faults
  /\ \/ /\ rx' = Append(rx, Head(net))
        /\ net' = Tail(net)
     \/ /\ "split" \in Faults
        /\ Head(net).part = "all" /\ Head(net).msg.kind = "response"
        /\ rx' = Append(rx, [Head(net) EXCEPT !.part = "start"])
        /\ net' = <<[Head(net) EXCEPT !.part = "rest"]>> \o Tail(net)
  /\ UNCHANGED <<tcp, toPeer, gateway, pc, op, reader, calls, history>>

Tell(m) == net' = Append(net, Piece(m, "all"))

GatewayActivates ==
  /\ peer = "up"
  /\ toPeer # <<>>
  /\ Head(toPeer).kind = "activation"
  /\ toPeer' = Tail(toPeer)
  /\ \/ granted' = TRUE /\ Tell(Msg("activated", 0)) /\ UNCHANGED disturbed
     \/ /\ "refusesActivation" \in Faults
        /\ Tell(Msg("refused", 0))
        /\ disturbed' = TRUE
        /\ UNCHANGED granted
  /\ UNCHANGED <<tcp, rx, working, unsolicited, pc, op, reader, calls, sentOn, answers, taken, reports, served>>

Routable == granted \/ ~ActivationNeeded

GatewayAccepts ==
  /\ peer = "up"
  /\ toPeer # <<>>
  /\ Head(toPeer).kind = "diagnostic"
  /\ working = 0
  /\ Routable
  /\ toPeer' = Tail(toPeer)
  /\ working' = Head(toPeer).tag
  /\ served' = served \cup {Head(toPeer).tag}
  /\ Tell(Msg("ack", Head(toPeer).tag))
  /\ UNCHANGED <<tcp, rx, granted, unsolicited, pc, op, reader, calls, sentOn, answers, taken,
                 disturbed, reports>>

GatewayRejects ==
  /\ peer = "up"
  /\ toPeer # <<>>
  /\ Head(toPeer).kind = "diagnostic"
  /\ ~Routable \/ "nack" \in Faults
  /\ toPeer' = Tail(toPeer)
  /\ Tell(Msg("nack", Head(toPeer).tag))
  /\ disturbed' = TRUE
  /\ UNCHANGED <<tcp, rx, gateway, pc, op, reader, calls, sentOn, answers, taken, reports, served>>

GatewayResponds ==
  /\ peer = "up"
  /\ working # 0
  /\ working' = 0
  /\ Tell(Msg("response", working))
  /\ UNCHANGED <<tcp, toPeer, rx, granted, unsolicited, pc, op, reader, calls, history>>

(* An alive check request or a generic negative acknowledgement. *)
GatewaySpeaks ==
  /\ "unsolicited" \in Faults
  /\ unsolicited < MaxUnsolicited
  /\ sock = "connected"
  /\ peer = "up"
  /\ unsolicited' = unsolicited + 1
  /\ Tell(Msg("unsolicited", 0))
  /\ disturbed' = TRUE
  /\ UNCHANGED <<tcp, toPeer, rx, granted, working, pc, op, reader, calls, sentOn, answers, taken, reports, served>>

GatewayCloses ==
  /\ "closes" \in Faults
  /\ sock = "connected"
  /\ peer = "up"
  /\ peer' = "down"
  /\ toPeer' = <<>>
  /\ granted' = FALSE
  /\ working' = 0
  /\ disturbed' = TRUE
  /\ UNCHANGED <<sock, conn, net, rx, unsolicited, pc, op, reader, calls, sentOn, answers, taken, reports, served>>

GatewayStep == GatewayActivates \/ GatewayAccepts \/ GatewayRejects \/ GatewayResponds

AllCallsDone ==
  /\ pc = "idle"
  /\ calls = MaxCalls
  /\ UNCHANGED vars

Next ==
  \/ Open \/ NeverOpened \/ Close
  \/ \E o \in {"send", "recv"} : UseOpenConnection(o) \/ UseNewConnection(o)
  \/ TesterStep
  \/ Arrive
  \/ GatewayStep \/ GatewaySpeaks \/ GatewayCloses
  \/ AllCallsDone

Fairness == WF_vars(TesterStep) /\ WF_vars(Arrive) /\ WF_vars(GatewayStep)

Spec == Init /\ [][Next]_vars /\ Fairness

-----------------------------------------------------------------------------
(* Properties. *)

(* Every variable has the type its code gives it; a reader's Parser and the  *)
(* bytes it holds end with the reader (doip_utils.py:326-348), and nothing   *)
(* of a connection is left when it is gone.                                  *)
TypeOK ==
  /\ sock \in {"none", "unconnected", "connected", "closed"}
  /\ conn \in Nat
  /\ peer \in {"up", "down"}
  /\ toPeer \in Seq([kind : {"activation", "diagnostic"}, tag : Nat])
  /\ net \in Seq([msg : Message, part : Parts])
  /\ rx \in Seq([msg : Message, part : Parts])
  /\ granted \in BOOLEAN
  /\ working \in 0..Requests
  /\ unsolicited \in Nat
  /\ pc \in {"idle", "activate", "transmit", "read", "parse"}
  /\ op \in {"none", "open", "send", "recv"}
  /\ stage \in {"none", "activation", "ack", "response"}
  /\ parser \in Message \cup {NoMessage, Lost}
  /\ data \in Seq([msg : Message, part : Parts])
  /\ calls \in Nat
  /\ sentOn \in Seq(1..conn)
  /\ answers \in Seq([tag : 0..Requests, asked : 0..Requests, conn : Nat, inStep : BOOLEAN])
  /\ taken \subseteq 1..Requests
  /\ disturbed \in BOOLEAN /\ written \in BOOLEAN /\ unactivated \in BOOLEAN
  /\ unsent \subseteq 1..Requests
  /\ served \subseteq 1..Requests
  /\ pc = "idle" <=> op = "none"
  /\ pc \in {"read", "parse"} <=> stage # "none"
  /\ stage = "none" => parser = NoMessage /\ data = <<>>
  /\ sock # "connected" => wire = <<<<>>, <<>>, <<>>>> /\ ~granted

(* A send that returns that nothing was sent may be repeated: the ECU was not *)
(* given the request then and never will be.  send returns the bytes the      *)
(* socket took (doip_utils.py:253-257), acknowledged or not, and an           *)
(* acknowledgement that is late, dropped or read by somebody else says        *)
(* nothing of the request.  UdsUtils raises on such a send                    *)
(* (uds_utils.py:589-591).                                                    *)
UnsentIsNeverServed == unsent \cap served = {}

(* On a connection where nothing happened out of turn since it was made (no  *)
(* reader gave up on what was still to come, nothing was dropped, refused or *)
(* sent unasked, no request was made before the answer to the last one was   *)
(* read) the first recv after a send returns the answer to it: a new         *)
(* connection puts requests and answers back in step.                        *)
InStep ==
  \A i \in DOMAIN answers :
    LET a == answers[i] IN
      (/\ a.inStep
       /\ a.asked > 0
       /\ sentOn[a.asked] = a.conn
       /\ \A j \in 1..i-1 : answers[j].asked # a.asked) => a.tag = a.asked

(* When routing activation is needed, a diagnostic request leaves for the    *)
(* gateway over a connection without it only after the activation of that    *)
(* very connection failed and a call said so: open returned False, send 0    *)
(* bytes, recv none (doip_communicator.py:26-28, 51-53, 67).  Nothing else   *)
(* that goes wrong on a connection lets a request overtake its activation.   *)
ActivationComesFirst ==
  (/\ ActivationNeeded
   /\ \E i \in DOMAIN toPeer : toPeer[i].kind = "diagnostic") => (granted \/ unactivated)

(* The communicator keeps its types, and no request leaves before activation *)
(* where activation is needed, unless the caller was told.                   *)
LinkInv == TypeOK /\ ActivationComesFirst

(* The docstring of read_uds_response: "UDS response in bytes if received a  *)
(* valid response" (doip_utils.py:267).  When the last request has been      *)
(* answered, and its response has left the socket, recv returns it.          *)
ReceivedResponseIsReturned ==
  \A i \in DOMAIN answers :
    (i = Len(answers) /\ pc = "idle" /\ answers[i].asked = Requests /\ Requests \in taken)
      => \E j \in 1..i : answers[j].tag = Requests

(* Every call ends, whatever the gateway does. *)
EveryCallEnds == pc # "idle" ~> pc = "idle"

(* The communicator is the lossy link that UdsExchange is written against. *)
Link == INSTANCE LossyLink WITH
  asked <- Requests,
  answered <- [i \in DOMAIN answers |-> answers[i].tag]
IsLossyLink == Link!Spec

=============================================================================
