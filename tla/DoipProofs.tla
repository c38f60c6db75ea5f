----------------------------- MODULE DoipProofs -----------------------------
(***************************************************************************)
(* Proofs about DoipLink, for every number of calls, every set of faults,  *)
(* with and without routing activation: what is in flight is of the         *)
(* connection, answers are in order, the communicator is a LossyLink, and   *)
(* requests and responses are in step until something goes out of turn.     *)
(***************************************************************************)
EXTENDS DoipLink, SequenceTheorems, TLAPS

PieceType == [msg : Message, part : Parts]
RequestType == [kind : {"activation", "diagnostic"}, tag : Nat]
AnswerType == [tag : Nat, asked : Nat, conn : Nat, inStep : BOOLEAN]

(* The variables of the tester, and how its place in a call, the reader and *)
(* the socket go together.                                                  *)
TesterTypes ==
  /\ pc \in {"idle", "activate", "transmit", "read", "parse"}
  /\ op \in {"none", "open", "send", "recv"}
  /\ stage \in {"none", "activation", "ack", "response"}
  /\ parser \in Message \cup {NoMessage, Lost}
  /\ data \in Seq(PieceType)
  /\ calls \in Nat
  /\ pc = "idle" <=> op = "none"
  /\ pc = "transmit" => op = "send"
  /\ pc \in {"read", "parse"} <=> stage # "none"
  /\ stage = "ack" => op = "send"
  /\ stage = "response" => op = "recv"
  /\ stage = "none" => parser = NoMessage
  /\ pc # "parse" <=> data = <<>>
  /\ pc # "idle" => sock = "connected"

(* The connection: nothing is left of it when the socket is not connected.  *)
WireTypes ==
  /\ sock \in {"none", "unconnected", "connected", "closed"}
  /\ conn \in Nat
  /\ peer \in {"up", "down"}
  /\ toPeer \in Seq(RequestType)
  /\ net \in Seq(PieceType)
  /\ rx \in Seq(PieceType)
  /\ granted \in BOOLEAN
  /\ working \in Nat
  /\ unsolicited \in Nat
  /\ disturbed \in BOOLEAN
  /\ sock = "connected" => conn > 0
  /\ sock # "connected" => /\ toPeer = <<>> /\ net = <<>> /\ rx = <<>>
                           /\ granted = FALSE /\ working = 0
  /\ peer = "down" => disturbed = TRUE

(* The histories. *)
HistoryTypes ==
  /\ sentOn \in Seq(Nat \ {0})
  /\ \A n \in 1..Requests : sentOn[n] <= conn
  /\ answers \in Seq(AnswerType)
  /\ \A i \in DOMAIN answers : answers[i].asked <= Requests /\ answers[i].tag <= answers[i].asked
  /\ taken \subseteq 1..Requests

(* A request of the current connection.                                     *)
Live(n) == n \in 1..Requests /\ sentOn[n] = conn

(* Whatever can still lead to an answer is about a request of the current   *)
(* connection.                                                              *)
LiveMessage(m) == m.kind = "response" => Live(m.tag)
AllLive(s) == \A i \in DOMAIN s : LiveMessage(s[i].msg)
LiveRequests(s) == \A i \in DOMAIN s : s[i].kind = "diagnostic" => Live(s[i].tag)
Flight ==
  /\ LiveRequests(toPeer)
  /\ working # 0 => Live(working)
  /\ AllLive(net) /\ AllLive(rx) /\ AllLive(data)
  /\ LiveMessage(parser)

(* Before the gateway has activated routing it says nothing of it, no       *)
(* diagnostic request is on its way, and the tester is activating: until    *)
(* the activation has failed and its call has ended.  A connection the      *)
(* gateway has left carries no requests.                                    *)
NoDiagnostic(s) == \A i \in DOMAIN s : s[i].kind = "activation"
Quiet(s) == \A i \in DOMAIN s : s[i].msg.kind # "activated"
BeforeActivation ==
  /\ NoDiagnostic(toPeer)
  /\ Quiet(net) /\ Quiet(rx) /\ Quiet(data)
  /\ sock = "connected" => pc = "activate" \/ stage = "activation"
Activation ==
  /\ peer = "down" => toPeer = <<>>
  /\ ActivationNeeded => (granted \/ unactivated \/ peer = "down" \/ BeforeActivation)

(* What recv returned answers a request of the connection it read.          *)
AnswersAreOfTheConnection ==
  \A i \in DOMAIN answers :
    answers[i].tag # 0 => sentOn[answers[i].tag] = answers[i].conn

(* A request of which nothing was sent is nowhere on its way to the ECU, and *)
(* none whose send is about to say so.                                      *)
Gone(n) ==
  /\ n \notin served
  /\ \A i \in DOMAIN toPeer : toPeer[i].kind = "diagnostic" => toPeer[i].tag # n
SendInv ==
  /\ written \in BOOLEAN /\ unactivated \in BOOLEAN
  /\ served \subseteq 1..Requests
  /\ unsent \subseteq 1..Requests
  /\ \A n \in unsent : Gone(n)
  /\ stage = "ack" /\ ~written => Requests > 0 /\ Gone(Requests)

LinkIInv ==
  TesterTypes /\ WireTypes /\ HistoryTypes /\ Flight /\ Activation /\ AnswersAreOfTheConnection /\ SendInv

(* Of two pieces with responses in the stream the first is about an earlier *)
(* request, or they are the two halves of one message.                      *)
Follows(p, q) ==
  (p.msg.kind = "response" /\ q.msg.kind = "response") =>
    \/ p.msg.tag < q.msg.tag
    \/ p.part = "start" /\ q.part = "rest" /\ p.msg = q.msg

InOrder(s) == \A i, j \in DOMAIN s : i < j => Follows(s[i], s[j])
Ahead(s, t) == \A i \in DOMAIN s, j \in DOMAIN t : Follows(s[i], t[j])

(* The responses in s are about requests before request n. *)
Earlier(s, n) == \A i \in DOMAIN s : s[i].msg.kind = "response" => s[i].msg.tag < n

(* What Parser holds is the start of a message.                             *)
Held == IF parser.kind = "response" THEN <<Piece(parser, "start")>> ELSE <<>>

Ordered ==
  /\ InOrder(data) /\ InOrder(rx) /\ InOrder(net)
  /\ Ahead(data, rx) /\ Ahead(data, net) /\ Ahead(rx, net)
  /\ Ahead(Held, data) /\ Ahead(Held, rx) /\ Ahead(Held, net)

(* The gateway answers in turn: what it has answered is about requests      *)
(* before the one it works on, and that one before those on their way.      *)
AllBefore(n) == Earlier(Held, n) /\ Earlier(data, n) /\ Earlier(rx, n) /\ Earlier(net, n)
RequestOrder ==
  /\ working # 0 => AllBefore(working)
  /\ \A i \in DOMAIN toPeer : toPeer[i].kind = "diagnostic" =>
       AllBefore(toPeer[i].tag) /\ working < toPeer[i].tag
  /\ \A i, j \in DOMAIN toPeer :
       (i < j /\ toPeer[i].kind = "diagnostic" /\ toPeer[j].kind = "diagnostic") =>
         toPeer[i].tag < toPeer[j].tag

(* An answer once returned is older than all that can still be returned:    *)
(* the rest of a message alone cannot.                                      *)
Newer(n, s) ==
  \A i \in DOMAIN s : (s[i].msg.kind = "response" /\ s[i].part # "rest") => n < s[i].msg.tag
Unused(n) ==
  /\ Newer(n, data) /\ Newer(n, rx) /\ Newer(n, net) /\ Newer(n, Held)
  /\ working # 0 => n < working
  /\ \A i \in DOMAIN toPeer : toPeer[i].kind = "diagnostic" => n < toPeer[i].tag

AnswerOrder ==
  /\ \A i \in DOMAIN answers : answers[i].tag # 0 => Unused(answers[i].tag)
  /\ \A i, j \in DOMAIN answers :
       (i < j /\ answers[j].tag # 0) => answers[i].tag < answers[j].tag

OrderIInv == LinkIInv /\ Ordered /\ RequestOrder /\ AnswerOrder

-----------------------------------------------------------------------------
(* What the steps put together.                                             *)

LEMMA PieceOf ==
  ASSUME NEW m \in Message, NEW p \in Parts
  PROVE  /\ Piece(m, p) \in PieceType
         /\ Piece(m, p).msg = m /\ Piece(m, p).part = p
BY DEF Piece, PieceType

LEMMA MsgOf ==
  ASSUME NEW k \in {"activated", "refused", "ack", "nack", "response", "unsolicited"}, NEW n \in Nat
  PROVE  Msg(k, n) \in Message /\ Msg(k, n).kind = k /\ Msg(k, n).tag = n
BY DEF Msg, Message

LEMMA NoMessageOf ==
  /\ NoMessage.kind = "none" /\ Lost.kind = "garbage"
  /\ NoMessage \notin Message /\ Lost \notin Message
BY DEF NoMessage, Lost, Msg, Message

LEMMA AppendOne ==
  ASSUME NEW S, NEW s \in Seq(S), NEW e \in S
  PROVE  /\ Append(s, e) \in Seq(S)
         /\ Len(s) \in Nat /\ DOMAIN s = 1..Len(s)
         /\ DOMAIN Append(s, e) = 1..Len(s)+1
         /\ \A i \in 1..Len(s) : Append(s, e)[i] = s[i]
         /\ Append(s, e)[Len(s)+1] = e
         /\ \A i \in DOMAIN Append(s, e) :
              \/ i \in DOMAIN s /\ i <= Len(s) /\ Append(s, e)[i] = s[i]
              \/ i = Len(s)+1 /\ Append(s, e)[i] = e
<1>1. /\ Append(s, e) \in Seq(S) /\ Len(Append(s, e)) = Len(s) + 1
      /\ \A i \in 1..Len(s) : Append(s, e)[i] = s[i]
      /\ Append(s, e)[Len(s)+1] = e
  BY AppendProperties
<1>2. Len(s) \in Nat /\ DOMAIN s = 1..Len(s) /\ DOMAIN Append(s, e) = 1..Len(s)+1
  BY <1>1, LenProperties
<1> QED
  BY <1>1, <1>2

LEMMA HeadTail ==
  ASSUME NEW S, NEW s \in Seq(S), s # <<>>
  PROVE  /\ Head(s) \in S /\ Head(s) = s[1] /\ 1 \in DOMAIN s
         /\ Tail(s) \in Seq(S) /\ Len(Tail(s)) = Len(s)-1
         /\ Len(s) \in Nat /\ Len(s) > 0 /\ DOMAIN s = 1..Len(s)
         /\ DOMAIN Tail(s) = 1..Len(s)-1
         /\ \A i \in DOMAIN Tail(s) : i+1 \in DOMAIN s /\ Tail(s)[i] = s[i+1]
<1>1. /\ Head(s) \in S /\ Head(s) = s[1] /\ Tail(s) \in Seq(S) /\ Len(Tail(s)) = Len(s)-1
      /\ \A i \in 1..Len(s)-1 : Tail(s)[i] = s[i+1]
  BY HeadTailProperties
<1>2. Len(s) \in Nat \ {0} /\ DOMAIN s = 1..Len(s)
  BY LenProperties, EmptySeq
<1>3. DOMAIN Tail(s) = 1..Len(s)-1
  BY <1>1, LenProperties
<1> QED
  BY <1>1, <1>2, <1>3

LEMMA PutInFront ==
  ASSUME NEW S, NEW q \in S, NEW s \in Seq(S)
  PROVE  /\ <<q>> \o s \in Seq(S) /\ Len(<<q>> \o s) = 1 + Len(s)
         /\ (<<q>> \o s)[1] = q
         /\ \A i \in 2..1+Len(s) : (<<q>> \o s)[i] = s[i - 1]
OBVIOUS

(* The Parser completes the first message of what recv returned, or keeps   *)
(* its start, or is lost.                                                   *)
LEMMA ParsedFacts ==
  ASSUME TesterTypes, pc = "parse"
  PROVE  /\ data[1] \in PieceType /\ data[1].msg \in Message /\ data[1].part \in Parts
         /\ Len(data) \in Nat /\ Len(data) > 0 /\ DOMAIN data = 1..Len(data) /\ 1 \in DOMAIN data
         /\ \/ parsed.msg = NoMessage /\ parsed.keep = Lost
            \/ /\ parsed.msg = NoMessage /\ parsed.keep = data[1].msg
               /\ data[1].part = "start"
            \/ /\ parsed.msg = data[1].msg /\ parsed.msg # NoMessage
               /\ data[1].part = "rest" => parser = data[1].msg
<1>1. data \in Seq(PieceType) /\ data # <<>>
  BY DEF TesterTypes
<1>2. /\ data[1] \in PieceType /\ Head(data) = data[1] /\ 1 \in DOMAIN data
      /\ Len(data) \in Nat /\ Len(data) > 0 /\ DOMAIN data = 1..Len(data)
  BY <1>1, HeadTail
<1>3. data[1].msg \in Message /\ data[1].part \in Parts
  BY <1>2 DEF PieceType
<1>4. data[1].msg # NoMessage
  BY <1>3, NoMessageOf
<1> DEFINE whole == data[1].part = "all" \/ (data[1].part = "rest" /\ parser = data[1].msg)
           joined == data[1].part = "start" /\ Len(data) > 1
<1>5. parsed = IF parser = Lost THEN [msg |-> NoMessage, keep |-> Lost]
               ELSE IF whole \/ joined THEN [msg |-> data[1].msg, keep |-> NoMessage]
               ELSE [msg |-> NoMessage, keep |-> IF data[1].part = "start" THEN data[1].msg ELSE Lost]
  BY <1>2, Zenon DEF parsed, Parsed
<1>6. CASE parser = Lost
  BY <1>2, <1>3, <1>5, <1>6
<1>7. CASE parser # Lost /\ (whole \/ joined)
  <2>1. parsed.msg = data[1].msg
    BY <1>5, <1>7
  <2>2. data[1].part = "rest" => parser = data[1].msg
    BY <1>7
  <2> QED
    BY <1>2, <1>3, <1>4, <2>1, <2>2
<1>8. CASE parser # Lost /\ ~(whole \/ joined)
  <2>1. /\ parsed.msg = NoMessage
        /\ parsed.keep = IF data[1].part = "start" THEN data[1].msg ELSE Lost
    BY <1>5, <1>8
  <2> QED
    BY <1>2, <1>3, <2>1
<1> QED
  BY <1>6, <1>7, <1>8

-----------------------------------------------------------------------------
(* The types are kept, by variables of one kind at a time.                  *)

USE DEF tcp, wire, gateway, reader, history, reports

Types == TesterTypes /\ WireTypes /\ HistoryTypes

(* A call that ends, and one that goes on over an open connection.          *)
LEMMA ReturnTester ==
  ASSUME NEW n, Return(n), TesterTypes, calls' = calls
  PROVE  TesterTypes'
BY EmptySeq DEF Return, EndReader, TesterTypes

LEMMA ProceedTester ==
  ASSUME NEW o \in {"open", "send", "recv"}, Proceed(o), sock' = "connected", calls' \in Nat
  PROVE  TesterTypes'
<1>1. data' = <<>> /\ parser' = NoMessage /\ <<>> \in Seq(PieceType)
  BY EmptySeq DEF Proceed, BeginReader, EndReader
<1>2. CASE o = "open"
  BY <1>1, <1>2 DEF Proceed, BeginReader, EndReader, TesterTypes
<1>3. CASE o = "send"
  BY <1>1, <1>3 DEF Proceed, BeginReader, EndReader, TesterTypes
<1>4. CASE o = "recv"
  BY <1>1, <1>4 DEF Proceed, BeginReader, EndReader, TesterTypes
<1> QED
  BY <1>2, <1>3, <1>4

LEMMA ReconnectTester ==
  ASSUME NEW o \in {"open", "send", "recv"}, Reconnect(o), TesterTypes, pc = "idle", calls' \in Nat
  PROVE  TesterTypes'
<1>1. CASE Connect /\ AfterConnect(o)
  <2>1. sock' = "connected"
    BY <1>1 DEF Connect
  <2>2. CASE Proceed(o)
    BY <2>1, <2>2, ProceedTester
  <2>3. CASE pc' = "activate" /\ op' = o /\ EndReader
    BY <2>1, <2>3, EmptySeq DEF EndReader, TesterTypes
  <2> QED
    BY <1>1, <2>2, <2>3 DEF AfterConnect
<1>2. CASE ConnectRaises /\ UNCHANGED <<pc, op, reader>>
  BY <1>2 DEF TesterTypes
<1> QED
  BY <1>1, <1>2 DEF Reconnect

LEMMA TesterKept == TesterTypes /\ WireTypes /\ [Next]_vars => TesterTypes'
<1> SUFFICES ASSUME TesterTypes, WireTypes, [Next]_vars PROVE TesterTypes'
  OBVIOUS
<1>0. calls \in Nat
  BY DEF TesterTypes
<1>1. CASE Open
  BY <1>0, <1>1, ReconnectTester DEF Open
<1>2. CASE NeverOpened \/ Close
  BY <1>2 DEF NeverOpened, Close, Begin, TesterTypes
<1>3. ASSUME NEW o \in {"send", "recv"}, UseOpenConnection(o) PROVE TesterTypes'
  <2>1. Proceed(o) /\ sock' = "connected" /\ calls' \in Nat
    BY <1>0, <1>3 DEF UseOpenConnection, Begin, IsOpen
  <2> QED
    BY <1>3, <2>1, ProceedTester
<1>4. ASSUME NEW o \in {"send", "recv"}, UseNewConnection(o) PROVE TesterTypes'
  <2>1. Reconnect(o) /\ pc = "idle" /\ calls' \in Nat
    BY <1>0, <1>4 DEF UseNewConnection, Begin
  <2> QED
    BY <1>4, <2>1, ReconnectTester
<1>5. CASE Activate
  <2>1. CASE Return(0)
    BY <1>5, <2>1, ReturnTester DEF Activate
  <2>2. CASE ~Return(0)
    <3>1. /\ pc = "activate" /\ pc' = "read" /\ BeginReader("activation")
          /\ UNCHANGED <<sock, op, calls>>
      BY <1>5, <2>2 DEF Activate
    <3> QED
      BY <3>1, EmptySeq DEF BeginReader, TesterTypes
  <2> QED
    BY <2>1, <2>2
<1>6. CASE Transmit
  BY <1>6, EmptySeq DEF Transmit, BeginReader, TesterTypes
<1>7. CASE Receive
  BY <1>7 DEF Receive, TesterTypes, WireTypes
<1>8. CASE ReceiveNothing \/ DeadlinePassed \/ ActivationFailed \/ AckRead \/ ResponseRead
  <2>1. PICK n : Return(n)
    BY <1>8 DEF ReceiveNothing, DeadlinePassed, GiveUp, ActivationFailed, AckRead, ResponseRead
  <2>2. calls' = calls
    BY <1>8 DEF ReceiveNothing, DeadlinePassed, ActivationFailed, AckRead, ResponseRead, FirstMessage
  <2> QED
    BY <2>1, <2>2, ReturnTester
<1>9. CASE ReadOn
  <2>1. parser' \in Message \cup {NoMessage, Lost}
    BY <1>9, ParsedFacts DEF ReadOn
  <2> QED
    BY <1>9, <2>1, EmptySeq DEF ReadOn, TesterTypes
<1>10. CASE RoutingActivated
  <2>1. Proceed(op) /\ op \in {"open", "send", "recv"} /\ sock' = "connected" /\ calls' \in Nat
    BY <1>10 DEF RoutingActivated, FirstMessage, TesterTypes
  <2> QED
    BY <2>1, ProceedTester
<1>11. CASE Arrive \/ GatewayStep \/ AllCallsDone \/ UNCHANGED vars
  BY <1>11 DEF Arrive, GatewayStep, GatewayActivates, GatewayAccepts, GatewayRejects,
     GatewayResponds, AllCallsDone, vars, TesterTypes
<1>12. CASE GatewaySpeaks \/ GatewayCloses
  BY <1>12 DEF GatewaySpeaks, GatewayCloses, TesterTypes
<1> QED
  BY <1>1, <1>2, <1>3, <1>4, <1>5, <1>6, <1>7, <1>8, <1>9, <1>10, <1>11, <1>12
     DEF Next, TesterStep

-----------------------------------------------------------------------------

LEMMA TellNet ==
  ASSUME WireTypes, NEW m \in Message, Tell(m)
  PROVE  net' \in Seq(PieceType)
<1>1. net \in Seq(PieceType) /\ Piece(m, "all") \in PieceType
  BY PieceOf DEF WireTypes, Parts
<1> QED
  BY <1>1, AppendOne DEF Tell

LEMMA ToPeerHead ==
  ASSUME WireTypes, toPeer # <<>>
  PROVE  /\ Head(toPeer) \in RequestType /\ Head(toPeer) = toPeer[1] /\ 1 \in DOMAIN toPeer
         /\ Head(toPeer).tag \in Nat
         /\ Tail(toPeer) \in Seq(RequestType)
         /\ Len(toPeer) \in Nat /\ Len(toPeer) > 0 /\ DOMAIN toPeer = 1..Len(toPeer)
         /\ DOMAIN Tail(toPeer) = 1..Len(toPeer)-1
         /\ \A i \in DOMAIN Tail(toPeer) : i+1 \in DOMAIN toPeer /\ Tail(toPeer)[i] = toPeer[i+1]
<1>1. toPeer \in Seq(RequestType)
  BY DEF WireTypes
<1>2. \A r \in RequestType : r.tag \in Nat
  BY DEF RequestType
<1> QED
  BY <1>1, <1>2, HeadTail

(* A piece cut in two.                                                      *)
LEMMA Halves ==
  ASSUME NEW p \in PieceType, NEW h \in Parts
  PROVE  /\ [p EXCEPT !.part = h] \in PieceType
         /\ [p EXCEPT !.part = h].msg = p.msg /\ [p EXCEPT !.part = h].part = h
BY DEF PieceType

(* What an arrival moves from net to rx: a piece, or its first half.        *)
LEMMA ArriveEffect ==
  ASSUME WireTypes, Arrive
  PROVE  \E p \in PieceType :
           /\ net # <<>> /\ rx' = Append(rx, p)
           /\ UNCHANGED <<tcp, toPeer, gateway, pc, op, reader, calls, history>>
           /\ \/ p = net[1] /\ net' = Tail(net)
              \/ \E q \in PieceType :
                   /\ net[1].part = "all" /\ p.part = "start" /\ q.part = "rest"
                   /\ net[1].msg = p.msg /\ q.msg = p.msg /\ p.msg.kind = "response"
                   /\ net' \in Seq(PieceType)
                   /\ DOMAIN net' = DOMAIN net /\ net'[1] = q
                   /\ \A i \in DOMAIN net : i # 1 => net'[i] = net[i]
<1> DEFINE ns == net
           Same == UNCHANGED <<tcp, toPeer, gateway, pc, op, reader, calls, history>>
<1>1. ns \in Seq(PieceType) /\ ns # <<>> /\ Same
  BY DEF WireTypes, Arrive
<1>2. /\ Head(ns) \in PieceType /\ Head(ns) = ns[1] /\ 1 \in DOMAIN ns
      /\ Tail(ns) \in Seq(PieceType) /\ Len(Tail(ns)) = Len(ns)-1 /\ Len(ns) \in Nat /\ Len(ns) > 0
      /\ DOMAIN ns = 1..Len(ns) /\ DOMAIN Tail(ns) = 1..Len(ns)-1
      /\ \A i \in DOMAIN Tail(ns) : i+1 \in DOMAIN ns /\ Tail(ns)[i] = ns[i+1]
  BY <1>1, HeadTail
<1>3. CASE rx' = Append(rx, Head(ns)) /\ net' = Tail(ns)
  BY <1>1, <1>2, <1>3
<1>4. CASE /\ Head(ns).part = "all" /\ Head(ns).msg.kind = "response"
           /\ rx' = Append(rx, [Head(ns) EXCEPT !.part = "start"])
           /\ net' = <<[Head(ns) EXCEPT !.part = "rest"]>> \o Tail(ns)
  <2> DEFINE p == [Head(ns) EXCEPT !.part = "start"]
             q == [Head(ns) EXCEPT !.part = "rest"]
             ts == Tail(ns)
  <2>1. /\ p \in PieceType /\ p.msg = ns[1].msg /\ p.part = "start"
        /\ q \in PieceType /\ q.msg = ns[1].msg /\ q.part = "rest"
    BY <1>2, Halves DEF Parts
  <2>2. ts \in Seq(PieceType) /\ DOMAIN ts = 1..Len(ns)-1 /\ Len(ts) = Len(ns)-1
        /\ \A i \in DOMAIN ts : ts[i] = ns[i+1]
    BY <1>2
  <2>3. rx' = Append(rx, p) /\ net' = <<q>> \o ts
    BY <1>4
  <2>4. ns[1].part = "all" /\ ns[1].msg.kind = "response"
    BY <1>2, <1>4
  <2> HIDE DEF p, q, ts, ns
  <2>5. Len(ts) = Len(ns)-1
    BY <2>2
  <2>7. /\ <<q>> \o ts \in Seq(PieceType) /\ Len(<<q>> \o ts) = 1 + Len(ts)
        /\ (<<q>> \o ts)[1] = q
        /\ \A i \in 2..1+Len(ts) : (<<q>> \o ts)[i] = ts[i - 1]
    BY <2>1, <2>2, PutInFront
  <2>8. /\ net' \in Seq(PieceType) /\ Len(net') = Len(ns) /\ net'[1] = q
        /\ \A i \in 2..Len(ns) : net'[i] = ts[i - 1]
        /\ DOMAIN net' = 1..Len(ns)
    <3>1. PICK c : c = <<q>> \o ts
      OBVIOUS
    <3>2. /\ c \in Seq(PieceType) /\ Len(c) = Len(ns) /\ c[1] = q
          /\ \A i \in 2..Len(ns) : c[i] = ts[i - 1]
      <4>1. Len(ns) = 1 + Len(ts)
        BY <1>2, <2>5
      <4>2. /\ c \in Seq(PieceType) /\ Len(c) = 1 + Len(ts) /\ c[1] = q
            /\ \A i \in 2..1+Len(ts) : c[i] = ts[i - 1]
        BY <2>7, <3>1
      <4> QED
        BY <4>1, <4>2
    <3>3. DOMAIN c = 1..Len(ns)
      BY <3>2, LenProperties
    <3> QED
      BY <2>3, <3>1, <3>2, <3>3
  <2>10. ASSUME NEW i \in DOMAIN ns, i # 1 PROVE net'[i] = ns[i]
    <3>1. i \in 2..Len(ns) /\ i - 1 \in DOMAIN ts /\ (i-1)+1 = i
      BY <1>2, <2>2, <2>10
    <3> QED
      BY <2>2, <2>8, <3>1
  <2>11. /\ ns # <<>> /\ rx' = Append(rx, p) /\ Same
         /\ ns[1].part = "all" /\ p.part = "start" /\ q.part = "rest"
         /\ ns[1].msg = p.msg /\ q.msg = p.msg /\ p.msg.kind = "response"
         /\ net' \in Seq(PieceType)
         /\ DOMAIN net' = DOMAIN ns /\ net'[1] = q
         /\ \A i \in DOMAIN ns : i # 1 => net'[i] = ns[i]
    BY <1>1, <1>2, <2>1, <2>3, <2>4, <2>8, <2>10
  <2> QED
    BY <2>1, <2>11 DEF ns
<1> QED
  BY <1>3, <1>4 DEF Arrive

(* The way to the gateway loses its head, or gets a request, or stays.       *)
LEMMA ToPeerAppend ==
  ASSUME WireTypes, NEW k \in {"activation", "diagnostic"}, NEW n \in Nat
  PROVE  /\ Msg(k, n) \in RequestType /\ Msg(k, n).kind = k /\ Msg(k, n).tag = n
         /\ Append(toPeer, Msg(k, n)) \in Seq(RequestType)
         /\ \A i \in DOMAIN Append(toPeer, Msg(k, n)) :
              \/ i \in DOMAIN toPeer /\ i <= Len(toPeer) /\ Append(toPeer, Msg(k, n))[i] = toPeer[i]
              \/ i = Len(toPeer)+1 /\ Append(toPeer, Msg(k, n))[i] = Msg(k, n)
<1>1. Msg(k, n) \in RequestType /\ Msg(k, n).kind = k /\ Msg(k, n).tag = n
  BY DEF Msg, RequestType
<1>2. toPeer \in Seq(RequestType)
  BY DEF WireTypes
<1> QED
  BY <1>1, <1>2, AppendOne

LEMMA Forgotten ==
  ASSUME WireTypes, ForgetConnection
  PROVE  /\ peer' = "up" /\ toPeer' = <<>> /\ net' = <<>> /\ rx' = <<>>
         /\ granted' = FALSE /\ granted' \in BOOLEAN /\ working' = 0
         /\ toPeer' \in Seq(RequestType) /\ net' \in Seq(PieceType) /\ rx' \in Seq(PieceType)
BY EmptySeq DEF ForgetConnection

LEMMA ForgottenTypes ==
  ASSUME WireTypes, ForgetConnection, disturbed' \in BOOLEAN, unsolicited' = unsolicited,
         conn' \in Nat, sock' \in {"none", "unconnected", "connected", "closed"},
         sock' = "connected" => conn' > 0
  PROVE  WireTypes'
<1>1. /\ peer' \in {"up", "down"} /\ peer' # "down"
      /\ toPeer' \in Seq(RequestType) /\ net' \in Seq(PieceType) /\ rx' \in Seq(PieceType)
      /\ working' \in Nat /\ unsolicited' \in Nat
  <2>1. /\ peer' = "up" /\ working' = 0
        /\ toPeer' \in Seq(RequestType) /\ net' \in Seq(PieceType) /\ rx' \in Seq(PieceType)
    BY Forgotten, Zenon
  <2>2. unsolicited' \in Nat
    BY DEF WireTypes
  <2> QED
    BY <2>1, <2>2
<1>2. granted' \in BOOLEAN
  BY Forgotten
<1>3. toPeer' = <<>> /\ net' = <<>> /\ rx' = <<>> /\ granted' = FALSE /\ working' = 0
  BY Forgotten
<1> QED
  BY <1>1, <1>2, <1>3, Zenon DEF WireTypes

(* Stated apart, for the provers take Booleans and numbers one at a time.   *)
LEMMA BooleansKept ==
  ASSUME granted \in BOOLEAN, disturbed \in BOOLEAN, [Next]_vars
  PROVE  granted' \in BOOLEAN /\ disturbed' \in BOOLEAN
<1>1. ASSUME NEW o, Reconnect(o) PROVE granted' \in BOOLEAN /\ disturbed' \in BOOLEAN
  BY <1>1 DEF Reconnect, Connect, ConnectRaises, ForgetConnection
<1>2. CASE Open \/ NeverOpened \/ Close
  BY <1>1, <1>2 DEF Open, NeverOpened, Close, ForgetConnection
<1>3. CASE \E o \in {"send", "recv"} : UseOpenConnection(o) \/ UseNewConnection(o)
  BY <1>1, <1>3 DEF UseOpenConnection, UseNewConnection
<1>4. CASE Activate \/ Transmit \/ Receive \/ ReadOn
  BY <1>4 DEF Activate, Transmit, Receive, ReadOn, ForgetConnection
<1>5. CASE ReceiveNothing \/ DeadlinePassed
  BY <1>5 DEF ReceiveNothing, DeadlinePassed
<1>6. CASE RoutingActivated \/ ActivationFailed \/ AckRead \/ ResponseRead
  BY <1>6 DEF RoutingActivated, ActivationFailed, AckRead, ResponseRead, FirstMessage
<1>7. CASE GatewayStep \/ GatewaySpeaks \/ GatewayCloses
  BY <1>7 DEF GatewayStep, GatewayActivates, GatewayAccepts, GatewayRejects, GatewayResponds,
     GatewaySpeaks, GatewayCloses
<1>8. CASE Arrive \/ AllCallsDone \/ UNCHANGED vars
  BY <1>8 DEF Arrive, AllCallsDone, vars
<1> QED
  BY <1>2, <1>3, <1>4, <1>5, <1>6, <1>7, <1>8 DEF Next, TesterStep

LEMMA ReconnectWire ==
  ASSUME NEW o, Reconnect(o), WireTypes, disturbed' \in BOOLEAN
  PROVE  WireTypes'
<1>1. CASE Connect
  <2>1. conn' \in Nat /\ conn' > 0
    BY <1>1 DEF Connect, WireTypes
  <2> QED
    BY <1>1, <2>1, ForgottenTypes DEF Connect, Reconnect
<1>2. CASE ConnectRaises
  <2>1. conn' \in Nat
    BY <1>2 DEF ConnectRaises, WireTypes
  <2> QED
    BY <1>2, <2>1, ForgottenTypes DEF ConnectRaises, Reconnect
<1> QED
  BY <1>1, <1>2 DEF Reconnect

LEMMA WireKept ==
  TesterTypes /\ WireTypes /\ sentOn \in Seq(Nat \ {0}) /\ [Next]_vars => WireTypes'
<1> SUFFICES ASSUME TesterTypes, WireTypes, sentOn \in Seq(Nat \ {0}), [Next]_vars PROVE WireTypes'
  OBVIOUS
<1>0. granted' \in BOOLEAN /\ disturbed' \in BOOLEAN
  BY BooleansKept DEF WireTypes
<1>1. CASE Open
  BY <1>0, <1>1, ReconnectWire DEF Open
<1>2. CASE NeverOpened
  BY <1>2 DEF NeverOpened, WireTypes
<1>3. CASE Close
  <2>1. conn' \in Nat
    BY <1>3 DEF Close, WireTypes
  <2> QED
    BY <1>0, <1>3, <2>1, ForgottenTypes DEF Close
<1>4. ASSUME NEW o \in {"send", "recv"}, UseOpenConnection(o) PROVE WireTypes'
  BY <1>4 DEF UseOpenConnection, WireTypes
<1>5. ASSUME NEW o \in {"send", "recv"}, UseNewConnection(o) PROVE WireTypes'
  BY <1>0, <1>5, ReconnectWire DEF UseNewConnection
<1>6. CASE Activate
  <2>1. CASE ForgetConnection /\ sock' = "closed"
    <3>1. conn' \in Nat /\ unsolicited' = unsolicited
      BY <1>6, <2>1 DEF Activate, WireTypes
    <3> QED
      BY <1>0, <2>1, <3>1, ForgottenTypes
  <2>2. CASE ~(ForgetConnection /\ sock' = "closed")
    <3>1. /\ toPeer' = IF peer = "up" THEN Append(toPeer, Msg("activation", 0)) ELSE toPeer
          /\ UNCHANGED <<tcp, net, rx, granted, working, unsolicited, disturbed>>
          /\ pc # "idle"
      BY <1>6, <2>2 DEF Activate
    <3>2. toPeer' \in Seq(RequestType) /\ sock = "connected"
      BY <3>1, ToPeerAppend DEF WireTypes, TesterTypes
    <3> QED
      BY <3>1, <3>2 DEF WireTypes
  <2> QED
    BY <2>1, <2>2
<1>7. CASE Transmit
  <2>1. Requests + 1 \in Nat
    BY LenProperties DEF Requests
  <2>2. toPeer' \in Seq(RequestType) /\ sock = "connected"
    BY <1>7, <2>1, ToPeerAppend DEF Transmit, WireTypes, TesterTypes
  <2>3. peer = "down" => disturbed' = TRUE
    BY <1>7 DEF Transmit, WireTypes
  <2> QED
    BY <1>0, <1>7, <2>2, <2>3 DEF Transmit, WireTypes
<1>8. CASE Receive
  <2>1. sock = "connected" /\ rx' = <<>> /\ rx' \in Seq(PieceType)
    BY <1>8, EmptySeq DEF Receive, TesterTypes
  <2> QED
    BY <1>8, <2>1 DEF Receive, WireTypes
<1>9. CASE ReceiveNothing \/ DeadlinePassed \/ ActivationFailed \/ AckRead \/ ResponseRead \/ RoutingActivated
  <2>1. UNCHANGED <<tcp, wire, gateway>>
    BY <1>9 DEF ReceiveNothing, DeadlinePassed, ActivationFailed, AckRead, ResponseRead, RoutingActivated, FirstMessage
  <2>2. disturbed => disturbed'
    BY <1>9 DEF ReceiveNothing, DeadlinePassed, ActivationFailed, AckRead, ResponseRead, RoutingActivated, FirstMessage
  <2>3. peer' = "down" => disturbed' = TRUE
    BY <1>0, <2>1, <2>2 DEF WireTypes
  <2> QED
    BY <1>0, <2>1, <2>3 DEF WireTypes
<1>10. CASE ReadOn
  BY <1>10 DEF ReadOn, WireTypes
<1>11. CASE Arrive
  <2>1. PICK p \in PieceType :
          /\ net # <<>> /\ rx' = Append(rx, p) /\ UNCHANGED <<tcp, toPeer, gateway, history>>
          /\ net' = Tail(net) \/ net' \in Seq(PieceType)
    BY <1>11, ArriveEffect
  <2>2. rx' \in Seq(PieceType) /\ net' \in Seq(PieceType)
    <3>1. rx \in Seq(PieceType) /\ net \in Seq(PieceType)
      BY DEF WireTypes
    <3>2. Tail(net) \in Seq(PieceType)
      BY <2>1, <3>1, HeadTail
    <3>3. Append(rx, p) \in Seq(PieceType)
      BY <3>1, AppendOne
    <3> QED
      BY <2>1, <3>2, <3>3
  <2> QED
    BY <2>1, <2>2 DEF WireTypes
<1>12. CASE GatewayActivates
  <2>1. toPeer' \in Seq(RequestType) /\ sock = "connected"
    BY <1>12, ToPeerHead DEF GatewayActivates, WireTypes
  <2>2. net' \in Seq(PieceType)
    <3>1. Msg("activated", 0) \in Message /\ Msg("refused", 0) \in Message
      BY MsgOf
    <3> QED
      BY <1>12, <3>1, TellNet DEF GatewayActivates
  <2> QED
    BY <1>0, <1>12, <2>1, <2>2 DEF GatewayActivates, WireTypes
<1>13. CASE GatewayAccepts
  <2>1. toPeer' \in Seq(RequestType) /\ sock = "connected" /\ working' \in Nat
    BY <1>13, ToPeerHead DEF GatewayAccepts, WireTypes
  <2>2. net' \in Seq(PieceType)
    BY <1>13, ToPeerHead, MsgOf, TellNet DEF GatewayAccepts
  <2> QED
    BY <1>13, <2>1, <2>2 DEF GatewayAccepts, WireTypes
<1>14. CASE GatewayRejects
  <2>1. toPeer' \in Seq(RequestType) /\ sock = "connected"
    BY <1>14, ToPeerHead DEF GatewayRejects, WireTypes
  <2>2. net' \in Seq(PieceType)
    BY <1>14, ToPeerHead, MsgOf, TellNet DEF GatewayRejects
  <2> QED
    BY <1>0, <1>14, <2>1, <2>2 DEF GatewayRejects, WireTypes
<1>15. CASE GatewayResponds
  <2>1. net' \in Seq(PieceType) /\ sock = "connected"
    BY <1>15, MsgOf, TellNet DEF GatewayResponds, WireTypes
  <2> QED
    BY <1>15, <2>1 DEF GatewayResponds, WireTypes
<1>16. CASE GatewaySpeaks
  <2>1. net' \in Seq(PieceType)
    BY <1>16, MsgOf, TellNet DEF GatewaySpeaks
  <2> QED
    BY <1>0, <1>16, <2>1 DEF GatewaySpeaks, WireTypes
<1>17. CASE GatewayCloses
  BY <1>0, <1>17, EmptySeq DEF GatewayCloses, WireTypes
<1>18. CASE AllCallsDone \/ UNCHANGED vars
  BY <1>18 DEF AllCallsDone, vars, WireTypes
<1> QED
  BY <1>1, <1>2, <1>3, <1>4, <1>5, <1>6, <1>7, <1>8, <1>9, <1>10, <1>11, <1>12, <1>13, <1>14,
     <1>15, <1>16, <1>17, <1>18 DEF Next, TesterStep, GatewayStep

-----------------------------------------------------------------------------
(* The histories.                                                           *)

(* What a call of recv adds to the answers.                                 *)
Answer(n) == [tag |-> n, asked |-> Requests, conn |-> conn, inStep |-> ~disturbed']

(* What it returns: nothing, or the response the Parser has completed.      *)
Returned(n) ==
  \/ n = 0
  \/ /\ pc = "parse" /\ stage = "response"
     /\ data[1].msg.kind = "response" /\ n = data[1].msg.tag
     /\ data[1].part = "rest" => parser = data[1].msg

(* With a response the reader ends, and nothing else is touched.            *)
ReaderEnds == UNCHANGED <<wire, working>> /\ data' = <<>> /\ parser' = NoMessage

(* What a step does to the histories.                                       *)
HistoryStep ==
  \/ /\ UNCHANGED <<sentOn, answers, taken>>
     /\ conn' \in {conn, conn + 1}
  \/ /\ UNCHANGED <<sentOn, answers, conn>>
     /\ taken' = taken \cup Responses(rx)
  \/ /\ UNCHANGED <<answers, taken, conn>>
     /\ sentOn' = Append(sentOn, conn) /\ sock = "connected"
  \/ /\ UNCHANGED <<sentOn, taken, conn>>
     /\ op = "recv"
     /\ \E n : /\ Returned(n) /\ answers' = Append(answers, Answer(n))
               /\ n # 0 => ReaderEnds

LEMMA HistorySteps ==
  ASSUME TesterTypes, [Next]_vars
  PROVE  HistoryStep
<1> USE DEF HistoryStep
<1>1. ASSUME NEW n, Return(n)
      PROVE  answers' = answers \/ (op = "recv" /\ answers' = Append(answers, Answer(n)))
  BY <1>1 DEF Return, Answer
<1>2. ASSUME NEW o, Reconnect(o)
      PROVE  UNCHANGED <<sentOn, answers, taken>> /\ conn' \in {conn, conn + 1}
  BY <1>2 DEF Reconnect, Connect, ConnectRaises
<1>3. CASE Open \/ NeverOpened \/ Close
  BY <1>2, <1>3 DEF Open, NeverOpened, Close
<1>4. CASE \E o \in {"send", "recv"} : UseOpenConnection(o) \/ UseNewConnection(o)
  BY <1>2, <1>4 DEF UseOpenConnection, UseNewConnection
<1>5. CASE Activate
  BY <1>1, <1>5 DEF Activate, Returned
<1>6. CASE Transmit
  BY <1>6 DEF Transmit, TesterTypes
<1>7. CASE Receive
  BY <1>7 DEF Receive
<1>8. CASE ReceiveNothing \/ DeadlinePassed
  BY <1>1, <1>8 DEF ReceiveNothing, DeadlinePassed, GiveUp, Returned
<1>9. CASE ActivationFailed \/ AckRead
  BY <1>1, <1>9 DEF ActivationFailed, AckRead, FirstMessage, Returned
<1>10. CASE ResponseRead
  <2> DEFINE n == IF parsed.msg.kind = "response" THEN parsed.msg.tag ELSE 0
  <2>1. /\ Return(n) /\ pc = "parse" /\ stage = "response" /\ parsed.msg # NoMessage
        /\ UNCHANGED <<sentOn, taken, conn>>
    BY <1>10 DEF ResponseRead, FirstMessage
  <2>2. parsed.msg = data[1].msg /\ (data[1].part = "rest" => parser = data[1].msg)
    BY <2>1, ParsedFacts
  <2>3. Returned(n)
    BY <2>1, <2>2 DEF Returned
  <2>4. ReaderEnds
    BY <1>10, <2>1 DEF ResponseRead, FirstMessage, Return, EndReader, ReaderEnds
  <2> QED
    BY <1>1, <2>1, <2>3, <2>4
<1>11. CASE ReadOn \/ RoutingActivated \/ Arrive
  BY <1>11 DEF ReadOn, RoutingActivated, FirstMessage, Arrive
<1>12. CASE GatewayStep \/ GatewaySpeaks \/ GatewayCloses
  BY <1>12 DEF GatewayStep, GatewayActivates, GatewayAccepts, GatewayRejects, GatewayResponds,
     GatewaySpeaks, GatewayCloses
<1>13. CASE AllCallsDone \/ UNCHANGED vars
  BY <1>13 DEF AllCallsDone, vars
<1> QED
  BY <1>3, <1>4, <1>5, <1>6, <1>7, <1>8, <1>9, <1>10, <1>11, <1>12, <1>13 DEF Next, TesterStep

(* What recv returns is about a request of this connection.                 *)
LEMMA ReturnedIsLive ==
  ASSUME TesterTypes, HistoryTypes, Flight, NEW n, Returned(n)
  PROVE  n \in Nat /\ n <= Requests /\ (n # 0 => Live(n)) /\ Requests \in Nat
<1>1. Requests \in Nat
  BY LenProperties DEF Requests, HistoryTypes
<1>2. CASE n = 0
  BY <1>1, <1>2
<1>3. CASE n # 0
  <2>1. Live(n)
    BY <1>3, ParsedFacts DEF Returned, Flight, AllLive, LiveMessage
  <2> QED
    BY <1>1, <2>1 DEF Live
<1> QED
  BY <1>2, <1>3

LEMMA OneMoreRequest ==
  ASSUME HistoryTypes, WireTypes, sock = "connected", sentOn' = Append(sentOn, conn)
  PROVE  /\ Requests \in Nat /\ Requests' = Requests + 1
         /\ sentOn' \in Seq(Nat \ {0})
         /\ \A n \in 1..Requests : sentOn'[n] = sentOn[n]
         /\ sentOn'[Requests + 1] = conn
<1>1. sentOn \in Seq(Nat \ {0}) /\ conn \in Nat \ {0}
  BY DEF HistoryTypes, WireTypes
<1>2. /\ sentOn' \in Seq(Nat \ {0}) /\ Len(sentOn) \in Nat /\ Len(sentOn') = Len(sentOn) + 1
      /\ \A n \in 1..Len(sentOn) : sentOn'[n] = sentOn[n]
      /\ sentOn'[Len(sentOn) + 1] = conn
  BY <1>1, AppendProperties, LenProperties
<1> QED
  BY <1>2 DEF Requests

LEMMA OneMoreAnswer ==
  ASSUME Types, Flight, disturbed' \in BOOLEAN, NEW n, Returned(n), answers' = Append(answers, Answer(n))
  PROVE  /\ answers' \in Seq(AnswerType)
         /\ Len(answers) \in Nat /\ DOMAIN answers = 1..Len(answers)
         /\ DOMAIN answers' = 1..Len(answers)+1
         /\ Answer(n).tag = n /\ Answer(n).asked = Requests /\ Answer(n).conn = conn
         /\ \A i \in DOMAIN answers' :
              \/ i \in DOMAIN answers /\ i <= Len(answers) /\ answers'[i] = answers[i]
              \/ i = Len(answers)+1 /\ answers'[i] = Answer(n)
<1>1. n \in Nat /\ Requests \in Nat
  BY ReturnedIsLive DEF Types
<1>2. conn \in Nat
  BY DEF Types, WireTypes
<1>3. Answer(n) \in AnswerType
  BY <1>1, <1>2 DEF Answer, AnswerType
<1>4. Answer(n).tag = n /\ Answer(n).asked = Requests /\ Answer(n).conn = conn
  BY DEF Answer
<1>5. answers \in Seq(AnswerType)
  BY DEF Types, HistoryTypes
<1> DEFINE a == Answer(n)
<1>6. a \in AnswerType /\ answers' = Append(answers, a)
  BY <1>3
<1> HIDE DEF a
<1>7. /\ answers' \in Seq(AnswerType)
      /\ Len(answers) \in Nat /\ DOMAIN answers = 1..Len(answers)
      /\ DOMAIN answers' = 1..Len(answers)+1
      /\ \A i \in DOMAIN answers' :
           \/ i \in DOMAIN answers /\ i <= Len(answers) /\ answers'[i] = answers[i]
           \/ i = Len(answers)+1 /\ answers'[i] = a
  BY <1>5, <1>6, AppendOne
<1> QED
  BY <1>4, <1>7 DEF a

LEMMA HistoryKept ==
  Types /\ Flight /\ AnswersAreOfTheConnection /\ [Next]_vars
     => HistoryTypes' /\ AnswersAreOfTheConnection'
<1> SUFFICES ASSUME Types, Flight, AnswersAreOfTheConnection, [Next]_vars
             PROVE  HistoryTypes' /\ AnswersAreOfTheConnection'
  OBVIOUS
<1>0. TesterTypes /\ WireTypes /\ HistoryTypes /\ Requests \in Nat /\ conn \in Nat
  BY LenProperties DEF Types, HistoryTypes, WireTypes, Requests
<1>1. /\ \A n \in 1..Requests : sentOn[n] <= conn /\ sentOn[n] \in Nat
      /\ \A i \in DOMAIN answers : /\ answers[i].asked \in Nat /\ answers[i].tag \in Nat
                                 /\ answers[i].asked <= Requests /\ answers[i].tag <= answers[i].asked
      /\ taken \subseteq 1..Requests
  <2>1. \A n \in 1..Requests : sentOn[n] \in Nat
    BY <1>0, ElementOfSeq DEF HistoryTypes, Requests
  <2>2. \A i \in DOMAIN answers : answers[i] \in AnswerType
    BY <1>0, ElementOfSeq, LenProperties DEF HistoryTypes
  <2>3. \A i \in DOMAIN answers : answers[i].asked \in Nat /\ answers[i].tag \in Nat
    BY <2>2 DEF AnswerType
  <2> QED
    BY <1>0, <2>1, <2>3 DEF HistoryTypes
<1>2. CASE UNCHANGED <<sentOn, answers, taken>> /\ conn' \in {conn, conn + 1}
  <2>1. Requests' = Requests
    BY <1>2 DEF Requests
  <2>2. \A n \in 1..Requests' : sentOn'[n] <= conn'
    BY <1>0, <1>1, <1>2, <2>1
  <2> QED
    BY <1>0, <1>2, <2>1, <2>2 DEF HistoryTypes, AnswersAreOfTheConnection
<1>3. CASE UNCHANGED <<sentOn, answers, conn>> /\ taken' = taken \cup Responses(rx)
  <2>1. Requests' = Requests /\ taken' \subseteq 1..Requests
    BY <1>1, <1>3 DEF Requests, Responses
  <2> QED
    BY <1>0, <1>3, <2>1 DEF HistoryTypes, AnswersAreOfTheConnection
<1>4. CASE /\ UNCHANGED <<answers, taken, conn>>
           /\ sentOn' = Append(sentOn, conn) /\ sock = "connected"
  <2>1. /\ Requests' = Requests + 1 /\ sentOn' \in Seq(Nat \ {0})
        /\ \A n \in 1..Requests : sentOn'[n] = sentOn[n]
        /\ sentOn'[Requests + 1] = conn
    BY <1>0, <1>4, OneMoreRequest
  <2>2. ASSUME NEW n \in 1..Requests' PROVE sentOn'[n] <= conn'
    <3>1. n \in 1..Requests \/ n = Requests + 1
      BY <1>0, <2>1
    <3>2. conn' = conn /\ conn <= conn
      BY <1>0, <1>4
    <3> QED
      BY <1>1, <2>1, <3>1, <3>2
  <2>3. \A i \in DOMAIN answers' : answers'[i].asked <= Requests' /\ answers'[i].tag <= answers'[i].asked
    BY <1>0, <1>1, <1>4, <2>1
  <2>4. taken' \subseteq 1..Requests'
    BY <1>0, <1>1, <1>4, <2>1
  <2>5. answers' \in Seq(AnswerType)
    BY <1>0, <1>4 DEF HistoryTypes
  <2>6. ASSUME NEW i \in DOMAIN answers', answers'[i].tag # 0
        PROVE  sentOn'[answers'[i].tag] = answers'[i].conn
    <3>1. answers[i].tag \in 1..Requests /\ answers' = answers
      BY <1>0, <1>1, <1>4, <2>6
    <3> QED
      BY <2>1, <2>6, <3>1 DEF AnswersAreOfTheConnection
  <2> QED
    BY <2>1, <2>2, <2>3, <2>4, <2>5, <2>6 DEF HistoryTypes, AnswersAreOfTheConnection
<1>5. ASSUME NEW n, Returned(n), answers' = Append(answers, Answer(n)),
             UNCHANGED <<sentOn, taken, conn>>
      PROVE  HistoryTypes' /\ AnswersAreOfTheConnection'
  <2>0. disturbed' \in BOOLEAN
    BY <1>0, BooleansKept DEF WireTypes
  <2>1. n \in Nat /\ n <= Requests /\ (n # 0 => Live(n))
    BY <1>0, <1>5, ReturnedIsLive
  <2>2. /\ answers' \in Seq(AnswerType)
        /\ Answer(n).tag = n /\ Answer(n).asked = Requests /\ Answer(n).conn = conn
        /\ \A i \in DOMAIN answers' :
             \/ i \in DOMAIN answers /\ answers'[i] = answers[i]
             \/ answers'[i] = Answer(n)
    BY <1>5, <2>0, OneMoreAnswer
  <2>3. Requests' = Requests
    BY <1>5 DEF Requests
  <2>4. \A i \in DOMAIN answers' : answers'[i].asked <= Requests /\ answers'[i].tag <= answers'[i].asked
    BY <1>0, <1>1, <2>1, <2>2
  <2>5. AnswersAreOfTheConnection'
    BY <1>5, <2>1, <2>2 DEF AnswersAreOfTheConnection, Live
  <2> QED
    BY <1>0, <1>1, <1>5, <2>2, <2>3, <2>4, <2>5 DEF HistoryTypes
<1>6. HistoryStep
  BY <1>0, HistorySteps
<1>7. CASE \E n : Returned(n) /\ answers' = Append(answers, Answer(n)) /\ UNCHANGED <<sentOn, taken, conn>>
  BY <1>5, <1>7
<1> QED
  BY <1>2, <1>3, <1>4, <1>6, <1>7, Zenon DEF HistoryStep

-----------------------------------------------------------------------------
(* Everything in flight is about a request of the connection.               *)

(* Requests of the connection remain so.                                    *)
LEMMA StillLive ==
  ASSUME Types, conn' = conn,
         \/ sentOn' = sentOn
         \/ sentOn' = Append(sentOn, conn) /\ sock = "connected"
  PROVE  /\ \A n : Live(n) => Live(n)'
         /\ \A m : LiveMessage(m) => LiveMessage(m)'
<1>1. ASSUME NEW n, Live(n) PROVE Live(n)'
  <2>1. CASE sentOn' = sentOn
    BY <1>1, <2>1 DEF Live, Requests
  <2>2. CASE sentOn' = Append(sentOn, conn) /\ sock = "connected"
    <3>1. /\ Requests \in Nat /\ Requests' = Requests + 1
          /\ n \in 1..Requests /\ sentOn'[n] = sentOn[n] /\ sentOn[n] = conn
      BY <1>1, <2>2, OneMoreRequest DEF Live, Types
    <3>2. n \in 1..Requests'
      BY <3>1
    <3> QED
      BY <3>1, <3>2 DEF Live
  <2> QED
    BY <2>1, <2>2
<1> QED
  BY <1>1 DEF LiveMessage

LEMMA HeldIsLive ==
  /\ LiveMessage(NoMessage) /\ LiveMessage(Lost)
  /\ AllLive(<<>>) /\ LiveRequests(<<>>)
BY NoMessageOf DEF LiveMessage, AllLive, LiveRequests

(* The wire and the reader of a step that leaves the connection in place.   *)
LEMMA TellLive ==
  ASSUME Types, Flight, NEW m \in Message, Tell(m), LiveMessage(m)
  PROVE  AllLive(net')
<1>1. net \in Seq(PieceType) /\ Piece(m, "all") \in PieceType /\ Piece(m, "all").msg = m
  BY PieceOf DEF Types, WireTypes, Parts
<1>2. \A i \in DOMAIN Append(net, Piece(m, "all")) :
         \/ i \in DOMAIN net /\ Append(net, Piece(m, "all"))[i] = net[i]
         \/ Append(net, Piece(m, "all"))[i] = Piece(m, "all")
  BY <1>1, AppendOne
<1> QED
  BY <1>1, <1>2 DEF Tell, Flight, AllLive

LEMMA FlightKept == Types /\ Flight /\ [Next]_vars => Flight'
<1> SUFFICES ASSUME Types, Flight, [Next]_vars PROVE Flight'
  OBVIOUS
<1>0. TesterTypes /\ WireTypes /\ HistoryTypes
  BY DEF Types
<1> DEFINE Same == /\ \A n : Live(n) => Live(n)'
                   /\ \A m : LiveMessage(m) => LiveMessage(m)'
(* Nothing is left in flight.                                               *)
<1>1. ASSUME ForgetConnection, data' = <<>>, parser' = NoMessage PROVE Flight'
  <2>1. /\ toPeer' = <<>> /\ net' = <<>> /\ rx' = <<>> /\ working' = 0
    BY <1>1 DEF ForgetConnection
  <2>2. ~(parser'.kind = "response")
    BY <1>1, NoMessageOf
  <2> QED
    BY <1>1, <2>1, <2>2 DEF Flight, AllLive, LiveRequests, LiveMessage
(* Only the reader has changed.                                             *)
<1>2. ASSUME UNCHANGED <<wire, working, conn, sentOn>>,
             data' = data \/ data' = <<>>,
             parser' \in {parser, NoMessage, Lost} \/ LiveMessage(parser')
      PROVE  Flight'
  <2>1. Same
    BY <1>2, StillLive
  <2>2. LiveMessage(parser')
    BY <1>2, HeldIsLive DEF Flight
  <2> QED
    BY <1>2, <2>1, <2>2 DEF Flight, AllLive, LiveRequests
<1>3. ASSUME NEW o, Reconnect(o), pc = "idle" PROVE Flight'
  <2>1. ForgetConnection
    BY <1>3 DEF Reconnect, Connect, ConnectRaises
  <2>2. data' = <<>> /\ parser' = NoMessage
    BY <1>0, <1>3 DEF Reconnect, AfterConnect, Proceed, BeginReader, EndReader, TesterTypes
  <2> QED
    BY <1>1, <2>1, <2>2
<1>4. CASE Open
  BY <1>3, <1>4 DEF Open
<1>5. CASE NeverOpened
  BY <1>2, <1>5 DEF NeverOpened
<1>6. CASE Close
  BY <1>0, <1>1, <1>6 DEF Close, Begin, TesterTypes
<1>7. ASSUME NEW o \in {"send", "recv"}, UseOpenConnection(o) PROVE Flight'
  <2>1. data' = <<>> /\ parser' = NoMessage
    BY <1>7 DEF UseOpenConnection, Proceed, BeginReader, EndReader
  <2> QED
    BY <1>2, <1>7, <2>1 DEF UseOpenConnection
<1>8. ASSUME NEW o \in {"send", "recv"}, UseNewConnection(o) PROVE Flight'
  BY <1>3, <1>8 DEF UseNewConnection, Begin
<1>9. CASE Activate
  <2>1. data' = <<>> /\ parser' = NoMessage
    BY <1>9 DEF Activate, BeginReader, Return, EndReader
  <2>2. CASE ForgetConnection
    BY <1>1, <2>1, <2>2
  <2>3. CASE ~ForgetConnection
    <3>1. /\ toPeer' = IF peer = "up" THEN Append(toPeer, Msg("activation", 0)) ELSE toPeer
          /\ UNCHANGED <<conn, sentOn, net, rx, working>>
      BY <1>9, <2>3 DEF Activate
    <3>2. Same
      BY <3>1, StillLive
    <3>3. LiveRequests(toPeer')
      <4>1. /\ Msg("activation", 0).kind = "activation"
            /\ \A i \in DOMAIN Append(toPeer, Msg("activation", 0)) :
                 \/ i \in DOMAIN toPeer /\ Append(toPeer, Msg("activation", 0))[i] = toPeer[i]
                 \/ Append(toPeer, Msg("activation", 0))[i] = Msg("activation", 0)
        BY <1>0, ToPeerAppend
      <4> QED
        BY <3>1, <4>1 DEF Flight, LiveRequests
    <3>4. LiveMessage(parser')
      BY <2>1, HeldIsLive
    <3> QED
      BY <2>1, <3>1, <3>2, <3>3, <3>4 DEF Flight, AllLive, LiveRequests
  <2> QED
    BY <2>2, <2>3
<1>10. CASE Transmit
  <2>1. /\ sentOn' = Append(sentOn, conn) /\ sock = "connected"
        /\ toPeer' = IF peer = "up" THEN Append(toPeer, Msg("diagnostic", Requests + 1)) ELSE toPeer
        /\ UNCHANGED <<conn, net, rx, working>> /\ data' = <<>> /\ parser' = NoMessage
    BY <1>0, <1>10 DEF Transmit, BeginReader, TesterTypes
  <2>2. Same
    BY <2>1, StillLive
  <2>3. PICK k \in Nat : k = Requests + 1
    BY <1>0, <2>1, OneMoreRequest
  <2>4. Live(k)'
    <3>1. Requests' = k /\ sentOn'[k] = conn /\ k \in 1..k
      <4>1. Requests \in Nat /\ Requests' = Requests + 1 /\ sentOn'[Requests + 1] = conn
        BY <1>0, <2>1, OneMoreRequest
      <4> QED
        BY <2>3, <4>1
    <3> QED
      BY <2>1, <3>1 DEF Live
  <2>6. ASSUME NEW i \in DOMAIN toPeer', toPeer'[i].kind = "diagnostic"
        PROVE  Live(toPeer'[i].tag) \/ toPeer'[i].tag = k
    <3>1. toPeer' = Append(toPeer, Msg("diagnostic", k)) \/ toPeer' = toPeer
      BY <2>1, <2>3
    <3>2. /\ Msg("diagnostic", k).tag = k
          /\ \A j \in DOMAIN Append(toPeer, Msg("diagnostic", k)) :
               \/ j \in DOMAIN toPeer /\ Append(toPeer, Msg("diagnostic", k))[j] = toPeer[j]
               \/ Append(toPeer, Msg("diagnostic", k))[j] = Msg("diagnostic", k)
      BY <1>0, ToPeerAppend
    <3> QED
      BY <2>6, <3>1, <3>2 DEF Flight, LiveRequests
  <2>5. LiveMessage(parser')
    BY <2>1, HeldIsLive
  <2> QED
    <3>1. ASSUME NEW i \in DOMAIN toPeer', toPeer'[i].kind = "diagnostic", NEW n, n = toPeer'[i].tag
          PROVE  Live(n)'
      BY <2>2, <2>4, <2>6, <3>1
    <3>2. LiveRequests(toPeer)'
      BY <3>1 DEF LiveRequests
    <3>3. AllLive(net)' /\ AllLive(rx)' /\ AllLive(data)' /\ LiveMessage(parser)' /\ (working' # 0 => Live(working)')
      BY <2>1, <2>2, <2>5 DEF Flight, AllLive
    <3> QED
      BY <3>2, <3>3 DEF Flight
<1>11. CASE Receive
  <2>1. Same
    BY <1>11, StillLive DEF Receive
  <2> QED
    BY <1>11, <2>1 DEF Receive, Flight, AllLive, LiveRequests
<1>12. CASE ReceiveNothing \/ DeadlinePassed \/ ActivationFailed \/ AckRead \/ ResponseRead \/ RoutingActivated
  <2>1. data' = <<>> /\ parser' = NoMessage
    BY <1>12 DEF ReceiveNothing, DeadlinePassed, GiveUp, ActivationFailed, AckRead, ResponseRead, RoutingActivated, Return, Proceed, BeginReader, EndReader
  <2>2. UNCHANGED <<wire, working, conn, sentOn>>
    BY <1>12 DEF ReceiveNothing, DeadlinePassed, ActivationFailed, AckRead, ResponseRead, RoutingActivated, FirstMessage
  <2> QED
    BY <1>2, <2>1, <2>2
<1>13. CASE ReadOn
  <2>1. UNCHANGED <<wire, working, conn, sentOn>> /\ data' = <<>>
    BY <1>13 DEF ReadOn
  <2>2. parser' = Lost \/ parser' = data[1].msg
    BY <1>0, <1>13, ParsedFacts DEF ReadOn
  <2>3. LiveMessage(data[1].msg)
    BY <1>0, <1>13, ParsedFacts DEF ReadOn, Flight, AllLive
  <2> QED
    BY <1>2, <2>1, <2>2, <2>3
<1>14. CASE Arrive
  <2>1. PICK p \in PieceType :
           /\ net # <<>> /\ rx' = Append(rx, p)
           /\ UNCHANGED <<tcp, toPeer, gateway, pc, op, reader, calls, history>>
           /\ \/ p = net[1] /\ net' = Tail(net)
              \/ \E q \in PieceType :
                   /\ net[1].msg = p.msg /\ q.msg = p.msg
                   /\ DOMAIN net' = DOMAIN net /\ net'[1] = q
                   /\ \A i \in DOMAIN net : i # 1 => net'[i] = net[i]
    BY <1>0, <1>14, ArriveEffect
  <2>2. Same
    BY <2>1, StillLive
  <2>3. /\ 1 \in DOMAIN net
        /\ \A i \in DOMAIN Tail(net) : i+1 \in DOMAIN net /\ Tail(net)[i] = net[i+1]
    BY <1>0, <2>1, HeadTail DEF WireTypes
  <2>4. LiveMessage(net[1].msg) /\ LiveMessage(p.msg)
    BY <2>1, <2>3 DEF Flight, AllLive
  <2>5. AllLive(net')
    BY <2>1, <2>3, <2>4 DEF Flight, AllLive
  <2>6. AllLive(rx')
    <3>1. \A i \in DOMAIN Append(rx, p) :
            \/ i \in DOMAIN rx /\ Append(rx, p)[i] = rx[i]
            \/ Append(rx, p)[i] = p
      BY <1>0, AppendOne DEF WireTypes
    <3> QED
      BY <2>1, <2>4, <3>1 DEF Flight, AllLive
  <2> QED
    BY <2>1, <2>2, <2>5, <2>6 DEF Flight, AllLive, LiveRequests
(* The gateway speaks: what it says is live, what it hears is heard once.   *)
<1>15. ASSUME NEW m \in Message, Tell(m), LiveMessage(m),
              toPeer' = toPeer \/ (toPeer # <<>> /\ toPeer' = Tail(toPeer)),
              working' # 0 => Live(working'),
              UNCHANGED <<conn, sentOn, rx, data, parser>>
       PROVE  Flight'
  <2>1. Same
    BY <1>15, StillLive
  <2>2. AllLive(net')
    BY <1>15, TellLive
  <2>3. LiveRequests(toPeer')
    BY <1>0, <1>15, ToPeerHead DEF Flight, LiveRequests
  <2> QED
    BY <1>15, <2>1, <2>2, <2>3 DEF Flight, AllLive, LiveRequests
<1>16. CASE GatewayActivates
  <2>1. PICK m \in Message : Tell(m) /\ m.kind # "response"
    BY <1>16, MsgOf DEF GatewayActivates
  <2> QED
    BY <1>15, <1>16, <2>1 DEF GatewayActivates, LiveMessage, Flight
<1>17. CASE GatewayAccepts
  <2>1. PICK m \in Message : Tell(m) /\ m.kind # "response"
    BY <1>0, <1>17, MsgOf, ToPeerHead DEF GatewayAccepts
  <2>2. Live(working')
    BY <1>0, <1>17, ToPeerHead DEF GatewayAccepts, Flight, LiveRequests
  <2> QED
    BY <1>15, <1>17, <2>1, <2>2 DEF GatewayAccepts, LiveMessage
<1>18. CASE GatewayRejects
  <2>1. PICK m \in Message : Tell(m) /\ m.kind # "response"
    BY <1>0, <1>18, MsgOf, ToPeerHead DEF GatewayRejects
  <2> QED
    BY <1>15, <1>18, <2>1 DEF GatewayRejects, LiveMessage, Flight
<1>19. CASE GatewayResponds
  <2>1. PICK m \in Message : Tell(m) /\ m.tag = working
    BY <1>0, <1>19, MsgOf DEF GatewayResponds, WireTypes
  <2> QED
    BY <1>15, <1>19, <2>1 DEF GatewayResponds, LiveMessage, Flight
<1>20. CASE GatewaySpeaks
  <2>1. PICK m \in Message : Tell(m) /\ m.kind # "response"
    BY <1>20, MsgOf DEF GatewaySpeaks
  <2> QED
    BY <1>15, <1>20, <2>1 DEF GatewaySpeaks, LiveMessage, Flight
<1>21. CASE GatewayCloses
  <2>1. Same
    BY <1>21, StillLive DEF GatewayCloses
  <2> QED
    BY <1>21, <2>1 DEF GatewayCloses, Flight, AllLive, LiveRequests
<1>22. CASE AllCallsDone \/ UNCHANGED vars
  BY <1>2, <1>22 DEF AllCallsDone, vars
<1> QED
  BY <1>4, <1>5, <1>6, <1>7, <1>8, <1>9, <1>10, <1>11, <1>12, <1>13, <1>14, <1>16, <1>17, <1>18,
     <1>19, <1>20, <1>21, <1>22 DEF Next, TesterStep, GatewayStep

-----------------------------------------------------------------------------
(* Routing activation.                                                      *)

LEMMA AppendActivation ==
  ASSUME WireTypes, NoDiagnostic(toPeer)
  PROVE  NoDiagnostic(Append(toPeer, Msg("activation", 0)))
<1>1. /\ Msg("activation", 0).kind = "activation"
      /\ \A i \in DOMAIN Append(toPeer, Msg("activation", 0)) :
           \/ i \in DOMAIN toPeer /\ Append(toPeer, Msg("activation", 0))[i] = toPeer[i]
           \/ Append(toPeer, Msg("activation", 0))[i] = Msg("activation", 0)
  BY ToPeerAppend
<1> QED
  BY <1>1 DEF NoDiagnostic

LEMMA TailActivation ==
  ASSUME WireTypes, NoDiagnostic(toPeer), toPeer # <<>>
  PROVE  NoDiagnostic(Tail(toPeer)) /\ Head(toPeer).kind = "activation"
BY ToPeerHead DEF NoDiagnostic

LEMMA TellQuiet ==
  ASSUME WireTypes, Quiet(net), NEW m \in Message, Tell(m), m.kind # "activated"
  PROVE  Quiet(net')
<1>1. net \in Seq(PieceType) /\ Piece(m, "all") \in PieceType /\ Piece(m, "all").msg = m
  BY PieceOf DEF WireTypes, Parts
<1>2. \A i \in DOMAIN Append(net, Piece(m, "all")) :
         \/ i \in DOMAIN net /\ Append(net, Piece(m, "all"))[i] = net[i]
         \/ Append(net, Piece(m, "all"))[i] = Piece(m, "all")
  BY <1>1, AppendOne
<1> QED
  BY <1>1, <1>2 DEF Tell, Quiet

LEMMA ArriveQuiet ==
  ASSUME WireTypes, Quiet(net), Quiet(rx), Arrive
  PROVE  Quiet(net') /\ Quiet(rx')
<1>1. PICK p \in PieceType :
         /\ net # <<>> /\ rx' = Append(rx, p)
         /\ \/ p = net[1] /\ net' = Tail(net)
            \/ \E q \in PieceType :
                 /\ net[1].msg = p.msg /\ q.msg = p.msg
                 /\ DOMAIN net' = DOMAIN net /\ net'[1] = q
                 /\ \A i \in DOMAIN net : i # 1 => net'[i] = net[i]
  BY ArriveEffect
<1>2. /\ 1 \in DOMAIN net
      /\ \A i \in DOMAIN Tail(net) : i+1 \in DOMAIN net /\ Tail(net)[i] = net[i+1]
  BY <1>1, HeadTail DEF WireTypes
<1>3. net[1].msg.kind # "activated" /\ p.msg.kind # "activated"
  BY <1>1, <1>2 DEF Quiet
<1>4. Quiet(net')
  BY <1>1, <1>2, <1>3 DEF Quiet
<1>5. \A i \in DOMAIN Append(rx, p) :
         \/ i \in DOMAIN rx /\ Append(rx, p)[i] = rx[i]
         \/ Append(rx, p)[i] = p
  BY AppendOne DEF WireTypes
<1> QED
  BY <1>1, <1>3, <1>4, <1>5 DEF Quiet

(* A connection the gateway has left carries no requests.                   *)
LEMMA LeftConnectionIsEmpty ==
  ASSUME TesterTypes, WireTypes, peer = "down" => toPeer = <<>>, [Next]_vars, peer' = "down"
  PROVE  toPeer' = <<>>
<1>1. ~ForgetConnection
  BY DEF ForgetConnection
<1>2. CASE Open \/ NeverOpened \/ Close
  BY <1>1, <1>2 DEF Open, NeverOpened, Close, Reconnect, Connect, ConnectRaises
<1>3. CASE \E o \in {"send", "recv"} : UseOpenConnection(o) \/ UseNewConnection(o)
  BY <1>1, <1>3 DEF UseOpenConnection, UseNewConnection, Reconnect, Connect, ConnectRaises
<1>4. CASE Activate \/ Transmit \/ Receive \/ ReadOn
  BY <1>1, <1>4 DEF Activate, Transmit, Receive, ReadOn
<1>5. CASE ReceiveNothing \/ DeadlinePassed
  BY <1>5 DEF ReceiveNothing, DeadlinePassed
<1>6. CASE RoutingActivated \/ ActivationFailed \/ AckRead \/ ResponseRead
  BY <1>6 DEF RoutingActivated, ActivationFailed, AckRead, ResponseRead, FirstMessage
<1>7. CASE GatewayStep \/ GatewaySpeaks \/ GatewayCloses
  BY <1>7 DEF GatewayStep, GatewayActivates, GatewayAccepts, GatewayRejects, GatewayResponds,
     GatewaySpeaks, GatewayCloses
<1>8. CASE Arrive \/ AllCallsDone \/ UNCHANGED vars
  BY <1>8 DEF Arrive, AllCallsDone, vars
<1> QED
  BY <1>2, <1>3, <1>4, <1>5, <1>6, <1>7, <1>8 DEF Next, TesterStep

LEMMA ActivationKept == TesterTypes /\ WireTypes /\ Activation /\ [Next]_vars => Activation'
<1> SUFFICES ASSUME TesterTypes, WireTypes, Activation, [Next]_vars, ActivationNeeded,
                    ~granted', ~unactivated', peer' # "down"
             PROVE  BeforeActivation'
  BY LeftConnectionIsEmpty DEF Activation
<1> USE DEF BeforeActivation
<1>1. ASSUME ForgetConnection, data' = <<>>,
             sock' = "connected" => pc' = "activate"
      PROVE  BeforeActivation'
  BY <1>1 DEF ForgetConnection, NoDiagnostic, Quiet
(* Until something happens, only the activation request is on its way.      *)
<1>2. ASSUME granted => granted', unactivated => unactivated', peer' = peer
      PROVE  BeforeActivation
  BY <1>2 DEF Activation
<1>3. ASSUME NEW o, Reconnect(o), pc = "idle" PROVE BeforeActivation'
  <2>1. ForgetConnection /\ data = <<>>
    BY <1>3 DEF Reconnect, Connect, ConnectRaises, TesterTypes
  <2>2. CASE Connect /\ AfterConnect(o)
    BY <1>1, <2>1, <2>2 DEF AfterConnect, EndReader
  <2>3. CASE ConnectRaises /\ UNCHANGED <<pc, op, reader>>
    BY <1>1, <2>1, <2>3 DEF ConnectRaises
  <2> QED
    BY <1>3, <2>2, <2>3 DEF Reconnect
<1>4. CASE Open
  BY <1>3, <1>4 DEF Open
<1>5. CASE NeverOpened
  BY <1>2, <1>5 DEF NeverOpened, Begin, NoDiagnostic, Quiet
<1>6. CASE Close
  BY <1>1, <1>6 DEF Close, Begin, TesterTypes
<1>7. ASSUME NEW o \in {"send", "recv"}, UseOpenConnection(o) PROVE BeforeActivation'
  <2>1. sock = "connected" /\ pc = "idle" /\ UNCHANGED <<granted, unactivated, peer>>
    BY <1>7 DEF UseOpenConnection, Begin, IsOpen
  <2> QED
    BY <1>2, <2>1 DEF TesterTypes
<1>8. ASSUME NEW o \in {"send", "recv"}, UseNewConnection(o) PROVE BeforeActivation'
  BY <1>3, <1>8 DEF UseNewConnection, Begin
<1>9. CASE Activate
  <2>1. CASE ForgetConnection /\ sock' = "closed" /\ Return(0)
    BY <1>1, <2>1 DEF Return, EndReader
  <2>2. CASE ~(ForgetConnection /\ sock' = "closed" /\ Return(0))
    <3>1. /\ toPeer' = IF peer = "up" THEN Append(toPeer, Msg("activation", 0)) ELSE toPeer
          /\ pc' = "read" /\ stage' = "activation" /\ data' = <<>>
          /\ UNCHANGED <<tcp, net, rx, granted, unactivated>>
      BY <1>9, <2>2 DEF Activate, BeginReader
    <3>2. BeforeActivation
      BY <1>2, <3>1
    <3>3. NoDiagnostic(toPeer')
      BY <3>1, <3>2, AppendActivation
    <3> QED
      BY <3>1, <3>2, <3>3 DEF Quiet
  <2> QED
    BY <1>9, <2>1, <2>2
<1>10. CASE Transmit
  <2>1. /\ pc = "transmit" /\ sock = "connected" /\ stage = "none"
        /\ UNCHANGED <<granted, unactivated, peer>>
    BY <1>10 DEF Transmit, TesterTypes
  <2> QED
    BY <1>2, <2>1
<1>11. CASE Receive
  BY <1>2, <1>11 DEF Receive, Quiet
(* A call that ends while it activates says that the activation failed.      *)
<1>12. CASE ReceiveNothing \/ DeadlinePassed \/ ActivationFailed \/ AckRead \/ ResponseRead
  <2>1. /\ pc \in {"read", "parse"} /\ sock = "connected"
        /\ UNCHANGED <<granted, peer>> /\ unactivated' = (unactivated \/ stage = "activation")
    BY <1>12 DEF ReceiveNothing, DeadlinePassed, GiveUp, ActivationFailed, AckRead, ResponseRead,
                 FirstMessage, Return, TesterTypes
  <2> QED
    BY <1>2, <2>1
<1>13. CASE RoutingActivated
  <2>1. /\ pc = "parse" /\ parsed.msg.kind = "activated" /\ parsed.msg # NoMessage
        /\ UNCHANGED <<granted, peer, unactivated>>
    BY <1>13 DEF RoutingActivated, FirstMessage
  <2>2. data[1].msg.kind = "activated" /\ 1 \in DOMAIN data
    BY <2>1, ParsedFacts
  <2> QED
    BY <1>2, <2>1, <2>2 DEF Quiet
<1>14. CASE ReadOn
  BY <1>2, <1>14 DEF ReadOn, NoDiagnostic, Quiet
<1>15. CASE Arrive
  <2>1. UNCHANGED <<tcp, granted, unactivated, toPeer, data, pc, stage>>
    BY <1>15 DEF Arrive
  <2> QED
    BY <1>2, <1>15, <2>1, ArriveQuiet DEF NoDiagnostic, Quiet
<1>16. CASE GatewayActivates
  <2>1. /\ Tell(Msg("refused", 0)) /\ toPeer # <<>> /\ toPeer' = Tail(toPeer)
        /\ UNCHANGED <<tcp, rx, granted, unactivated, data, pc, stage>>
    BY <1>16 DEF GatewayActivates
  <2>2. Msg("refused", 0) \in Message /\ Msg("refused", 0).kind = "refused"
    BY MsgOf
  <2>3. BeforeActivation
    BY <1>2, <2>1
  <2>4. NoDiagnostic(toPeer') /\ Quiet(net')
    BY <2>1, <2>2, <2>3, TailActivation, TellQuiet
  <2> QED
    BY <2>1, <2>3, <2>4 DEF Quiet
<1>17. CASE GatewayAccepts \/ GatewayRejects
  <2>1. /\ toPeer # <<>> /\ Head(toPeer).kind = "diagnostic"
        /\ UNCHANGED <<granted, unactivated, peer>>
    BY <1>17 DEF GatewayAccepts, GatewayRejects
  <2> QED
    BY <1>2, <2>1, TailActivation
<1>18. CASE GatewayResponds
  <2>1. /\ Tell(Msg("response", working))
        /\ UNCHANGED <<tcp, toPeer, rx, granted, unactivated, data, pc, stage>>
    BY <1>18 DEF GatewayResponds
  <2>2. Msg("response", working) \in Message /\ Msg("response", working).kind = "response"
    BY MsgOf DEF WireTypes
  <2>3. BeforeActivation
    BY <1>2, <2>1
  <2> QED
    BY <2>1, <2>2, <2>3, TellQuiet DEF NoDiagnostic, Quiet
<1>19. CASE GatewaySpeaks
  <2>1. /\ Tell(Msg("unsolicited", 0))
        /\ UNCHANGED <<tcp, toPeer, rx, granted, unactivated, data, pc, stage>>
    BY <1>19 DEF GatewaySpeaks
  <2>2. Msg("unsolicited", 0) \in Message /\ Msg("unsolicited", 0).kind = "unsolicited"
    BY MsgOf
  <2>3. BeforeActivation
    BY <1>2, <2>1
  <2> QED
    BY <2>1, <2>2, <2>3, TellQuiet DEF NoDiagnostic, Quiet
<1>20. CASE GatewayCloses
  BY <1>20 DEF GatewayCloses
<1>21. CASE AllCallsDone \/ UNCHANGED vars
  BY <1>2, <1>21 DEF AllCallsDone, vars, NoDiagnostic, Quiet
<1> QED
  BY <1>4, <1>5, <1>6, <1>7, <1>8, <1>9, <1>10, <1>11, <1>12, <1>13, <1>14, <1>15, <1>16, <1>17,
     <1>18, <1>19, <1>20, <1>21 DEF Next, TesterStep, GatewayStep

-----------------------------------------------------------------------------
(* What send returns.                                                       *)

(* The requests on their way are among those that were.                     *)
FewerRequests ==
  \A i \in DOMAIN toPeer' : toPeer'[i].kind = "diagnostic" => \E j \in DOMAIN toPeer : toPeer[j] = toPeer'[i]

LEMMA FewerWhen ==
  ASSUME WireTypes,
         \/ toPeer' = toPeer
         \/ toPeer' = <<>>
         \/ toPeer # <<>> /\ toPeer' = Tail(toPeer)
         \/ toPeer' = Append(toPeer, Msg("activation", 0))
  PROVE  FewerRequests
<1>1. CASE toPeer # <<>> /\ toPeer' = Tail(toPeer)
  BY <1>1, ToPeerHead DEF FewerRequests
<1>2. CASE toPeer' = Append(toPeer, Msg("activation", 0))
  <2>1. /\ Msg("activation", 0).kind = "activation"
        /\ \A i \in DOMAIN Append(toPeer, Msg("activation", 0)) :
             \/ i \in DOMAIN toPeer /\ Append(toPeer, Msg("activation", 0))[i] = toPeer[i]
             \/ Append(toPeer, Msg("activation", 0))[i] = Msg("activation", 0)
    BY ToPeerAppend
  <2> QED
    BY <1>2, <2>1 DEF FewerRequests
<1> QED
  BY <1>1, <1>2 DEF FewerRequests

(* What a step does to requests, reports and the way to the gateway.        *)
SendStep ==
  \/ /\ UNCHANGED <<sentOn, served, unsent>> /\ FewerRequests
     /\ stage' = "ack" => stage = "ack" /\ written' = written
  \/ /\ UNCHANGED <<sentOn, served, toPeer>> /\ stage' = "none"
     /\ unsent' = IF stage = "ack" /\ ~written THEN unsent \cup {Requests} ELSE unsent
  \/ /\ UNCHANGED <<sentOn, unsent, stage, written>> /\ FewerRequests
     /\ toPeer # <<>> /\ Head(toPeer).kind = "diagnostic"
     /\ served' = served \cup {Head(toPeer).tag}
  \/ /\ UNCHANGED <<served, unsent>> /\ sock = "connected"
     /\ sentOn' = Append(sentOn, conn)
     /\ \/ toPeer' = Append(toPeer, Msg("diagnostic", Requests + 1)) /\ written'
        \/ toPeer' = toPeer

LEMMA SendSteps ==
  ASSUME TesterTypes, WireTypes, [Next]_vars
  PROVE  SendStep
<1> USE DEF SendStep
<1>1. ASSUME NEW o, Reconnect(o), pc = "idle"
      PROVE  UNCHANGED <<sentOn, served, unsent>> /\ toPeer' = <<>> /\ stage' # "ack"
  BY <1>1 DEF Reconnect, Connect, ConnectRaises, ForgetConnection, AfterConnect, Proceed,
              BeginReader, EndReader, TesterTypes
<1>2. CASE Open
  BY <1>1, <1>2, FewerWhen DEF Open
<1>3. CASE NeverOpened \/ Close
  BY <1>3, FewerWhen DEF NeverOpened, Close, ForgetConnection
<1>4. ASSUME NEW o \in {"send", "recv"}, UseOpenConnection(o) PROVE SendStep
  <2>1. stage' # "ack"
    BY <1>4 DEF UseOpenConnection, Proceed, BeginReader, EndReader
  <2> QED
    BY <1>4, <2>1, FewerWhen DEF UseOpenConnection
<1>5. ASSUME NEW o \in {"send", "recv"}, UseNewConnection(o) PROVE SendStep
  BY <1>1, <1>5, FewerWhen DEF UseNewConnection, Begin
<1>6. CASE Activate
  <2>1. CASE Return(0) /\ ForgetConnection
    <3>1. stage = "none"
      BY <1>6 DEF Activate, TesterTypes
    <3> QED
      BY <1>6, <2>1, <3>1, FewerWhen DEF Activate, Return, EndReader, ForgetConnection
  <2>2. CASE ~(Return(0) /\ ForgetConnection)
    <3>1. /\ toPeer' = IF peer = "up" THEN Append(toPeer, Msg("activation", 0)) ELSE toPeer
          /\ stage' = "activation" /\ UNCHANGED <<sentOn, served, unsent>>
      BY <1>6, <2>2 DEF Activate, BeginReader
    <3> QED
      BY <3>1, FewerWhen
  <2> QED
    BY <2>1, <2>2
<1>7. CASE Transmit
  BY <1>7 DEF Transmit, TesterTypes
<1>8. CASE Receive \/ ReadOn
  BY <1>8, FewerWhen DEF Receive, ReadOn
<1>9. CASE ReceiveNothing \/ DeadlinePassed \/ ActivationFailed \/ AckRead \/ ResponseRead
  <2>1. UNCHANGED <<sentOn, served, toPeer>>
    BY <1>9 DEF ReceiveNothing, DeadlinePassed, ActivationFailed, AckRead, ResponseRead, FirstMessage
  <2>2. PICK n : Return(n)
    BY <1>9 DEF ReceiveNothing, DeadlinePassed, GiveUp, ActivationFailed, AckRead, ResponseRead
  <2> QED
    BY <2>1, <2>2 DEF Return, EndReader, Reported
<1>10. CASE RoutingActivated
  <2>1. stage' # "ack"
    BY <1>10 DEF RoutingActivated, Proceed, BeginReader, EndReader
  <2> QED
    BY <1>10, <2>1, FewerWhen DEF RoutingActivated, FirstMessage
<1>11. CASE GatewayAccepts
  BY <1>11, FewerWhen DEF GatewayAccepts
<1>12. CASE Arrive \/ GatewayActivates \/ GatewayRejects \/ GatewayResponds \/ GatewaySpeaks \/ GatewayCloses
  BY <1>12, FewerWhen DEF Arrive, GatewayActivates, GatewayRejects, GatewayResponds, GatewaySpeaks,
     GatewayCloses
<1>13. CASE AllCallsDone \/ UNCHANGED vars
  BY <1>13, FewerWhen DEF AllCallsDone, vars
<1> QED
  BY <1>2, <1>3, <1>4, <1>5, <1>6, <1>7, <1>8, <1>9, <1>10, <1>11, <1>12, <1>13
     DEF Next, TesterStep, GatewayStep

LEMMA FlagsKept ==
  ASSUME written \in BOOLEAN, unactivated \in BOOLEAN, [Next]_vars
  PROVE  written' \in BOOLEAN /\ unactivated' \in BOOLEAN
<1>1. ASSUME NEW o, Reconnect(o) PROVE written' \in BOOLEAN /\ unactivated' \in BOOLEAN
  BY <1>1 DEF Reconnect, Connect, ConnectRaises
<1>2. CASE Open \/ NeverOpened \/ Close
  BY <1>1, <1>2 DEF Open, NeverOpened, Close
<1>3. CASE \E o \in {"send", "recv"} : UseOpenConnection(o) \/ UseNewConnection(o)
  BY <1>1, <1>3 DEF UseOpenConnection, UseNewConnection
<1>4. CASE Activate \/ Transmit \/ Receive \/ ReadOn
  BY <1>4 DEF Activate, Transmit, Receive, ReadOn, Return
<1>5. CASE ReceiveNothing \/ DeadlinePassed
  BY <1>5 DEF ReceiveNothing, DeadlinePassed, GiveUp, Return
<1>6. CASE RoutingActivated \/ ActivationFailed \/ AckRead \/ ResponseRead
  BY <1>6 DEF RoutingActivated, ActivationFailed, AckRead, ResponseRead, Return
<1>7. CASE GatewayStep \/ GatewaySpeaks \/ GatewayCloses
  BY <1>7 DEF GatewayStep, GatewayActivates, GatewayAccepts, GatewayRejects, GatewayResponds,
     GatewaySpeaks, GatewayCloses
<1>8. CASE Arrive \/ AllCallsDone \/ UNCHANGED vars
  BY <1>8 DEF Arrive, AllCallsDone, vars
<1> QED
  BY <1>2, <1>3, <1>4, <1>5, <1>6, <1>7, <1>8 DEF Next, TesterStep

LEMMA SendInvKept ==
  ASSUME Types, Flight, SendInv, [Next]_vars
  PROVE  SendInv'
<1>0. TesterTypes /\ WireTypes /\ HistoryTypes /\ Requests \in Nat
  BY LenProperties DEF Types, HistoryTypes, Requests
<1>1. written' \in BOOLEAN /\ unactivated' \in BOOLEAN
  BY FlagsKept DEF SendInv
<1>2. /\ served \subseteq 1..Requests /\ unsent \subseteq 1..Requests
      /\ \A n \in unsent : Gone(n)
      /\ stage = "ack" /\ ~written => Requests > 0 /\ Gone(Requests)
  BY DEF SendInv
<1>3. \A i \in DOMAIN toPeer : toPeer[i].kind = "diagnostic" => toPeer[i].tag \in 1..Requests
  BY DEF Flight, LiveRequests, Live
<1>4. ASSUME FewerRequests, served' = served, NEW n, Gone(n) PROVE Gone(n)'
  BY <1>4 DEF FewerRequests, Gone
<1>5. CASE /\ UNCHANGED <<sentOn, served, unsent>> /\ FewerRequests
           /\ stage' = "ack" => stage = "ack" /\ written' = written
  <2>1. Requests' = Requests
    BY <1>5 DEF Requests
  <2>2. \A n \in unsent : Gone(n)'
    BY <1>2, <1>4, <1>5
  <2>3. PICK k \in Nat : k = Requests
    BY <1>0
  <2>4. stage' = "ack" /\ ~written' => k > 0 /\ Gone(k)'
    BY <1>2, <1>4, <1>5, <2>3
  <2> QED
    BY <1>1, <1>2, <1>5, <2>1, <2>2, <2>3, <2>4 DEF SendInv, Gone
<1>6. CASE /\ UNCHANGED <<sentOn, served, toPeer>> /\ stage' = "none"
           /\ unsent' = IF stage = "ack" /\ ~written THEN unsent \cup {Requests} ELSE unsent
  <2>1. Requests' = Requests
    BY <1>6 DEF Requests
  <2>2. \A n : Gone(n) => Gone(n)'
    BY <1>6 DEF Gone
  <2> QED
    BY <1>0, <1>1, <1>2, <1>6, <2>1, <2>2 DEF SendInv
<1>7. CASE /\ UNCHANGED <<sentOn, unsent, stage, written>> /\ FewerRequests
           /\ toPeer # <<>> /\ Head(toPeer).kind = "diagnostic"
           /\ served' = served \cup {Head(toPeer).tag}
  <2>1. Requests' = Requests
    BY <1>7 DEF Requests
  <2>2. /\ 1 \in DOMAIN toPeer /\ Head(toPeer) = toPeer[1]
        /\ toPeer[1].kind = "diagnostic" /\ toPeer[1].tag \in 1..Requests
    BY <1>0, <1>3, <1>7, ToPeerHead
  <2>3. ASSUME NEW n, Gone(n) PROVE Gone(n)'
    BY <1>7, <2>2, <2>3 DEF FewerRequests, Gone
  <2>4. served' \subseteq 1..Requests
    BY <1>2, <1>7, <2>2
  <2>5. PICK k \in Nat : k = Requests
    BY <1>0
  <2>6. stage' = "ack" /\ ~written' => k > 0 /\ Gone(k)'
    BY <1>2, <1>7, <2>3, <2>5
  <2> QED
    BY <1>1, <1>2, <1>7, <2>1, <2>3, <2>4, <2>5, <2>6 DEF SendInv, Gone
<1>8. CASE /\ UNCHANGED <<served, unsent>> /\ sock = "connected"
           /\ sentOn' = Append(sentOn, conn)
           /\ \/ toPeer' = Append(toPeer, Msg("diagnostic", Requests + 1)) /\ written'
              \/ toPeer' = toPeer
  <2>1. Requests' = Requests + 1
    BY <1>0, <1>8, OneMoreRequest
  <2>2. PICK k \in Nat : k = Requests + 1
    BY <1>0
  <2>3. \A i \in DOMAIN toPeer' : \/ i \in DOMAIN toPeer /\ toPeer'[i] = toPeer[i]
                                  \/ toPeer'[i].tag = k /\ written'
    <3>1. CASE toPeer' = Append(toPeer, Msg("diagnostic", Requests + 1)) /\ written'
      <4>1. Msg("diagnostic", k) \in RequestType /\ Msg("diagnostic", k).tag = k
        BY <2>2 DEF Msg, RequestType
      <4> QED
        BY <1>0, <2>2, <3>1, <4>1, ToPeerAppend
    <3>2. CASE toPeer' = toPeer
      BY <3>2
    <3> QED
      BY <1>8, <3>1, <3>2
  <2>4. ASSUME NEW n \in unsent PROVE Gone(n)'
    BY <1>0, <1>2, <1>8, <2>2, <2>3 DEF Gone
  <2>5. ASSUME ~written' PROVE Gone(k)'
    BY <1>0, <1>2, <1>3, <1>8, <2>2, <2>3, <2>5 DEF Gone
  <2>6. served' \subseteq 1..Requests' /\ unsent' \subseteq 1..Requests' /\ Requests' > 0
    BY <1>0, <1>2, <1>8, <2>1
  <2> QED
    BY <1>1, <1>8, <2>1, <2>2, <2>4, <2>5, <2>6 DEF SendInv, Gone
<1> QED
  BY <1>0, <1>5, <1>6, <1>7, <1>8, SendSteps DEF SendStep

-----------------------------------------------------------------------------
(* The theorems about one connection.                                       *)

LEMMA InitLinkIInv == Init => LinkIInv
<1> SUFFICES ASSUME Init PROVE LinkIInv
  OBVIOUS
<1>1. /\ toPeer = <<>> /\ net = <<>> /\ rx = <<>> /\ data = <<>> /\ sentOn = <<>> /\ answers = <<>>
      /\ parser = NoMessage
  BY DEF Init
<1>2. /\ toPeer \in Seq(RequestType) /\ net \in Seq(PieceType) /\ rx \in Seq(PieceType)
      /\ data \in Seq(PieceType) /\ sentOn \in Seq(Nat \ {0}) /\ answers \in Seq(AnswerType)
      /\ Requests = 0
  BY <1>1, EmptySeq DEF Requests
<1>3. TesterTypes
  BY <1>1, <1>2 DEF Init, TesterTypes
<1>4. WireTypes
  <2>1. granted = FALSE /\ granted \in BOOLEAN /\ disturbed \in BOOLEAN /\ peer = "up"
    BY DEF Init
  <2>2. sock = "none" /\ conn = 0 /\ working = 0 /\ unsolicited = 0
    BY DEF Init
  <2>3. conn \in Nat /\ working \in Nat /\ unsolicited \in Nat
    BY <2>2
  <2> QED
    BY <1>1, <1>2, <2>1, <2>2, <2>3, Zenon DEF WireTypes
<1>5. HistoryTypes /\ AnswersAreOfTheConnection
  BY <1>1, <1>2 DEF Init, HistoryTypes, AnswersAreOfTheConnection
<1>6. Flight
  BY <1>1, HeldIsLive DEF Init, Flight, AllLive, LiveRequests
<1>7. Activation
  BY <1>1 DEF Init, Activation, BeforeActivation, NoDiagnostic, Quiet
<1>8. SendInv
  BY DEF Init, SendInv
<1> QED
  BY <1>3, <1>4, <1>5, <1>6, <1>7, <1>8 DEF LinkIInv

LEMMA NextLinkIInv == LinkIInv /\ [Next]_vars => LinkIInv'
<1> SUFFICES ASSUME LinkIInv, [Next]_vars PROVE LinkIInv'
  OBVIOUS
<1>1. TesterTypes' /\ WireTypes'
  BY TesterKept, WireKept DEF LinkIInv, HistoryTypes
<1>2. HistoryTypes' /\ AnswersAreOfTheConnection'
  BY HistoryKept DEF LinkIInv, Types
<1>3. Flight' /\ Activation'
  BY FlightKept, ActivationKept DEF LinkIInv, Types
<1>4. SendInv'
  BY SendInvKept DEF LinkIInv, Types
<1> QED
  BY <1>1, <1>2, <1>3, <1>4 DEF LinkIInv

LEMMA SpecLinkIInv == Spec => []LinkIInv
BY InitLinkIInv, NextLinkIInv, PTL DEF Spec

LEMMA AnswerBounds ==
  ASSUME NEW a \in AnswerType, NEW r \in Nat, a.asked <= r, a.tag <= a.asked
  PROVE  a \in [tag : 0..r, asked : 0..r, conn : Nat, inStep : BOOLEAN]
<1>1. a.tag \in 0..r /\ a.asked \in 0..r
  BY DEF AnswerType
<1>2. /\ a = [tag |-> a.tag, asked |-> a.asked, conn |-> a.conn, inStep |-> a.inStep]
      /\ a.conn \in Nat /\ a.inStep \in BOOLEAN
  BY Zenon DEF AnswerType
<1> QED
  BY <1>1, <1>2, Zenon

LEMMA LinkIInvIsTyped == LinkIInv => TypeOK
<1> SUFFICES ASSUME LinkIInv PROVE TypeOK
  OBVIOUS
<1>0. TesterTypes /\ WireTypes /\ HistoryTypes /\ Requests \in Nat
  BY LenProperties DEF LinkIInv, HistoryTypes, Requests
<1>1. sentOn \in Seq(1..conn)
  <2>1. \A n \in 1..Len(sentOn) : sentOn[n] \in Nat \ {0} /\ sentOn[n] <= conn
    BY <1>0, ElementOfSeq DEF HistoryTypes, Requests
  <2>2. \A n \in 1..Len(sentOn) : sentOn[n] \in 1..conn
    BY <1>0, <2>1 DEF WireTypes
  <2>3. sentOn \in [1..Len(sentOn) -> Nat \ {0}] /\ Len(sentOn) \in Nat
    BY <1>0, LenProperties DEF HistoryTypes
  <2>4. sentOn \in [1..Len(sentOn) -> 1..conn]
    BY <2>2, <2>3
  <2> QED
    BY <2>3, <2>4, SeqDef
<1>2. answers \in Seq([tag : 0..Requests, asked : 0..Requests, conn : Nat, inStep : BOOLEAN])
  <2> DEFINE A == [tag : 0..Requests, asked : 0..Requests, conn : Nat, inStep : BOOLEAN]
  <2>1. answers \in [1..Len(answers) -> AnswerType] /\ Len(answers) \in Nat
        /\ DOMAIN answers = 1..Len(answers)
    BY <1>0, LenProperties DEF HistoryTypes
  <2>2. ASSUME NEW i \in 1..Len(answers) PROVE answers[i] \in A
    <3>1. /\ answers[i] \in AnswerType
          /\ answers[i].asked <= Requests /\ answers[i].tag <= answers[i].asked
      BY <1>0, <2>1 DEF HistoryTypes
    <3> QED
      BY <1>0, <3>1, AnswerBounds
  <2>3. answers \in [1..Len(answers) -> A]
    BY <2>1, <2>2
  <2> HIDE DEF A
  <2>4. answers \in Seq(A)
    BY <2>1, <2>3, SeqDef
  <2> QED
    BY <2>4 DEF A
<1>3. working \in 0..Requests
  BY <1>0 DEF LinkIInv, Flight, Live, WireTypes
<1>4. /\ toPeer \in Seq([kind : {"activation", "diagnostic"}, tag : Nat])
      /\ net \in Seq([msg : Message, part : Parts]) /\ rx \in Seq([msg : Message, part : Parts])
      /\ data \in Seq([msg : Message, part : Parts])
  BY <1>0 DEF WireTypes, TesterTypes, RequestType, PieceType
<1>5. sock # "connected" => wire = <<<<>>, <<>>, <<>>>> /\ ~granted
  BY <1>0 DEF WireTypes
<1>6. granted \in BOOLEAN /\ disturbed \in BOOLEAN
  BY <1>0 DEF WireTypes
<1>7. /\ stage = "none" => parser = NoMessage /\ data = <<>>
      /\ pc = "idle" <=> op = "none"
      /\ pc \in {"read", "parse"} <=> stage # "none"
  BY <1>0 DEF TesterTypes
<1>8. /\ sock \in {"none", "unconnected", "connected", "closed"} /\ conn \in Nat /\ peer \in {"up", "down"}
      /\ unsolicited \in Nat
  BY <1>0 DEF WireTypes
<1>9. /\ pc \in {"idle", "activate", "transmit", "read", "parse"}
      /\ op \in {"none", "open", "send", "recv"}
      /\ stage \in {"none", "activation", "ack", "response"}
      /\ parser \in Message \cup {NoMessage, Lost} /\ calls \in Nat
  BY <1>0 DEF TesterTypes
<1>10. taken \subseteq 1..Requests
  BY <1>0 DEF HistoryTypes
<1>11. /\ written \in BOOLEAN /\ unactivated \in BOOLEAN
       /\ unsent \subseteq 1..Requests /\ served \subseteq 1..Requests
  BY DEF LinkIInv, SendInv
<1> QED
  BY <1>1, <1>2, <1>3, <1>4, <1>5, <1>6, <1>7, <1>8, <1>9, <1>10, <1>11, Zenon DEF TypeOK

(* The communicator keeps its types, and where routing activation is needed *)
(* no diagnostic request leaves before it, unless the activation of that    *)
(* connection failed and a call said so (doip_communicator.py:26-28, 84-96). *)
THEOREM ActivationIsFirst == Spec => []LinkInv
<1>1. LinkIInv => ActivationComesFirst
  BY DEF LinkIInv, Activation, BeforeActivation, NoDiagnostic, ActivationComesFirst
<1> QED
  BY <1>1, LinkIInvIsTyped, SpecLinkIInv, PTL DEF LinkInv

(* A request of which send returned that nothing was sent is not passed on  *)
(* to the ECU, then or later (doip_utils.py:253-257).                       *)
THEOREM UnsentRequestsAreNotServed == Spec => []UnsentIsNeverServed
<1>1. LinkIInv => UnsentIsNeverServed
  BY DEF LinkIInv, SendInv, Gone, UnsentIsNeverServed
<1> QED
  BY <1>1, SpecLinkIInv, PTL

-----------------------------------------------------------------------------
(* The ways in which a step touches what is in flight.                      *)

Forgets ==
  /\ toPeer' = <<>> /\ net' = <<>> /\ rx' = <<>> /\ data' = <<>>
  /\ Held' = <<>> /\ working' = 0

(* A reader begins or ends, and a request may go out.                       *)
DropsReader ==
  /\ UNCHANGED <<rx, net, working>> /\ data' = <<>> /\ Held' = <<>>
  /\ \/ toPeer' = toPeer
     \/ \E k \in {"activation", "diagnostic"}, n \in Nat :
          /\ toPeer' = Append(toPeer, Msg(k, n))
          /\ k = "diagnostic" => n = Requests + 1

(* The Parser takes what the reader has, or what came is received.          *)
ParserTakes ==
  /\ UNCHANGED <<toPeer, rx, net, working>> /\ data' = <<>>
  /\ \/ Held' = <<>>
     \/ 1 \in DOMAIN data /\ data[1].part = "start" /\ Held' = <<Piece(data[1].msg, "start")>>

ReaderTakes ==
  /\ UNCHANGED <<toPeer, net, working>> /\ Held' = Held
  /\ data = <<>> /\ data' = rx /\ rx' = <<>>

PieceArrives ==
  /\ UNCHANGED <<toPeer, data, working>> /\ Held' = Held
  /\ \E p \in PieceType :
       /\ net # <<>> /\ rx' = Append(rx, p)
       /\ \/ p = net[1] /\ net' = Tail(net)
          \/ \E q \in PieceType :
               /\ net[1].part = "all" /\ p.part = "start" /\ q.part = "rest"
               /\ net[1].msg = p.msg /\ q.msg = p.msg /\ p.msg.kind = "response"
               /\ DOMAIN net' = DOMAIN net /\ net'[1] = q
               /\ \A i \in DOMAIN net : i # 1 => net'[i] = net[i]

GatewayTells ==
  /\ UNCHANGED <<rx, data>> /\ Held' = Held
  /\ \E m \in Message :
       /\ net' = Append(net, Piece(m, "all"))
       /\ \/ /\ m.kind # "response" /\ working' = working
             /\ toPeer' = toPeer \/ (toPeer # <<>> /\ toPeer' = Tail(toPeer))
          \/ /\ m.kind # "response" /\ working = 0
             /\ toPeer # <<>> /\ toPeer' = Tail(toPeer)
             /\ toPeer[1].kind = "diagnostic" /\ working' = toPeer[1].tag
          \/ /\ m.tag = working /\ working # 0 /\ working' = 0 /\ toPeer' = toPeer

GatewayLeaves ==
  /\ UNCHANGED <<rx, net, data>> /\ Held' = Held
  /\ toPeer' = <<>> /\ working' = 0

Keeps == UNCHANGED <<toPeer, rx, net, data, working>> /\ Held' = Held

LEMMA FlightSteps ==
  ASSUME TesterTypes, WireTypes, HistoryTypes, [Next]_vars
  PROVE  \/ Forgets \/ DropsReader \/ ParserTakes \/ ReaderTakes \/ PieceArrives
         \/ GatewayTells \/ GatewayLeaves \/ Keeps
<1>1. ASSUME parser' = NoMessage \/ parser' = Lost PROVE Held' = <<>>
  BY <1>1, NoMessageOf DEF Held
<1>2. ASSUME parser' = parser PROVE Held' = Held
  BY <1>2 DEF Held
<1>3. ASSUME ForgetConnection, data' = <<>>, parser' = NoMessage PROVE Forgets
  BY <1>1, <1>3 DEF ForgetConnection, Forgets
<1>4. ASSUME NEW o, Reconnect(o), pc = "idle" PROVE Forgets
  <2>1. ForgetConnection
    BY <1>4 DEF Reconnect, Connect, ConnectRaises
  <2>2. data' = <<>> /\ parser' = NoMessage
    BY <1>4 DEF Reconnect, AfterConnect, Proceed, BeginReader, EndReader, TesterTypes
  <2> QED
    BY <1>3, <2>1, <2>2
<1>5. CASE Open
  BY <1>4, <1>5 DEF Open
<1>6. CASE NeverOpened
  BY <1>2, <1>6 DEF NeverOpened, Keeps
<1>7. CASE Close
  BY <1>3, <1>7 DEF Close, Begin, TesterTypes
<1>8. ASSUME NEW o \in {"send", "recv"}, UseOpenConnection(o) PROVE DropsReader
  <2>1. data' = <<>> /\ parser' = NoMessage
    BY <1>8 DEF UseOpenConnection, Proceed, BeginReader, EndReader
  <2> QED
    BY <1>1, <1>8, <2>1 DEF UseOpenConnection, DropsReader
<1>9. ASSUME NEW o \in {"send", "recv"}, UseNewConnection(o) PROVE Forgets
  BY <1>4, <1>9 DEF UseNewConnection, Begin
<1>10. CASE Activate
  <2>1. data' = <<>> /\ parser' = NoMessage
    BY <1>10 DEF Activate, BeginReader, Return, EndReader
  <2>2. CASE ForgetConnection
    BY <1>3, <2>1, <2>2
  <2>3. CASE ~ForgetConnection
    <3>1. /\ toPeer' = IF peer = "up" THEN Append(toPeer, Msg("activation", 0)) ELSE toPeer
          /\ UNCHANGED <<net, rx, working>>
      BY <1>10, <2>3 DEF Activate
    <3> QED
      BY <1>1, <2>1, <3>1 DEF DropsReader
  <2> QED
    BY <2>2, <2>3
<1>11. CASE Transmit
  <2>1. /\ toPeer' = IF peer = "up" THEN Append(toPeer, Msg("diagnostic", Requests + 1)) ELSE toPeer
        /\ UNCHANGED <<net, rx, working>> /\ data' = <<>> /\ parser' = NoMessage
    BY <1>11 DEF Transmit, BeginReader
  <2>2. Requests + 1 \in Nat
    BY LenProperties DEF Requests, HistoryTypes
  <2> QED
    BY <1>1, <2>1, <2>2 DEF DropsReader
<1>12. CASE Receive
  BY <1>2, <1>12 DEF Receive, ReaderTakes, TesterTypes
<1>13. CASE ReceiveNothing \/ DeadlinePassed \/ ActivationFailed \/ AckRead \/ ResponseRead \/ RoutingActivated
  <2>1. data' = <<>> /\ parser' = NoMessage
    BY <1>13 DEF ReceiveNothing, DeadlinePassed, GiveUp, ActivationFailed, AckRead, ResponseRead, RoutingActivated, Return, Proceed, BeginReader, EndReader
  <2>2. UNCHANGED <<wire, working>>
    BY <1>13 DEF ReceiveNothing, DeadlinePassed, ActivationFailed, AckRead, ResponseRead, RoutingActivated, FirstMessage
  <2> QED
    BY <1>1, <2>1, <2>2 DEF DropsReader
<1>14. CASE ReadOn
  <2>1. UNCHANGED <<wire, working>> /\ data' = <<>> /\ parser' = parsed.keep /\ parsed.msg = NoMessage /\ pc = "parse"
    BY <1>14 DEF ReadOn
  <2>2. CASE parsed.keep = Lost
    BY <1>1, <2>1, <2>2 DEF ParserTakes
  <2>3. CASE parsed.keep = data[1].msg /\ data[1].part = "start" /\ 1 \in DOMAIN data
    <3>1. Held' = IF data[1].msg.kind = "response" THEN <<Piece(data[1].msg, "start")>> ELSE <<>>
      BY <2>1, <2>3 DEF Held
    <3> QED
      BY <2>1, <2>3, <3>1 DEF ParserTakes
  <2> QED
    BY <2>1, <2>2, <2>3, ParsedFacts
<1>15. CASE Arrive
  BY <1>2, <1>15, ArriveEffect DEF PieceArrives
<1>16. ASSUME parser' = parser, UNCHANGED <<rx, data>>, NEW m \in Message, Tell(m),
              \/ /\ m.kind # "response" /\ working' = working
                 /\ toPeer' = toPeer \/ (toPeer # <<>> /\ toPeer' = Tail(toPeer))
              \/ /\ m.kind # "response" /\ working = 0
                 /\ toPeer # <<>> /\ toPeer' = Tail(toPeer)
                 /\ toPeer[1].kind = "diagnostic" /\ working' = toPeer[1].tag
              \/ /\ m.tag = working /\ working # 0 /\ working' = 0 /\ toPeer' = toPeer
       PROVE  GatewayTells
  BY <1>2, <1>16 DEF GatewayTells, Tell
<1>17. CASE GatewayActivates
  <2>1. PICK m \in Message : Tell(m) /\ m.kind # "response"
    BY <1>17, MsgOf DEF GatewayActivates
  <2> QED
    BY <1>16, <1>17, <2>1 DEF GatewayActivates
<1>18. CASE GatewayAccepts
  <2>1. PICK m \in Message : Tell(m) /\ m.kind # "response"
    BY <1>18, MsgOf, ToPeerHead DEF GatewayAccepts
  <2> QED
    BY <1>16, <1>18, <2>1, ToPeerHead DEF GatewayAccepts
<1>19. CASE GatewayRejects
  <2>1. PICK m \in Message : Tell(m) /\ m.kind # "response"
    BY <1>19, MsgOf, ToPeerHead DEF GatewayRejects
  <2> QED
    BY <1>16, <1>19, <2>1 DEF GatewayRejects
<1>20. CASE GatewayResponds
  <2>1. PICK m \in Message : Tell(m) /\ m.tag = working
    BY <1>20, MsgOf DEF GatewayResponds, WireTypes
  <2> QED
    BY <1>16, <1>20, <2>1 DEF GatewayResponds
<1>21. CASE GatewaySpeaks
  <2>1. PICK m \in Message : Tell(m) /\ m.kind # "response"
    BY <1>21, MsgOf DEF GatewaySpeaks
  <2> QED
    BY <1>16, <1>21, <2>1 DEF GatewaySpeaks
<1>22. CASE GatewayCloses
  BY <1>2, <1>22 DEF GatewayCloses, GatewayLeaves
<1>23. CASE AllCallsDone \/ UNCHANGED vars
  BY <1>2, <1>23 DEF AllCallsDone, vars, Keeps
<1> QED
  BY <1>5, <1>6, <1>7, <1>8, <1>9, <1>10, <1>11, <1>12, <1>13, <1>14, <1>15, <1>17, <1>18,
     <1>19, <1>20, <1>21, <1>22, <1>23 DEF Next, TesterStep, GatewayStep

-----------------------------------------------------------------------------
(* Streams of pieces, put together and taken apart.                         *)

(* A piece that may come after all of s, or before all of it.               *)
After(s, p) == \A i \in DOMAIN s : Follows(s[i], p)
Before(p, s) == \A i \in DOMAIN s : Follows(p, s[i])

LEMMA EmptyStream ==
  ASSUME NEW s, NEW n
  PROVE  InOrder(<<>>) /\ Ahead(<<>>, s) /\ Ahead(s, <<>>) /\ Earlier(<<>>, n) /\ Newer(n, <<>>)
<1>1. DOMAIN <<>> = {}
  BY EmptySeq
<1> QED
  BY <1>1, Zenon DEF InOrder, Ahead, Earlier, Newer

LEMMA TailOfStream ==
  ASSUME NEW s \in Seq(PieceType), s # <<>>
  PROVE  /\ InOrder(s) => InOrder(Tail(s)) /\ Before(s[1], Tail(s))
         /\ \A t : Ahead(t, s) => Ahead(t, Tail(s)) /\ After(t, s[1])
         /\ \A t : Ahead(s, t) => Ahead(Tail(s), t) /\ Before(s[1], t)
         /\ \A n : Earlier(s, n) => Earlier(Tail(s), n)
         /\ \A n : Newer(n, s) => Newer(n, Tail(s))
<1>1. /\ 1 \in DOMAIN s /\ DOMAIN s = 1..Len(s) /\ DOMAIN Tail(s) = 1..Len(s)-1 /\ Len(s) \in Nat
      /\ \A i \in DOMAIN Tail(s) : i+1 \in DOMAIN s /\ Tail(s)[i] = s[i+1]
  BY HeadTail
<1> DEFINE ts == Tail(s)
<1>2. /\ 1 \in DOMAIN s /\ DOMAIN s = 1..Len(s) /\ DOMAIN ts = 1..Len(s)-1 /\ Len(s) \in Nat
      /\ \A i \in DOMAIN ts : i+1 \in DOMAIN s /\ ts[i] = s[i+1]
  BY <1>1
<1> HIDE DEF ts
<1>3. ASSUME InOrder(s) PROVE InOrder(ts) /\ Before(s[1], ts)
  <2>1. \A i, j \in DOMAIN ts : i < j => i+1 < j+1
    BY <1>2
  <2>2. \A i \in DOMAIN ts : 1 < i+1
    BY <1>2
  <2> QED
    BY <1>2, <1>3, <2>1, <2>2 DEF InOrder, Before
<1>4. ASSUME NEW t, Ahead(t, s) PROVE Ahead(t, ts) /\ After(t, s[1])
  BY <1>2, <1>4, Zenon DEF Ahead, After
<1>5. ASSUME NEW t, Ahead(s, t) PROVE Ahead(ts, t) /\ Before(s[1], t)
  BY <1>2, <1>5, Zenon DEF Ahead, Before
<1>6. ASSUME NEW n, Earlier(s, n) PROVE Earlier(ts, n)
  BY <1>2, <1>6 DEF Earlier
<1>7. ASSUME NEW n, Newer(n, s) PROVE Newer(n, ts)
  BY <1>2, <1>7 DEF Newer
<1> QED
  BY <1>3, <1>4, <1>5, <1>6, <1>7 DEF ts

LEMMA AppendToStream ==
  ASSUME NEW s \in Seq(PieceType), NEW p \in PieceType
  PROVE  /\ InOrder(s) /\ After(s, p) => InOrder(Append(s, p))
         /\ \A t : Ahead(t, s) /\ After(t, p) => Ahead(t, Append(s, p))
         /\ \A t : Ahead(s, t) /\ Before(p, t) => Ahead(Append(s, p), t)
         /\ \A n : Earlier(s, n) /\ (p.msg.kind = "response" => p.msg.tag < n)
                  => Earlier(Append(s, p), n)
         /\ \A n : Newer(n, s) /\ (p.msg.kind = "response" /\ p.part # "rest" => n < p.msg.tag)
                  => Newer(n, Append(s, p))
<1> DEFINE c == Append(s, p)
<1>1. /\ Len(s) \in Nat /\ DOMAIN s = 1..Len(s) /\ DOMAIN c = 1..Len(s)+1
      /\ \A i \in DOMAIN c : \/ i \in DOMAIN s /\ i <= Len(s) /\ c[i] = s[i]
                             \/ i = Len(s)+1 /\ c[i] = p
  BY AppendOne
<1> HIDE DEF c
<1>2. ASSUME InOrder(s), After(s, p) PROVE InOrder(c)
  <2> SUFFICES ASSUME NEW i \in DOMAIN c, NEW j \in DOMAIN c, i < j PROVE Follows(c[i], c[j])
    BY DEF InOrder
  <2>1. i \in DOMAIN s /\ c[i] = s[i]
    BY <1>1
  <2>2. (j \in DOMAIN s /\ c[j] = s[j]) \/ c[j] = p
    BY <1>1
  <2> QED
    BY <1>2, <2>1, <2>2 DEF InOrder, After
<1>3. ASSUME NEW t, Ahead(t, s), After(t, p) PROVE Ahead(t, c)
  BY <1>1, <1>3, Zenon DEF Ahead, After
<1>4. ASSUME NEW t, Ahead(s, t), Before(p, t) PROVE Ahead(c, t)
  BY <1>1, <1>4, Zenon DEF Ahead, Before
<1>5. ASSUME NEW n, Earlier(s, n), p.msg.kind = "response" => p.msg.tag < n PROVE Earlier(c, n)
  BY <1>1, <1>5 DEF Earlier
<1>6. ASSUME NEW n, Newer(n, s), p.msg.kind = "response" /\ p.part # "rest" => n < p.msg.tag
      PROVE  Newer(n, c)
  BY <1>1, <1>6 DEF Newer
<1> QED
  BY <1>2, <1>3, <1>4, <1>5, <1>6 DEF c

(* A piece, or a half of it, in the place of the first one.                 *)
LEMMA HalvesFollow ==
  ASSUME NEW w, NEW p, NEW q, w.part = "all", p.part = "start", q.part = "rest",
         w.msg = p.msg, q.msg = p.msg
  PROVE  /\ Follows(p, q)
         /\ \A o : Follows(o, w) => Follows(o, p) /\ Follows(o, q)
         /\ \A o : Follows(w, o) => Follows(p, o) /\ Follows(q, o)
BY DEF Follows

(* The streams of a link whose variables have their types.                  *)
LEMMA Streams ==
  ASSUME TesterTypes, WireTypes
  PROVE  /\ data \in Seq(PieceType) /\ rx \in Seq(PieceType) /\ net \in Seq(PieceType)
         /\ \/ Held = <<>>
            \/ /\ parser \in Message /\ parser.kind = "response"
               /\ Held = <<Piece(parser, "start")>>
         /\ Held \in Seq(PieceType)
<1>1. CASE parser.kind = "response"
  <2>1. parser \in Message
    BY <1>1, NoMessageOf DEF TesterTypes
  <2>2. Piece(parser, "start") \in PieceType
    BY <2>1, PieceOf DEF Parts
  <2> QED
    BY <1>1, <2>1, <2>2 DEF Held, TesterTypes, WireTypes
<1>2. CASE parser.kind # "response"
  BY <1>2, EmptySeq DEF Held, TesterTypes, WireTypes
<1> QED
  BY <1>1, <1>2

(* The arrival of a piece, as two streams see it.                           *)
LEMMA ArrivalKeepsOrder ==
  ASSUME TesterTypes, WireTypes, PieceArrives, InOrder(rx), InOrder(net), Ahead(rx, net)
  PROVE  /\ InOrder(rx') /\ InOrder(net') /\ Ahead(rx', net')
         /\ \A s : Ahead(s, rx) /\ Ahead(s, net) => Ahead(s, rx') /\ Ahead(s, net')
         /\ \A n : Earlier(rx, n) /\ Earlier(net, n) => Earlier(rx', n) /\ Earlier(net', n)
         /\ \A n : Newer(n, rx) /\ Newer(n, net) => Newer(n, rx') /\ Newer(n, net')
<1>1. /\ rx \in Seq(PieceType) /\ net \in Seq(PieceType)
  BY Streams
<1>2. PICK p \in PieceType :
       /\ net # <<>> /\ rx' = Append(rx, p)
       /\ \/ p = net[1] /\ net' = Tail(net)
          \/ \E q \in PieceType :
               /\ net[1].part = "all" /\ p.part = "start" /\ q.part = "rest"
               /\ net[1].msg = p.msg /\ q.msg = p.msg /\ p.msg.kind = "response"
               /\ DOMAIN net' = DOMAIN net /\ net'[1] = q
               /\ \A i \in DOMAIN net : i # 1 => net'[i] = net[i]
  BY DEF PieceArrives
<1>3. /\ Len(net) \in Nat /\ 1 \in DOMAIN net /\ DOMAIN net = 1..Len(net)
  BY <1>1, <1>2, HeadTail
<1>4. /\ \A s : Ahead(s, net) => After(s, net[1])
      /\ Before(net[1], Tail(net))
  BY <1>1, <1>2, TailOfStream
<1> DEFINE w == net[1]
           r == rx
<1>5. CASE p = w /\ net' = Tail(net)
  <2>1. InOrder(rx') /\ InOrder(net')
    BY <1>1, <1>2, <1>4, <1>5, AppendToStream, TailOfStream
  <2>2. Ahead(rx', net')
    <3>1. Ahead(rx, Tail(net))
      BY <1>1, <1>2, TailOfStream
    <3> QED
      BY <1>1, <1>2, <1>4, <1>5, <3>1, AppendToStream
  <2>3. ASSUME NEW s, Ahead(s, rx), Ahead(s, net) PROVE Ahead(s, rx') /\ Ahead(s, net')
    BY <1>1, <1>2, <1>4, <1>5, <2>3, AppendToStream, TailOfStream
  <2>4. ASSUME NEW n, Earlier(rx, n), Earlier(net, n) PROVE Earlier(rx', n) /\ Earlier(net', n)
    <3>1. w.msg.kind = "response" => w.msg.tag < n
      BY <1>3, <2>4 DEF Earlier
    <3> QED
      BY <1>1, <1>2, <1>5, <2>4, <3>1, AppendToStream, TailOfStream
  <2>5. ASSUME NEW n, Newer(n, rx), Newer(n, net) PROVE Newer(n, rx') /\ Newer(n, net')
    <3>1. w.msg.kind = "response" /\ w.part # "rest" => n < w.msg.tag
      BY <1>3, <2>5 DEF Newer
    <3> QED
      BY <1>1, <1>2, <1>5, <2>5, <3>1, AppendToStream, TailOfStream
  <2> QED
    BY <2>1, <2>2, <2>3, <2>4, <2>5
<1>6. ASSUME NEW q \in PieceType,
             w.part = "all", p.part = "start", q.part = "rest",
             w.msg = p.msg, q.msg = p.msg, p.msg.kind = "response",
             DOMAIN net' = DOMAIN net, net'[1] = q,
             \A i \in DOMAIN net : i # 1 => net'[i] = net[i]
      PROVE  /\ InOrder(rx') /\ InOrder(net') /\ Ahead(rx', net')
             /\ \A s : Ahead(s, rx) /\ Ahead(s, net) => Ahead(s, rx') /\ Ahead(s, net')
             /\ \A n : Earlier(rx, n) /\ Earlier(net, n) => Earlier(rx', n) /\ Earlier(net', n)
             /\ \A n : Newer(n, rx) /\ Newer(n, net) => Newer(n, rx') /\ Newer(n, net')
  <2>1. /\ Follows(p, q)
        /\ \A o : Follows(o, w) => Follows(o, p) /\ Follows(o, q)
        /\ \A o : Follows(w, o) => Follows(p, o) /\ Follows(q, o)
    BY <1>6, HalvesFollow
  <2>2. ASSUME NEW i \in DOMAIN net' PROVE (i = 1 /\ net'[i] = q) \/ (i # 1 /\ net'[i] = net[i])
    BY <1>6, <2>2
  <2>3. \A i \in DOMAIN net : i # 1 => 1 < i
    BY <1>3
  <2>4. ASSUME NEW i \in DOMAIN net, i # 1 PROVE Follows(w, net[i])
    BY <1>3, <2>3, <2>4 DEF InOrder
  <2>5. InOrder(net')
    <3> SUFFICES ASSUME NEW i \in DOMAIN net', NEW j \in DOMAIN net', i < j
                 PROVE  Follows(net'[i], net'[j])
      BY DEF InOrder
    <3>1. j # 1 /\ net'[j] = net[j] /\ i \in DOMAIN net /\ j \in DOMAIN net
      BY <1>3, <1>6, <2>2
    <3>2. CASE i = 1
      BY <2>1, <2>2, <2>4, <3>1, <3>2
    <3>3. CASE i # 1
      BY <2>2, <3>1, <3>3 DEF InOrder
    <3> QED
      BY <3>2, <3>3
  <2>6. ASSUME NEW s, Ahead(s, net) PROVE After(s, p) /\ Ahead(s, net')
    <3>1. ASSUME NEW i \in DOMAIN s PROVE Follows(s[i], p) /\ Follows(s[i], q)
      BY <1>3, <2>1, <2>6 DEF Ahead
    <3>2. ASSUME NEW i \in DOMAIN s, NEW j \in DOMAIN net' PROVE Follows(s[i], net'[j])
      BY <1>6, <2>2, <2>6, <3>1 DEF Ahead
    <3> QED
      BY <3>1, <3>2 DEF After, Ahead
  <2>7. Before(p, net')
    <3> SUFFICES ASSUME NEW j \in DOMAIN net' PROVE Follows(p, net'[j])
      BY DEF Before
    <3> QED
      BY <1>6, <2>1, <2>2, <2>4
  <2>8. InOrder(rx') /\ Ahead(rx', net')
    BY <1>1, <1>2, <2>6, <2>7, AppendToStream
  <2>9. ASSUME NEW s, Ahead(s, rx), Ahead(s, net) PROVE Ahead(s, rx') /\ Ahead(s, net')
    BY <1>1, <1>2, <2>6, <2>9, AppendToStream
  <2>10. ASSUME NEW n, Earlier(rx, n), Earlier(net, n) PROVE Earlier(rx', n) /\ Earlier(net', n)
    <3>1. p.msg.tag < n
      BY <1>3, <1>6, <2>10 DEF Earlier
    <3>2. Earlier(net', n)
      BY <1>6, <2>2, <2>10, <3>1 DEF Earlier
    <3> QED
      BY <1>1, <1>2, <2>10, <3>1, <3>2, AppendToStream
  <2>11. ASSUME NEW n, Newer(n, rx), Newer(n, net) PROVE Newer(n, rx') /\ Newer(n, net')
    <3>1. n < p.msg.tag
      BY <1>3, <1>6, <2>11 DEF Newer
    <3>2. Newer(n, net')
      BY <1>6, <2>2, <2>11, <3>1 DEF Newer
    <3> QED
      BY <1>1, <1>2, <2>11, <3>1, <3>2, AppendToStream
  <2> QED
    BY <2>5, <2>8, <2>9, <2>10, <2>11
<1> QED
  BY <1>2, <1>5, <1>6

(* What the Parser keeps is where the reader's data were.                   *)
LEMMA ParserKeepsOrder ==
  ASSUME ParserTakes, TesterTypes
  PROVE  /\ \A t : Ahead(data, t) => Ahead(Held', t)
         /\ \A n : Earlier(data, n) => Earlier(Held', n)
         /\ \A n : Newer(n, data) => Newer(n, Held')
<1>1. CASE Held' = <<>>
  BY <1>1, EmptyStream
<1>2. CASE 1 \in DOMAIN data /\ data[1].part = "start" /\ Held' = <<Piece(data[1].msg, "start")>>
  <2> DEFINE h == Piece(data[1].msg, "start")
             c == <<h>>
  <2>1. h.msg = data[1].msg /\ h.part = data[1].part
    BY <1>2 DEF Piece
  <2>2. DOMAIN c = {1} /\ c[1] = h
    OBVIOUS
  <2> HIDE DEF h, c
  <2>3. \A o : Follows(data[1], o) => Follows(h, o)
    BY <2>1 DEF Follows
  <2>4. \A t : Ahead(data, t) => Ahead(c, t)
    BY <1>2, <2>2, <2>3 DEF Ahead
  <2>5. \A n : Earlier(data, n) => Earlier(c, n)
    BY <1>2, <2>1, <2>2 DEF Earlier
  <2>6. \A n : Newer(n, data) => Newer(n, c)
    BY <1>2, <2>1, <2>2 DEF Newer
  <2>7. Held' = c
    BY <1>2 DEF c, h
  <2> QED
    BY <2>4, <2>5, <2>6, <2>7
<1> QED
  BY <1>1, <1>2 DEF ParserTakes

(* What the gateway says comes last, and is about the request it works on.  *)
LEMMA TellKeepsOrder ==
  ASSUME WireTypes, NEW m \in Message, net' = Append(net, Piece(m, "all")),
         m.kind = "response" => AllBefore(m.tag)
  PROVE  /\ InOrder(net) => InOrder(net')
         /\ \A s \in {data, rx, Held} : Ahead(s, net) => Ahead(s, net')
         /\ \A n : Earlier(net, n) /\ (m.kind = "response" => m.tag < n) => Earlier(net', n)
         /\ \A n : Newer(n, net) /\ (m.kind = "response" => n < m.tag) => Newer(n, net')
<1> DEFINE p == Piece(m, "all")
<1>1. p \in PieceType /\ p.msg = m /\ net \in Seq(PieceType)
  BY PieceOf DEF Parts, WireTypes
<1>2. net' = Append(net, p)
  OBVIOUS
<1> HIDE DEF p
<1>3. ASSUME NEW s \in {data, rx, net, Held} PROVE After(s, p)
  BY <1>1, <1>3 DEF After, Follows, AllBefore, Earlier
<1>4. InOrder(net) => InOrder(net')
  BY <1>1, <1>2, <1>3, AppendToStream
<1>5. ASSUME NEW s \in {data, rx, Held}, Ahead(s, net) PROVE Ahead(s, net')
  BY <1>1, <1>2, <1>3, <1>5, AppendToStream
<1>6. ASSUME NEW n, Earlier(net, n), m.kind = "response" => m.tag < n PROVE Earlier(net', n)
  BY <1>1, <1>2, <1>6, AppendToStream
<1>7. ASSUME NEW n, Newer(n, net), m.kind = "response" => n < m.tag PROVE Newer(n, net')
  BY <1>1, <1>2, <1>7, AppendToStream
<1> QED
  BY <1>4, <1>5, <1>6, <1>7

LEMMA OrderedKept ==
  ASSUME Types, Flight, Ordered, RequestOrder, [Next]_vars
  PROVE  Ordered'
<1>0. TesterTypes /\ WireTypes /\ HistoryTypes
  BY DEF Types
<1>1. CASE Forgets
  BY <1>1, EmptyStream DEF Forgets, Ordered
<1>2. CASE DropsReader
  BY <1>2, EmptyStream DEF DropsReader, Ordered
<1>3. CASE ParserTakes
  <2>1. UNCHANGED <<rx, net>> /\ data' = <<>>
    BY <1>3 DEF ParserTakes
  <2>2. Ahead(Held', rx) /\ Ahead(Held', net)
    BY <1>0, <1>3, ParserKeepsOrder DEF Ordered
  <2> QED
    BY <2>1, <2>2, EmptyStream DEF Ordered
<1>4. CASE ReaderTakes
  BY <1>4, EmptyStream DEF ReaderTakes, Ordered
<1>5. CASE PieceArrives
  <2>1. /\ InOrder(rx') /\ InOrder(net') /\ Ahead(rx', net')
        /\ \A s : Ahead(s, rx) /\ Ahead(s, net) => Ahead(s, rx') /\ Ahead(s, net')
    BY <1>0, <1>5, ArrivalKeepsOrder DEF Ordered
  <2>2. data' = data /\ Held' = Held
    BY <1>5 DEF PieceArrives
  <2> QED
    BY <2>1, <2>2 DEF Ordered
<1>6. CASE GatewayTells
  <2>1. PICK m \in Message :
       /\ net' = Append(net, Piece(m, "all"))
       /\ \/ m.kind # "response"
          \/ m.tag = working /\ working # 0
    BY <1>6 DEF GatewayTells
  <2>2. m.kind = "response" => AllBefore(m.tag)
    BY <2>1 DEF RequestOrder
  <2>3. UNCHANGED <<rx, data>> /\ Held' = Held
    BY <1>6 DEF GatewayTells
  <2>4. /\ InOrder(net) => InOrder(net')
        /\ \A s \in {data, rx, Held} : Ahead(s, net) => Ahead(s, net')
    BY <1>0, <2>1, <2>2, TellKeepsOrder
  <2> QED
    BY <2>3, <2>4 DEF Ordered
<1>7. CASE GatewayLeaves \/ Keeps
  BY <1>7 DEF GatewayLeaves, Keeps, Ordered
<1> QED
  BY <1>0, <1>1, <1>2, <1>3, <1>4, <1>5, <1>6, <1>7, FlightSteps


(* What is before a request stays so, if the gateway answers no later one.  *)
LEMMA BeforeKept ==
  ASSUME Types, Ordered, [Next]_vars, NEW n, AllBefore(n),
         working # 0 /\ working' = 0 => working < n
  PROVE  AllBefore(n)'
<1>0. TesterTypes /\ WireTypes /\ HistoryTypes
  BY DEF Types
<1>1. CASE Forgets
  BY <1>1, EmptyStream DEF Forgets, AllBefore
<1>2. CASE DropsReader
  BY <1>2, EmptyStream DEF DropsReader, AllBefore
<1>3. CASE ParserTakes
  <2>1. UNCHANGED <<rx, net>> /\ data' = <<>> /\ Earlier(Held', n)
    BY <1>0, <1>3, ParserKeepsOrder DEF ParserTakes, AllBefore
  <2> QED
    BY <2>1, EmptyStream DEF AllBefore
<1>4. CASE ReaderTakes
  BY <1>4, EmptyStream DEF ReaderTakes, AllBefore
<1>5. CASE PieceArrives
  <2>1. Earlier(rx', n) /\ Earlier(net', n)
    BY <1>0, <1>5, ArrivalKeepsOrder DEF Ordered, AllBefore
  <2> QED
    BY <1>5, <2>1 DEF PieceArrives, AllBefore
<1>6. CASE GatewayTells
  <2>1. PICK m \in Message :
       /\ net' = Append(net, Piece(m, "all"))
       /\ \/ m.kind # "response"
          \/ m.tag = working /\ working # 0 /\ working' = 0
    BY <1>6 DEF GatewayTells
  <2>2. m.kind = "response" => m.tag < n
    BY <2>1
  <2>3. net \in Seq(PieceType) /\ Piece(m, "all") \in PieceType /\ Piece(m, "all").msg = m
    BY <1>0, PieceOf DEF Parts, WireTypes
  <2>4. Earlier(net', n)
    BY <2>1, <2>2, <2>3, AppendToStream DEF AllBefore
  <2> QED
    BY <1>6, <2>4 DEF GatewayTells, AllBefore
<1>7. CASE GatewayLeaves \/ Keeps
  BY <1>7 DEF GatewayLeaves, Keeps, AllBefore
<1> QED
  BY <1>0, <1>1, <1>2, <1>3, <1>4, <1>5, <1>6, <1>7, FlightSteps

(* A request not made yet is newer than all that is in flight.              *)
LEMMA NewestRequest ==
  ASSUME Types, Flight
  PROVE  AllBefore(Requests + 1) /\ working < Requests + 1 /\ Requests \in Nat
<1>1. Requests \in Nat
  BY LenProperties DEF Types, HistoryTypes, Requests
<1>2. \A n : Live(n) => n < Requests + 1
  BY <1>1 DEF Live
<1>3. ASSUME NEW s, AllLive(s) PROVE Earlier(s, Requests + 1)
  BY <1>2, <1>3 DEF AllLive, LiveMessage, Earlier
<1>4. Earlier(Held, Requests + 1)
  <2>1. CASE Held = <<>>
    BY <2>1, EmptyStream
  <2>2. CASE parser.kind = "response" /\ parser \in Message /\ Held = <<Piece(parser, "start")>>
    <3> DEFINE h == Piece(parser, "start")
    <3>1. h.msg = parser
      BY DEF Piece
    <3>2. DOMAIN <<h>> = {1} /\ <<h>>[1] = h
      OBVIOUS
    <3>3. parser.tag < Requests + 1
      BY <1>2, <2>2 DEF Flight, LiveMessage
    <3> HIDE DEF h
    <3>4. Earlier(<<h>>, Requests + 1)
      BY <3>1, <3>2, <3>3 DEF Earlier
    <3> QED
      BY <2>2, <3>4 DEF h
  <2> QED
    BY <2>1, <2>2, Streams DEF Types
<1>5. working < Requests + 1
  BY <1>1, <1>2 DEF Flight
<1> QED
  BY <1>1, <1>3, <1>4, <1>5 DEF Flight, AllBefore

(* What a step does to the way to the gateway and to its work.              *)
Queues ==
  \/ toPeer' = toPeer /\ (working' = working \/ working' = 0)
  \/ toPeer' = <<>> /\ working' = 0
  \/ /\ working' = working
     /\ \E k \in {"activation", "diagnostic"}, n \in Nat :
          /\ toPeer' = Append(toPeer, Msg(k, n))
          /\ k = "diagnostic" => n = Requests + 1
  \/ /\ toPeer # <<>> /\ toPeer' = Tail(toPeer)
     /\ \/ working' = working
        \/ working = 0 /\ toPeer[1].kind = "diagnostic" /\ working' = toPeer[1].tag

LEMMA QueueSteps ==
  ASSUME Types, [Next]_vars
  PROVE  Queues
<1>1. CASE GatewayTells
  BY <1>1 DEF GatewayTells, Queues
<1>2. CASE DropsReader
  BY <1>2 DEF DropsReader, Queues
<1> QED
  BY <1>1, <1>2, FlightSteps DEF Types, Forgets, ParserTakes, ReaderTakes, PieceArrives,
     GatewayLeaves, Keeps, Queues


LEMMA RequestOrderKept ==
  ASSUME Types, Flight, Ordered, RequestOrder, [Next]_vars
  PROVE  RequestOrder'
<1>0. TesterTypes /\ WireTypes /\ HistoryTypes /\ toPeer \in Seq(RequestType)
      /\ Len(toPeer) \in Nat /\ DOMAIN toPeer = 1..Len(toPeer) /\ working \in Nat
  BY LenProperties DEF Types, WireTypes
(* A diagnostic request that waits is newer than all that is in flight.     *)
<1>1. ASSUME NEW i \in DOMAIN toPeer, toPeer[i].kind = "diagnostic"
      PROVE  AllBefore(toPeer[i].tag) /\ working < toPeer[i].tag /\ toPeer[i].tag \in Nat \ {0}
  BY <1>1 DEF RequestOrder, Flight, LiveRequests, Live
<1>2. ASSUME NEW n \in Nat, AllBefore(n), working < n PROVE AllBefore(n)'
  BY <1>2, BeforeKept
<1>3. ASSUME NEW i \in DOMAIN toPeer, toPeer[i].kind = "diagnostic",
             NEW n \in Nat, n = toPeer[i].tag
      PROVE  AllBefore(n)'
  BY <1>1, <1>2, <1>3
<1>4. ASSUME working # 0, working' = working, NEW n \in Nat, n = working PROVE AllBefore(n)'
  BY <1>4, BeforeKept DEF RequestOrder
<1> DEFINE Waiting == \A i \in DOMAIN toPeer' : toPeer'[i].kind = "diagnostic" =>
                        (AllBefore(toPeer[i].tag) /\ working < toPeer[i].tag)'
           InTurn == \A i, j \in DOMAIN toPeer' :
             (i < j /\ toPeer'[i].kind = "diagnostic" /\ toPeer'[j].kind = "diagnostic") =>
               toPeer'[i].tag < toPeer'[j].tag
           Works == working' # 0 => AllBefore(working)'
<1>5. ASSUME Waiting, InTurn, Works PROVE RequestOrder'
  BY <1>5 DEF RequestOrder
<1>6. CASE toPeer' = toPeer /\ (working' = working \/ working' = 0)
  <2>1. Waiting
    <3> SUFFICES ASSUME NEW i \in DOMAIN toPeer', toPeer'[i].kind = "diagnostic"
                 PROVE  (AllBefore(toPeer[i].tag) /\ working < toPeer[i].tag)'
      OBVIOUS
    <3>1. PICK n \in Nat : n = toPeer[i].tag /\ n # 0 /\ working < n
      BY <1>1, <1>6
    <3>2. AllBefore(n)' /\ toPeer'[i].tag = n /\ working' < n
      BY <1>0, <1>3, <1>6, <3>1
    <3> QED
      BY <3>2
  <2>2. InTurn
    BY <1>6 DEF RequestOrder
  <2>3. Works
    <3> SUFFICES ASSUME working' # 0 PROVE AllBefore(working)'
      OBVIOUS
    <3>1. PICK n \in Nat : n = working
      BY <1>0
    <3>2. AllBefore(n)' /\ working' = n
      BY <1>4, <1>6, <3>1
    <3> QED
      BY <3>2
  <2> QED
    BY <1>5, <2>1, <2>2, <2>3
<1>7. CASE toPeer' = <<>> /\ working' = 0
  BY <1>5, <1>7
<1>8. CASE /\ working' = working
           /\ \E k \in {"activation", "diagnostic"}, n \in Nat :
                /\ toPeer' = Append(toPeer, Msg(k, n))
                /\ k = "diagnostic" => n = Requests + 1
  <2>1. PICK k \in {"activation", "diagnostic"}, n \in Nat :
                /\ toPeer' = Append(toPeer, Msg(k, n))
                /\ k = "diagnostic" => n = Requests + 1
    BY <1>8
  <2>2. /\ Msg(k, n).kind = k /\ Msg(k, n).tag = n
        /\ \A i \in DOMAIN toPeer' :
             \/ i \in DOMAIN toPeer /\ i <= Len(toPeer) /\ toPeer'[i] = toPeer[i]
             \/ i = Len(toPeer)+1 /\ toPeer'[i] = Msg(k, n)
    BY <1>0, <2>1, ToPeerAppend
  <2>3. k = "diagnostic" => AllBefore(n)' /\ working < n
    BY <1>0, <1>2, <2>1, NewestRequest
  <2>4. Waiting
    <3> SUFFICES ASSUME NEW i \in DOMAIN toPeer', toPeer'[i].kind = "diagnostic"
                 PROVE  (AllBefore(toPeer[i].tag) /\ working < toPeer[i].tag)'
      OBVIOUS
    <3>1. CASE i \in DOMAIN toPeer /\ toPeer'[i] = toPeer[i]
      <4>1. PICK b \in Nat : b = toPeer[i].tag /\ working < b
        BY <1>1, <3>1
      <4>2. AllBefore(b)' /\ toPeer'[i].tag = b /\ working' < b
        BY <1>3, <1>8, <3>1, <4>1
      <4> QED
        BY <4>2
    <3>2. CASE toPeer'[i] = Msg(k, n)
      <4>1. AllBefore(n)' /\ toPeer'[i].tag = n /\ working' < n
        BY <1>8, <2>2, <2>3, <3>2
      <4> QED
        BY <4>1
    <3> QED
      BY <2>2, <3>1, <3>2
  <2>5. ASSUME NEW i \in DOMAIN toPeer, toPeer[i].kind = "diagnostic" PROVE toPeer[i].tag < Requests + 1
    <3>1. Requests \in Nat /\ toPeer[i].tag \in 1..Requests
      BY <2>5, NewestRequest DEF Flight, LiveRequests, Live
    <3> QED
      BY <3>1
  <2>6. InTurn
    <3> SUFFICES ASSUME NEW i \in DOMAIN toPeer', NEW j \in DOMAIN toPeer', i < j,
                        toPeer'[i].kind = "diagnostic", toPeer'[j].kind = "diagnostic"
                 PROVE  toPeer'[i].tag < toPeer'[j].tag
      OBVIOUS
    <3>1. i \in DOMAIN toPeer /\ toPeer'[i] = toPeer[i]
      BY <1>0, <2>2
    <3>2. CASE j \in DOMAIN toPeer /\ toPeer'[j] = toPeer[j]
      BY <3>1, <3>2 DEF RequestOrder
    <3>3. CASE toPeer'[j] = Msg(k, n)
      BY <2>1, <2>2, <2>5, <3>1, <3>3
    <3> QED
      BY <2>2, <3>2, <3>3
  <2>7. Works
    <3> SUFFICES ASSUME working' # 0 PROVE AllBefore(working)'
      OBVIOUS
    <3>1. PICK b \in Nat : b = working
      BY <1>0
    <3>2. AllBefore(b)' /\ working' = b
      BY <1>4, <1>8, <3>1
    <3> QED
      BY <3>2
  <2> QED
    BY <1>5, <2>4, <2>6, <2>7
<1>9. CASE /\ toPeer # <<>> /\ toPeer' = Tail(toPeer)
           /\ \/ working' = working
              \/ working = 0 /\ toPeer[1].kind = "diagnostic" /\ working' = toPeer[1].tag
  <2>1. /\ 1 \in DOMAIN toPeer /\ DOMAIN toPeer' = 1..Len(toPeer)-1
        /\ \A i \in DOMAIN toPeer' : i+1 \in DOMAIN toPeer /\ toPeer'[i] = toPeer[i+1] /\ 1 < i+1
    BY <1>0, <1>9, ToPeerHead
  <2>2. ASSUME NEW i \in DOMAIN toPeer', toPeer'[i].kind = "diagnostic" PROVE working' < toPeer'[i].tag
    <3>1. i+1 \in DOMAIN toPeer /\ toPeer'[i] = toPeer[i+1] /\ 1 < i+1
      BY <2>1, <2>2
    <3>2. CASE working' = working
      BY <1>1, <2>2, <3>1, <3>2
    <3>3. CASE toPeer[1].kind = "diagnostic" /\ working' = toPeer[1].tag
      BY <2>1, <2>2, <3>1, <3>3 DEF RequestOrder
    <3> QED
      BY <1>9, <3>2, <3>3
  <2>3. Waiting
    <3> SUFFICES ASSUME NEW i \in DOMAIN toPeer', toPeer'[i].kind = "diagnostic"
                 PROVE  (AllBefore(toPeer[i].tag) /\ working < toPeer[i].tag)'
      OBVIOUS
    <3>1. PICK k \in DOMAIN toPeer : k = i+1 /\ toPeer'[i] = toPeer[k]
      BY <2>1
    <3>2. PICK b \in Nat : b = toPeer[k].tag
      BY <1>1, <3>1
    <3>3. AllBefore(b)' /\ toPeer'[i].tag = b /\ working' < b
      BY <1>3, <2>2, <3>1, <3>2
    <3> QED
      BY <3>3
  <2>4. InTurn
    <3> SUFFICES ASSUME NEW i \in DOMAIN toPeer', NEW j \in DOMAIN toPeer', i < j,
                        toPeer'[i].kind = "diagnostic", toPeer'[j].kind = "diagnostic"
                 PROVE  toPeer'[i].tag < toPeer'[j].tag
      OBVIOUS
    <3>1. i+1 < j+1
      BY <1>0, <2>1
    <3> QED
      BY <2>1, <3>1 DEF RequestOrder
  <2>5. Works
    <3> SUFFICES ASSUME working' # 0 PROVE AllBefore(working)'
      OBVIOUS
    <3>1. CASE working' = working
      <4>1. PICK b \in Nat : b = working
        BY <1>0
      <4>2. AllBefore(b)' /\ working' = b
        BY <1>4, <3>1, <4>1
      <4> QED
        BY <4>2
    <3>2. CASE toPeer[1].kind = "diagnostic" /\ working' = toPeer[1].tag
      <4>1. PICK b \in Nat : b = toPeer[1].tag
        BY <1>1, <2>1, <3>2
      <4>2. AllBefore(b)' /\ working' = b
        BY <1>3, <2>1, <3>2, <4>1
      <4> QED
        BY <4>2
    <3> QED
      BY <1>9, <3>1, <3>2
  <2> QED
    BY <1>5, <2>3, <2>4, <2>5
<1> QED
  BY <1>6, <1>7, <1>8, <1>9, QueueSteps DEF Queues

-----------------------------------------------------------------------------
(* The order of the answers.                                                *)

LEMMA UnusedKept ==
  ASSUME Types, Ordered, [Next]_vars, NEW n \in Nat, n <= Requests, Unused(n)
  PROVE  Unused(n)'
<1>0. TesterTypes /\ WireTypes /\ HistoryTypes /\ toPeer \in Seq(RequestType)
      /\ working \in Nat /\ Requests \in Nat
  BY LenProperties DEF Types, WireTypes, HistoryTypes, Requests
<1> DEFINE Streamed == /\ Newer(n, data') /\ Newer(n, rx') /\ Newer(n, net') /\ Newer(n, Held')
<1>1. Streamed
  <2>1. CASE Forgets
    BY <2>1, EmptyStream DEF Forgets
  <2>2. CASE DropsReader
    BY <2>2, EmptyStream DEF DropsReader, Unused
  <2>3. CASE ParserTakes
    <3>1. Newer(n, Held')
      BY <1>0, <2>3, ParserKeepsOrder DEF Unused
    <3> QED
      BY <2>3, <3>1, EmptyStream DEF ParserTakes, Unused
  <2>4. CASE ReaderTakes
    BY <2>4, EmptyStream DEF ReaderTakes, Unused
  <2>5. CASE PieceArrives
    <3>1. Newer(n, rx') /\ Newer(n, net')
      BY <1>0, <2>5, ArrivalKeepsOrder DEF Ordered, Unused
    <3> QED
      BY <2>5, <3>1 DEF PieceArrives, Unused
  <2>6. CASE GatewayTells
    <3>1. PICK m \in Message :
         /\ net' = Append(net, Piece(m, "all"))
         /\ m.kind # "response" \/ (m.tag = working /\ working # 0)
      BY <2>6 DEF GatewayTells
    <3>2. m.kind = "response" => n < m.tag
      BY <3>1 DEF Unused
    <3>3. net \in Seq(PieceType) /\ Piece(m, "all") \in PieceType /\ Piece(m, "all").msg = m
      BY <1>0, PieceOf DEF Parts, WireTypes
    <3>4. Newer(n, net')
      BY <3>1, <3>2, <3>3, AppendToStream DEF Unused
    <3> QED
      BY <2>6, <3>4 DEF GatewayTells, Unused
  <2>7. CASE GatewayLeaves \/ Keeps
    BY <2>7 DEF GatewayLeaves, Keeps, Unused
  <2> QED
    BY <1>0, <2>1, <2>2, <2>3, <2>4, <2>5, <2>6, <2>7, FlightSteps
<1> DEFINE Queued == /\ working' # 0 => n < working'
                     /\ \A i \in DOMAIN toPeer' : toPeer'[i].kind = "diagnostic" => n < toPeer'[i].tag
<1>2. Queued
  <2>1. CASE toPeer' = toPeer /\ (working' = working \/ working' = 0)
    BY <2>1 DEF Unused
  <2>2. CASE toPeer' = <<>> /\ working' = 0
    BY <2>2
  <2>3. ASSUME working' = working,
               NEW k \in {"activation", "diagnostic"}, NEW b \in Nat,
               toPeer' = Append(toPeer, Msg(k, b)), k = "diagnostic" => b = Requests + 1
        PROVE  Queued
    <3>1. /\ Msg(k, b).kind = k /\ Msg(k, b).tag = b
          /\ \A i \in DOMAIN toPeer' :
               \/ i \in DOMAIN toPeer /\ toPeer'[i] = toPeer[i]
               \/ toPeer'[i] = Msg(k, b)
      BY <1>0, <2>3, ToPeerAppend
    <3>2. k = "diagnostic" => n < b
      BY <1>0, <2>3
    <3> QED
      BY <2>3, <3>1, <3>2 DEF Unused
  <2>4. CASE /\ toPeer # <<>> /\ toPeer' = Tail(toPeer)
             /\ \/ working' = working
                \/ working = 0 /\ toPeer[1].kind = "diagnostic" /\ working' = toPeer[1].tag
    <3>1. /\ 1 \in DOMAIN toPeer
          /\ \A i \in DOMAIN toPeer' : i+1 \in DOMAIN toPeer /\ toPeer'[i] = toPeer[i+1]
      BY <1>0, <2>4, ToPeerHead
    <3>2. \A i \in DOMAIN toPeer : toPeer[i].kind = "diagnostic" => n < toPeer[i].tag
      BY DEF Unused
    <3> QED
      BY <2>4, <3>1, <3>2 DEF Unused
  <2> QED
    BY <2>1, <2>2, <2>3, <2>4, QueueSteps DEF Queues
<1> QED
  BY <1>1, <1>2 DEF Unused

(* A response that recv returns is newer than those it returned before, and *)
(* older than all that is still to come.                                    *)
LEMMA ReturnedIsNext ==
  ASSUME Types, Flight, Ordered, RequestOrder, NEW n, n # 0, Returned(n)
  PROVE  /\ \A k : Unused(k) => k < n
         /\ ReaderEnds => Unused(n)'
<1>0. TesterTypes /\ WireTypes /\ HistoryTypes
  BY DEF Types
<1>1. /\ pc = "parse" /\ data[1].msg.kind = "response" /\ n = data[1].msg.tag
      /\ data[1].part = "rest" => parser = data[1].msg
  BY DEF Returned
<1>2. 1 \in DOMAIN data /\ data[1].part \in Parts
  BY <1>0, <1>1, ParsedFacts
<1>3. ASSUME NEW k, Unused(k) PROVE k < n
  <2>1. CASE data[1].part # "rest"
    BY <1>1, <1>2, <1>3, <2>1 DEF Unused, Newer
  <2>2. CASE data[1].part = "rest"
    <3> DEFINE h == Piece(parser, "start")
    <3>1. Held = <<h>> /\ h.msg = data[1].msg /\ h.part = "start"
      BY <1>1, <2>2 DEF Held, Piece
    <3>2. DOMAIN <<h>> = {1} /\ <<h>>[1] = h
      OBVIOUS
    <3> HIDE DEF h
    <3> QED
      BY <1>1, <1>3, <3>1, <3>2 DEF Unused, Newer
  <2> QED
    BY <2>1, <2>2
<1>4. ASSUME ReaderEnds PROVE Unused(n)'
  <2>1. UNCHANGED <<toPeer, rx, net, working>> /\ data' = <<>> /\ Held' = <<>>
    BY <1>4, NoMessageOf DEF ReaderEnds, Held
  <2>2. ASSUME NEW s, Ahead(data, s) PROVE Newer(n, s)
    BY <1>1, <1>2, <2>2 DEF Ahead, Follows, Newer
  <2>3. Newer(n, rx) /\ Newer(n, net)
    BY <2>2 DEF Ordered
  <2>4. \A b : AllBefore(b) => n < b
    BY <1>1, <1>2 DEF AllBefore, Earlier
  <2>5. /\ working # 0 => n < working
        /\ \A i \in DOMAIN toPeer : toPeer[i].kind = "diagnostic" => n < toPeer[i].tag
    BY <2>4 DEF RequestOrder
  <2> QED
    BY <2>1, <2>3, <2>5, EmptyStream DEF Unused
<1> QED
  BY <1>3, <1>4

LEMMA AnswerOrderKept ==
  ASSUME Types, Flight, Ordered, RequestOrder, AnswerOrder, [Next]_vars
  PROVE  AnswerOrder'
<1>0. TesterTypes /\ WireTypes /\ HistoryTypes /\ Requests \in Nat
      /\ answers \in Seq(AnswerType) /\ Len(answers) \in Nat /\ DOMAIN answers = 1..Len(answers)
  BY LenProperties DEF Types, HistoryTypes, Requests
<1>1. \A i \in DOMAIN answers : answers[i].tag \in Nat /\ answers[i].tag <= Requests
  <2>1. \A i \in DOMAIN answers : answers[i] \in AnswerType
    BY <1>0, ElementOfSeq
  <2>2. \A i \in DOMAIN answers : answers[i].tag \in Nat /\ answers[i].asked \in Nat
    BY <2>1 DEF AnswerType
  <2> QED
    BY <1>0, <2>2 DEF HistoryTypes
<1>2. ASSUME NEW i \in DOMAIN answers, answers[i].tag # 0, NEW k \in Nat, k = answers[i].tag
      PROVE  Unused(k)'
  BY <1>1, <1>2, UnusedKept DEF AnswerOrder
<1>3. CASE answers' = answers
  <2>1. ASSUME NEW i \in DOMAIN answers', answers'[i].tag # 0 PROVE Unused(answers[i].tag)'
    <3>1. PICK k \in Nat : k = answers[i].tag
      BY <1>1, <1>3, <2>1
    <3>2. Unused(k)' /\ k = answers'[i].tag
      BY <1>2, <1>3, <2>1, <3>1
    <3> QED
      BY <3>2
  <2> QED
    BY <1>3, <2>1 DEF AnswerOrder
<1>4. ASSUME NEW n, Returned(n), answers' = Append(answers, Answer(n)), n # 0 => ReaderEnds
      PROVE  AnswerOrder'
  <2>0. disturbed' \in BOOLEAN
    BY <1>0, BooleansKept DEF WireTypes
  <2>1. /\ DOMAIN answers' = 1..Len(answers)+1
        /\ Answer(n).tag = n
        /\ \A i \in DOMAIN answers' :
             \/ i \in DOMAIN answers /\ i <= Len(answers) /\ answers'[i] = answers[i]
             \/ i = Len(answers)+1 /\ answers'[i] = Answer(n)
    BY <1>4, <2>0, OneMoreAnswer
  <2>2. n \in Nat
    BY <1>0, <1>4, ReturnedIsLive
  <2>3. ASSUME NEW i \in DOMAIN answers', answers'[i].tag # 0 PROVE Unused(answers[i].tag)'
    <3>1. CASE i \in DOMAIN answers /\ answers'[i] = answers[i]
      <4>1. PICK k \in Nat : k = answers[i].tag
        BY <1>1, <3>1
      <4>2. Unused(k)' /\ k = answers'[i].tag
        BY <1>2, <2>3, <3>1, <4>1
      <4> QED
        BY <4>2
    <3>2. CASE answers'[i] = Answer(n)
      <4>1. n # 0 /\ n = answers'[i].tag
        BY <2>1, <2>3, <3>2
      <4>2. Unused(n)'
        BY <1>4, <4>1, ReturnedIsNext
      <4> QED
        BY <4>1, <4>2
    <3> QED
      BY <2>1, <3>1, <3>2
  <2>4. ASSUME NEW i \in DOMAIN answers', NEW j \in DOMAIN answers', i < j, answers'[j].tag # 0
        PROVE  answers'[i].tag < answers'[j].tag
    <3>1. i \in DOMAIN answers /\ answers'[i] = answers[i]
      BY <1>0, <2>1, <2>4
    <3>2. CASE j \in DOMAIN answers /\ answers'[j] = answers[j]
      BY <2>4, <3>1, <3>2 DEF AnswerOrder
    <3>3. CASE answers'[j] = Answer(n)
      <4>1. n # 0 /\ n = answers'[j].tag
        BY <2>1, <2>4, <3>3
      <4>2. \A k : Unused(k) => k < n
        BY <1>4, <4>1, ReturnedIsNext
      <4>3. answers[i].tag = 0 \/ Unused(answers[i].tag)
        BY <3>1 DEF AnswerOrder
      <4>4. answers[i].tag < n
        BY <2>2, <4>1, <4>2, <4>3
      <4> QED
        BY <3>1, <4>1, <4>4
    <3> QED
      BY <2>1, <3>2, <3>3
  <2> QED
    BY <2>3, <2>4 DEF AnswerOrder
<1>5. HistoryStep
  BY <1>0, HistorySteps
<1> QED
  BY <1>3, <1>4, <1>5, Zenon DEF HistoryStep

LEMMA InitOrderIInv == Init => OrderIInv
<1> SUFFICES ASSUME Init PROVE OrderIInv
  OBVIOUS
<1>1. /\ toPeer = <<>> /\ net = <<>> /\ rx = <<>> /\ data = <<>> /\ answers = <<>> /\ working = 0
      /\ parser = NoMessage
  BY DEF Init
<1>2. Held = <<>>
  BY <1>1, NoMessageOf DEF Held
<1>3. Ordered
  BY <1>1, <1>2, EmptyStream DEF Ordered
<1>4. RequestOrder /\ AnswerOrder
  BY <1>1 DEF RequestOrder, AnswerOrder
<1> QED
  BY <1>3, <1>4, InitLinkIInv DEF OrderIInv

LEMMA NextOrderIInv == OrderIInv /\ [Next]_vars => OrderIInv'
<1> SUFFICES ASSUME OrderIInv, [Next]_vars PROVE OrderIInv'
  OBVIOUS
<1>1. Types /\ Flight /\ Ordered /\ RequestOrder /\ AnswerOrder /\ LinkIInv
  BY DEF OrderIInv, LinkIInv, Types
<1>2. LinkIInv'
  BY <1>1, NextLinkIInv
<1>3. Ordered' /\ RequestOrder' /\ AnswerOrder'
  BY <1>1, OrderedKept, RequestOrderKept, AnswerOrderKept
<1> QED
  BY <1>2, <1>3 DEF OrderIInv

LEMMA SpecOrderIInv == Spec => []OrderIInv
BY InitOrderIInv, NextOrderIInv, PTL DEF Spec

-----------------------------------------------------------------------------
(* The refinement of LossyLink.                                             *)

(* The numbers of the answers.                                              *)
Tags(s) == [i \in DOMAIN s |-> s[i].tag]

LEMMA TagsAppend ==
  ASSUME NEW s \in Seq(AnswerType), NEW a \in AnswerType
  PROVE  Tags(Append(s, a)) = Append(Tags(s), a.tag)
<1>1. /\ Len(s) \in Nat /\ DOMAIN s = 1..Len(s) /\ DOMAIN Append(s, a) = 1..Len(s)+1
      /\ \A i \in DOMAIN Append(s, a) :
           \/ i \in DOMAIN s /\ i <= Len(s) /\ Append(s, a)[i] = s[i]
           \/ i = Len(s)+1 /\ Append(s, a)[i] = a
  BY AppendOne
<1>2. ASSUME NEW r \in AnswerType PROVE r.tag \in Nat
  BY DEF AnswerType
<1>3. Tags(s) \in Seq(Nat) /\ Len(Tags(s)) = Len(s)
  <2>1. \A i \in 1..Len(s) : s[i].tag \in Nat
    BY <1>1, <1>2, ElementOfSeq
  <2>2. Tags(s) \in [1..Len(s) -> Nat]
    BY <1>1, <2>1 DEF Tags
  <2> QED
    BY <1>1, <2>2, SeqDef, LenProperties
<1> DEFINE c == Append(s, a)
           d == Append(Tags(s), a.tag)
<1>4. d \in Seq(Nat) /\ Len(d) = Len(s)+1 /\ d[Len(s)+1] = a.tag
      /\ \A i \in 1..Len(s) : d[i] = Tags(s)[i]
  BY <1>2, <1>3, AppendProperties
<1>5. DOMAIN d = 1..Len(s)+1
  BY <1>4, LenProperties
<1> HIDE DEF d, c
<1>6. ASSUME NEW i \in 1..Len(s)+1 PROVE d[i] = c[i].tag
  <2>1. CASE i = Len(s)+1
    BY <1>1, <1>4, <2>1 DEF c
  <2>2. CASE i \in 1..Len(s)
    BY <1>1, <1>4, <2>2 DEF c, Tags
  <2> QED
    BY <1>1, <2>1, <2>2
<1>7. d = [i \in 1..Len(s)+1 |-> d[i]]
  BY <1>4, <1>5
<1>8. Tags(c) = [i \in 1..Len(s)+1 |-> c[i].tag]
  BY <1>1 DEF Tags, c
<1> QED
  BY <1>6, <1>7, <1>8 DEF c, d


LEMMA InitIsLinkInit == Init => Link!Init
<1> SUFFICES ASSUME Init PROVE Link!Init
  OBVIOUS
<1>1. sentOn = <<>> /\ answers = <<>> /\ DOMAIN answers = {}
  BY EmptySeq DEF Init
<1>2. [i \in DOMAIN answers |-> answers[i].tag] = <<>>
  BY <1>1
<1>3. Requests = 0
  BY <1>1, EmptySeq DEF Requests
<1> QED
  BY <1>2, <1>3 DEF Link!Init

(* A request is a Send, what recv returns a Recv or a RecvNothing, and all  *)
(* else a stuttering step.                                                  *)
LEMMA NextIsLinkNext == OrderIInv /\ [Next]_vars => [Link!Next]_(Link!vars)
<1> SUFFICES ASSUME OrderIInv, [Next]_vars PROVE [Link!Next]_(Link!vars)
  OBVIOUS
<1>0. Types /\ Flight /\ Ordered /\ RequestOrder /\ AnswerOrder
      /\ TesterTypes /\ WireTypes /\ HistoryTypes /\ answers \in Seq(AnswerType)
  BY DEF OrderIInv, LinkIInv, Types, HistoryTypes
<1>1. CASE UNCHANGED <<sentOn, answers>>
  BY <1>1 DEF Requests, Link!vars
<1>2. CASE sentOn' = Append(sentOn, conn) /\ sock = "connected" /\ answers' = answers
  <2>1. Requests' = Requests + 1
    BY <1>0, <1>2, OneMoreRequest
  <2> QED
    BY <1>2, <2>1 DEF Link!Next, Link!Send
<1>3. ASSUME sentOn' = sentOn, NEW n, Returned(n), answers' = Append(answers, Answer(n))
      PROVE  Link!Next
  <2>1. n \in Nat /\ Requests \in Nat /\ n <= Requests
    BY <1>0, <1>3, ReturnedIsLive
  <2>2. Answer(n) \in AnswerType /\ Answer(n).tag = n
    <3>1. disturbed' \in BOOLEAN
      BY <1>0, BooleansKept DEF WireTypes
    <3>2. conn \in Nat
      BY <1>0 DEF WireTypes
    <3> QED
      BY <2>1, <3>1, <3>2 DEF Answer, AnswerType
  <2>3. Tags(answers') = Append(Tags(answers), n)
    BY <1>0, <1>3, <2>2, TagsAppend
  <2>4. Requests' = Requests
    BY <1>3 DEF Requests
  <2>5. CASE n = 0
    BY <2>3, <2>4, <2>5 DEF Link!Next, Link!RecvNothing, Tags
  <2>6. CASE n # 0
    <3>1. n \in 1..Requests
      BY <2>1, <2>6
    <3>2. \A k : Unused(k) => k < n
      BY <1>0, <1>3, <2>6, ReturnedIsNext
    <3>3. \A i \in DOMAIN answers : answers[i].tag < n
      BY <2>1, <2>6, <3>2, <1>0 DEF AnswerOrder
    <3>4. Link!Recv(n)
      BY <2>3, <2>4, <3>3 DEF Link!Recv, Tags
    <3> QED
      BY <3>1, <3>4 DEF Link!Next
  <2> QED
    BY <2>5, <2>6
<1>4. HistoryStep
  BY <1>0, HistorySteps
<1>5. CASE \E n : Returned(n) /\ answers' = Append(answers, Answer(n)) /\ sentOn' = sentOn
  BY <1>3, <1>5
<1> QED
  BY <1>1, <1>2, <1>4, <1>5, Zenon DEF HistoryStep

(* Whatever is lost, cut, held back or dropped, recv returns answers to     *)
(* requests that were made, each at most once and in the order of the       *)
(* requests (doip_communicator.py:38-56, doip_utils.py:323-358).            *)
THEOREM CommunicatorIsALossyLink == Spec => IsLossyLink
<1>1. Init => Link!Init
  BY InitIsLinkInit
<1>2. OrderIInv /\ [Next]_vars => [Link!Next]_(Link!vars)
  BY NextIsLinkNext
<1> QED
  BY <1>1, <1>2, SpecOrderIInv, PTL DEF Spec, IsLossyLink, Link!Spec


-----------------------------------------------------------------------------
(* Requests and responses in step.                                          *)

(* Recv has not been called since the last request went out over this       *)
(* connection; or the answer to it has been returned.                       *)
Owed == Live(Requests) /\ \A i \in DOMAIN answers : answers[i].asked # Requests
Settled == Live(Requests) => \E i \in DOMAIN answers : answers[i].tag = Requests

TheResponse == Msg("response", Requests)
OnlyResponses(s) == \A i \in DOMAIN s : s[i].msg = TheResponse

(* The reader's message leads what comes, and only the response follows it. *)
Led(s, m) == s # <<>> /\ s[1] = Piece(m, "all") /\ \A i \in DOMAIN s : i > 1 => s[i].msg = TheResponse
Leads(m) ==
  \/ Led(data, m) /\ OnlyResponses(rx) /\ OnlyResponses(net)
  \/ data = <<>> /\ Led(rx, m) /\ OnlyResponses(net)
  \/ data = <<>> /\ rx = <<>> /\ Led(net, m)

(* Nothing of the gateway is on its way to the tester or read in part.      *)
Silent == net = <<>> /\ rx = <<>> /\ data = <<>> /\ parser = NoMessage /\ working = 0

(* What is left of the response can still complete it, and the second half  *)
(* is never without the first.                                              *)
Ending(s) == \E i \in DOMAIN s : s[i].msg = TheResponse /\ s[i].part # "start"
Promised == working = Requests \/ Ending(data) \/ Ending(rx) \/ Ending(net)
Half(s, p) == \E i \in DOMAIN s : s[i].part = p
Halved ==
  (Half(data, "rest") \/ Half(rx, "rest") \/ Half(net, "rest")) =>
    (parser = TheResponse \/ Half(data, "start") \/ Half(rx, "start") \/ Half(net, "start"))

(* The tester between its readers, or with the reader of recv.              *)
Between ==
  /\ toPeer = <<>>
  /\ OnlyResponses(data) /\ OnlyResponses(rx) /\ OnlyResponses(net)
  /\ parser \in {NoMessage, TheResponse}
  /\ (Owed /\ Promised) \/ (Settled /\ Silent)

Activating ==
  /\ ~Live(Requests) /\ parser = NoMessage /\ working = 0
  /\ \/ Silent /\ toPeer = <<Msg("activation", 0)>>
     \/ toPeer = <<>> /\ Leads(Msg("activated", 0))

Acknowledging ==
  /\ Owed /\ parser = NoMessage
  /\ \/ Silent /\ toPeer = <<Msg("diagnostic", Requests)>>
     \/ toPeer = <<>> /\ Leads(Msg("ack", Requests)) /\ Promised

(* On a connection where nothing happened out of turn every message there   *)
(* is belongs to the conversation the tester is in.                         *)
Conversation ==
  /\ working \in {0, Requests}
  /\ Halved
  /\ pc = "activate" => ~Live(Requests) /\ Silent /\ toPeer = <<>>
  /\ stage = "activation" => Activating
  /\ stage = "ack" => Acknowledging
  /\ pc \in {"idle", "transmit"} \/ stage = "response" => Between
InTurn == ~disturbed /\ sock = "connected" => Conversation

(* What the conversation is about stays the same while no request goes out  *)
(* and no answer is returned.                                               *)
LEMMA SameSubject ==
  ASSUME UNCHANGED <<conn, sentOn, answers>>
  PROVE  /\ Requests' = Requests /\ TheResponse' = TheResponse
         /\ Owed' = Owed /\ Settled' = Settled /\ Live(Requests)' = Live(Requests)
BY DEF Requests, TheResponse, Owed, Settled, Live

LEMMA ResponseOf ==
  ASSUME Types
  PROVE  /\ Requests \in Nat /\ TheResponse \in Message
         /\ TheResponse.kind = "response" /\ TheResponse.tag = Requests
         /\ Owed => Requests # 0
<1>1. Requests \in Nat
  BY DEF Types, HistoryTypes, Requests
<1> QED
  BY <1>1, MsgOf DEF TheResponse, Owed, Live

LEMMA AnswersBounded ==
  ASSUME Types
  PROVE  \A i \in DOMAIN answers :
           /\ answers[i].tag \in Nat /\ answers[i].asked \in Nat
           /\ answers[i].tag <= answers[i].asked /\ answers[i].asked <= Requests
<1>1. answers \in Seq(AnswerType) /\ DOMAIN answers = 1..Len(answers)
  BY LenProperties DEF Types, HistoryTypes
<1>2. \A i \in DOMAIN answers : answers[i] \in AnswerType
  BY <1>1
<1> QED
  BY <1>2 DEF Types, HistoryTypes, AnswerType

(* Of a connection without requests no response is on its way.              *)
LEMMA NoResponses ==
  ASSUME Types, ~Live(Requests), NEW s \in Seq(PieceType), AllLive(s), OnlyResponses(s)
  PROVE  s = <<>>
<1> SUFFICES ASSUME s # <<>> PROVE FALSE
  OBVIOUS
<1>1. 1 \in DOMAIN s
  BY HeadTail
<1>2. s[1].msg = TheResponse
  BY <1>1 DEF OnlyResponses
<1> QED
  BY <1>1, <1>2, ResponseOf DEF AllLive, LiveMessage

(* While the tester is between its readers, or in recv, the rest is easy.   *)
LEMMA BetweenSuffices ==
  ASSUME Between', working' \in {0, Requests'}, Halved', stage' \in {"none", "response"}, pc' # "activate"
  PROVE  Conversation'
BY DEF Conversation

(* Where the tester is, and what it waits for.                              *)
LEMMA Places ==
  ASSUME TesterTypes, Conversation
  PROVE  \/ pc = "activate" /\ ~Live(Requests) /\ Silent /\ toPeer = <<>>
         \/ pc \in {"idle", "transmit"} /\ stage = "none" /\ Between
         \/ pc \in {"read", "parse"} /\ stage = "activation" /\ Activating
         \/ pc \in {"read", "parse"} /\ stage = "ack" /\ Acknowledging
         \/ pc \in {"read", "parse"} /\ stage = "response" /\ Between
BY DEF TesterTypes, Conversation

(* A message comes whole, and the first of the pieces is the reader's.      *)
LEMMA ParsedWhole ==
  ASSUME TesterTypes, pc = "parse", parser # Lost,
         \/ data[1].part = "all"
         \/ data[1].part = "rest" /\ parser = data[1].msg
         \/ data[1].part = "start" /\ Len(data) > 1
  PROVE  parsed.msg = data[1].msg /\ parsed.msg # NoMessage
<1>1. /\ data \in Seq(PieceType) /\ data # <<>>
      /\ data[1].msg # NoMessage
  BY ParsedFacts, NoMessageOf DEF TesterTypes
<1>2. Head(data) = data[1]
  BY <1>1, HeadTail
<1> QED
  BY <1>1, <1>2, Zenon DEF parsed, Parsed

(* A new connection has nothing on it, and no request.                      *)
LEMMA NewConversation ==
  ASSUME Types, pc = "idle", NEW o \in {"open", "send", "recv"}, Connect, AfterConnect(o),
         UNCHANGED <<sentOn, answers>>
  PROVE  Conversation'
<1>1. /\ toPeer' = <<>> /\ net' = <<>> /\ rx' = <<>> /\ working' = 0 /\ conn' = conn + 1
  BY DEF Connect, ForgetConnection
<1>2. data' = <<>> /\ parser' = NoMessage
  BY DEF AfterConnect, Proceed, BeginReader, EndReader
<1>3. \/ stage' = "none" /\ pc' = "activate"
      \/ stage' \in {"none", "response"} /\ pc' \in {"idle", "transmit", "read"}
  BY DEF AfterConnect, Proceed, BeginReader, EndReader
<1>4. ~Live(Requests)'
  <2>1. \A n \in 1..Requests : sentOn[n] \in Nat /\ sentOn[n] <= conn
    BY DEF Types, HistoryTypes, Requests
  <2>2. conn \in Nat /\ Requests' = Requests
    BY DEF Types, WireTypes, Requests
  <2> QED
    BY <1>1, <2>1, <2>2 DEF Live
<1>5. Silent' /\ Halved' /\ working' \in {0, Requests'}
  BY <1>1, <1>2 DEF Silent, Halved, Half
<1>6. Between'
  BY <1>1, <1>2, <1>4, <1>5 DEF Between, Settled, OnlyResponses
<1> QED
  BY <1>1, <1>3, <1>4, <1>5, <1>6 DEF Conversation


(* The conversation goes on.                                                *)
Steady == Types /\ Flight /\ Ordered /\ RequestOrder /\ ~disturbed /\ sock = "connected" /\ Conversation

LEMMA SteadyCallGoesOn ==
  ASSUME Steady, NEW o \in {"send", "recv"}, UseOpenConnection(o)
  PROVE  Conversation'
<1>1. Between /\ data = <<>> /\ parser = NoMessage
  BY Places DEF UseOpenConnection, Begin, Steady, Types, TesterTypes
<1>2. /\ data' = data /\ parser' = parser
      /\ stage' \in {"none", "response"} /\ pc' \in {"transmit", "read"}
  BY <1>1 DEF UseOpenConnection, Proceed, BeginReader, EndReader
<1>3. UNCHANGED <<toPeer, net, rx, working, conn, sentOn, answers>>
  BY DEF UseOpenConnection
<1>4. Between'
  BY <1>1, <1>2, <1>3, SameSubject DEF Between, OnlyResponses, Promised, Ending, Silent
<1>5. working' \in {0, Requests'} /\ Halved'
  BY <1>2, <1>3, SameSubject DEF Steady, Conversation, Halved, Half
<1> QED
  BY <1>2, <1>4, <1>5, BetweenSuffices

LEMMA ActivationBegins ==
  ASSUME Steady, Activate
  PROVE  Conversation'
<1>1. peer = "up"
  BY DEF Steady, Types, WireTypes
<1>2. /\ ~Live(Requests) /\ Silent /\ toPeer = <<>>
  BY DEF Steady, Conversation, Activate
<1>3. /\ toPeer' = <<Msg("activation", 0)>> /\ pc' = "read" /\ stage' = "activation"
      /\ parser' = NoMessage /\ data' = <<>>
      /\ UNCHANGED <<net, rx, working, conn, sentOn, answers>>
  BY <1>1, <1>2 DEF Activate, BeginReader
<1>4. Silent' /\ Activating'
  BY <1>2, <1>3, SameSubject DEF Silent, Activating
<1>5. Halved' /\ working' = 0
  BY <1>4 DEF Silent, Halved, Half
<1> QED
  BY <1>3, <1>4, <1>5 DEF Conversation

(* A request goes out when the last one has been answered.                  *)
LEMMA RequestGoesOut ==
  ASSUME Steady, Transmit, ~disturbed'
  PROVE  Conversation'
<1>1. peer = "up"
  BY DEF Steady, Types, WireTypes
<1>2. Between
  BY DEF Steady, Conversation, Transmit
<1>3. ~Owed
  <2>1. ~Abandons
    BY DEF Transmit, Steady, Types, WireTypes
  <2> QED
    BY <2>1, AnswersBounded, ResponseOf DEF Abandons, Owed, Live, Steady
<1>4. Silent /\ toPeer = <<>>
  BY <1>2, <1>3 DEF Between
<1>5. /\ toPeer' = <<Msg("diagnostic", Requests + 1)>> /\ sentOn' = Append(sentOn, conn)
      /\ pc' = "read" /\ stage' = "ack" /\ parser' = NoMessage /\ data' = <<>>
      /\ UNCHANGED <<net, rx, working, conn, answers>>
  BY <1>1, <1>4 DEF Transmit, BeginReader
<1>6. Requests' = Requests + 1 /\ Live(Requests)'
  <2>1. sentOn \in Seq(Nat \ {0}) /\ conn \in Nat \ {0}
    BY DEF Steady, Types, HistoryTypes, WireTypes
  <2>2. Len(sentOn') = Len(sentOn) + 1 /\ sentOn'[Len(sentOn) + 1] = conn /\ Len(sentOn) \in Nat
    BY <1>5, <2>1, AppendProperties, LenProperties
  <2> QED
    BY <1>5, <2>2 DEF Live, Requests
<1>7. Owed'
  <2>1. \A i \in DOMAIN answers : answers[i].asked # Requests + 1
    BY AnswersBounded, ResponseOf DEF Steady
  <2> QED
    BY <1>5, <1>6, <2>1 DEF Owed
<1>8. Silent'
  BY <1>4, <1>5 DEF Silent
<1>9. Halved' /\ working' = 0
  BY <1>8 DEF Silent, Halved, Half
<1>10. Acknowledging'
  BY <1>5, <1>6, <1>7, <1>8 DEF Acknowledging
<1> QED
  BY <1>5, <1>9, <1>10 DEF Conversation

LEMMA BytesAreReceived ==
  ASSUME Steady, Receive
  PROVE  Conversation'
<1>1. /\ data = <<>> /\ rx # <<>> /\ data' = rx /\ rx' = <<>> /\ pc = "read" /\ pc' = "parse"
      /\ UNCHANGED <<toPeer, net, parser, working, stage, conn, sentOn, answers>>
  BY DEF Receive, Steady, Types, TesterTypes
<1> USE SameSubject
<1>2. ~Silent /\ stage # "none"
  BY <1>1 DEF Silent, Steady, Types, TesterTypes
<1>3. working' \in {0, Requests'} /\ Halved'
  BY <1>1 DEF Steady, Conversation, Halved, Half
<1>4. \A m : Leads(m) => Leads(m)'
  BY <1>1 DEF Leads, Led, OnlyResponses
<1>5. Promised => Promised'
  BY <1>1 DEF Promised, Ending
<1>6. CASE stage = "activation"
  <2>1. Activating'
    BY <1>1, <1>2, <1>4, <1>6 DEF Steady, Conversation, Activating
  <2> QED
    BY <1>1, <1>3, <1>6, <2>1 DEF Conversation
<1>7. CASE stage = "ack"
  <2>1. Acknowledging'
    BY <1>1, <1>2, <1>4, <1>5, <1>7 DEF Steady, Conversation, Acknowledging
  <2> QED
    BY <1>1, <1>3, <1>7, <2>1 DEF Conversation
<1>8. CASE stage = "response"
  <2>1. Between'
    BY <1>1, <1>2, <1>5, <1>8 DEF Steady, Conversation, Between, OnlyResponses
  <2> QED
    BY <1>1, <1>3, <1>8, <2>1 DEF Conversation
<1> QED
  BY <1>2, <1>6, <1>7, <1>8 DEF Steady, Types, TesterTypes


(* A reader's message, at the head of what the reader has.                  *)
LEMMA LeadingMessage ==
  ASSUME Steady, pc = "parse", NEW m \in Message, Leads(m), parser = NoMessage
  PROVE  /\ parsed.msg = m /\ parsed.msg # NoMessage
         /\ data[1] = Piece(m, "all") /\ OnlyResponses(rx) /\ OnlyResponses(net)
<1>1. data # <<>>
  BY DEF Steady, Types, TesterTypes
<1>2. data[1] = Piece(m, "all") /\ OnlyResponses(rx) /\ OnlyResponses(net)
  BY <1>1 DEF Leads, Led
<1>3. data[1].msg = m /\ data[1].part = "all" /\ parser # Lost
  BY <1>2, PieceOf, NoMessageOf DEF Parts
<1> QED
  BY <1>2, <1>3, ParsedWhole DEF Steady, Types

(* ... and nothing came with it, unless it was dropped.                     *)
LEMMA LeadingAlone ==
  ASSUME Steady, FirstMessage, ~disturbed', data[1].part # "start"
  PROVE  DOMAIN data = {1} /\ Len(data) = 1
<1>1. ~Drops
  BY DEF FirstMessage, Steady, Types, WireTypes
<1>2. Len(data) \in Nat /\ Len(data) > 0 /\ DOMAIN data = 1..Len(data)
  BY ParsedFacts DEF FirstMessage, Steady, Types
<1> QED
  BY <1>1, <1>2 DEF Drops

(* The reader of recv has the response, from its start.                     *)
LEMMA ReaderHasResponse ==
  ASSUME Steady, pc = "parse", stage = "response"
  PROVE  /\ Owed /\ Promised /\ toPeer = <<>>
         /\ data[1].msg = TheResponse
         /\ data[1].part = "rest" => parser = TheResponse
         /\ parser # Lost
<1>1. Between /\ data # <<>> /\ 1 \in DOMAIN data
  BY ParsedFacts DEF Steady, Conversation, Types, TesterTypes
<1>2. Owed /\ Promised /\ toPeer = <<>> /\ data[1].msg = TheResponse /\ parser \in {NoMessage, TheResponse}
  BY <1>1 DEF Between, Silent, OnlyResponses
<1>3. TheResponse \in Message /\ TheResponse.kind = "response" /\ TheResponse.tag \in Nat
  BY ResponseOf DEF Steady
<1>4. ASSUME data[1].part = "rest", NEW q, q.msg = TheResponse, q.part = "start"
      PROVE  ~Follows(data[1], q)
  BY <1>2, <1>3, <1>4 DEF Follows
<1>5. ASSUME data[1].part = "rest" PROVE parser = TheResponse
  <2>1. ~Half(data, "start")
    <3> SUFFICES ASSUME NEW i \in DOMAIN data, data[i].part = "start" PROVE FALSE
      BY DEF Half
    <3>1. i # 1 /\ i \in Nat /\ i > 0
      BY <1>5, ParsedFacts DEF Steady, Types
    <3>2. Follows(data[1], data[i])
      BY <1>1, <3>1 DEF Steady, Ordered, InOrder
    <3>3. data[i].msg = TheResponse
      BY <1>1 DEF Between, OnlyResponses
    <3> QED
      BY <1>4, <1>5, <3>2, <3>3
  <2>2. ~Half(rx, "start")
    BY <1>1, <1>4, <1>5 DEF Half, Steady, Ordered, Ahead, Between, OnlyResponses
  <2>3. ~Half(net, "start")
    BY <1>1, <1>4, <1>5 DEF Half, Steady, Ordered, Ahead, Between, OnlyResponses
  <2>4. Half(data, "rest")
    BY <1>1, <1>5 DEF Half
  <2> QED
    BY <2>1, <2>2, <2>3, <2>4 DEF Steady, Conversation, Halved
<1>6. Lost # TheResponse /\ Lost # NoMessage
  BY <1>3, NoMessageOf
<1> QED
  BY <1>2, <1>5, <1>6

LEMMA ReaderReadsOn ==
  ASSUME Steady, ReadOn
  PROVE  Conversation'
<1>1. /\ pc = "parse" /\ pc' = "read" /\ data' = <<>> /\ parser' = parsed.keep
      /\ parsed.msg = NoMessage /\ stage # "none"
      /\ UNCHANGED <<toPeer, net, rx, working, stage, conn, sentOn, answers>>
  BY DEF ReadOn, Steady, Types, TesterTypes
<1>2. /\ Msg("activated", 0) \in Message /\ Msg("ack", Requests) \in Message
  BY MsgOf, ResponseOf DEF Steady
<1>3. stage \notin {"activation", "ack"}
  <2>1. stage # "activation"
    BY <1>1, <1>2, LeadingMessage DEF Steady, Conversation, Activating, Types, TesterTypes, Silent
  <2>2. stage # "ack"
    BY <1>1, <1>2, LeadingMessage DEF Steady, Conversation, Acknowledging, Types, TesterTypes, Silent
  <2> QED
    BY <2>1, <2>2
<1>4. stage = "response" /\ Between
  BY <1>1, <1>3 DEF Steady, Conversation, Types, TesterTypes
<1>5. /\ Owed /\ Promised /\ data[1].msg = TheResponse /\ toPeer = <<>> /\ parser # Lost
      /\ data[1].part = "rest" => parser = TheResponse
  BY <1>1, <1>4, ReaderHasResponse
<1>6. /\ ~(data[1].part = "all") /\ ~(data[1].part = "rest") /\ ~(data[1].part = "start" /\ Len(data) > 1)
  BY <1>1, <1>5, ParsedWhole DEF Steady, Types
<1>7. data[1].part = "start" /\ DOMAIN data = {1} /\ parsed.keep = data[1].msg
  <2>1. data[1].part \in Parts /\ Len(data) \in Nat /\ Len(data) > 0 /\ DOMAIN data = 1..Len(data)
    BY <1>1, ParsedFacts DEF Steady, Types
  <2>2. data[1].part = "start" /\ Len(data) = 1
    BY <1>6, <2>1 DEF Parts
  <2>3. Head(data) = data[1]
    BY <1>1, HeadTail DEF Steady, Types, TesterTypes
  <2>4. ~(Len(data) > 1) /\ data[1].part # "all" /\ data[1].part # "rest"
    BY <2>2
  <2>5. parsed = [msg |-> NoMessage, keep |-> data[1].msg]
    BY <1>5, <2>2, <2>3, <2>4, Zenon DEF parsed, Parsed
  <2> QED
    BY <2>1, <2>2, <2>5
<1>8. parser' = TheResponse'
  BY <1>1, <1>5, <1>7, SameSubject
<1>9. Promised'
  BY <1>1, <1>5, <1>7, SameSubject DEF Promised, Ending
<1>10. Between'
  BY <1>1, <1>4, <1>5, <1>8, <1>9, SameSubject DEF Between, OnlyResponses
<1>11. Halved' /\ working' \in {0, Requests'}
  BY <1>1, <1>8, SameSubject DEF Halved, Steady, Conversation
<1> QED
  BY <1>1, <1>4, <1>10, <1>11, BetweenSuffices


(* A call returns.                                                          *)
LEMMA CallReturns ==
  ASSUME Steady, disturbed' = FALSE, NEW n, Returned(n), Return(n), UNCHANGED <<conn, sentOn>>
  PROVE  /\ pc' = "idle" /\ stage' = "none" /\ parser' = NoMessage /\ data' = <<>>
         /\ Requests' = Requests /\ TheResponse' = TheResponse /\ Live(Requests)' = Live(Requests)
         /\ stage = "ack" => UNCHANGED answers
         /\ Settled => Settled'
         /\ stage = "response" /\ n = Requests => Settled'
<1>1. pc' = "idle" /\ stage' = "none" /\ parser' = NoMessage /\ data' = <<>>
  BY DEF Return, EndReader
<1>2. Requests' = Requests /\ TheResponse' = TheResponse /\ Live(Requests)' = Live(Requests)
  BY DEF Requests, TheResponse, Live
<1>3. (stage = "ack" => op = "send") /\ (stage = "response" => op = "recv")
  BY DEF Steady, Types, TesterTypes
<1>4. CASE op = "recv"
  <2>1. answers' = Append(answers, Answer(n))
    BY <1>4 DEF Return, Answer
  <2>2. /\ Len(answers) \in Nat /\ DOMAIN answers = 1..Len(answers) /\ DOMAIN answers' = 1..Len(answers)+1
        /\ Answer(n).tag = n
        /\ \A i \in DOMAIN answers' :
             \/ i \in DOMAIN answers /\ i <= Len(answers) /\ answers'[i] = answers[i]
             \/ i = Len(answers)+1 /\ answers'[i] = Answer(n)
    BY <2>1, OneMoreAnswer DEF Steady
  <2>3. Settled => Settled'
    BY <1>2, <2>2 DEF Settled
  <2>4. n = Requests => Settled'
    BY <1>2, <2>2 DEF Settled
  <2> QED
    BY <1>1, <1>2, <1>3, <1>4, <2>3, <2>4
<1>5. CASE op # "recv"
  <2>1. UNCHANGED answers
    BY <1>5 DEF Return
  <2> QED
    BY <1>1, <1>2, <1>3, <1>5, <2>1, SameSubject
<1> QED
  BY <1>4, <1>5

LEMMA NothingIsAwaited ==
  ASSUME Steady, ReceiveNothing, disturbed' = FALSE
  PROVE  Conversation'
<1>1. /\ toPeer = <<>> /\ net = <<>> /\ rx = <<>> /\ working = 0 /\ data = <<>> /\ stage # "none"
      /\ pc = "read"
  BY DEF ReceiveNothing, Outstanding, Steady, Types, TesterTypes, WireTypes
<1>2. ~(Owed /\ Promised) /\ \A m : ~Leads(m)
  <2>1. Owed => Requests # 0
    BY ResponseOf DEF Steady
  <2> QED
    BY <1>1, <2>1 DEF Promised, Ending, Leads, Led
<1>3. stage = "response" /\ Between /\ Settled /\ Silent
  BY <1>1, <1>2 DEF Steady, Conversation, Types, TesterTypes, Activating, Acknowledging, Between
<1>4. Return(0) /\ Returned(0) /\ UNCHANGED <<toPeer, net, rx, working, conn, sentOn>>
  BY DEF ReceiveNothing, GiveUp, Returned
<1>5. /\ pc' = "idle" /\ stage' = "none" /\ parser' = NoMessage /\ data' = <<>> /\ Settled'
  BY <1>3, <1>4, CallReturns
<1>6. Silent' /\ toPeer' = <<>>
  BY <1>1, <1>4, <1>5 DEF Silent
<1>7. Between' /\ Halved' /\ working' = 0
  BY <1>5, <1>6 DEF Between, OnlyResponses, Halved, Half, Silent
<1> QED
  BY <1>5, <1>7, BetweenSuffices

LEMMA ActivationSucceeds ==
  ASSUME Steady, RoutingActivated, disturbed' = FALSE
  PROVE  Conversation'
<1>1. /\ pc = "parse" /\ stage = "activation" /\ op \in {"open", "send", "recv"} /\ Proceed(op)
      /\ FirstMessage /\ UNCHANGED <<toPeer, net, rx, working, conn, sentOn, answers>>
  BY DEF RoutingActivated, FirstMessage, Steady, Types, TesterTypes
<1>2. Msg("activated", 0) \in Message
  BY MsgOf
<1>3. /\ ~Live(Requests) /\ working = 0 /\ parser = NoMessage
      /\ toPeer = <<>> /\ Leads(Msg("activated", 0))
  BY <1>1 DEF Steady, Conversation, Activating, Types, TesterTypes, Silent
<1>4. OnlyResponses(rx) /\ OnlyResponses(net)
  BY <1>1, <1>2, <1>3, LeadingMessage
<1>5. rx = <<>> /\ net = <<>>
  BY <1>3, <1>4, NoResponses DEF Steady, Types, WireTypes, Flight
<1>6. /\ data' = <<>> /\ parser' = NoMessage
      /\ stage' \in {"none", "response"} /\ pc' \in {"idle", "transmit", "read"}
  BY <1>1 DEF Proceed, BeginReader, EndReader
<1>7. Silent' /\ toPeer' = <<>>
  BY <1>1, <1>3, <1>5, <1>6 DEF Silent
<1>8. Settled'
  BY <1>1, <1>3, SameSubject DEF Settled
<1>9. Between' /\ Halved' /\ working' = 0
  BY <1>6, <1>7, <1>8 DEF Between, OnlyResponses, Halved, Half, Silent
<1> QED
  BY <1>6, <1>9, BetweenSuffices

LEMMA ActivationIsNotRefused ==
  ASSUME Steady, ActivationFailed
  PROVE  FALSE
<1>1. Msg("activated", 0) \in Message /\ Msg("activated", 0).kind = "activated"
  BY MsgOf
<1>2. pc = "parse" /\ stage = "activation" /\ parsed.msg.kind # "activated"
  BY DEF ActivationFailed, FirstMessage
<1>3. parser = NoMessage /\ Leads(Msg("activated", 0))
  BY <1>2 DEF Steady, Conversation, Activating, Types, TesterTypes, Silent
<1> QED
  BY <1>1, <1>2, <1>3, LeadingMessage

LEMMA RequestIsAcknowledged ==
  ASSUME Steady, AckRead, disturbed' = FALSE
  PROVE  Conversation'
<1>1. /\ pc = "parse" /\ stage = "ack" /\ Return(0) /\ Returned(0)
      /\ FirstMessage /\ UNCHANGED <<toPeer, net, rx, working, conn, sentOn>>
  BY DEF AckRead, FirstMessage, Returned
<1>2. /\ Msg("ack", Requests) \in Message /\ Msg("ack", Requests).kind = "ack"
      /\ TheResponse.kind = "response"
  BY MsgOf, ResponseOf DEF Steady
<1>3. Owed /\ parser = NoMessage /\ toPeer = <<>> /\ Leads(Msg("ack", Requests)) /\ Promised
  BY <1>1 DEF Steady, Conversation, Acknowledging, Types, TesterTypes, Silent
<1>4. data[1] = Piece(Msg("ack", Requests), "all") /\ OnlyResponses(rx) /\ OnlyResponses(net)
  BY <1>1, <1>2, <1>3, LeadingMessage
<1>5. data[1].msg # TheResponse /\ data[1].part = "all"
  BY <1>2, <1>4, PieceOf DEF Parts
<1>6. DOMAIN data = {1}
  BY <1>1, <1>5, LeadingAlone
<1>7. /\ pc' = "idle" /\ stage' = "none" /\ parser' = NoMessage /\ data' = <<>> /\ UNCHANGED answers
  BY <1>1, CallReturns
<1>8. Promised'
  BY <1>1, <1>3, <1>5, <1>6, <1>7, SameSubject DEF Promised, Ending
<1>9. Between'
  BY <1>1, <1>3, <1>4, <1>7, <1>8, SameSubject DEF Between, OnlyResponses
<1>10. Halved' /\ working' \in {0, Requests'}
  BY <1>1, <1>3, <1>5, <1>6, <1>7, SameSubject DEF Halved, Half, Steady, Conversation
<1> QED
  BY <1>7, <1>9, <1>10, BetweenSuffices

(* The response read is the one that was owed, and the last there is.       *)
LEMMA ResponseIsRead ==
  ASSUME Steady, ResponseRead, disturbed' = FALSE
  PROVE  Conversation'
<1>1. /\ pc = "parse" /\ stage = "response" /\ FirstMessage /\ parsed.msg # NoMessage
      /\ UNCHANGED <<toPeer, net, rx, working, conn, sentOn>>
  BY DEF ResponseRead, FirstMessage
<1>2. Owed /\ toPeer = <<>> /\ data[1].msg = TheResponse
  BY <1>1, ReaderHasResponse
<1>3. TheResponse.kind = "response" /\ TheResponse.tag = Requests /\ Requests \in Nat
  BY ResponseOf DEF Steady
<1>4. parsed.msg = TheResponse /\ (data[1].part = "rest" => parser = data[1].msg)
  BY <1>1, <1>2, ParsedFacts DEF Steady, Types
<1>5. Return(Requests) /\ Returned(Requests)
  BY <1>1, <1>2, <1>3, <1>4 DEF ResponseRead, Returned
<1>6. /\ pc' = "idle" /\ stage' = "none" /\ parser' = NoMessage /\ data' = <<>> /\ Settled'
  BY <1>1, <1>5, CallReturns
<1>7. Between /\ Len(data) \in Nat /\ Len(data) > 0 /\ DOMAIN data = 1..Len(data) /\ data[1].part \in Parts
  BY <1>1, ParsedFacts DEF Steady, Conversation, Types
<1>8. \A s \in {rx, net} : s = <<>>
  <2> SUFFICES ASSUME NEW s \in {rx, net}, s # <<>> PROVE FALSE
    OBVIOUS
  <2>1. 1 \in DOMAIN s /\ s[1].msg = TheResponse
    <3>1. s \in Seq(PieceType) /\ OnlyResponses(s)
      BY <1>7 DEF Between, Steady, Types, WireTypes
    <3> QED
      BY <3>1, HeadTail DEF OnlyResponses
  <2>2. \A i \in DOMAIN data : /\ data[i].msg = TheResponse
                               /\ data[i].part = "start" /\ s[1].part = "rest"
    <3>1. \A i \in DOMAIN data : data[i].msg = TheResponse /\ Follows(data[i], s[1])
      BY <1>7, <2>1 DEF Between, OnlyResponses, Steady, Ordered, Ahead
    <3> QED
      BY <1>3, <2>1, <3>1 DEF Follows
  <2>3. data[1].part = "start" /\ Len(data) > 1
    <3>1. data[1].part = "start"
      BY <1>7, <2>2
    <3>2. ~(Len(data) = 1)
      <4> SUFFICES ASSUME Len(data) = 1 PROVE FALSE
        OBVIOUS
      <4>1. Head(data) = data[1]
        BY <1>1, HeadTail DEF Steady, Types, TesterTypes
      <4>2. ~(Len(data) > 1) /\ data[1].part # "all" /\ data[1].part # "rest"
        BY <3>1
      <4>3. parsed.msg = NoMessage
        BY <4>1, <4>2, SMT DEF parsed, Parsed
      <4> QED
        BY <1>1, <4>3
    <3> QED
      BY <1>7, <3>1, <3>2
  <2>4. Follows(data[1], data[2]) /\ data[2].msg = TheResponse /\ data[2].part = "start"
    <3>1. 1 \in DOMAIN data /\ 2 \in DOMAIN data
      BY <1>7, <2>3
    <3> QED
      BY <2>2, <3>1 DEF Steady, Ordered, InOrder
  <2> QED
    BY <1>2, <1>3, <2>4 DEF Follows
<1>9. working = 0
  <2> SUFFICES ASSUME working # 0 PROVE FALSE
    OBVIOUS
  <2>1. working = Requests /\ Earlier(data, working) /\ 1 \in DOMAIN data
    BY <1>7 DEF Steady, Conversation, RequestOrder, AllBefore
  <2> QED
    BY <1>2, <1>3, <2>1 DEF Earlier
<1>10. Silent' /\ toPeer' = <<>>
  BY <1>1, <1>2, <1>6, <1>8, <1>9 DEF Silent
<1>11. Between' /\ Halved' /\ working' = 0
  BY <1>6, <1>10 DEF Between, OnlyResponses, Halved, Half, Silent
<1> QED
  BY <1>6, <1>11, BetweenSuffices


(* A piece arrives: nothing is lost by it, and the order stays.             *)
LEMMA PiecesArrive ==
  ASSUME Steady, Arrive
  PROVE  Conversation'
<1>1. PICK p \in PieceType :
        /\ net # <<>> /\ rx' = Append(rx, p)
        /\ UNCHANGED <<tcp, toPeer, gateway, pc, op, reader, calls, history>>
        /\ \/ p = net[1] /\ net' = Tail(net)
           \/ \E q \in PieceType :
                /\ net[1].part = "all" /\ p.part = "start" /\ q.part = "rest"
                /\ net[1].msg = p.msg /\ q.msg = p.msg /\ p.msg.kind = "response"
                /\ net' \in Seq(PieceType)
                /\ DOMAIN net' = DOMAIN net /\ net'[1] = q
                /\ \A i \in DOMAIN net : i # 1 => net'[i] = net[i]
  BY ArriveEffect DEF Steady, Types
<1>2. UNCHANGED <<toPeer, data, parser, working, pc, stage, conn, sentOn, answers>>
  BY <1>1
<1>3. rx \in Seq(PieceType) /\ net \in Seq(PieceType)
  BY DEF Steady, Types, WireTypes
<1>4. /\ Len(rx) \in Nat /\ DOMAIN rx = 1..Len(rx) /\ DOMAIN rx' = 1..Len(rx)+1
      /\ \A i \in DOMAIN rx : i \in DOMAIN rx' /\ rx'[i] = rx[i]
      /\ rx'[Len(rx)+1] = p /\ Len(rx)+1 \in DOMAIN rx'
      /\ \A i \in DOMAIN rx' :
           \/ i \in DOMAIN rx /\ rx'[i] = rx[i]
           \/ i = Len(rx)+1 /\ rx'[i] = p
  <2>1. rx' = Append(rx, p)
    BY <1>1
  <2> QED
    BY <1>3, <2>1, AppendOne
<1>5. /\ 1 \in DOMAIN net /\ Len(net) \in Nat /\ Len(net) > 0 /\ DOMAIN net = 1..Len(net)
      /\ DOMAIN Tail(net) = 1..Len(net)-1
      /\ \A i \in DOMAIN Tail(net) : i+1 \in DOMAIN net /\ Tail(net)[i] = net[i+1]
  BY <1>1, <1>3, HeadTail
<1>6. p.msg = net[1].msg
  BY <1>1
<1>7. \A i \in DOMAIN net' :
        \/ \E j \in DOMAIN net : j > 1 /\ net'[i] = net[j]
        \/ net'[i].msg = net[1].msg /\ net'[i].part = "rest" /\ net[1].msg.kind = "response" /\ p.part = "start"
  BY <1>1, <1>5
<1>8. \A j \in DOMAIN net : j > 1 => \E i \in DOMAIN net' : net'[i] = net[j]
  <2>1. CASE net' = Tail(net)
    <3> SUFFICES ASSUME NEW j \in DOMAIN net, j > 1 PROVE \E i \in DOMAIN net' : net'[i] = net[j]
      OBVIOUS
    <3>1. j-1 \in DOMAIN Tail(net) /\ Tail(net)[j-1] = net[(j-1)+1] /\ (j-1)+1 = j
      BY <1>5
    <3> QED
      BY <2>1, <3>1
  <2>2. CASE DOMAIN net' = DOMAIN net /\ \A i \in DOMAIN net : i # 1 => net'[i] = net[i]
    BY <1>5, <2>2
  <2> QED
    BY <1>1, <2>1, <2>2
<1>9. OnlyResponses(net) => OnlyResponses(net)'
  BY <1>2, <1>5, <1>7, SameSubject DEF OnlyResponses
<1>10. OnlyResponses(rx) /\ net[1].msg = TheResponse => OnlyResponses(rx)'
  BY <1>2, <1>4, <1>6, SameSubject DEF OnlyResponses
<1>11. OnlyResponses(net) => net[1].msg = TheResponse
  BY <1>5 DEF OnlyResponses
<1>12. ASSUME Promised PROVE Promised'
  <2>1. CASE working = Requests \/ Ending(data)
    BY <1>2, <2>1, SameSubject DEF Promised, Ending
  <2>2. CASE Ending(rx)
    BY <1>2, <1>4, <2>2, SameSubject DEF Promised, Ending
  <2>3. CASE Ending(net)
    <3>1. PICK j \in DOMAIN net : net[j].msg = TheResponse /\ net[j].part # "start"
      BY <2>3 DEF Ending
    <3>2. CASE j > 1
      BY <1>2, <1>8, <3>1, <3>2, SameSubject DEF Promised, Ending
    <3>3. CASE j = 1 /\ p = net[1]
      BY <1>2, <1>4, <3>1, <3>3, SameSubject DEF Promised, Ending
    <3>4. CASE /\ j = 1 /\ 1 \in DOMAIN net' /\ net'[1].msg = net[1].msg /\ net'[1].part = "rest"
      BY <1>2, <3>1, <3>4, SameSubject DEF Promised, Ending
    <3> QED
      BY <1>1, <1>5, <3>2, <3>3, <3>4
  <2> QED
    BY <1>12, <2>1, <2>2, <2>3 DEF Promised
<1>13. Halved'
  <2>1. CASE p.part = "start"
    BY <1>4, <2>1 DEF Halved, Half
  <2>2. CASE p = net[1] /\ p.part # "start"
    <3>1. Half(rx, "start") => Half(rx, "start")'
      BY <1>4 DEF Half
    <3>2. Half(net, "start") => Half(net, "start")'
      BY <1>5, <1>8, <2>2 DEF Half
    <3>3. Half(rx, "rest")' => Half(rx, "rest") \/ Half(net, "rest")
      BY <1>4, <1>5, <2>2 DEF Half
    <3>4. Half(net, "rest")' => Half(net, "rest")
      BY <1>7, <2>2 DEF Half
    <3>5. /\ Half(data, "rest")' = Half(data, "rest") /\ Half(data, "start")' = Half(data, "start")
          /\ (parser = TheResponse)' = (parser = TheResponse)
      BY <1>2, SameSubject DEF Half
    <3> QED
      BY <3>1, <3>2, <3>3, <3>4, <3>5 DEF Halved, Steady, Conversation
  <2> QED
    BY <1>1, <2>1, <2>2
<1>14. ASSUME NEW m \in Message, m.kind # "response", Leads(m) PROVE Leads(m)'
  <2>1. CASE Led(data, m) /\ OnlyResponses(rx) /\ OnlyResponses(net)
    BY <1>2, <1>9, <1>10, <1>11, <2>1, SameSubject DEF Leads, Led
  <2>2. CASE data = <<>> /\ Led(rx, m) /\ OnlyResponses(net)
    <3>1. rx # <<>> /\ 1 \in DOMAIN rx /\ rx' # <<>>
      BY <1>3, <1>4, <2>2, HeadTail DEF Led
    <3>2. Led(rx, m)'
      BY <1>2, <1>4, <1>6, <1>11, <2>2, <3>1, SameSubject DEF Led
    <3> QED
      BY <1>2, <1>9, <2>2, <3>2 DEF Leads
  <2>3. CASE data = <<>> /\ rx = <<>> /\ Led(net, m)
    <3>1. net[1] = Piece(m, "all") /\ net[1].msg.kind # "response"
      BY <1>14, <2>3, PieceOf DEF Led, Parts
    <3>2. p = net[1] /\ net' = Tail(net)
      BY <1>1, <1>6, <3>1
    <3>3. OnlyResponses(net)'
      BY <1>2, <1>7, <2>3, <3>1, SameSubject DEF OnlyResponses, Led
    <3>4. Led(rx, m)'
      <4>1. Len(rx) = 0
        BY <2>3
      <4>2. DOMAIN rx' = {1} /\ rx'[1] = p /\ rx' # <<>>
        BY <1>4, <4>1
      <4> QED
        BY <3>1, <3>2, <4>2 DEF Led
    <3> QED
      BY <1>2, <2>3, <3>3, <3>4 DEF Leads
  <2> QED
    BY <1>14, <2>1, <2>2, <2>3 DEF Leads
<1>15. ~Silent /\ working' \in {0, Requests'}
  BY <1>1, <1>2, SameSubject DEF Silent, Steady, Conversation
<1>16. CASE stage = "activation"
  <2>1. /\ Msg("activated", 0) \in Message /\ Msg("activated", 0).kind # "response"
    BY MsgOf
  <2>2. Activating'
    BY <1>2, <1>14, <1>15, <1>16, <2>1, SameSubject DEF Steady, Conversation, Activating
  <2> QED
    BY <1>2, <1>13, <1>15, <1>16, <2>2, Places DEF Conversation, Steady, Types
<1>17. CASE stage = "ack"
  <2>1. /\ Msg("ack", Requests) \in Message /\ Msg("ack", Requests).kind # "response"
    BY MsgOf, ResponseOf DEF Steady
  <2>2. Acknowledging'
    BY <1>2, <1>12, <1>14, <1>15, <1>17, <2>1, SameSubject DEF Steady, Conversation, Acknowledging
  <2> QED
    BY <1>2, <1>13, <1>15, <1>17, <2>2, Places DEF Conversation, Steady, Types
<1>18. CASE Between /\ stage \in {"none", "response"} /\ pc # "activate"
  <2>1. Between'
    BY <1>2, <1>9, <1>10, <1>11, <1>12, <1>15, <1>18, SameSubject DEF Between, OnlyResponses
  <2> QED
    BY <1>2, <1>13, <1>15, <1>18, <2>1, BetweenSuffices
<1> QED
  BY <1>15, <1>16, <1>17, <1>18, Places DEF Steady, Types


(* The gateway takes the one request there is, and answers in its turn.     *)
LEMMA GatewayStartsRouting ==
  ASSUME Steady, GatewayActivates, disturbed' = FALSE
  PROVE  Conversation'
<1>1. /\ toPeer # <<>> /\ Head(toPeer).kind = "activation" /\ toPeer' = Tail(toPeer)
      /\ Tell(Msg("activated", 0))
      /\ UNCHANGED <<rx, data, parser, working, pc, stage, conn, sentOn, answers>>
  BY DEF GatewayActivates
<1>2. \A k \in {"activation", "diagnostic"}, n \in Nat : Msg(k, n).kind = k
  BY DEF Msg
<1>3. stage = "activation" /\ Activating
  <2>1. stage = "ack" => Head(toPeer).kind = "diagnostic"
    BY <1>1, <1>2, ResponseOf DEF Steady, Conversation, Acknowledging
  <2> QED
    BY <1>1, <2>1, Places DEF Steady, Types, Between
<1>4. Silent /\ toPeer = <<Msg("activation", 0)>> /\ ~Live(Requests) /\ parser = NoMessage /\ working = 0
  BY <1>1, <1>3 DEF Activating
<1>5. toPeer' = <<>> /\ net' = <<Piece(Msg("activated", 0), "all")>>
  BY <1>1, <1>4 DEF Tell, Silent
<1>6. Led(net, Msg("activated", 0))'
  BY <1>5 DEF Led
<1>7. Activating'
  BY <1>1, <1>4, <1>5, <1>6, SameSubject DEF Activating, Leads, Silent
<1>8. Halved' /\ working' = 0
  BY <1>1, <1>4, <1>5, PieceOf, MsgOf DEF Halved, Half, Silent, Parts
<1> QED
  BY <1>1, <1>3, <1>7, <1>8, Places DEF Conversation, Steady, Types

LEMMA GatewayTakesRequest ==
  ASSUME Steady, GatewayAccepts
  PROVE  Conversation'
<1>1. /\ toPeer # <<>> /\ Head(toPeer).kind = "diagnostic" /\ toPeer' = Tail(toPeer)
      /\ Tell(Msg("ack", Head(toPeer).tag)) /\ working' = Head(toPeer).tag
      /\ UNCHANGED <<rx, data, parser, pc, stage, conn, sentOn, answers>>
  BY DEF GatewayAccepts
<1>2. /\ \A k \in {"activation", "diagnostic"}, n \in Nat : Msg(k, n).kind = k /\ Msg(k, n).tag = n
      /\ Requests \in Nat
  BY ResponseOf DEF Msg, Steady
<1>3. stage = "ack" /\ Acknowledging
  <2>1. stage = "activation" => Head(toPeer).kind = "activation"
    BY <1>1, <1>2 DEF Steady, Conversation, Activating
  <2> QED
    BY <1>1, <2>1, Places DEF Steady, Types, Between
<1>4. Silent /\ toPeer = <<Msg("diagnostic", Requests)>> /\ Owed /\ parser = NoMessage
  BY <1>1, <1>3 DEF Acknowledging
<1>5. /\ toPeer' = <<>> /\ net' = <<Piece(Msg("ack", Requests), "all")>>
      /\ working' = Requests
  BY <1>1, <1>2, <1>4 DEF Tell, Silent
<1>6. Led(net, Msg("ack", Requests))'
  BY <1>1, <1>5, SameSubject DEF Led
<1>7. Leads(Msg("ack", Requests))' /\ Promised'
  BY <1>1, <1>4, <1>5, <1>6, SameSubject DEF Leads, Silent, Promised
<1>8. Acknowledging'
  BY <1>1, <1>4, <1>5, <1>7, SameSubject DEF Acknowledging
<1>9. Halved' /\ working' = Requests'
  BY <1>1, <1>2, <1>4, <1>5, SameSubject, PieceOf, MsgOf DEF Halved, Half, Silent, Parts
<1> QED
  BY <1>1, <1>3, <1>8, <1>9, Places DEF Conversation, Steady, Types

LEMMA GatewayAnswers ==
  ASSUME Steady, GatewayResponds
  PROVE  Conversation'
<1>1. /\ working # 0 /\ working' = 0 /\ Tell(Msg("response", working))
      /\ UNCHANGED <<toPeer, rx, data, parser, pc, stage, conn, sentOn, answers>>
  BY DEF GatewayResponds
<1>2. working = Requests /\ ~Silent
  BY <1>1 DEF Steady, Conversation, Silent
<1> DEFINE p == Piece(TheResponse, "all")
<1>3. p \in PieceType /\ p.msg = TheResponse /\ p.part = "all" /\ TheResponse.kind = "response"
  BY ResponseOf, PieceOf DEF Steady, Parts
<1>4. net \in Seq(PieceType) /\ net' = Append(net, p)
  BY <1>1, <1>2 DEF Tell, TheResponse, Steady, Types, WireTypes
<1> HIDE DEF p
<1>5. /\ Len(net) \in Nat /\ DOMAIN net = 1..Len(net) /\ DOMAIN net' = 1..Len(net)+1
      /\ \A i \in DOMAIN net : i \in DOMAIN net' /\ net'[i] = net[i]
      /\ Len(net)+1 \in DOMAIN net' /\ net'[Len(net)+1] = p
      /\ \A i \in DOMAIN net' :
           \/ i \in DOMAIN net /\ net'[i] = net[i]
           \/ i = Len(net)+1 /\ net'[i] = p
  BY <1>3, <1>4, AppendOne
<1>6. Promised'
  BY <1>1, <1>3, <1>5, SameSubject DEF Promised, Ending
<1>7. OnlyResponses(net) => OnlyResponses(net)'
  BY <1>1, <1>3, <1>5, SameSubject DEF OnlyResponses
<1>8. ASSUME NEW m, Leads(m) PROVE Leads(m)'
  <2>1. Led(net, m) => Led(net, m)'
    <3> SUFFICES ASSUME Led(net, m) PROVE Led(net, m)'
      OBVIOUS
    <3>1. 1 \in DOMAIN net /\ net' # <<>>
      BY <1>4, <1>5, HeadTail DEF Led
    <3> QED
      BY <1>1, <1>3, <1>5, <3>1, SameSubject DEF Led
  <2> QED
    BY <1>1, <1>7, <1>8, <2>1, SameSubject DEF Leads, Led, OnlyResponses
<1>9. Halved'
  <2>1. Half(net, "start") => Half(net, "start")'
    BY <1>5 DEF Half
  <2>2. Half(net, "rest")' => Half(net, "rest")
    BY <1>3, <1>5 DEF Half
  <2>3. /\ Half(data, "rest")' = Half(data, "rest") /\ Half(data, "start")' = Half(data, "start")
        /\ Half(rx, "rest")' = Half(rx, "rest") /\ Half(rx, "start")' = Half(rx, "start")
        /\ (parser = TheResponse)' = (parser = TheResponse)
    BY <1>1, SameSubject DEF Half
  <2> QED
    BY <2>1, <2>2, <2>3 DEF Halved, Steady, Conversation
<1>10. CASE stage = "ack"
  <2>1. Acknowledging'
    BY <1>1, <1>2, <1>6, <1>8, <1>10, SameSubject DEF Steady, Conversation, Acknowledging
  <2>2. pc \in {"read", "parse"}
    BY <1>10 DEF Steady, Types, TesterTypes
  <2>3. stage' = "ack" /\ pc' \in {"read", "parse"} /\ working' = 0
    BY <1>1, <1>10, <2>2
  <2> QED
    BY <1>9, <2>1, <2>3 DEF Conversation
<1>11. CASE Between /\ stage \in {"none", "response"} /\ pc # "activate"
  <2>1. Between'
    BY <1>1, <1>2, <1>6, <1>7, <1>11, SameSubject DEF Between, OnlyResponses
  <2> QED
    BY <1>1, <1>9, <1>11, <2>1, BetweenSuffices
<1>12. stage # "activation" /\ pc # "activate"
  BY <1>1, <1>2 DEF Steady, Conversation, Activating
<1> QED
  BY <1>10, <1>11, <1>12, Places DEF Steady, Types

LEMMA InTurnKept == OrderIInv /\ InTurn /\ [Next]_vars => InTurn'
<1> SUFFICES ASSUME OrderIInv, InTurn, [Next]_vars, disturbed' = FALSE, sock' = "connected"
             PROVE  Conversation'
  <2>1. OrderIInv /\ [Next]_vars => disturbed' \in BOOLEAN
    BY NextOrderIInv DEF OrderIInv, LinkIInv, WireTypes
  <2> QED
    BY <2>1 DEF InTurn
<1>1. Types /\ Flight /\ Ordered /\ RequestOrder
  BY DEF OrderIInv, LinkIInv, Types
<1>2. disturbed = FALSE /\ sock = "connected" => Steady
  BY <1>1 DEF InTurn, Steady
<1>3. ASSUME NEW o \in {"open", "send", "recv"}, Reconnect(o), pc = "idle" PROVE Conversation'
  BY <1>1, <1>3, NewConversation DEF Reconnect, ConnectRaises
<1>4. ASSUME disturbed' = disturbed, sock' = sock PROVE Steady
  BY <1>2, <1>4
<1>5. ASSUME disturbed' = (disturbed \/ Drops), sock' = sock PROVE Steady
  BY <1>1, <1>2, <1>5 DEF Types, WireTypes
<1>6. CASE Open \/ NeverOpened \/ Close
  BY <1>3, <1>6 DEF Open, NeverOpened, Close
<1>7. CASE \E o \in {"send", "recv"} : UseOpenConnection(o) \/ UseNewConnection(o)
  <2>1. PICK o \in {"send", "recv"} : UseOpenConnection(o) \/ UseNewConnection(o)
    BY <1>7
  <2>2. CASE UseOpenConnection(o)
    BY <1>4, <2>2, SteadyCallGoesOn DEF UseOpenConnection
  <2>3. CASE UseNewConnection(o)
    BY <1>3, <2>3 DEF UseNewConnection, Begin
  <2> QED
    BY <2>1, <2>2, <2>3
<1>8. CASE Activate
  <2>1. disturbed' = disturbed /\ sock' = sock
    BY <1>8 DEF Activate
  <2> QED
    BY <1>4, <1>8, <2>1, ActivationBegins
<1>9. CASE Transmit
  <2>1. disturbed = FALSE /\ sock' = sock
    BY <1>1, <1>9 DEF Transmit, Types, WireTypes
  <2> QED
    BY <1>2, <1>9, <2>1, RequestGoesOut
<1>10. CASE Receive
  BY <1>4, <1>10, BytesAreReceived DEF Receive
<1>11. CASE ReceiveNothing
  <2>1. disturbed = FALSE /\ sock' = sock
    BY <1>1, <1>11 DEF ReceiveNothing, Types, WireTypes
  <2> QED
    BY <1>2, <1>11, <2>1, NothingIsAwaited
<1>12. CASE DeadlinePassed
  BY <1>12 DEF DeadlinePassed
<1>13. CASE ReadOn
  BY <1>4, <1>13, ReaderReadsOn DEF ReadOn
<1>14. CASE RoutingActivated \/ ActivationFailed \/ AckRead \/ ResponseRead
  <2>1. Steady
    BY <1>5, <1>14 DEF RoutingActivated, ActivationFailed, AckRead, ResponseRead, FirstMessage
  <2> QED
    BY <1>14, <2>1, ActivationSucceeds, ActivationIsNotRefused, RequestIsAcknowledged, ResponseIsRead
<1>15. CASE Arrive
  BY <1>4, <1>15, PiecesArrive DEF Arrive
<1>16. CASE GatewayActivates
  <2>1. disturbed' = disturbed /\ sock' = sock
    BY <1>16 DEF GatewayActivates
  <2> QED
    BY <1>4, <1>16, <2>1, GatewayStartsRouting
<1>17. CASE GatewayAccepts
  BY <1>4, <1>17, GatewayTakesRequest DEF GatewayAccepts
<1>18. CASE GatewayRejects \/ GatewaySpeaks \/ GatewayCloses
  BY <1>18 DEF GatewayRejects, GatewaySpeaks, GatewayCloses
<1>19. CASE GatewayResponds
  BY <1>4, <1>19, GatewayAnswers DEF GatewayResponds
<1>20. CASE AllCallsDone \/ UNCHANGED vars
  <2>1. UNCHANGED vars
    BY <1>20 DEF AllCallsDone
  <2>2. Conversation
    BY <1>4, <2>1 DEF vars, Steady
  <2>3. /\ UNCHANGED <<toPeer, net, rx, data, parser, working, pc, stage, conn, sentOn, answers>>
    BY <2>1 DEF vars
  <2> QED
    BY <2>2, <2>3, SameSubject DEF Conversation, Between, Activating, Acknowledging, Leads, Led,
       OnlyResponses, Promised, Ending, Halved, Half, Silent
<1> QED
  BY <1>6, <1>7, <1>8, <1>9, <1>10, <1>11, <1>12, <1>13, <1>14, <1>15, <1>16, <1>17, <1>18, <1>19, <1>20
     DEF Next, TesterStep, GatewayStep


(* With an answer the call has ended, on the connection it began on.        *)
LEMMA AnswersEndCalls ==
  ASSUME Types, [Next]_vars, answers' # answers
  PROVE  pc' = "idle" /\ (sock' = "connected" \/ disturbed' = TRUE)
<1>1. ASSUME NEW o, Reconnect(o) PROVE UNCHANGED answers
  BY <1>1 DEF Reconnect
<1>2. CASE Open \/ NeverOpened \/ Close
  BY <1>1, <1>2 DEF Open, NeverOpened, Close
<1>3. CASE \E o \in {"send", "recv"} : UseOpenConnection(o) \/ UseNewConnection(o)
  BY <1>1, <1>3 DEF UseOpenConnection, UseNewConnection
<1>4. CASE Activate
  BY <1>4 DEF Activate, Return, Types, WireTypes
<1>5. pc # "idle" => sock = "connected"
  BY DEF Types, TesterTypes
<1>6. CASE ReceiveNothing \/ DeadlinePassed
  BY <1>5, <1>6 DEF ReceiveNothing, DeadlinePassed, GiveUp, Return
<1>7. CASE ActivationFailed \/ AckRead \/ ResponseRead
  BY <1>5, <1>7 DEF ActivationFailed, AckRead, ResponseRead, FirstMessage, Return
<1>8. CASE Transmit \/ Receive \/ ReadOn \/ RoutingActivated \/ Arrive
  BY <1>8 DEF Transmit, Receive, ReadOn, RoutingActivated, FirstMessage, Arrive
<1>9. CASE GatewayStep \/ GatewaySpeaks \/ GatewayCloses
  BY <1>9 DEF GatewayStep, GatewayActivates, GatewayAccepts, GatewayRejects, GatewayResponds,
     GatewaySpeaks, GatewayCloses
<1>10. CASE AllCallsDone \/ UNCHANGED vars
  BY <1>10 DEF AllCallsDone, vars
<1> QED
  BY <1>2, <1>3, <1>4, <1>6, <1>7, <1>8, <1>9, <1>10 DEF Next, TesterStep

(* What InStep says of one answer.                                          *)
InStepAt(i) ==
  LET a == answers[i]
  IN (/\ a.inStep
      /\ a.asked > 0
      /\ sentOn[a.asked] = a.conn
      /\ \A j \in 1..i-1 : answers[j].asked # a.asked) => a.tag = a.asked

LEMMA InStepKept == OrderIInv /\ InTurn' /\ InStep /\ [Next]_vars => InStep'
<1> SUFFICES ASSUME OrderIInv, InTurn', InStep, [Next]_vars, NEW i \in DOMAIN answers' PROVE InStepAt(i)'
  BY DEF InStep, InStepAt
<1>1. Types /\ Flight
  BY DEF OrderIInv, LinkIInv, Types
<1>2. disturbed' \in BOOLEAN
  BY NextOrderIInv DEF OrderIInv, LinkIInv, WireTypes
<1>3. \A k \in DOMAIN answers : InStepAt(k)
  BY DEF InStep, InStepAt
<1>4. /\ sentOn \in Seq(Nat \ {0}) /\ Requests \in Nat /\ Len(sentOn) = Requests
      /\ answers \in Seq(AnswerType) /\ DOMAIN answers = 1..Len(answers) /\ Len(answers) \in Nat
  BY <1>1, ResponseOf, LenProperties DEF Types, HistoryTypes, Requests
<1>5. \A k \in DOMAIN answers : /\ answers[k].asked \in Nat /\ answers[k].asked <= Requests
                                /\ answers[k].tag \in Nat /\ answers[k].tag <= answers[k].asked
  BY <1>1, AnswersBounded
<1>6. CASE UNCHANGED <<sentOn, answers>>
  BY <1>3, <1>6 DEF InStepAt
<1>7. CASE UNCHANGED answers /\ sentOn' = Append(sentOn, conn) /\ sock = "connected"
  <2>1. conn \in Nat \ {0}
    BY <1>1, <1>7 DEF Types, WireTypes
  <2>2. \A n \in 1..Requests : sentOn'[n] = sentOn[n]
    BY <1>4, <1>7, <2>1, AppendOne
  <2>3. i \in DOMAIN answers /\ answers' = answers
    BY <1>7
  <2>4. answers[i].asked > 0 => sentOn'[answers[i].asked] = sentOn[answers[i].asked]
    BY <1>4, <1>5, <2>2, <2>3
  <2>5. InStepAt(i)
    BY <1>3, <2>3
  <2> QED
    BY <2>3, <2>4, <2>5 DEF InStepAt
<1>8. ASSUME NEW n, Returned(n), answers' = Append(answers, Answer(n)), UNCHANGED <<sentOn, conn>>
      PROVE  InStepAt(i)'
  <2>1. /\ DOMAIN answers' = 1..Len(answers)+1
        /\ Answer(n).tag = n /\ Answer(n).asked = Requests /\ Answer(n).conn = conn
        /\ \A k \in DOMAIN answers' :
             \/ k \in DOMAIN answers /\ k <= Len(answers) /\ answers'[k] = answers[k]
             \/ k = Len(answers)+1 /\ answers'[k] = Answer(n)
    BY <1>1, <1>2, <1>8, OneMoreAnswer
  <2>2. \A k \in DOMAIN answers : answers'[k] = answers[k]
    BY <1>4, <2>1
  <2>3. CASE i \in DOMAIN answers
    <3>1. \A j \in 1..i-1 : answers'[j] = answers[j]
      BY <1>4, <2>2, <2>3
    <3> QED
      BY <1>3, <1>8, <2>2, <2>3, <3>1 DEF InStepAt
  <2>4. CASE i = Len(answers)+1
    <3>1. answers'[i] = Answer(n) /\ Answer(n).inStep = (~disturbed')
      BY <1>4, <2>1, <2>4 DEF Answer
    <3> SUFFICES ASSUME answers'[i].inStep, answers'[i].asked > 0,
                        sentOn'[answers'[i].asked] = answers'[i].conn,
                        \A j \in 1..i-1 : answers'[j].asked # answers'[i].asked
                 PROVE  answers'[i].tag = answers'[i].asked
      BY DEF InStepAt
    <3>0. /\ disturbed' = FALSE /\ Requests > 0 /\ sentOn[Requests] = conn
          /\ \A j \in DOMAIN answers : answers[j].asked # Requests
      <4>1. disturbed' = FALSE /\ Requests > 0 /\ sentOn[Requests] = conn
        BY <1>2, <1>8, <2>1, <3>1
      <4>2. \A j \in DOMAIN answers : j \in 1..i-1 /\ answers'[j] = answers[j]
        BY <1>4, <2>2, <2>4
      <4> QED
        BY <2>1, <3>1, <4>1, <4>2
    <3>2. answers' # answers
      BY <1>4, <2>1
    <3>3. pc' = "idle" /\ sock' = "connected"
      BY <1>1, <3>0, <3>2, AnswersEndCalls
    <3>4. Between'
      BY <3>0, <3>3 DEF InTurn, Conversation
    <3>5. Requests' = Requests /\ Live(Requests)' /\ Len(answers)+1 \in DOMAIN answers'
      BY <1>4, <1>8, <2>1, <3>0 DEF Live, Requests
    <3>6. ~Owed'
      BY <2>1, <2>4, <3>1, <3>5 DEF Owed
    <3>7. PICK k \in DOMAIN answers' : answers'[k].tag = Requests
      BY <3>4, <3>5, <3>6 DEF Between, Settled
    <3>8. k \notin DOMAIN answers
      BY <1>4, <1>5, <2>2, <3>0, <3>7
    <3> QED
      BY <2>1, <3>1, <3>7, <3>8
  <2> QED
    BY <1>4, <2>1, <2>3, <2>4
<1> QED
  BY <1>1, <1>6, <1>7, <1>8, HistorySteps DEF HistoryStep, Types

(* Until something happens out of turn on a connection, the first recv      *)
(* after a send returns the response to it: whichever way the stream is cut *)
(* and joined, and whatever happened on the connections before.             *)
THEOREM RequestsAndResponsesAreInStep == Spec => []InStep
<1>1. Init => InTurn /\ InStep
  BY DEF Init, InTurn, InStep
<1>2. OrderIInv /\ InTurn /\ InStep /\ [Next]_vars => InTurn' /\ InStep'
  BY InTurnKept, InStepKept
<1> QED
  BY <1>1, <1>2, SpecOrderIInv, PTL DEF Spec

=============================================================================
