------------------------------ MODULE RawSocket ------------------------------
(***************************************************************************)
(* Layer2RawSocket and Layer3RawSocket: a request is sent and the captured *)
(* packets are searched for its answers.  The kernel captures from the     *)
(* moment the socket is opened, whether somebody reads or not, keeps so    *)
(* many packets and drops the rest.  An answer is told by a callback, which *)
(* sees its kind (message type and port) and not the request it is for.    *)
(* Reading what was captured takes no time against the timeout.            *)
(***************************************************************************)
EXTENDS Naturals, Sequences, FiniteSets

CONSTANTS
  Kinds,        \* what is_answer tells apart
  Capacity,     \* packets the kernel keeps for the socket
  Answerers,    \* entities that may answer a request, each once
  MaxRequests,  \* bound: requests sent
  MaxPackets    \* bound: packets captured

Other == [type |-> "other", port |-> 0]  \* a packet that answers nothing
ASSUME KindsAssumption == Other \notin Kinds
ASSUME CapacityAssumption == Capacity \in Nat \ {0} /\ Answerers \in Nat
ASSUME RawBoundAssumption == MaxRequests \in Nat /\ MaxPackets \in Nat

VARIABLES
  layer,     \* 2 or 3: the class of the socket
  socket,    \* "none" (never opened), "open" or "closed"
  capture,   \* packets captured and not read
  doing,     \* "idle" or "sniff"
  request,   \* the request under way, or the last one
  found,     \* found_packets
  result,    \* what the last request or receive did, until the next call
  asked,     \* history: the requests sent
  owed,      \* answers that may still come to each
  packets,   \* packets captured so far
  inTime     \* history: numbers of the captured answers that came in its time

kernel == <<capture, packets>>
call == <<doing, request, found, result, inTime>>
net == <<asked, owed>>
rawVars == <<layer, socket, kernel, call, net>>

(* during: the request under way when it came, 0 for none. *)
Packet == [n : Nat \ {0}, kind : Kinds \cup {Other}, of : Nat, during : Nat]

(* n: its number among the requests sent, 0 when nothing was sent. *)
NoRequest == [n |-> 0, kind |-> Other, mode |-> "one"]
Modes == {"one", "all"}

Numbers(ps) == [i \in DOMAIN ps |-> ps[i].n]
Did(what, ps) == result' = [did |-> what, packets |-> ps]

RawInit ==
  /\ layer \in {2, 3}
  /\ socket = "none"
  /\ capture = <<>> /\ packets = 0
  /\ doing = "idle"
  /\ request = NoRequest
  /\ found = <<>>
  /\ result = [did |-> "nothing", packets |-> <<>>]
  /\ inTime = {}
  /\ asked = <<>> /\ owed = <<>>

-----------------------------------------------------------------------------
(* Life cycle. *)

(* A new RawSocket captures from now on; that of an earlier open is gone. *)
OpenRaw ==
  /\ doing = "idle"
  /\ socket' = "open"
  /\ capture' = <<>>
  /\ Did("nothing", <<>>)
  /\ UNCHANGED <<layer, packets, doing, request, found, inTime, net>>

(* No permission, or no such interface; layer 3 makes _out_socket first. *)
OpenRawRaises ==
  /\ doing = "idle"
  /\ \/ layer = 3 /\ socket = "none" /\ socket' = "closed"
     \/ UNCHANGED socket
  /\ Did("nothing", <<>>)
  /\ UNCHANGED <<layer, kernel, doing, request, found, inTime, net>>

(* close of layer 3 needs an _out_socket, which only open makes. *)
CloseRaises == layer = 3 /\ socket = "none"

(* Mutant: the kernel goes on capturing. *)
CloseKeepsCapturing ==
  /\ doing = "idle"
  /\ socket' = IF socket = "none" THEN "none" ELSE "closed"
  /\ Did("nothing", <<>>)
  /\ UNCHANGED <<layer, kernel, doing, request, found, inTime, net>>

CloseRaw ==
  /\ doing = "idle"
  /\ socket' = IF socket = "none" THEN "none" ELSE "closed"
  /\ capture' = <<>>
  /\ Did("nothing", <<>>)
  /\ UNCHANGED <<layer, packets, doing, request, found, inTime, net>>

-----------------------------------------------------------------------------
(* Requests. *)

Begin(r) ==
  /\ request' = r
  /\ doing' = "sniff"
  /\ found' = <<>>
  /\ inTime' = {}
  /\ Did("nothing", <<>>)
  /\ UNCHANGED <<layer, socket, kernel>>

(* send_receive_packet ("one") and send_receive_packets ("all"). *)
Ask(k, m) ==
  /\ doing = "idle" /\ socket = "open"
  /\ Len(asked) < MaxRequests
  /\ Begin([n |-> Len(asked) + 1, kind |-> k, mode |-> m])
  /\ asked' = Append(asked, [kind |-> k, mode |-> m])
  /\ owed' = Append(owed, Answerers)

(* The packet is not sent, which is not looked at, or on layer 2 there is   *)
(* none (receive_answer, receive_answers): the wait is the same.            *)
AskUnsent(k, m) ==
  /\ doing = "idle" /\ socket = "open"
  /\ Begin([n |-> 0, kind |-> k, mode |-> m])
  /\ UNCHANGED net

(* The socket is not open; or layer 3 is given no packet, and send_packet   *)
(* wants the layers of None.                                                *)
AskRaises ==
  /\ doing = "idle"
  /\ socket # "open" \/ layer = 3
  /\ Did("raised", <<>>)
  /\ UNCHANGED <<layer, socket, kernel, doing, request, found, inTime, net>>

(* The result: all that was found, or the first of it. *)
Return ==
  LET ps == IF request.mode = "one" /\ found # <<>> THEN <<found[1]>> ELSE found IN
  /\ Did("returned", ps)
  /\ doing' = "idle"
  /\ found' = <<>>

(* Mutant: the port and the type are not compared. *)
AnyAnswer(p) == p.of # 0

(* is_answer. *)
IsAnswer(p) == p.kind = request.kind

(* Mutant: an answer ends the search on both layers and in both modes. *)
AlwaysEnough(p) == IsAnswer(p)

(* _send_receive_packets of layer 2 stops at the first answer if it is for  *)
(* one; layer 3 sniffs till the end.                                        *)
Enough(p) == layer = 2 /\ request.mode = "one" /\ IsAnswer(p)

(* Mutant: a packet that is no answer ends the search. *)
SearchWhileAnswers ==
  /\ doing = "sniff" /\ capture # <<>>
  /\ ~Enough(Head(capture))
  /\ IF IsAnswer(Head(capture))
       THEN found' = Append(found, Head(capture)) /\ UNCHANGED <<doing, result>>
       ELSE Return
  /\ capture' = Tail(capture)
  /\ UNCHANGED <<layer, socket, packets, request, inTime, net>>

Search ==
  /\ doing = "sniff" /\ capture # <<>>
  /\ ~Enough(Head(capture))
  /\ found' = IF IsAnswer(Head(capture)) THEN Append(found, Head(capture)) ELSE found
  /\ capture' = Tail(capture)
  /\ UNCHANGED <<layer, socket, packets, doing, request, result, inTime, net>>

FindFirst ==
  /\ doing = "sniff" /\ capture # <<>>
  /\ Enough(Head(capture))
  /\ Did("returned", <<Head(capture)>>)
  /\ doing' = "idle"
  /\ found' = <<>>
  /\ capture' = Tail(capture)
  /\ UNCHANGED <<layer, socket, packets, request, inTime, net>>

(* The timeout: nothing more has been captured. *)
SniffEnds ==
  /\ doing = "sniff" /\ capture = <<>>
  /\ Return
  /\ UNCHANGED <<layer, socket, kernel, request, inTime, net>>

(* receive: the oldest captured packet, whatever it is. *)
Receive ==
  /\ doing = "idle" /\ socket = "open" /\ capture # <<>>
  /\ Did("received", <<Head(capture)>>)
  /\ capture' = Tail(capture)
  /\ UNCHANGED <<layer, socket, packets, doing, request, found, inTime, net>>

-----------------------------------------------------------------------------
(* The network and the kernel. *)

During == IF doing = "sniff" THEN request.n ELSE 0

Arrives(k, n) ==
  /\ packets < MaxPackets
  /\ IF socket = "open" /\ Len(capture) < Capacity
       THEN /\ packets' = packets + 1
            /\ capture' = Append(capture,
                 [n |-> packets + 1, kind |-> k, of |-> n, during |-> During])
            /\ inTime' = IF n # 0 /\ During = n THEN inTime \cup {packets + 1} ELSE inTime
       ELSE UNCHANGED <<kernel, inTime>>
  /\ UNCHANGED <<layer, socket, doing, request, found, result>>

AnswerArrives(n) ==
  /\ owed[n] > 0
  /\ owed' = [owed EXCEPT ![n] = owed[n] - 1]
  /\ Arrives(asked[n].kind, n)
  /\ UNCHANGED asked

OtherArrives == Arrives(Other, 0) /\ UNCHANGED net

SocketStep ==
  \/ OpenRawRaises \/ CloseRaw
  \/ \E k \in Kinds, m \in Modes : Ask(k, m) \/ AskUnsent(k, m)
  \/ AskRaises \/ Search \/ FindFirst \/ SniffEnds \/ Receive
  \/ \E n \in DOMAIN asked : AnswerArrives(n)
  \/ OtherArrives

-----------------------------------------------------------------------------
(* Properties. *)

(* The variables have their types; nothing is captured on a socket that is  *)
(* not open, and what is searched is searched on an open one.               *)
RawTypeOK ==
  /\ layer \in {2, 3}
  /\ socket \in {"none", "open", "closed"}
  /\ capture \in Seq(Packet) /\ Len(capture) <= Capacity
  /\ socket # "open" => capture = <<>> /\ doing = "idle"
  /\ packets \in 0..MaxPackets
  /\ doing \in {"idle", "sniff"}
  /\ request \in [n : 0..Len(asked), kind : Kinds \cup {Other}, mode : Modes]
  /\ found \in Seq(Packet)
  /\ result.did \in {"nothing", "raised", "returned", "received"}
  /\ result.packets \in Seq(Packet)
  /\ inTime \subseteq 1..packets
  /\ asked \in Seq([kind : Kinds, mode : Modes])
  /\ owed \in Seq(0..Answerers) /\ Len(owed) = Len(asked)

Returned == {result.packets[i].n : i \in DOMAIN result.packets}

(* A request for all answers returns every answer to it that was captured   *)
(* in its time, and one for a single answer returns one if there was any,   *)
(* whatever else was captured before and between (raw_socket.py:118-128 and *)
(* 280-289).                                                                *)
InTimeIsReturned ==
  (result.did = "returned") =>
    IF request.mode = "all" THEN inTime \subseteq Returned ELSE inTime # {} => Returned # {}

(* An answer to an earlier request is returned for a later one only if it   *)
(* came too late for its own, or if its own was content with one answer and *)
(* left the others captured (layer 2, raw_socket.py:126): layer 3 reads all *)
(* that comes in the time of a request.                                     *)
StaleOnlyWhenLate ==
  result.did = "returned" =>
    \A i \in DOMAIN result.packets :
      LET p == result.packets[i] IN
        (p.of # request.n /\ p.during = p.of) => layer = 2 /\ asked[p.of].mode = "one"

(* What a request returns is what is_answer accepts; and whatever is given  *)
(* to the caller comes in the order of its capture and is older than all    *)
(* that is still captured, so that no packet is given twice.                *)
Given == Numbers(result.packets)
PacketsOnceInOrder ==
  /\ result.did = "returned" => \A i \in DOMAIN result.packets : result.packets[i].kind = request.kind
  /\ \A i, j \in DOMAIN Given : i < j => Given[i] < Given[j]
  /\ \A i \in DOMAIN Given, j \in DOMAIN capture : Given[i] < capture[j].n

(* The answers of a request are complete, its own and in order, as said     *)
(* above.                                                                   *)
AnswersAreTimely == InTimeIsReturned /\ StaleOnlyWhenLate /\ PacketsOnceInOrder

=============================================================================
