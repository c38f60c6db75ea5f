-------------------------- MODULE DatagramSockets --------------------------
(***************************************************************************)
(* UdpCommunicator and MulticastCommunicator: their sockets, what each     *)
(* operation does to them and what it raises, over a network that loses    *)
(* and reorders datagrams.  A datagram on its way is addressed to the port *)
(* its receiver was configured with, or to the one the kernel chose for a  *)
(* socket that sent without being bound.  Operations of the communicators  *)
(* a caller makes directly are actions here.                               *)
(***************************************************************************)
EXTENDS Naturals, Sequences, FiniteSets

CONSTANTS
  Udps,        \* the UdpCommunicators
  Group,       \* the MulticastCommunicator
  Nobody,      \* no communicator
  Plain,       \* a datagram the caller sends or is sent, of no protocol modelled here
  NoDatagram,  \* None
  QueueSize,   \* bound: datagrams in a receive queue
  MaxOps       \* bound: operations called directly

ASSUME SocketAssumption == Group \notin Udps /\ Nobody \notin Udps \cup {Group} /\ Plain # NoDatagram
ASSUME SizeAssumption == QueueSize \in Nat \ {0} /\ MaxOps \in Nat

VARIABLES
  udp,       \* _socket of each UdpCommunicator
  group,     \* _in_socket, _out_socket and _is_open of the MulticastCommunicator
  queue,     \* receive queue of each socket that receives
  wire,      \* datagrams on their way
  waits,     \* the communicator whose receive_from blocks, or Nobody
  got,       \* what the last operation returned or raised
  ops        \* operations called directly

sockets == <<udp, group, queue, wire>>
direct == <<waits, got, ops>>

Receivers == Udps \cup {Group}
Ports == {"own", "ephemeral"}

(* A name for what was returned, or the exception, and a datagram with it. *)
Result(kind, datagram) == [kind |-> kind, services |-> <<>>, datagram |-> datagram]
Raised(exception) == Result(exception, NoDatagram)
Gave(kind) == Result(kind, NoDatagram)

Datagram(receiver, port, message) == [receiver |-> receiver, port |-> port, message |-> message]

SocketsInit ==
  /\ udp = [s \in Udps |-> "none"]
  /\ group = [in |-> FALSE, out |-> FALSE, open |-> FALSE]
  /\ queue = [r \in Receivers |-> <<>>]
  /\ wire = {}
  /\ waits = Nobody
  /\ got = Gave("None")
  /\ ops = 0

-----------------------------------------------------------------------------
(* State of the communicators. *)

(* A socket object there is, and not closed. *)
Live(s) == udp[s] \in {"unbound", "bound", "ephemeral"}

(* MulticastCommunicator.is_open. *)
GroupIsOpen == group.open /\ group.in /\ group.out

CanSend(r) == IF r = Group THEN GroupIsOpen ELSE Live(r)
CanReceive(r) == CanSend(r)

(* sendto of None, and of a closed socket. *)
SendError(r) ==
  IF r = Group THEN "RuntimeError" ELSE IF udp[r] = "none" THEN "AttributeError" ELSE "OSError"

(* select of None, and of a closed socket. *)
ReceiveError(r) ==
  IF r = Group THEN "RuntimeError" ELSE IF udp[r] = "none" THEN "TypeError" ELSE "ValueError"

(* The kernel gives a port to a socket that sends unbound. *)
Transmitted(r) == [s \in Udps |-> IF s = r /\ udp[s] = "unbound" THEN "ephemeral" ELSE udp[s]]

(* The port an answer to what the communicator sends now comes to. *)
AnswerPort(s) == IF udp[s] = "bound" THEN "own" ELSE "ephemeral"

(* The datagrams on their way without those to a port that is no more. *)
Reachable(s) == {d \in wire : d.receiver # s \/ d.port = "own"}

(* A datagram reaches the receiver's socket: it is joined or bound to the port. *)
Reaches(d) ==
  IF d.receiver = Group THEN group.in
  ELSE udp[d.receiver] = (IF d.port = "own" THEN "bound" ELSE "ephemeral")

Arrive ==
  /\ \E d \in wire :
       /\ wire' = wire \ {d}
       /\ IF Reaches(d) /\ Len(queue[d.receiver]) < QueueSize
          THEN queue' = [queue EXCEPT ![d.receiver] = Append(@, d.message)]
          ELSE UNCHANGED queue
  /\ UNCHANGED <<udp, group>>

-----------------------------------------------------------------------------
(* Operations called directly. *)

Call == waits = Nobody /\ ops < MaxOps /\ ops' = ops + 1

(* A new socket takes the place of the one there was, which is closed and    *)
(* its queue lost.  When bind raises, the new one stays, blocking.           *)
Open(s) ==
  /\ Call
  /\ \/ udp' = [udp EXCEPT ![s] = "bound"] /\ got' = Gave("None")
     \/ udp' = [udp EXCEPT ![s] = "unbound"] /\ got' = Raised("OSError")
  /\ queue' = [queue EXCEPT ![s] = <<>>]
  /\ wire' = Reachable(s)
  /\ UNCHANGED <<group, waits>>

(* The closed object is kept. *)
Close(s) ==
  /\ Call
  /\ IF udp[s] = "none"
     THEN got' = Raised("AttributeError") /\ UNCHANGED sockets
     ELSE /\ udp' = [udp EXCEPT ![s] = "closed"]
          /\ queue' = [queue EXCEPT ![s] = <<>>]
          /\ wire' = Reachable(s)
          /\ got' = Gave("None")
          /\ UNCHANGED group
  /\ UNCHANGED waits

(* send and send_to, which return nothing. *)
Send(s) ==
  /\ Call
  /\ \/ /\ Live(s)
        /\ udp' = Transmitted(s)
        /\ got' = Gave("None")
     \/ /\ got' = Raised(SendError(s))
        /\ UNCHANGED udp
  /\ UNCHANGED <<group, queue, wire, waits>>

Take(r) == queue' = [queue EXCEPT ![r] = Tail(@)]

(* With a timeout, or none: what is queued, or None. *)
Recv(r) ==
  /\ Call
  /\ IF ~CanReceive(r)
     THEN got' = Raised(ReceiveError(r)) /\ UNCHANGED queue
     ELSE IF queue[r] = <<>> THEN got' = Gave("None") /\ UNCHANGED queue
     ELSE got' = Result("data", Head(queue[r])) /\ Take(r)
  /\ UNCHANGED <<udp, group, wire, waits>>

(* The attribute selected on when there is a timeout does not exist.         *)
ReceiveFromTimed(s) ==
  /\ Call
  /\ got' = Raised("AttributeError")
  /\ UNCHANGED <<sockets, waits>>

(* A socket whose bind raised was not set non-blocking. *)
ReceiveFrom(s) ==
  /\ Call
  /\ CASE ~Live(s) -> got' = Raised(SendError(s)) /\ UNCHANGED <<queue, waits>>
       [] Live(s) /\ queue[s] # <<>> ->
            got' = Result("data", Head(queue[s])) /\ Take(s) /\ UNCHANGED waits
       [] Live(s) /\ queue[s] = <<>> /\ udp[s] = "bound" ->
            got' = Gave("None") /\ UNCHANGED <<queue, waits>>
       [] OTHER -> waits' = s /\ UNCHANGED <<queue, got>>
  /\ UNCHANGED <<udp, group, wire>>

Unblock ==
  /\ waits \in Udps
  /\ queue[waits] # <<>>
  /\ got' = Result("data", Head(queue[waits]))
  /\ Take(waits)
  /\ waits' = Nobody
  /\ UNCHANGED <<udp, group, wire, ops>>

(* Mutant: only the receiving socket is given up. *)
GoneButOut == [group EXCEPT !.in = FALSE, !.open = FALSE]

(* _cleanup_sockets: both sockets and the flag. *)
Gone == [in |-> FALSE, out |-> FALSE, open |-> FALSE]

(* The receiving socket, then the sending one; either may fail, and then     *)
(* both are cleaned up, those of an earlier open included.                   *)
OpenGroup ==
  /\ Call
  /\ queue' = [queue EXCEPT ![Group] = <<>>]
  /\ \/ group' = [in |-> TRUE, out |-> TRUE, open |-> TRUE] /\ got' = Gave("True")
     \/ group' = Gone /\ got' = Raised("RuntimeError")
  /\ UNCHANGED <<udp, wire, waits>>

CloseGroup ==
  /\ Call
  /\ group' = Gone
  /\ queue' = [queue EXCEPT ![Group] = <<>>]
  /\ got' = Gave("True")
  /\ UNCHANGED <<udp, wire, waits>>

(* What is sent to the group comes back to the receiving socket, which has   *)
(* joined it; the number of bytes is returned.                               *)
SendGroup ==
  /\ Call
  /\ \/ /\ GroupIsOpen
        /\ got' = Gave("count")
        /\ wire' = wire \cup {Datagram(Group, "own", Plain)}
     \/ /\ got' = Raised("RuntimeError")
        /\ UNCHANGED wire
  /\ UNCHANGED <<udp, group, queue, waits>>

SendToHost ==
  /\ Call
  /\ \/ GroupIsOpen /\ got' = Gave("count")
     \/ got' = Raised("RuntimeError")
  /\ UNCHANGED <<sockets, waits>>

(* With a timeout, the TimeoutError is caught and raised as RuntimeError;    *)
(* without, it is raised as it is.                                           *)
ReceiveFromGroup ==
  /\ Call
  /\ IF ~GroupIsOpen THEN got' = Raised("RuntimeError") /\ UNCHANGED queue
     ELSE IF queue[Group] # <<>>
     THEN got' = Result("data", Head(queue[Group])) /\ Take(Group)
     ELSE /\ \E timed \in BOOLEAN :
               got' = Raised(IF timed THEN "RuntimeError" ELSE "TimeoutError")
          /\ UNCHANGED queue
  /\ UNCHANGED <<udp, group, wire, waits>>

Direct(r) ==
  \/ r \in Udps /\ (Open(r) \/ Close(r) \/ Send(r) \/ ReceiveFrom(r) \/ ReceiveFromTimed(r))
  \/ Recv(r)
  \/ r = Group /\ (OpenGroup \/ CloseGroup \/ SendGroup \/ SendToHost \/ ReceiveFromGroup)

-----------------------------------------------------------------------------

SocketsTypeOK ==
  /\ udp \in [Udps -> {"none", "unbound", "bound", "ephemeral", "closed"}]
  /\ group \in [in : BOOLEAN, out : BOOLEAN, open : BOOLEAN]
  /\ DOMAIN queue = Receivers
  /\ \A r \in Receivers : Len(queue[r]) <= QueueSize
  /\ waits \in Udps \cup {Nobody}
  /\ ops \in 0..MaxOps
=============================================================================
