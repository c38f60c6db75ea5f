------------------------------ MODULE DoipUtils ------------------------------
(***************************************************************************)
(* A DoipUtils object: setup and teardown of its raw socket and of its TCP *)
(* connections, the requests it makes over the raw socket (vehicle         *)
(* identification, entity status: those of RawSocket, on layer 3), the     *)
(* cache of connections and routing activation over a cached connection.   *)
(* The gateways and the network are external.  How a message is read from  *)
(* the stream is in DoipLink: here it arrives whole.                       *)
(***************************************************************************)
EXTENDS RawSocket

CONSTANTS
  Pairs,           \* pairs of source and target address
  MaxConns,        \* bound: connections made
  MaxOperations,   \* bound: requests and activations together
  MaxLosses        \* bound: connections closed or reset by their gateway

ASSUME UtilsBoundAssumption == MaxConns \in Nat /\ MaxOperations \in Nat /\ MaxLosses \in Nat

VARIABLES
  cache,    \* _tcp_communicators_cache, in order of insertion
  conns,    \* the connections made so far
  busy,     \* the connection an activation is under way on, 0 for none
  stage,    \* "none", "send" or "read"
  sentOn,   \* history: the connection of each activation request
  answers,  \* history: the request whose answer each got, 0 for none
  losses,   \* connections closed or reset by their gateway
  outcome   \* of the last operation on connections

activation == <<busy, stage, sentOn, answers>>
utilVars == <<cache, conns, activation, losses, outcome>>
vars == <<rawVars, utilVars>>

(* fd: the socket object; peer: the other end; toPeer: activation requests  *)
(* on their way; stream: answers to them that were not read.                *)
NewConn == [fd |-> "open", peer |-> "up", toPeer |-> <<>>, stream |-> <<>>]

Init ==
  /\ RawInit
  /\ cache = <<>> /\ conns = <<>>
  /\ busy = 0 /\ stage = "none"
  /\ sentOn = <<>> /\ answers = <<>>
  /\ losses = 0
  /\ outcome = "nothing"

Operations == Len(asked) + Len(sentOn)
Idle == layer = 3 /\ doing = "idle" /\ stage = "none"

-----------------------------------------------------------------------------
(* TcpCommunicator. *)

(* A peek finds bytes or would block, at the end of the stream it finds     *)
(* none, and on a closed or reset socket it raises.                         *)
IsOpen(c) ==
  /\ conns[c].fd = "open"
  /\ conns[c].peer = "up" \/ (conns[c].peer = "down" /\ conns[c].stream # <<>>)

Closed(conn) == [conn EXCEPT !.fd = "closed", !.toPeer = <<>>, !.stream = <<>>]

-----------------------------------------------------------------------------
(* _get_tcp_communicator. *)

IsCached(p) == \E i \in DOMAIN cache : cache[i].pair = p
IndexOf(p) == CHOOSE i \in DOMAIN cache : cache[i].pair = p
Cached(p) == cache[IndexOf(p)].conn

(* Mutant: the old connection is not closed. *)
LeaveOld(p) == conns

(* The old connection of the pair, which is not open, is closed. *)
CloseOld(p) == IF IsCached(p) THEN [conns EXCEPT ![Cached(p)] = Closed(conns[Cached(p)])] ELSE conns

UseConn(c) ==
  /\ busy' = c
  /\ stage' = "send"
  /\ outcome' = "nothing"
  /\ UNCHANGED <<rawVars, sentOn, answers, losses>>

UseCached(p) ==
  /\ Idle /\ Operations < MaxOperations
  /\ IsCached(p) /\ IsOpen(Cached(p))
  /\ UseConn(Cached(p))
  /\ UNCHANGED <<cache, conns>>

NeedsNew(p) == Idle /\ Operations < MaxOperations /\ ~(IsCached(p) /\ IsOpen(Cached(p)))

MakeNew(p) ==
  /\ NeedsNew(p)
  /\ Len(conns) < MaxConns
  /\ conns' = Append(CloseOld(p), NewConn)
  /\ cache' = IF IsCached(p) THEN [cache EXCEPT ![IndexOf(p)].conn = Len(conns) + 1]
              ELSE Append(cache, [pair |-> p, conn |-> Len(conns) + 1])
  /\ UseConn(Len(conns) + 1)

(* bind or connect raises: the new socket goes with its communicator, and   *)
(* the closed one stays in the cache.                                       *)
MakeNewRaises(p) ==
  /\ NeedsNew(p)
  /\ conns' = CloseOld(p)
  /\ outcome' = "raised"
  /\ UNCHANGED <<rawVars, cache, activation, losses>>

-----------------------------------------------------------------------------
(* initiate_routing_activation_req over the connection. *)

SendActivation ==
  /\ stage = "send"
  /\ conns[busy].peer # "reset"
  /\ stage' = "read"
  /\ sentOn' = Append(sentOn, busy)
  /\ answers' = Append(answers, 0)
  /\ conns' = IF conns[busy].peer = "up"
                THEN [conns EXCEPT ![busy].toPeer = Append(@, Len(sentOn) + 1)]
                ELSE conns
  /\ UNCHANGED <<rawVars, cache, busy, losses, outcome>>

(* send returns 0: the communicator is closed and stays in the cache. *)
SendFails ==
  /\ stage = "send"
  /\ conns[busy].peer # "up"
  /\ conns' = [conns EXCEPT ![busy] = Closed(conns[busy])]
  /\ busy' = 0 /\ stage' = "none"
  /\ UNCHANGED <<rawVars, cache, sentOn, answers, losses, outcome>>

(* Mutant: the answer stays in the stream. *)
ReadPeeks ==
  /\ stage = "read"
  /\ conns[busy].stream # <<>>
  /\ answers' = [answers EXCEPT ![Len(answers)] = Head(conns[busy].stream)]
  /\ busy' = 0 /\ stage' = "none"
  /\ UNCHANGED <<rawVars, cache, conns, sentOn, losses, outcome>>

ReadAnswer ==
  /\ stage = "read"
  /\ conns[busy].stream # <<>>
  /\ answers' = [answers EXCEPT ![Len(answers)] = Head(conns[busy].stream)]
  /\ conns' = [conns EXCEPT ![busy].stream = Tail(@)]
  /\ busy' = 0 /\ stage' = "none"
  /\ UNCHANGED <<rawVars, cache, sentOn, losses, outcome>>

(* Timeout, end of the stream, or a reset. *)
ReadNothing ==
  /\ stage = "read"
  /\ conns[busy].stream = <<>>
  /\ busy' = 0 /\ stage' = "none"
  /\ UNCHANGED <<rawVars, cache, conns, sentOn, answers, losses, outcome>>

-----------------------------------------------------------------------------
(* setup and teardown. *)

Setup == Idle /\ OpenRaw /\ UNCHANGED utilVars

(* The first n communicators of the cache are closed. *)
CloseFirst(n) ==
  LET closing == {cache[i].conn : i \in 1..n}
  IN [c \in DOMAIN conns |-> IF c \in closing THEN Closed(conns[c]) ELSE conns[c]]

(* Mutant: the connections are left as they are. *)
TeardownForgets ==
  /\ Idle
  /\ CloseRaw
  /\ outcome' = IF CloseRaises THEN "raised" ELSE "True"
  /\ UNCHANGED <<cache, conns, activation, losses>>

Teardown ==
  /\ Idle
  /\ CloseRaw
  /\ IF CloseRaises
       THEN outcome' = "raised" /\ UNCHANGED conns
       ELSE outcome' = "True" /\ conns' = CloseFirst(Len(cache))
  /\ UNCHANGED <<cache, activation, losses>>

(* A gateway resets its connection between is_open and shutdown, which      *)
(* raises: this connection and those behind it are not closed.              *)
TeardownRaises ==
  /\ Idle /\ ~CloseRaises
  /\ losses < MaxLosses
  /\ CloseRaw
  /\ \E i \in DOMAIN cache :
       /\ IsOpen(cache[i].conn)
       /\ conns' = [CloseFirst(i - 1) EXCEPT ![cache[i].conn].peer = "reset",
                                             ![cache[i].conn].stream = <<>>]
  /\ outcome' = "raised"
  /\ losses' = losses + 1
  /\ UNCHANGED <<cache, activation>>

-----------------------------------------------------------------------------
(* The gateways. *)

Alive(c) == conns[c].fd = "open" /\ conns[c].peer = "up"

GatewayAnswers(c) ==
  /\ Alive(c) /\ conns[c].toPeer # <<>>
  /\ conns' = [conns EXCEPT ![c].toPeer = Tail(@),
                            ![c].stream = Append(@, Head(conns[c].toPeer))]
  /\ UNCHANGED <<rawVars, cache, activation, losses, outcome>>

GatewayLeaves(c) ==
  /\ Alive(c) /\ losses < MaxLosses
  /\ losses' = losses + 1
  /\ \/ conns' = [conns EXCEPT ![c].peer = "down", ![c].toPeer = <<>>]
     \/ conns' = [conns EXCEPT ![c].peer = "reset", ![c].toPeer = <<>>, ![c].stream = <<>>]
  /\ UNCHANGED <<rawVars, cache, activation, outcome>>

-----------------------------------------------------------------------------
(* Requests over the raw socket. *)

(* is_answer of these requests looks at the type of the message and at the  *)
(* port it is sent to; the first packet found is parsed again.              *)
AskFor(type) == \E k \in Kinds : k.type = type /\ Ask(k, "one")

Bounded == Operations < MaxOperations
InitiateVehicleIdentityReq == Idle /\ Bounded /\ AskFor("identity") /\ UNCHANGED utilVars
ReqEntityStatus == Idle /\ Bounded /\ AskFor("status") /\ UNCHANGED utilVars

(* The raw socket is the caller's, who may use it between activations.      *)
UseRaw ==
  /\ stage = "none"
  /\ SocketStep \/ (layer = 2 /\ OpenRaw)
  /\ Len(asked') + Len(sentOn) <= MaxOperations
  /\ UNCHANGED utilVars

Next ==
  \/ UseRaw \/ InitiateVehicleIdentityReq \/ ReqEntityStatus
  \/ Setup \/ Teardown \/ TeardownRaises
  \/ \E p \in Pairs : UseCached(p) \/ MakeNew(p) \/ MakeNewRaises(p)
  \/ SendActivation \/ SendFails \/ ReadAnswer \/ ReadNothing
  \/ \E c \in DOMAIN conns : GatewayAnswers(c) \/ GatewayLeaves(c)

Spec == Init /\ [][Next]_vars

-----------------------------------------------------------------------------
(* Properties. *)

(* The variables have their types; an activation goes on over a connection  *)
(* of the cache, and only one connection of a pair is cached.               *)
TypeOK ==
  /\ RawTypeOK
  /\ cache \in Seq([pair : Pairs, conn : DOMAIN conns])
  /\ \A i, j \in DOMAIN cache : cache[i].pair = cache[j].pair => i = j
  /\ conns \in Seq([fd : {"open", "closed"}, peer : {"up", "down", "reset"},
                   toPeer : Seq(DOMAIN sentOn), stream : Seq(DOMAIN sentOn)])
  /\ stage \in {"none", "send", "read"}
  /\ IF stage = "none" THEN busy = 0 ELSE \E i \in DOMAIN cache : cache[i].conn = busy
  /\ sentOn \in Seq(DOMAIN conns) /\ answers \in Seq(Nat) /\ Len(answers) = Len(sentOn)
  /\ losses \in 0..MaxLosses
  /\ outcome \in {"nothing", "raised", "True"}

(* Every connection that is open is in the cache, where teardown and the    *)
(* next use find it: a connection that replaces another, fails to be made   *)
(* or is closed after a failed send leaves none behind (doip_utils.py:      *)
(* 289-302).                                                                *)
NoConnectionIsLost ==
  \A c \in DOMAIN conns : conns[c].fd = "open" => \E i \in DOMAIN cache : cache[i].conn = c

(* teardown returns True with every connection closed (lines 53-56), those  *)
(* of an earlier setup, those made since and those closed before.           *)
TeardownClosesAll == outcome = "True" => \A c \in DOMAIN conns : conns[c].fd = "closed"

(* The types of cache, connections and capture, and no connection outlives  *)
(* its place in the cache, as said above.                                   *)
ConnectionsInv == TypeOK /\ NoConnectionIsLost /\ TeardownClosesAll

(* The response that an activation returns is to a request over the same    *)
(* connection, and to another request than its own only if an earlier       *)
(* activation over that connection gave up: the cache hands the connection  *)
(* on with what is still to come on it (lines 291-292).                     *)
ActivationIsOwn ==
  \A n \in DOMAIN answers :
    answers[n] # 0 =>
      /\ answers[n] <= n /\ sentOn[answers[n]] = sentOn[n]
      /\ answers[n] # n => \E m \in 1..n-1 : sentOn[m] = sentOn[n] /\ answers[m] = 0

=============================================================================
