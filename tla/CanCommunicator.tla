--------------------------- MODULE CanCommunicator ---------------------------
(***************************************************************************)
(* CanCommunicatorSocketCan: one thread that opens and closes the bus,     *)
(* blacklists identifiers, receives one frame or sniffs for some time,     *)
(* while frames arrive.  Time is counted in ticks from the start of the    *)
(* call; the loops of receive and sniff take none of it, only a wait for   *)
(* the bus does.                                                           *)
(***************************************************************************)
EXTENDS Naturals, Sequences

CONSTANTS
  Ids,         \* arbitration identifiers
  Timeouts,    \* timeouts of receive and sniff times, in ticks
  MaxFrames,   \* bound: frames that arrive
  MaxCalls,    \* bound: calls of receive and sniff
  MaxBlock     \* bound: ticks counted in a call without a timeout

ASSUME TimeoutAssumption == Timeouts \subseteq Nat \ {0}
ASSUME BoundAssumption == MaxFrames \in Nat /\ MaxCalls \in Nat /\ MaxBlock \in Nat

VARIABLES
  bus,        \* _bus: closed or open
  blacklist,  \* blacklist_ids
  queue,      \* frames in the receive buffer of the socket
  frames,     \* frames that have arrived
  call,       \* the call under way, or idle
  limit,      \* its timeout or sniff time, 0 for none
  spent,      \* ticks since it began
  began,      \* ticks it had lasted when its present receive began
  wait,       \* timeout of the present receive, 0 for none
  waited,     \* ticks since the present wait for the bus began
  msgs,       \* ret_msgs of sniff
  result,     \* what the last call returned
  calls,      \* calls so far
  handed      \* history: numbers of the frames given to the caller

callVars == <<call, limit, spent, began, wait, waited, msgs, result, calls>>
vars == <<bus, blacklist, queue, frames, callVars, handed>>

(* forever: receive(None); poll: receive(0). *)
Calls == {"receive", "forever", "poll", "sniff"}

(* n: how many frames had arrived before it, plus one; at: when in the call. *)
Frame(id, n, at) == [id |-> id, n |-> n, at |-> at]

Init ==
  /\ bus = "closed"
  /\ blacklist = {}
  /\ queue = <<>>
  /\ frames = 0
  /\ call = "idle"
  /\ limit = 0 /\ spent = 0 /\ began = 0 /\ wait = 0 /\ waited = 0
  /\ msgs = <<>>
  /\ result = <<>>
  /\ calls = 0
  /\ handed = <<>>

-----------------------------------------------------------------------------
(* Between calls. *)

Open ==
  /\ call = "idle" /\ bus = "closed"
  /\ bus' = "open"
  /\ queue' = <<>>
  /\ UNCHANGED <<blacklist, frames, callVars, handed>>

Close ==
  /\ call = "idle" /\ bus = "open"
  /\ bus' = "closed"
  /\ queue' = <<>>
  /\ UNCHANGED <<blacklist, frames, callVars, handed>>

AddToBlacklist(ids) ==
  /\ call = "idle"
  /\ blacklist' = blacklist \cup ids
  /\ UNCHANGED <<bus, queue, frames, callVars, handed>>

(* A call on a closed bus raises RuntimeError. *)
Refused(c) ==
  /\ call = "idle" /\ calls < MaxCalls
  /\ bus = "closed"
  /\ result' = <<c, "raised">>
  /\ calls' = calls + 1
  /\ UNCHANGED <<bus, blacklist, queue, frames, call, limit, spent, began, wait, waited, msgs, handed>>

Begin(c, t) ==
  /\ call = "idle" /\ calls < MaxCalls
  /\ bus = "open"
  /\ call' = c
  /\ limit' = t
  /\ wait' = t
  /\ spent' = 0 /\ began' = 0 /\ waited' = 0
  /\ msgs' = <<>>
  /\ result' = <<>>
  /\ calls' = calls + 1
  /\ queue' = [i \in DOMAIN queue |-> [queue[i] EXCEPT !.at = 0]]
  /\ UNCHANGED <<bus, blacklist, frames, handed>>

(* "not timeout" holds of 0.0 as it does of None. *)
Receive == \E t \in Timeouts : Begin("receive", t)
ReceiveUntimed == \E c \in {"forever", "poll"} : Begin(c, 0)
Sniff == \E t \in Timeouts : Begin("sniff", t)

-----------------------------------------------------------------------------
(* Inside receive, and sniff around it. *)

Accepted(f) == f.id \notin blacklist
Numbers(s) == [i \in DOMAIN s |-> s[i].n]

Return(value, given) ==
  /\ call' = "idle"
  /\ result' = <<call, value>>
  /\ handed' = handed \o Numbers(given)
  /\ limit' = 0 /\ spent' = 0 /\ began' = 0 /\ wait' = 0 /\ waited' = 0
  /\ msgs' = <<>>

(* Mutant: every receive of a sniff is given the whole sniff time. *)
SniffOnWhole(s) ==
  IF spent < limit
    THEN /\ msgs' = s
         /\ began' = spent
         /\ wait' = limit
         /\ waited' = 0
         /\ UNCHANGED <<call, limit, spent, result, handed>>
    ELSE Return("frames", s)

(* sniff after a receive: another one for what is left of the time, or none. *)
SniffOn(s) ==
  IF spent < limit
    THEN /\ msgs' = s
         /\ began' = spent
         /\ wait' = limit - spent
         /\ waited' = 0
         /\ UNCHANGED <<call, limit, spent, result, handed>>
    ELSE Return("frames", s)

(* receive returns the frames in s: one or none. *)
Received(s) ==
  IF call = "sniff" THEN SniffOn(msgs \o s)
  ELSE Return(IF s = <<>> THEN "None" ELSE "frame", s)

(* Mutant: the deadline is tested with <=. *)
ReceiveOnTwice ==
  IF spent - began <= wait
    THEN waited' = 0 /\ UNCHANGED <<call, limit, spent, began, wait, msgs, result, handed>>
    ELSE Received(<<>>)

(* The loop of receive goes on with the whole timeout again. *)
ReceiveOn ==
  IF spent - began < wait
    THEN waited' = 0 /\ UNCHANGED <<call, limit, spent, began, wait, msgs, result, handed>>
    ELSE Received(<<>>)

(* Mutant: the frame is left in the buffer. *)
TakePeeks == UNCHANGED queue

Take == queue' = Tail(queue)

TakeAccepted ==
  /\ call # "idle" /\ queue # <<>> /\ Accepted(Head(queue))
  /\ Take
  /\ Received(<<Head(queue)>>)
  /\ UNCHANGED <<bus, blacklist, frames, calls>>

(* Mutant: as in the branch without a timeout. *)
TakeBlacklistedGivesUp ==
  /\ call # "idle" /\ queue # <<>> /\ ~Accepted(Head(queue))
  /\ Take
  /\ Received(<<>>)
  /\ UNCHANGED <<bus, blacklist, frames, calls>>

TakeBlacklisted ==
  /\ call # "idle" /\ queue # <<>> /\ ~Accepted(Head(queue))
  /\ Take
  /\ IF wait = 0 THEN Received(<<>>) ELSE ReceiveOn
  /\ UNCHANGED <<bus, blacklist, frames, calls>>

(* bus.recv returns None when its timeout has passed. *)
Silence ==
  /\ call # "idle" /\ queue = <<>>
  /\ wait > 0 /\ waited = wait
  /\ ReceiveOn
  /\ UNCHANGED <<bus, blacklist, queue, frames, calls>>

-----------------------------------------------------------------------------
Arrive(id) ==
  /\ bus = "open" /\ frames < MaxFrames
  /\ queue' = Append(queue, Frame(id, frames + 1, spent))
  /\ frames' = frames + 1
  /\ UNCHANGED <<bus, blacklist, callVars, handed>>

(* The call waits for the bus. *)
Tick ==
  /\ call # "idle" /\ queue = <<>>
  /\ IF wait = 0 THEN spent < MaxBlock ELSE waited < wait
  /\ spent' = spent + 1
  /\ waited' = waited + 1
  /\ UNCHANGED <<bus, blacklist, queue, frames, call, limit, began, wait, msgs, result, calls, handed>>

Next ==
  \/ Open \/ Close
  \/ \E ids \in SUBSET Ids : AddToBlacklist(ids)
  \/ \E c \in Calls : Refused(c)
  \/ Receive \/ ReceiveUntimed \/ Sniff
  \/ TakeAccepted \/ TakeBlacklisted \/ Silence
  \/ \E id \in Ids : Arrive(id)
  \/ Tick

Spec == Init /\ [][Next]_vars

-----------------------------------------------------------------------------
(* Properties. *)

(* The communicator keeps its types; a call waits on an open bus only, and a *)
(* receive inside a sniff is given what is left of the sniff time.           *)
TypeOK ==
  /\ bus \in {"closed", "open"}
  /\ blacklist \subseteq Ids
  /\ queue \in Seq([id : Ids, n : 1..MaxFrames, at : Nat])
  /\ frames \in 0..MaxFrames /\ calls \in 0..MaxCalls
  /\ call \in Calls \cup {"idle"}
  /\ call # "idle" => bus = "open"
  /\ limit \in Timeouts \cup {0}
  /\ spent \in Nat /\ waited \in Nat
  /\ began + wait = limit
  /\ bus = "closed" => queue = <<>>
  /\ \A i \in DOMAIN msgs : msgs[i].id \in Ids /\ msgs[i].n \in 1..frames

(* However blacklisted frames are spread, a receive lasts less than twice    *)
(* its timeout, and a sniff ends before it has lasted twice its sniff time:  *)
(* each wait is begun before the deadline and lasts the timeout at most.     *)
EndsInTime == call \in {"receive", "sniff"} => spent < 2 * limit

(* Every frame is given to the caller at most once and in order of arrival,  *)
(* over all the calls of receive and sniff.                                  *)
FramesOnceInOrder ==
  LET given == handed \o Numbers(msgs) IN
  \A i, j \in DOMAIN given : i < j => given[i] < given[j]

(* The communicator keeps its types and gives frames once and in order.      *)
ReceiverInv == TypeOK /\ FramesOnceInOrder

(* A receive that returns None, and a sniff that ends, have left no frame    *)
(* behind that arrived in their time and is not blacklisted.                 *)
NothingIsMissed ==
  [][ (call \in {"receive", "sniff"} /\ call' = "idle" /\ result'[2] # "frame") =>
        \A i \in DOMAIN queue' : Accepted(queue'[i]) => queue'[i].at >= limit ]_vars

=============================================================================
