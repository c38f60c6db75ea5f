------------------------------ MODULE CanProofs ------------------------------
(***************************************************************************)
(* Proofs about CanCommunicator, for every set of identifiers and of       *)
(* timeouts and every number of frames, of calls and of blacklistings; and *)
(* about the ISO-TP communicators on it, for any number of stacks.         *)
(***************************************************************************)
EXTENDS CanCommunicator, IsoTpCommunicator, SequenceTheorems, TLAPS

USE TimeoutAssumption, BoundAssumption

FrameType == [id : Ids, n : 1..MaxFrames, at : Nat]
Timed == {"receive", "sniff"}

(* The variables in more detail than TypeOK: those of a call that is over   *)
(* are reset, and only sniff collects frames.                               *)
CallTypes ==
  /\ bus \in {"closed", "open"}
  /\ blacklist \subseteq Ids
  /\ queue \in Seq(FrameType)
  /\ bus = "closed" => queue = <<>>
  /\ frames \in 0..MaxFrames /\ calls \in 0..MaxCalls
  /\ call \in Calls \cup {"idle"}
  /\ call # "idle" => bus = "open"
  /\ msgs \in Seq(FrameType) /\ handed \in Seq(Nat)
  /\ call # "sniff" => msgs = <<>>

(* A wait is begun before the deadline of its receive, and lasts no longer  *)
(* than the timeout of that receive.                                        *)
Clocks ==
  /\ limit \in Nat /\ spent \in Nat /\ waited \in Nat /\ began \in Nat /\ wait \in Nat
  /\ began + wait = limit
  /\ IF call \in Timed
       THEN /\ limit \in Timeouts
            /\ wait > 0
            /\ waited <= wait
            /\ began + waited <= spent
            /\ spent < began + wait + waited
       ELSE limit = 0

(* What the caller has been given, with what sniff is about to give it.     *)
Given == handed \o Numbers(msgs)

(* Frames pass from the buffer to the caller without overtaking.            *)
Order ==
  /\ \A i \in DOMAIN queue : queue[i].n <= frames
  /\ \A i, j \in DOMAIN queue : i < j => queue[i].n < queue[j].n
  /\ \A i \in DOMAIN Given : Given[i] <= frames
  /\ \A i, j \in DOMAIN Given : i < j => Given[i] < Given[j]
  /\ \A i \in DOMAIN Given, j \in DOMAIN queue : Given[i] < queue[j].n

(* Time passes with an empty buffer only: what is in it has come just now.  *)
QueueIsFresh == call # "idle" => \A i \in DOMAIN queue : queue[i].at = spent

CanInv == CallTypes /\ Clocks /\ Order /\ QueueIsFresh

-----------------------------------------------------------------------------
(* Numbers of a sequence of frames.                                         *)

LEMMA NumbersType ==
  ASSUME NEW s \in Seq(FrameType)
  PROVE  /\ Numbers(s) \in Seq(Nat)
         /\ Len(Numbers(s)) = Len(s)
         /\ \A i \in 1..Len(s) : Numbers(s)[i] = s[i].n
<1>1. Len(s) \in Nat /\ DOMAIN s = 1..Len(s)
  BY LenProperties
<1>2. ASSUME NEW i \in 1..Len(s) PROVE s[i].n \in Nat
  <2>1. s[i] \in FrameType
    BY ElementOfSeq
  <2> QED
    BY <2>1 DEF FrameType
<1>3. Numbers(s) = [i \in 1..Len(s) |-> s[i].n]
  BY <1>1 DEF Numbers
<1> QED
  BY <1>1, <1>2, <1>3

LEMMA NumbersConcat ==
  ASSUME NEW s \in Seq(FrameType), NEW t \in Seq(FrameType)
  PROVE  Numbers(s \o t) = Numbers(s) \o Numbers(t)
<1> DEFINE a == Numbers(s \o t)
           ns == Numbers(s)
           nt == Numbers(t)
<1>1. /\ s \o t \in Seq(FrameType)
      /\ Len(s \o t) = Len(s) + Len(t)
      /\ \A i \in 1..Len(s)+Len(t) : (s \o t)[i] = IF i <= Len(s) THEN s[i] ELSE t[i - Len(s)]
  BY ConcatProperties
<1>2. Len(s) \in Nat /\ Len(t) \in Nat
  BY LenProperties
<1>3. /\ a \in Seq(Nat) /\ Len(a) = Len(s) + Len(t)
      /\ \A i \in 1..Len(s)+Len(t) : a[i] = (s \o t)[i].n
  BY <1>1, NumbersType
<1>4. /\ ns \in Seq(Nat) /\ Len(ns) = Len(s) /\ \A i \in 1..Len(s) : ns[i] = s[i].n
      /\ nt \in Seq(Nat) /\ Len(nt) = Len(t) /\ \A i \in 1..Len(t) : nt[i] = t[i].n
  BY NumbersType
<1> HIDE DEF a, ns, nt
<1>5. /\ ns \o nt \in Seq(Nat) /\ Len(ns \o nt) = Len(s) + Len(t)
      /\ \A i \in 1..Len(s)+Len(t) :
           (ns \o nt)[i] = IF i <= Len(s) THEN ns[i] ELSE nt[i - Len(s)]
  BY <1>4, ConcatProperties
<1>6. ASSUME NEW i \in 1..Len(s)+Len(t) PROVE a[i] = (ns \o nt)[i]
  <2>1. CASE i <= Len(s)
    <3>1. i \in 1..Len(s)
      BY <1>2, <2>1
    <3> QED
      BY <1>1, <1>3, <1>4, <1>5, <2>1, <3>1
  <2>2. CASE ~(i <= Len(s))
    <3>1. i - Len(s) \in 1..Len(t)
      BY <1>2, <2>2
    <3> QED
      BY <1>1, <1>3, <1>4, <1>5, <2>2, <3>1
  <2> QED
    BY <2>1, <2>2
<1>7. a = ns \o nt
  BY <1>2, <1>3, <1>5, <1>6, SeqEqual
<1> QED
  BY <1>7 DEF a, ns, nt

LEMMA ConcatAssoc ==
  \A a, b, c \in Seq(Nat) : (a \o b) \o c = a \o (b \o c)
BY ConcatAssociative

LEMMA NumbersEmpty == Numbers(<<>>) = <<>>
BY DEF Numbers

LEMMA OneFrame ==
  ASSUME NEW f \in FrameType
  PROVE  <<f>> \in Seq(FrameType) /\ Numbers(<<f>>) = <<f.n>>
BY DEF Numbers

LEMMA NoFrames == <<>> \in Seq(FrameType)
OBVIOUS

(* The frame at the head of the buffer, and what is behind it.              *)
LEMMA HeadOfQueue ==
  ASSUME CallTypes, queue # <<>>
  PROVE  /\ Head(queue) \in FrameType /\ Head(queue) = queue[1]
         /\ Len(queue) \in Nat \ {0} /\ DOMAIN queue = 1..Len(queue)
         /\ Tail(queue) \in Seq(FrameType)
         /\ DOMAIN Tail(queue) = 1..Len(queue)-1
         /\ \A i \in 1..Len(queue)-1 : Tail(queue)[i] = queue[i+1]
<1> DEFINE q == queue
<1>1. q \in Seq(FrameType) /\ q # <<>>
  BY DEF CallTypes
<1> HIDE DEF q
<1>2. /\ Head(q) \in FrameType /\ Head(q) = q[1]
      /\ Len(q) \in Nat \ {0} /\ DOMAIN q = 1..Len(q)
      /\ Tail(q) \in Seq(FrameType) /\ Len(Tail(q)) = Len(q) - 1
      /\ \A i \in 1..Len(q)-1 : Tail(q)[i] = q[i+1]
  BY <1>1, HeadTailProperties, LenProperties, EmptySeq
<1>3. DOMAIN Tail(q) = 1..Len(q)-1
  BY <1>2, LenProperties
<1> QED
  BY <1>2, <1>3 DEF q

-----------------------------------------------------------------------------
(* What a receive does when it ends with the frames in s.                   *)

Ends(s) ==
  /\ call' = "idle"
  /\ result' = <<call, IF call = "sniff" THEN "frames" ELSE IF s = <<>> THEN "None" ELSE "frame">>
  /\ handed' = handed \o Numbers(msgs \o s)
  /\ limit' = 0 /\ spent' = 0 /\ began' = 0 /\ wait' = 0 /\ waited' = 0
  /\ msgs' = <<>>
  /\ call = "sniff" => spent >= limit

Continues(s) ==
  /\ call = "sniff" /\ spent < limit
  /\ msgs' = msgs \o s
  /\ began' = spent /\ wait' = limit - spent /\ waited' = 0
  /\ UNCHANGED <<call, limit, spent, result, handed>>

LEMMA ReceivedEffect ==
  ASSUME CallTypes, Clocks, call # "idle", NEW s \in Seq(FrameType), Received(s)
  PROVE  Ends(s) \/ Continues(s)
<1>1. CASE call = "sniff"
  <2>1. SniffOn(msgs \o s)
    BY <1>1 DEF Received
  <2>2. limit \in Nat /\ spent \in Nat
    BY DEF Clocks
  <2> QED
    BY <1>1, <2>1, <2>2 DEF SniffOn, Return, Ends, Continues
<1>2. CASE call # "sniff"
  <2>1. msgs = <<>>
    BY <1>2 DEF CallTypes
  <2>2. msgs \o s = s
    BY <2>1, ConcatEmptySeq
  <2> QED
    BY <1>2, <2>2 DEF Received, Return, Ends
<1> QED
  BY <1>1, <1>2

(* What the caller has been given, or is about to be, grows by those frames. *)
LEMMA GivenGrows ==
  ASSUME CallTypes, call # "idle", NEW s \in Seq(FrameType), Ends(s) \/ Continues(s)
  PROVE  /\ Given' = Given \o Numbers(s)
         /\ handed' \in Seq(Nat) /\ msgs' \in Seq(FrameType)
         /\ call' # "sniff" => msgs' = <<>>
         /\ call' \in {call, "idle"}
<1> DEFINE m == msgs
           h == handed
<1>1. m \in Seq(FrameType) /\ h \in Seq(Nat)
  BY DEF CallTypes
<1> HIDE DEF m, h
<1>2. /\ Numbers(m) \in Seq(Nat) /\ Numbers(s) \in Seq(Nat)
      /\ m \o s \in Seq(FrameType) /\ Numbers(m \o s) \in Seq(Nat)
  BY <1>1, NumbersType, ConcatProperties
<1>3. h \o Numbers(m \o s) = (h \o Numbers(m)) \o Numbers(s)
  <2> DEFINE nm == Numbers(m)
             ns == Numbers(s)
  <2>1. nm \in Seq(Nat) /\ ns \in Seq(Nat) /\ Numbers(m \o s) = nm \o ns
    BY <1>1, <1>2, NumbersConcat
  <2>2. (h \o nm) \o ns = h \o (nm \o ns)
    BY <1>1, <2>1, ConcatAssoc
  <2> QED
    BY <2>1, <2>2 DEF nm, ns
<1>4. h \o Numbers(m \o s) \in Seq(Nat)
  BY <1>1, <1>2, ConcatProperties
<1>5. CASE Ends(s)
  <2>1. handed' = h \o Numbers(m \o s) /\ msgs' = <<>> /\ call' = "idle"
    BY <1>5 DEF Ends, h, m
  <2>2. Given' = handed' \o <<>>
    BY <2>1, NumbersEmpty DEF Given
  <2>3. Given' = handed'
    BY <1>4, <2>1, <2>2, ConcatEmptySeq
  <2> QED
    BY <1>3, <1>4, <2>1, <2>3 DEF Given, h, m
<1>6. CASE Continues(s)
  <2>1. handed' = h /\ msgs' = m \o s /\ call' = "sniff" /\ call = "sniff"
    BY <1>6 DEF Continues, h, m
  <2> QED
    BY <1>1, <1>2, <1>3, <2>1 DEF Given, h, m
<1> QED
  BY <1>5, <1>6

(* The clocks after a receive, and after a wait that was not the last one.  *)
LEMMA ReceivedClocks ==
  ASSUME Clocks, call # "idle", NEW s, Ends(s) \/ Continues(s)
  PROVE  Clocks'
<1>1. CASE Ends(s)
  BY <1>1 DEF Ends, Clocks, Timed
<1>2. CASE Continues(s)
  BY <1>2 DEF Continues, Clocks, Timed
<1> QED
  BY <1>1, <1>2

(* The clocks when receive goes on after a frame or a wait, with the full   *)
(* timeout: only before the deadline.                                       *)
LEMMA OnClocks ==
  ASSUME Clocks, call # "idle", wait > 0, spent - began < wait,
         waited' = 0, UNCHANGED <<call, limit, spent, began, wait>>
  PROVE  Clocks'
BY DEF Clocks, Timed

(* ReceiveOn waits again, or is a receive that ends with nothing.           *)
LEMMA ReceiveOnEffect ==
  ASSUME CallTypes, Clocks, call # "idle", wait > 0, ReceiveOn
  PROVE  \/ /\ spent - began < wait /\ waited' = 0
            /\ UNCHANGED <<call, limit, spent, began, wait, msgs, result, handed>>
         \/ /\ call \in Timed /\ spent >= limit
            /\ Ends(<<>>)
<1>0. CASE call \notin Timed
  BY <1>0 DEF Clocks
<1>1. CASE spent - began < wait
  BY <1>1 DEF ReceiveOn
<1>2. CASE ~(spent - began < wait) /\ call \in Timed
  <2>1. Ends(<<>>) \/ Continues(<<>>)
    BY <1>2, NoFrames, ReceivedEffect DEF ReceiveOn
  <2>2. spent >= limit
    BY <1>2 DEF Clocks
  <2>3. ~Continues(<<>>)
    BY <2>2 DEF Continues, Clocks
  <2> QED
    BY <1>2, <2>1, <2>2, <2>3
<1> QED
  BY <1>0, <1>1, <1>2

(* A receive that ends with the frames in s, or ReceiveOn.                  *)
LEMMA TakeEffect ==
  ASSUME CallTypes, Clocks, TakeAccepted \/ TakeBlacklisted
  PROVE  /\ call # "idle" /\ queue # <<>> /\ queue' = Tail(queue)
         /\ UNCHANGED <<bus, blacklist, frames, calls>>
         /\ \/ /\ Accepted(Head(queue))
               /\ Ends(<<Head(queue)>>) \/ Continues(<<Head(queue)>>)
            \/ /\ wait = 0 /\ call \notin Timed
               /\ Ends(<<>>)
            \/ /\ wait > 0 /\ spent - began < wait /\ waited' = 0
               /\ UNCHANGED <<call, limit, spent, began, wait, msgs, result, handed>>
            \/ /\ call \in Timed /\ spent >= limit
               /\ Ends(<<>>)
<1>1. CASE TakeAccepted
  <2>1. <<Head(queue)>> \in Seq(FrameType)
    BY <1>1, HeadOfQueue, OneFrame DEF TakeAccepted
  <2> QED
    BY <1>1, <2>1, ReceivedEffect DEF TakeAccepted, Take
<1>2. CASE TakeBlacklisted /\ wait = 0
  <2>1. Ends(<<>>) \/ Continues(<<>>)
    BY <1>2, NoFrames, ReceivedEffect DEF TakeBlacklisted
  <2>2. call \notin Timed
    BY <1>2 DEF Clocks
  <2> QED
    BY <1>2, <2>1, <2>2 DEF TakeBlacklisted, Take, Continues, Timed
<1>3. CASE TakeBlacklisted /\ wait # 0
  <2>1. wait > 0 /\ ReceiveOn /\ call # "idle"
    BY <1>3 DEF TakeBlacklisted, Clocks
  <2> QED
    BY <1>3, <2>1, ReceiveOnEffect DEF TakeBlacklisted, Take
<1> QED
  BY <1>1, <1>2, <1>3

LEMMA SilenceEffect ==
  ASSUME CallTypes, Clocks, Silence
  PROVE  /\ call # "idle" /\ queue = <<>>
         /\ UNCHANGED <<bus, blacklist, queue, frames, calls>>
         /\ \/ /\ wait > 0 /\ spent - began < wait /\ waited' = 0
               /\ UNCHANGED <<call, limit, spent, began, wait, msgs, result, handed>>
            \/ /\ call \in Timed /\ spent >= limit
               /\ Ends(<<>>)
<1>1. call # "idle" /\ wait > 0 /\ ReceiveOn
  BY DEF Silence
<1> QED
  BY <1>1, ReceiveOnEffect DEF Silence

(* A call that begins: the frames in the buffer keep their numbers.         *)
LEMMA BeginEffect ==
  ASSUME CallTypes, NEW c \in Calls, NEW t, Begin(c, t)
  PROVE  /\ queue' \in Seq(FrameType)
         /\ DOMAIN queue' = DOMAIN queue
         /\ \A i \in DOMAIN queue : queue'[i].n = queue[i].n /\ queue'[i].at = 0
<1>1. queue \in Seq(FrameType)
  BY DEF CallTypes
<1>2. Len(queue) \in Nat /\ DOMAIN queue = 1..Len(queue)
  BY <1>1, LenProperties
<1>3. queue' = [i \in 1..Len(queue) |-> [queue[i] EXCEPT !.at = 0]]
  BY <1>2 DEF Begin
<1>4. ASSUME NEW i \in 1..Len(queue)
      PROVE  /\ queue'[i] \in FrameType
             /\ queue'[i].n = queue[i].n /\ queue'[i].at = 0
  <2>1. queue[i] \in FrameType
    BY <1>1, ElementOfSeq
  <2>2. ASSUME NEW f \in FrameType
        PROVE  /\ [f EXCEPT !.at = 0] \in FrameType
               /\ [f EXCEPT !.at = 0].n = f.n /\ [f EXCEPT !.at = 0].at = 0
    BY DEF FrameType
  <2> QED
    BY <1>3, <2>1, <2>2
<1>5. queue' \in [1..Len(queue) -> FrameType]
  BY <1>3, <1>4
<1> QED
  BY <1>2, <1>4, <1>5, SeqDef

-----------------------------------------------------------------------------
(* The invariants are kept.                                                 *)

LEMMA InitCanInv == Init => CanInv
<1> SUFFICES ASSUME Init PROVE CanInv
  OBVIOUS
<1>1. queue = <<>> /\ msgs = <<>> /\ handed = <<>>
  BY DEF Init
<1>2. handed \in Seq(Nat) /\ Given = <<>>
  BY <1>1, NumbersEmpty, EmptySeq, ConcatEmptySeq DEF Given
<1>3. CallTypes /\ Clocks
  BY <1>1, <1>2, NoFrames DEF Init, CallTypes, Clocks, Timed, Calls
<1>4. Order /\ QueueIsFresh
  BY <1>1, <1>2 DEF Order, QueueIsFresh
<1> QED
  BY <1>3, <1>4 DEF CanInv

(* A frame that arrives goes behind those in the buffer.                    *)
LEMMA ArriveEffect ==
  ASSUME CallTypes, Clocks, NEW id \in Ids, Arrive(id)
  PROVE  LET f == Frame(id, frames + 1, spent) IN
         /\ f \in FrameType /\ f.n = frames + 1 /\ f.at = spent
         /\ queue' \in Seq(FrameType)
         /\ Len(queue) \in Nat /\ DOMAIN queue = 1..Len(queue)
         /\ DOMAIN queue' = 1..Len(queue)+1
         /\ \A i \in 1..Len(queue) : queue'[i] = queue[i]
         /\ queue'[Len(queue)+1] = f
<1> DEFINE f == Frame(id, frames + 1, spent)
           q == queue
<1>1. f \in FrameType /\ f.n = frames + 1 /\ f.at = spent
  BY DEF Arrive, Frame, FrameType, CallTypes, Clocks
<1>2. q \in Seq(FrameType) /\ queue' = Append(q, f)
  BY DEF CallTypes, Arrive
<1> HIDE DEF f, q
<1>3. /\ Append(q, f) \in Seq(FrameType) /\ Len(q) \in Nat /\ DOMAIN q = 1..Len(q)
      /\ Len(Append(q, f)) = Len(q) + 1
      /\ DOMAIN Append(q, f) = 1..Len(q)+1
      /\ \A i \in 1..Len(q) : Append(q, f)[i] = q[i]
      /\ Append(q, f)[Len(q)+1] = f
  <2>1. Append(q, f) \in Seq(FrameType) /\ Len(Append(q, f)) = Len(q) + 1
    BY <1>1, <1>2, AppendProperties
  <2>2. DOMAIN Append(q, f) = 1..Len(q)+1
    BY <2>1, LenProperties
  <2> QED
    BY <1>1, <1>2, <2>1, <2>2, AppendProperties, LenProperties
<1> QED
  BY <1>1, <1>2, <1>3 DEF f, q

LEMMA TypesKept == CallTypes /\ Clocks /\ [Next]_vars => CallTypes' /\ Clocks'
<1> SUFFICES ASSUME CallTypes, Clocks, [Next]_vars PROVE CallTypes' /\ Clocks'
  OBVIOUS
<1>1. CASE Open \/ Close
  BY <1>1, NoFrames DEF Open, Close, callVars, CallTypes, Clocks
<1>2. ASSUME NEW ids \in SUBSET Ids, AddToBlacklist(ids) PROVE CallTypes' /\ Clocks'
  BY <1>2 DEF AddToBlacklist, callVars, CallTypes, Clocks
<1>3. ASSUME NEW c \in Calls, Refused(c) PROVE CallTypes' /\ Clocks'
  BY <1>3 DEF Refused, CallTypes, Clocks
<1>4. ASSUME NEW c \in Calls, NEW t \in Timeouts \cup {0}, Begin(c, t),
             IF c \in Timed THEN t \in Timeouts ELSE t = 0
      PROVE  CallTypes' /\ Clocks'
  <2>1. queue' \in Seq(FrameType)
    BY <1>4, BeginEffect
  <2>2. CallTypes'
    BY <1>4, <2>1, NoFrames DEF Begin, CallTypes, Calls
  <2>3. Clocks'
    BY <1>4 DEF Begin, Clocks, Timed
  <2> QED
    BY <2>2, <2>3
<1>5. CASE Receive \/ ReceiveUntimed \/ Sniff
  BY <1>4, <1>5 DEF Receive, ReceiveUntimed, Sniff, Calls, Timed
<1>6. CASE TakeAccepted \/ TakeBlacklisted
  <2>1. /\ call # "idle" /\ queue # <<>> /\ queue' = Tail(queue)
        /\ UNCHANGED <<bus, blacklist, frames, calls>>
    BY <1>6, TakeEffect
  <2>2. queue' \in Seq(FrameType) /\ (bus' = "closed" => queue' = <<>>)
    BY <2>1, HeadOfQueue DEF CallTypes
  <2>3. ASSUME NEW s \in Seq(FrameType), Ends(s) \/ Continues(s)
        PROVE  CallTypes' /\ Clocks'
    <3>1. Clocks'
      BY <2>1, <2>3, ReceivedClocks
    <3>2. CallTypes'
      BY <2>1, <2>2, <2>3, GivenGrows DEF CallTypes
    <3> QED
      BY <3>1, <3>2
  <2>4. ASSUME wait > 0, spent - began < wait, waited' = 0,
               UNCHANGED <<call, limit, spent, began, wait, msgs, result, handed>>
        PROVE  CallTypes' /\ Clocks'
    <3>1. Clocks'
      BY <2>1, <2>4, OnClocks
    <3>2. CallTypes'
      BY <2>1, <2>2, <2>4 DEF CallTypes
    <3> QED
      BY <3>1, <3>2
  <2>5. <<Head(queue)>> \in Seq(FrameType)
    BY <2>1, HeadOfQueue, OneFrame
  <2> QED
    BY <1>6, <2>3, <2>4, <2>5, NoFrames, TakeEffect
<1>7. CASE Silence
  <2>1. /\ call # "idle" /\ UNCHANGED <<bus, blacklist, queue, frames, calls>>
    BY <1>7, SilenceEffect
  <2>2. CASE Ends(<<>>)
    <3>1. Clocks'
      BY <2>1, <2>2, ReceivedClocks
    <3>2. CallTypes'
      BY <2>1, <2>2, NoFrames, GivenGrows DEF CallTypes
    <3> QED
      BY <3>1, <3>2
  <2>3. CASE /\ wait > 0 /\ spent - began < wait /\ waited' = 0
             /\ UNCHANGED <<call, limit, spent, began, wait, msgs, result, handed>>
    <3>1. Clocks'
      BY <2>1, <2>3, OnClocks
    <3>2. CallTypes'
      BY <2>1, <2>3 DEF CallTypes
    <3> QED
      BY <3>1, <3>2
  <2> QED
    BY <1>7, <2>2, <2>3, SilenceEffect
<1>8. ASSUME NEW id \in Ids, Arrive(id) PROVE CallTypes' /\ Clocks'
  <2>1. queue' \in Seq(FrameType)
    BY <1>8, ArriveEffect
  <2> QED
    BY <1>8, <2>1 DEF Arrive, callVars, CallTypes, Clocks
<1>9. CASE Tick
  <2>1. CallTypes'
    BY <1>9 DEF Tick, CallTypes
  <2>2. Clocks'
    BY <1>9 DEF Tick, Clocks, Timed
  <2> QED
    BY <2>1, <2>2
<1>10. CASE UNCHANGED vars
  BY <1>10 DEF vars, callVars, CallTypes, Clocks
<1> QED
  BY <1>1, <1>2, <1>3, <1>5, <1>6, <1>7, <1>8, <1>9, <1>10 DEF Next

(* The ways in which a step touches the buffer and what the caller is given. *)
LEMMA FrameSteps ==
  ASSUME CallTypes, Clocks, [Next]_vars
  PROVE  \/ /\ Given' = Given /\ frames' = frames
            /\ DOMAIN queue' = DOMAIN queue
            /\ \A i \in DOMAIN queue : queue'[i].n = queue[i].n
         \/ /\ Given' = Given /\ frames' = frames /\ queue' = <<>>
         \/ /\ Given' = Given /\ frames' = frames
            /\ queue # <<>> /\ queue' = Tail(queue)
         \/ /\ Given' = Given \o <<Head(queue).n>> /\ frames' = frames
            /\ queue # <<>> /\ queue' = Tail(queue)
         \/ /\ Given' = Given
            /\ \E id \in Ids : Arrive(id)
<1>0. ASSUME UNCHANGED <<handed, msgs>> PROVE Given' = Given
  BY <1>0 DEF Given, Numbers
<1>1. CASE Open \/ Close
  BY <1>0, <1>1 DEF Open, Close, callVars
<1>2. CASE \/ \E ids \in SUBSET Ids : AddToBlacklist(ids)
           \/ \E c \in Calls : Refused(c)
           \/ Tick \/ UNCHANGED vars
  BY <1>0, <1>2 DEF AddToBlacklist, Refused, Tick, vars, callVars
<1>3. ASSUME NEW c \in Calls, NEW t, Begin(c, t)
      PROVE  /\ Given' = Given /\ frames' = frames
             /\ DOMAIN queue' = DOMAIN queue
             /\ \A i \in DOMAIN queue : queue'[i].n = queue[i].n
  <2>1. UNCHANGED <<handed, msgs, frames>>
    BY <1>3 DEF Begin, CallTypes
  <2> QED
    BY <1>0, <1>3, <2>1, BeginEffect
<1>4. CASE Receive \/ ReceiveUntimed \/ Sniff
  BY <1>3, <1>4 DEF Receive, ReceiveUntimed, Sniff, Calls
<1>5. ASSUME call # "idle", Ends(<<>>) PROVE Given' = Given
  <2>1. Given' = Given \o <<>>
    BY <1>5, NoFrames, NumbersEmpty, GivenGrows
  <2>2. Given \in Seq(Nat)
    BY NumbersType, ConcatProperties DEF Given, CallTypes
  <2> QED
    BY <2>1, <2>2, ConcatEmptySeq
<1>6. CASE TakeAccepted \/ TakeBlacklisted
  <2>1. /\ call # "idle" /\ queue # <<>> /\ queue' = Tail(queue) /\ frames' = frames
    BY <1>6, TakeEffect
  <2>2. CASE Ends(<<Head(queue)>>) \/ Continues(<<Head(queue)>>)
    BY <2>1, <2>2, HeadOfQueue, OneFrame, GivenGrows
  <2> QED
    BY <1>0, <1>5, <1>6, <2>1, <2>2, TakeEffect
<1>7. CASE Silence
  BY <1>0, <1>5, <1>7, SilenceEffect
<1>8. CASE \E id \in Ids : Arrive(id)
  BY <1>0, <1>8 DEF Arrive, callVars
<1> QED
  BY <1>1, <1>2, <1>4, <1>6, <1>7, <1>8 DEF Next

LEMMA GivenType ==
  ASSUME CallTypes
  PROVE  Given \in Seq(Nat) /\ Len(Given) \in Nat /\ DOMAIN Given = 1..Len(Given)
<1>1. Given \in Seq(Nat)
  BY NumbersType, ConcatProperties DEF Given, CallTypes
<1> QED
  BY <1>1, LenProperties

LEMMA OneMore ==
  ASSUME NEW g \in Seq(Nat), NEW n \in Nat
  PROVE  /\ DOMAIN (g \o <<n>>) = 1..Len(g)+1
         /\ \A i \in 1..Len(g) : (g \o <<n>>)[i] = g[i]
         /\ (g \o <<n>>)[Len(g)+1] = n
OBVIOUS

LEMMA OrderKept == CallTypes /\ Clocks /\ Order /\ [Next]_vars => Order'
<1> SUFFICES ASSUME CallTypes, Clocks, Order, [Next]_vars PROVE Order'
  OBVIOUS
<1>1. CASE /\ Given' = Given /\ frames' = frames
           /\ DOMAIN queue' = DOMAIN queue
           /\ \A i \in DOMAIN queue : queue'[i].n = queue[i].n
  BY <1>1 DEF Order
<1>2. CASE Given' = Given /\ frames' = frames /\ queue' = <<>>
  BY <1>2 DEF Order
<1>3. CASE /\ Given' = Given /\ frames' = frames
           /\ queue # <<>> /\ queue' = Tail(queue)
  <2>1. /\ Len(queue) \in Nat \ {0} /\ DOMAIN queue = 1..Len(queue)
        /\ DOMAIN queue' = 1..Len(queue)-1
        /\ \A i \in 1..Len(queue)-1 : queue'[i] = queue[i+1]
    BY <1>3, HeadOfQueue
  <2>2. ASSUME NEW i \in DOMAIN queue'
        PROVE  i+1 \in DOMAIN queue /\ queue'[i] = queue[i+1]
    BY <2>1
  <2> QED
    BY <1>3, <2>1, <2>2 DEF Order
<1>4. CASE /\ Given' = Given \o <<Head(queue).n>> /\ frames' = frames
           /\ queue # <<>> /\ queue' = Tail(queue)
  <2>1. /\ Len(queue) \in Nat \ {0} /\ DOMAIN queue = 1..Len(queue)
        /\ DOMAIN queue' = 1..Len(queue)-1
        /\ \A i \in 1..Len(queue)-1 : queue'[i] = queue[i+1]
        /\ Head(queue) = queue[1] /\ Head(queue) \in FrameType
    BY <1>4, HeadOfQueue
  <2>2. ASSUME NEW i \in DOMAIN queue'
        PROVE  i+1 \in DOMAIN queue /\ queue'[i] = queue[i+1]
    BY <2>1
  <2> DEFINE g == Given
             k == Head(queue).n
  <2>3. k \in Nat /\ k = queue[1].n /\ 1 \in DOMAIN queue
    BY <2>1 DEF FrameType
  <2>4. g \in Seq(Nat) /\ Len(g) \in Nat /\ DOMAIN g = 1..Len(g)
    BY GivenType
  <2>5. Given' = g \o <<k>>
    BY <1>4
  <2> HIDE DEF g, k
  <2>6. /\ DOMAIN Given' = 1..Len(g)+1
        /\ \A i \in 1..Len(g) : Given'[i] = g[i]
        /\ Given'[Len(g)+1] = k
    BY <2>3, <2>4, <2>5, OneMore
  <2>7. ASSUME NEW i \in DOMAIN Given'
        PROVE  \/ i \in DOMAIN g /\ Given'[i] = g[i]
               \/ i = Len(g)+1 /\ Given'[i] = k
    BY <2>4, <2>6
  <2>8. /\ \A i \in DOMAIN g : g[i] <= frames /\ g[i] < k
        /\ \A i, j \in DOMAIN g : i < j => g[i] < g[j]
        /\ \A i \in DOMAIN g, j \in DOMAIN queue : g[i] < queue[j].n
        /\ k <= frames
    BY <2>3 DEF Order, g
  <2>9. /\ \A i \in DOMAIN queue' : queue'[i].n <= frames /\ k < queue'[i].n
        /\ \A i, j \in DOMAIN queue' : i < j => queue'[i].n < queue'[j].n
    <3>1. \A i \in DOMAIN queue : queue[i].n <= frames
      BY DEF Order
    <3>2. \A i, j \in DOMAIN queue : i < j => queue[i].n < queue[j].n
      BY DEF Order
    <3>3. ASSUME NEW i \in DOMAIN queue'
          PROVE  queue'[i].n <= frames /\ k < queue'[i].n
      <4>1. i+1 \in DOMAIN queue /\ queue'[i] = queue[i+1] /\ 1 < i+1
        BY <2>1, <2>2
      <4> QED
        BY <2>3, <3>1, <3>2, <4>1
    <3>4. ASSUME NEW i \in DOMAIN queue', NEW j \in DOMAIN queue', i < j
          PROVE  queue'[i].n < queue'[j].n
      <4>1. i+1 \in DOMAIN queue /\ j+1 \in DOMAIN queue /\ i+1 < j+1
        BY <2>1, <2>2, <3>4
      <4> QED
        BY <2>2, <3>2, <4>1
    <3> QED
      BY <3>3, <3>4
  <2>10. \A i \in DOMAIN Given' : Given'[i] <= frames
    BY <2>7, <2>8
  <2>11. \A i, j \in DOMAIN Given' : i < j => Given'[i] < Given'[j]
    BY <2>4, <2>7, <2>8
  <2>12. \A i \in DOMAIN Given', j \in DOMAIN queue' : Given'[i] < queue'[j].n
    BY <2>2, <2>7, <2>8, <2>9
  <2> QED
    BY <1>4, <2>9, <2>10, <2>11, <2>12 DEF Order
<1>5. CASE Given' = Given /\ \E id \in Ids : Arrive(id)
  <2>1. PICK id \in Ids : Arrive(id)
    BY <1>5
  <2>2. /\ Len(queue) \in Nat /\ DOMAIN queue = 1..Len(queue)
        /\ DOMAIN queue' = 1..Len(queue)+1
        /\ \A i \in 1..Len(queue) : queue'[i] = queue[i]
        /\ queue'[Len(queue)+1].n = frames + 1
    BY <2>1, ArriveEffect
  <2>3. frames' = frames + 1 /\ frames \in Nat
    BY <2>1 DEF Arrive, CallTypes
  <2>4. ASSUME NEW i \in DOMAIN queue'
        PROVE  \/ i \in DOMAIN queue /\ queue'[i] = queue[i]
               \/ i = Len(queue)+1 /\ queue'[i].n = frames + 1
    BY <2>2
  <2>5. /\ Given \in Seq(Nat) /\ \A i \in DOMAIN Given : Given[i] \in Nat
    BY GivenType, ElementOfSeq
  <2>6. \A i \in DOMAIN queue : queue[i].n \in Nat
    <3>1. queue \in Seq(FrameType)
      BY DEF CallTypes
    <3>2. \A i \in DOMAIN queue : queue[i] \in FrameType
      BY <2>2, <3>1, ElementOfSeq
    <3> QED
      BY <3>2 DEF FrameType
  <2>7. \A i, j \in DOMAIN queue' : i < j => queue'[i].n < queue'[j].n
    BY <2>2, <2>3, <2>4, <2>6 DEF Order
  <2> QED
    BY <1>5, <2>3, <2>4, <2>5, <2>6, <2>7 DEF Order
<1> QED
  BY <1>1, <1>2, <1>3, <1>4, <1>5, FrameSteps

LEMMA FreshKept ==
  CallTypes /\ Clocks /\ QueueIsFresh /\ [Next]_vars => QueueIsFresh'
<1> SUFFICES ASSUME CallTypes, Clocks, QueueIsFresh, [Next]_vars, call' # "idle"
             PROVE  \A i \in DOMAIN queue' : queue'[i].at = spent'
  BY DEF QueueIsFresh
<1>1. CASE \/ Open \/ Close \/ UNCHANGED vars
           \/ \E ids \in SUBSET Ids : AddToBlacklist(ids)
           \/ \E c \in Calls : Refused(c)
  BY <1>1 DEF Open, Close, AddToBlacklist, Refused, vars, callVars, QueueIsFresh
<1>2. CASE Receive \/ ReceiveUntimed \/ Sniff
  <2>1. PICK c \in Calls, t \in Timeouts \cup {0} : Begin(c, t)
    BY <1>2 DEF Receive, ReceiveUntimed, Sniff, Calls
  <2> QED
    BY <2>1, BeginEffect DEF Begin
<1>3. CASE TakeAccepted \/ TakeBlacklisted
  <2>1. /\ call # "idle" /\ queue # <<>> /\ queue' = Tail(queue)
    BY <1>3, TakeEffect
  <2>2. spent' = spent
    BY <1>3, TakeEffect DEF Ends, Continues
  <2>3. ASSUME NEW i \in DOMAIN queue'
        PROVE  i+1 \in DOMAIN queue /\ queue'[i] = queue[i+1]
    BY <2>1, HeadOfQueue
  <2> QED
    BY <2>1, <2>2, <2>3 DEF QueueIsFresh
<1>4. CASE Silence \/ Tick
  <2>1. queue' = <<>>
    BY <1>4, SilenceEffect DEF Tick
  <2> QED
    BY <2>1
<1>5. ASSUME NEW id \in Ids, Arrive(id)
      PROVE  \A i \in DOMAIN queue' : queue'[i].at = spent'
  <2>1. call' = call /\ spent' = spent
    BY <1>5 DEF Arrive, callVars
  <2> QED
    BY <1>5, <2>1, ArriveEffect DEF QueueIsFresh
<1> QED
  BY <1>1, <1>2, <1>3, <1>4, <1>5 DEF Next

LEMMA NextCanInv == CanInv /\ [Next]_vars => CanInv'
BY TypesKept, OrderKept, FreshKept DEF CanInv

LEMMA SpecCanInv == Spec => []CanInv
BY InitCanInv, NextCanInv, PTL DEF Spec

-----------------------------------------------------------------------------
(* The theorems.                                                            *)

LEMMA OrderOfNumbers ==
  ASSUME CanInv
  PROVE  FramesOnceInOrder /\ \A i \in DOMAIN msgs : msgs[i].id \in Ids /\ msgs[i].n \in 1..frames
<1>1. FramesOnceInOrder
  BY DEF CanInv, Order, FramesOnceInOrder, Given
<1> DEFINE h == handed
           m == msgs
<1>2. h \in Seq(Nat) /\ m \in Seq(FrameType) /\ frames \in 0..MaxFrames
  BY DEF CanInv, CallTypes
<1>3. \A i \in DOMAIN (h \o Numbers(m)) : (h \o Numbers(m))[i] <= frames
  BY DEF CanInv, Order, Given
<1> HIDE DEF h, m
<1>4. ASSUME NEW i \in DOMAIN m PROVE m[i].id \in Ids /\ m[i].n \in 1..frames
  <2> DEFINE nm == Numbers(m)
  <2>1. i \in 1..Len(m) /\ Len(m) \in Nat /\ m[i] \in FrameType
    BY <1>2, <1>4, LenProperties, ElementOfSeq
  <2>2. nm \in Seq(Nat) /\ Len(nm) = Len(m) /\ nm[i] = m[i].n
    BY <1>2, <2>1, NumbersType
  <2> HIDE DEF nm
  <2>3. /\ h \o nm \in Seq(Nat) /\ Len(h \o nm) = Len(h) + Len(m) /\ Len(h) \in Nat
        /\ (h \o nm)[Len(h)+i] = nm[i]
    <3>1. \A j \in 1..Len(h)+Len(nm) : (h \o nm)[j] = IF j <= Len(h) THEN h[j] ELSE nm[j - Len(h)]
      BY <1>2, <2>2, ConcatProperties
    <3>2. Len(h) \in Nat /\ h \o nm \in Seq(Nat) /\ Len(h \o nm) = Len(h) + Len(nm)
      BY <1>2, <2>2, LenProperties, ConcatProperties
    <3>3. Len(h)+i \in 1..Len(h)+Len(nm) /\ ~(Len(h)+i <= Len(h)) /\ (Len(h)+i) - Len(h) = i
      BY <2>1, <2>2, <3>2
    <3> QED
      BY <2>2, <3>1, <3>2, <3>3
  <2>4. Len(h)+i \in DOMAIN (h \o nm)
    BY <2>1, <2>3, LenProperties
  <2>5. m[i].n <= frames
    BY <1>3, <2>2, <2>3, <2>4 DEF nm
  <2> QED
    BY <1>2, <2>1, <2>5 DEF FrameType
<1> QED
  BY <1>1, <1>4 DEF m

(* The communicator keeps its types, and the frames of the bus reach the    *)
(* caller once each and in order over all calls of receive and sniff        *)
(* (can_communicator_socketcan.py).                                         *)
THEOREM FramesAreKeptInOrder == Spec => []ReceiverInv
<1>1. CanInv => ReceiverInv
  <2> SUFFICES ASSUME CanInv PROVE ReceiverInv
    OBVIOUS
  <2>1. FramesOnceInOrder /\ \A i \in DOMAIN msgs : msgs[i].id \in Ids /\ msgs[i].n \in 1..frames
    BY OrderOfNumbers
  <2>2. TypeOK
    BY <2>1 DEF CanInv, CallTypes, Clocks, FrameType, Timed, TypeOK
  <2> QED
    BY <2>1, <2>2 DEF ReceiverInv
<1> QED
  BY <1>1, SpecCanInv, PTL

(* A receive and a sniff with a timeout end before twice their time.        *)
THEOREM CallsEndInTime == Spec => []EndsInTime
<1>1. CanInv => EndsInTime
  BY DEF CanInv, Clocks, Timed, EndsInTime
<1> QED
  BY <1>1, SpecCanInv, PTL

(* No frame that arrived in the time of a receive that returns None, or of  *)
(* a sniff, is left in the buffer, unless it is blacklisted.                *)
THEOREM NoFrameIsMissed == Spec => NothingIsMissed
<1> DEFINE Missed == /\ call \in {"receive", "sniff"} /\ call' = "idle" /\ result'[2] # "frame"
           Rest == \A i \in DOMAIN queue' : Accepted(queue'[i]) => queue'[i].at >= limit
<1>1. CanInv /\ [Next]_vars => [Missed => Rest]_vars
  <2> SUFFICES ASSUME CanInv, [Next]_vars, Missed PROVE Rest
    OBVIOUS
  <2>0. CallTypes /\ Clocks /\ QueueIsFresh
    BY DEF CanInv
  <2>1. TakeAccepted \/ TakeBlacklisted \/ Silence
    <3>1. call # "idle" /\ call # call'
      OBVIOUS
    <3> QED
      BY <3>1 DEF Next, vars, callVars, Open, Close, AddToBlacklist, Refused, Receive,
                  ReceiveUntimed, Sniff, Begin, Arrive, Tick
  <2>2. CASE TakeAccepted \/ TakeBlacklisted
    <3>1. queue # <<>> /\ queue' = Tail(queue) /\ limit \in Nat /\ spent \in Nat
      BY <2>0, <2>2, TakeEffect DEF Clocks
    <3>2. spent >= limit
      <4>1. CASE Ends(<<Head(queue)>>)
        BY <2>0, <4>1, HeadOfQueue DEF Ends
      <4> QED
        BY <2>0, <2>2, <4>1, TakeEffect DEF Continues, Timed
    <3>3. ASSUME NEW i \in DOMAIN queue'
          PROVE  i+1 \in DOMAIN queue /\ queue'[i] = queue[i+1]
      BY <2>0, <3>1, HeadOfQueue
    <3> QED
      BY <2>0, <3>1, <3>2, <3>3 DEF QueueIsFresh
  <2>3. CASE Silence
    BY <2>0, <2>3, SilenceEffect
  <2> QED
    BY <2>1, <2>2, <2>3
<1> QED
  BY <1>1, SpecCanInv, PTL DEF Spec, NothingIsMissed


-----------------------------------------------------------------------------
(* The ISO-TP communicators that share the CAN communicator: their types,  *)
(* that no socket is lost, and that an open stack owns the bus when no     *)
(* caller is careless, for any number of stacks.                           *)

USE BusesAssumption

(* What opening and closing the CAN communicator do to the types. *)
LEMMA CanOpenType ==
  ASSUME StackTypeOK, CanOpen
  PROVE  /\ made' \in 0..MaxBuses /\ 0..made \subseteq 0..made'
         /\ canBus' \in 0..made' /\ canBus' # 0
         /\ live' \subseteq 1..made' /\ canBus' \in live'
         /\ stackBus \in [Stacks -> 0..made']
<1>1. made' = made + 1 /\ made \in Nat /\ made < MaxBuses
  BY DEF StackTypeOK, CanOpen
<1>2. 0..made \subseteq 0..made' /\ 1..made \subseteq 1..made'
  BY <1>1
<1>3. stackBus \in [Stacks -> 0..made']
  BY <1>2 DEF StackTypeOK
<1> QED
  BY <1>1, <1>2, <1>3 DEF StackTypeOK, CanOpen

LEMMA CanCloseType ==
  ASSUME StackTypeOK, CanClose
  PROVE  /\ made' = made /\ made' \in 0..MaxBuses
         /\ canBus' = 0 /\ canBus' \in 0..made' /\ live' \subseteq 1..made'
  BY DEF StackTypeOK, CanClose

(* The variables keep their types, whatever callers do.                      *)
THEOREM StackTypesAreKept == StackSpec => []StackTypeOK
<1>1. StackInit => StackTypeOK
  <2> SUFFICES ASSUME StackInit PROVE StackTypeOK
    OBVIOUS
  <2>1. canBus = 0 /\ made = 0 /\ live = {}
    BY DEF StackInit
  <2>2. stackBus \in [Stacks -> 0..made] /\ Owners = {}
    BY <2>1 DEF StackInit, Owners
  <2>3. outcome \in [op : Operations, did : {"ok", "True", "raised", "deadBus"}]
    BY DEF StackInit, Operations
  <2> QED
    BY <2>1, <2>2, <2>3, 0 \in 0..0, 0 \in 0..MaxBuses DEF StackInit, StackTypeOK
<1>2. StackTypeOK /\ [StackNext]_stackVars => StackTypeOK'
  <2> SUFFICES ASSUME StackTypeOK, [StackNext]_stackVars PROVE StackTypeOK'
    OBVIOUS
  <2>1. CASE Enter
    <3>1. outcome' \in [op : Operations, did : {"ok", "True", "raised", "deadBus"}]
      BY <2>1 DEF Enter, Did, Operations
    <3>2. CASE CanOpen
      <4>1. UNCHANGED <<isOpen, stackBus, careless>> /\ within' \in BOOLEAN
        BY <2>1 DEF Enter
      <4>2. \A s \in Owners' : stackBus'[s] # 0
        BY <4>1 DEF StackTypeOK, Owners
      <4> QED
        BY <3>1, <3>2, <4>1, <4>2, CanOpenType DEF StackTypeOK
    <3>3. CASE CanOpenRaises
      BY <2>1, <3>1, <3>3 DEF Enter, CanOpenRaises, StackTypeOK, Owners
    <3> QED
      BY <2>1, <3>2, <3>3 DEF Enter
  <2>2. CASE Exit
    <3>1. outcome' \in [op : Operations, did : {"ok", "True", "raised", "deadBus"}]
      BY <2>2 DEF Exit, Did, Operations
    <3> QED
      <4>1. UNCHANGED <<isOpen, stackBus, careless>> /\ within' \in BOOLEAN /\ CanClose
        BY <2>2 DEF Exit
      <4>2. \A s \in Owners' : stackBus'[s] # 0
        BY <4>1 DEF StackTypeOK, Owners
      <4> QED
        BY <3>1, <4>1, <4>2, CanCloseType DEF StackTypeOK
  <2>3. CASE CloseUnder
    <3>1. outcome' \in [op : Operations, did : {"ok", "True", "raised", "deadBus"}]
      BY <2>3 DEF CloseUnder, Did, Operations
    <3> QED
      BY <2>3, <3>1, CanCloseType DEF CloseUnder, StackTypeOK, Owners
  <2>4. ASSUME NEW s \in Stacks, OpenStack(s) PROVE StackTypeOK'
    <3>1. outcome' \in [op : Operations, did : {"ok", "True", "raised", "deadBus"}]
      BY <2>4 DEF OpenStack, Did, Operations
    <3> QED
      BY <2>4, <3>1, CanOpenType DEF OpenStack, StackTypeOK, Owners
  <2>5. ASSUME NEW s \in Stacks, OpenRaises(s) PROVE StackTypeOK'
    <3>1. outcome' \in [op : Operations, did : {"ok", "True", "raised", "deadBus"}]
      BY <2>5 DEF OpenRaises, Did, Operations
    <3> QED
      BY <2>5, <3>1 DEF OpenRaises, CanOpenRaises, StackTypeOK, Owners
  <2>6. ASSUME NEW s \in Stacks, StackRaises(s) PROVE StackTypeOK'
    <3>1. outcome' \in [op : Operations, did : {"ok", "True", "raised", "deadBus"}]
      BY <2>6 DEF StackRaises, Did, Operations
    <3> QED
      <4>1. stackBus' \in [Stacks -> 0..made']
        BY <2>6, CanOpenType DEF StackRaises
      <4>2. \A r \in Owners' : stackBus'[r] # 0
        BY <2>6, CanOpenType DEF StackRaises, StackTypeOK, Owners
      <4> QED
        BY <2>6, <3>1, <4>1, <4>2, CanOpenType DEF StackRaises, StackTypeOK
  <2>7. ASSUME NEW s \in Stacks, CloseStack(s) PROVE StackTypeOK'
    <3>1. outcome' \in [op : Operations, did : {"ok", "True", "raised", "deadBus"}]
      BY <2>7 DEF CloseStack, Did, Operations
    <3>2. UNCHANGED <<stackBus, within, careless>> /\ isOpen' \in [Stacks -> BOOLEAN]
      BY <2>7 DEF CloseStack, StackTypeOK
    <3>3. Owners' \subseteq Owners
      BY <2>7 DEF CloseStack, StackTypeOK, Owners
    <3>4. \A r \in Owners' : stackBus'[r] # 0
      BY <3>2, <3>3 DEF StackTypeOK
    <3>5. CASE isOpen[s]
      <4>1. CanClose
        BY <2>7, <3>5 DEF CloseStack
      <4> QED
        BY <3>1, <3>2, <3>4, <4>1, CanCloseType DEF StackTypeOK
    <3>6. CASE ~isOpen[s]
      <4>1. UNCHANGED <<canBus, made, live>>
        BY <2>7, <3>6 DEF CloseStack
      <4> QED
        BY <3>1, <3>2, <3>4, <4>1 DEF StackTypeOK
    <3> QED
      BY <3>5, <3>6
  <2>8. ASSUME NEW s \in Stacks, Use(s) PROVE StackTypeOK'
    <3>1. outcome' \in [op : Operations, did : {"ok", "True", "raised", "deadBus"}]
      BY <2>8 DEF Use, Did, Operations
    <3> QED
      BY <2>8, <3>1 DEF Use, StackTypeOK, Owners
  <2>9. CASE UNCHANGED stackVars
    BY <2>9 DEF stackVars, StackTypeOK, Owners
  <2> QED
    BY <2>1, <2>2, <2>3, <2>4, <2>5, <2>6, <2>7, <2>8, <2>9 DEF StackNext
<1> QED
  BY <1>1, <1>2, PTL DEF StackSpec

(* The CAN communicator refuses to be opened twice and shuts down the bus it *)
(* forgets: no SocketCAN socket is lost, however opens fail.                 *)
THEOREM BusesAreNotLost == StackSpec => []NoBusIsLost
<1>1. StackInit => NoBusIsLost
  BY DEF StackInit, NoBusIsLost
<1>2. StackTypeOK /\ NoBusIsLost /\ [StackNext]_stackVars => NoBusIsLost'
  <2> SUFFICES ASSUME StackTypeOK, NoBusIsLost, [StackNext]_stackVars PROVE NoBusIsLost'
    OBVIOUS
  <2>1. CASE CanOpen
    BY <2>1 DEF CanOpen, NoBusIsLost, StackTypeOK
  <2>2. CASE CanClose
    BY <2>2 DEF CanClose, NoBusIsLost
  <2>3. CASE UNCHANGED <<canBus, live>>
    BY <2>3 DEF NoBusIsLost
  <2>4. CanOpen \/ CanClose \/ UNCHANGED <<canBus, live>>
    BY DEF StackNext, stackVars, Enter, Exit, CloseUnder, OpenStack, OpenRaises,
           StackRaises, CloseStack, Use, CanOpenRaises
  <2> QED
    BY <2>1, <2>2, <2>3, <2>4
<1> QED
  BY <1>1, <1>2, StackTypesAreKept, PTL DEF StackSpec

(* Besides what OpenStackOwnsTheBus says, a with statement that is entered   *)
(* holds an open bus: no stack can open it before the statement is left.     *)
OwnerInv == OpenStackOwnsTheBus /\ (~careless /\ within => canBus # 0)

(* While a bus is open nobody opens another; while none is, nobody owns one. *)
LEMMA NobodyOwnsAClosedBus ==
  ASSUME StackTypeOK, OwnerInv, canBus = 0, ~careless
  PROVE  Owners = {} /\ ~within
  BY DEF StackTypeOK, OwnerInv, OpenStackOwnsTheBus

(* Until a caller closes the CAN communicator behind a stack, an open stack  *)
(* is its only user, on the bus it was made on (isotp_communicator.py:97).   *)
THEOREM OpenStacksOwnTheBus == StackSpec => []OpenStackOwnsTheBus
<1>1. StackInit => OwnerInv
  BY DEF StackInit, OwnerInv, OpenStackOwnsTheBus, Owners
<1>2. StackTypeOK /\ OwnerInv /\ [StackNext]_stackVars => OwnerInv'
  <2> SUFFICES ASSUME StackTypeOK, OwnerInv, [StackNext]_stackVars PROVE OwnerInv'
    OBVIOUS
  <2> SUFFICES ASSUME ~careless' PROVE OwnerInv'
    BY DEF OwnerInv, OpenStackOwnsTheBus
  <2> ~careless
    BY DEF StackNext, stackVars, Enter, Exit, CloseUnder, OpenStack, OpenRaises, StackRaises, CloseStack, Use
  <2> USE BusesAssumption DEF StackTypeOK, OwnerInv, OpenStackOwnsTheBus
  <2>0. canBus = 0 => Owners = {} /\ ~within
    BY NobodyOwnsAClosedBus
  <2>1. CASE Enter
    BY <2>0, <2>1 DEF Enter, CanOpen, CanOpenRaises, Owners
  <2>2. CASE Exit
    BY <2>2 DEF Exit, CanClose, Owners
  <2>3. CASE CloseUnder
    BY <2>3 DEF CloseUnder
  <2>4. ASSUME NEW s \in Stacks, OpenStack(s) PROVE OwnerInv'
    <3>1. Owners = {} /\ ~within
      BY <2>0, <2>4 DEF OpenStack, CanOpen
    <3>2. Owners' = {s}
      BY <2>4, <3>1 DEF OpenStack, Owners
    <3> QED
      BY <2>4, <3>1, <3>2 DEF OpenStack, CanOpen
  <2>5. ASSUME NEW s \in Stacks, OpenRaises(s) PROVE OwnerInv'
    BY <2>5 DEF OpenRaises, CanOpenRaises, Owners
  <2>6. ASSUME NEW s \in Stacks, StackRaises(s) PROVE OwnerInv'
    <3>1. Owners' = {} /\ ~within'
      BY <2>0, <2>6 DEF StackRaises, CanOpen, Owners
    <3> QED
      BY <3>1
  <2>7. ASSUME NEW s \in Stacks, CloseStack(s) PROVE OwnerInv'
    <3>1. CASE isOpen[s]
      <4>1. Owners = {s} /\ ~within
        BY <3>1 DEF Owners
      <4>2. Owners' = {} /\ ~within'
        BY <2>7, <4>1 DEF CloseStack, Owners
      <4> QED
        BY <4>2
    <3>2. CASE ~isOpen[s]
      BY <2>7, <3>2 DEF CloseStack, Owners
    <3> QED
      BY <3>1, <3>2
  <2>8. ASSUME NEW s \in Stacks, Use(s) PROVE OwnerInv'
    BY <2>8 DEF Use, Owners
  <2>9. CASE UNCHANGED stackVars
    BY <2>9 DEF stackVars, Owners
  <2> QED
    BY <2>1, <2>2, <2>3, <2>4, <2>5, <2>6, <2>7, <2>8, <2>9 DEF StackNext
<1>3. OwnerInv => OpenStackOwnsTheBus
  BY DEF OwnerInv
<1> QED
  BY <1>1, <1>2, <1>3, StackTypesAreKept, PTL DEF StackSpec

=============================================================================
