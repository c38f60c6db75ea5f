-------------------------- MODULE DoipUtilsProofs --------------------------
(***************************************************************************)
(* Proofs about RawSocket and DoipUtils, for any kinds of packets and any  *)
(* capacity of the capture, any number of pairs, connections, requests and *)
(* activations, on both layers; and about DatagramSockets and SomeIp, for  *)
(* any offers, services, groups, methods and values of recv_retry, queues  *)
(* of any length, and any number of operations, calls and messages.        *)
(***************************************************************************)
EXTENDS DoipUtils, SomeIp, SequenceTheorems, TLAPS

USE KindsAssumption, CapacityAssumption, RawBoundAssumption, UtilsBoundAssumption

-----------------------------------------------------------------------------
(* The raw socket.                                                          *)

(* The numbers of a sequence of packets rise, reach at most m, and are all  *)
(* lower than those of another.                                             *)
Rising(s) == \A i, j \in DOMAIN s : i < j => s[i].n < s[j].n
UpTo(s, m) == \A i \in DOMAIN s : s[i].n <= m
Older(s, t) == \A i \in DOMAIN s, j \in DOMAIN t : s[i].n < t[j].n

(* A request under way has no result yet, and one that is over collects     *)
(* nothing; what was sent of it is on record.                               *)
RawTypes ==
  /\ RawTypeOK
  /\ doing = "idle" => found = <<>>
  /\ doing = "sniff" => request.kind \in Kinds /\ result.did = "nothing" /\ result.packets = <<>>
  /\ request.n # 0 => asked[request.n] = [kind |-> request.kind, mode |-> request.mode]

(* Packets pass from the capture to the caller without overtaking.          *)
RawOrder ==
  /\ Rising(capture) /\ UpTo(capture, packets)
  /\ Rising(found) /\ UpTo(found, packets) /\ Older(found, capture)
  /\ Rising(result.packets) /\ UpTo(result.packets, packets) /\ Older(result.packets, capture)

(* A packet that is an answer is to a request that was sent.  If it came in *)
(* the time of that request and the request is over, then the request was   *)
(* content with another answer and the socket is one of layer 2.            *)
Pending(s) ==
  \A i \in DOMAIN s :
    LET p == s[i] IN
      /\ p.of \in 0..Len(asked)
      /\ p.of = 0 => p.kind = Other
      /\ (p.of # 0 /\ p.during = p.of) =>
           (doing = "sniff" /\ p.of = request.n) \/ (layer = 2 /\ asked[p.of].mode = "one")

(* Of the answers that came in the time of the request under way, each was  *)
(* found or is still to be found.                                           *)
NoneIsSkipped ==
  doing = "sniff" =>
    \A k \in inTime :
      \/ \E i \in DOMAIN found : found[i].n = k
      \/ \E i \in DOMAIN capture : capture[i].n = k /\ capture[i].kind = request.kind

AllAnswers(s) == \A i \in DOMAIN s : s[i].kind = request.kind

RawInv ==
  /\ RawTypes /\ RawOrder
  /\ Pending(capture) /\ Pending(found)
  /\ AllAnswers(found) /\ NoneIsSkipped
  /\ result.did = "returned" => AllAnswers(result.packets)
  /\ InTimeIsReturned /\ StaleOnlyWhenLate

-----------------------------------------------------------------------------
(* Sequences of packets.                                                    *)

LEMMA TailOf ==
  ASSUME NEW S, NEW s \in Seq(S), s # <<>>
  PROVE  /\ Head(s) = s[1] /\ Head(s) \in S /\ 1 \in DOMAIN s
         /\ Tail(s) \in Seq(S) /\ Len(Tail(s)) = Len(s) - 1 /\ Len(s) \in Nat \ {0}
         /\ DOMAIN Tail(s) = 1..(Len(s) - 1) /\ DOMAIN s = 1..Len(s)
         /\ \A i \in DOMAIN Tail(s) : i \in Nat \ {0} /\ i + 1 \in DOMAIN s /\ Tail(s)[i] = s[i + 1]
<1>1. Len(s) \in Nat \ {0}
  BY EmptySeq
<1>2. Tail(s) \in Seq(S) /\ Len(Tail(s)) = Len(s) - 1
      /\ \A i \in 1..Len(Tail(s)) : Tail(s)[i] = s[i + 1]
  BY HeadTailProperties
<1>3. DOMAIN s = 1..Len(s) /\ DOMAIN Tail(s) = 1..Len(Tail(s))
  BY <1>2, LenProperties
<1>4. Head(s) = s[1] /\ s[1] \in S
  BY <1>1, ElementOfSeq
<1> QED
  BY <1>1, <1>2, <1>3, <1>4

LEMMA AppendOf ==
  ASSUME NEW S, NEW s \in Seq(S), NEW e \in S
  PROVE  /\ Append(s, e) \in Seq(S) /\ Len(Append(s, e)) = Len(s) + 1 /\ Len(s) \in Nat
         /\ DOMAIN s = 1..Len(s) /\ DOMAIN Append(s, e) = 1..(Len(s) + 1)
         /\ \A i \in DOMAIN s : Append(s, e)[i] = s[i]
         /\ Append(s, e)[Len(s) + 1] = e
<1>1. Append(s, e) \in Seq(S) /\ Len(Append(s, e)) = Len(s) + 1
      /\ (\A i \in 1..Len(s) : Append(s, e)[i] = s[i]) /\ Append(s, e)[Len(s) + 1] = e
  BY AppendProperties
<1>2. DOMAIN s = 1..Len(s) /\ DOMAIN Append(s, e) = 1..Len(Append(s, e)) /\ Len(s) \in Nat
  BY <1>1, LenProperties
<1> QED
  BY <1>1, <1>2

(* What is left of a sequence whose head is taken.                          *)
LEMMA TailRises ==
  ASSUME NEW s \in Seq(Packet), s # <<>>, NEW m \in Nat, Rising(s), UpTo(s, m)
  PROVE  /\ Rising(Tail(s)) /\ UpTo(Tail(s), m) /\ Head(s).n <= m
         /\ \A i \in DOMAIN Tail(s) : Head(s).n < Tail(s)[i].n
<1>1. \A i \in DOMAIN Tail(s) : i + 1 \in DOMAIN s /\ Tail(s)[i] = s[i + 1] /\ i \in Nat \ {0}
  BY TailOf
<1>2. Head(s) = s[1] /\ 1 \in DOMAIN s
  BY TailOf
<1>3. Rising(Tail(s))
  BY <1>1 DEF Rising
<1>4. UpTo(Tail(s), m) /\ Head(s).n <= m
  BY <1>1, <1>2 DEF UpTo
<1>5. \A i \in DOMAIN Tail(s) : Head(s).n < Tail(s)[i].n
  BY <1>1, <1>2 DEF Rising
<1> QED
  BY <1>3, <1>4, <1>5

LEMMA OlderThanTail ==
  ASSUME NEW s, NEW t \in Seq(Packet), t # <<>>, Older(s, t)
  PROVE  Older(s, Tail(t)) /\ \A i \in DOMAIN s : s[i].n < Head(t).n
<1>1. \A i \in DOMAIN Tail(t) : i + 1 \in DOMAIN t /\ Tail(t)[i] = t[i + 1]
  BY TailOf
<1>2. Head(t) = t[1] /\ 1 \in DOMAIN t
  BY TailOf
<1> QED
  BY <1>1, <1>2 DEF Older

(* A sequence to which a packet of a higher number is added.                *)
LEMMA AppendRises ==
  ASSUME NEW s \in Seq(Packet), NEW p \in Packet, Rising(s), \A i \in DOMAIN s : s[i].n < p.n
  PROVE  Rising(Append(s, p))
<1>1. \A i \in DOMAIN Append(s, p) : i \in DOMAIN s \/ i = Len(s) + 1
  BY AppendOf
<1>2. \A i \in DOMAIN s : i < Len(s) + 1 /\ i \in Nat
  BY AppendOf
<1>3. \A i \in DOMAIN s : Append(s, p)[i] = s[i]
  BY AppendOf
<1>4. Append(s, p)[Len(s) + 1] = p /\ Len(s) \in Nat
  BY AppendOf
<1>5. SUFFICES ASSUME NEW i \in DOMAIN Append(s, p), NEW j \in DOMAIN Append(s, p), i < j
               PROVE  Append(s, p)[i].n < Append(s, p)[j].n
  BY DEF Rising
<1>6. CASE j \in DOMAIN s
  <2>1. i \in DOMAIN s
    BY <1>1, <1>2, <1>4, <1>5, <1>6
  <2> QED
    BY <2>1, <1>3, <1>5, <1>6 DEF Rising
<1>7. CASE j = Len(s) + 1
  <2>1. i \in DOMAIN s
    BY <1>1, <1>4, <1>5, <1>7
  <2> QED
    BY <2>1, <1>3, <1>4, <1>7
<1> QED
  BY <1>1, <1>6, <1>7

LEMMA UpToAppend ==
  ASSUME NEW s \in Seq(Packet), NEW p \in Packet, NEW m \in Nat, UpTo(s, m), p.n <= m
  PROVE  UpTo(Append(s, p), m)
<1>1. \A i \in DOMAIN Append(s, p) : i \in DOMAIN s \/ i = Len(s) + 1
  BY AppendOf
<1>2. \A i \in DOMAIN s : Append(s, p)[i] = s[i]
  BY AppendOf
<1>3. Append(s, p)[Len(s) + 1] = p
  BY AppendOf
<1> QED
  BY <1>1, <1>2, <1>3 DEF UpTo

LEMMA OlderThanAppend ==
  ASSUME NEW s, NEW t \in Seq(Packet), NEW p \in Packet, Older(s, t), \A i \in DOMAIN s : s[i].n < p.n
  PROVE  Older(s, Append(t, p))
<1>1. \A i \in DOMAIN Append(t, p) : i \in DOMAIN t \/ i = Len(t) + 1
  BY AppendOf
<1>2. \A i \in DOMAIN t : Append(t, p)[i] = t[i]
  BY AppendOf
<1>3. Append(t, p)[Len(t) + 1] = p
  BY AppendOf
<1> QED
  BY <1>1, <1>2, <1>3 DEF Older

LEMMA AppendIsOlder ==
  ASSUME NEW s \in Seq(Packet), NEW p \in Packet, NEW t, Older(s, t), \A i \in DOMAIN t : p.n < t[i].n
  PROVE  Older(Append(s, p), t)
<1>1. \A i \in DOMAIN Append(s, p) : i \in DOMAIN s \/ i = Len(s) + 1
  BY AppendOf
<1>2. \A i \in DOMAIN s : Append(s, p)[i] = s[i]
  BY AppendOf
<1>3. Append(s, p)[Len(s) + 1] = p
  BY AppendOf
<1> QED
  BY <1>1, <1>2, <1>3 DEF Older

(* Nothing is in order with anything.                                       *)
LEMMA EmptyRises ==
  ASSUME NEW m, NEW s
  PROVE  Rising(<<>>) /\ UpTo(<<>>, m) /\ Older(<<>>, s) /\ Older(s, <<>>) /\ <<>> \in Seq(Packet)
BY EmptySeq DEF Rising, UpTo, Older

LEMMA OneRises ==
  ASSUME NEW p \in Packet, NEW m, NEW s, p.n <= m, \A i \in DOMAIN s : p.n < s[i].n
  PROVE  Rising(<<p>>) /\ UpTo(<<p>>, m) /\ Older(<<p>>, s) /\ <<p>> \in Seq(Packet)
<1>1. <<p>> \in Seq(Packet) /\ DOMAIN <<p>> = {1} /\ <<p>>[1] = p
  OBVIOUS
<1> QED
  BY <1>1 DEF Rising, UpTo, Older


-----------------------------------------------------------------------------
(* The actions of the raw socket.                                           *)

LEMMA InitRawInv == RawInit => RawInv
<1> SUFFICES ASSUME RawInit PROVE RawInv
  OBVIOUS
<1>1. result.did = "nothing" /\ result.packets = <<>> /\ found = <<>> /\ capture = <<>> /\ packets = 0
      /\ doing = "idle" /\ request = NoRequest /\ asked = <<>> /\ owed = <<>> /\ inTime = {}
      /\ layer \in {2, 3} /\ socket = "none"
  BY DEF RawInit
<1>2. request.n = 0 /\ request \in [n : 0..0, kind : Kinds \cup {Other}, mode : Modes]
  BY <1>1 DEF NoRequest, Modes
<1>3. Len(asked) = 0 /\ asked \in Seq([kind : Kinds, mode : Modes]) /\ owed \in Seq(0..Answerers)
  BY <1>1
<1>4. RawTypes
  BY <1>1, <1>2, <1>3, EmptyRises DEF RawTypes, RawTypeOK
<1>5. RawOrder
  BY <1>1, EmptyRises DEF RawOrder
<1>6. Pending(capture) /\ Pending(found) /\ AllAnswers(found) /\ NoneIsSkipped
  BY <1>1 DEF Pending, AllAnswers, NoneIsSkipped
<1>7. InTimeIsReturned /\ StaleOnlyWhenLate
  BY <1>1 DEF InTimeIsReturned, StaleOnlyWhenLate
<1> QED
  BY <1>1, <1>4, <1>5, <1>6, <1>7 DEF RawInv

(* Opening and closing, and calls that raise.                               *)
LEMMA ResetKept ==
  ASSUME RawInv, OpenRaw \/ OpenRawRaises \/ CloseRaw \/ AskRaises
  PROVE  RawInv'
<1> USE DEF RawInv
<1>1. /\ doing = "idle" /\ doing' = "idle"
      /\ layer' = layer /\ packets' = packets /\ request' = request /\ found' = found
      /\ inTime' = inTime /\ asked' = asked /\ owed' = owed
      /\ capture' \in {capture, <<>>}
      /\ result'.did \in {"nothing", "raised"} /\ result'.packets = <<>>
  BY DEF OpenRaw, OpenRawRaises, CloseRaw, AskRaises, Did, kernel, net
<1>2. socket' \in {"none", "open", "closed"} /\ (socket' # "open" => capture' = <<>>)
  BY DEF OpenRaw, OpenRawRaises, CloseRaw, AskRaises, RawTypes, RawTypeOK, kernel
<1>3. found = <<>>
  BY <1>1 DEF RawTypes
<1>4. Len(<<>>) <= Capacity
  BY CapacityAssumption
<1>5. RawTypes'
  BY <1>1, <1>2, <1>4, EmptyRises DEF RawTypes, RawTypeOK
<1>6. RawOrder'
  BY <1>1, <1>3, EmptyRises DEF RawOrder
<1>7. Pending(capture)'
  BY <1>1 DEF Pending
<1> QED
  BY <1>1, <1>3, <1>5, <1>6, <1>7 DEF Pending, AllAnswers, NoneIsSkipped, InTimeIsReturned, StaleOnlyWhenLate

(* A request begins: nothing that is captured came in the time of one that  *)
(* is under way.                                                            *)
LEMMA AskKept ==
  ASSUME RawInv, NEW k \in Kinds, NEW m \in Modes, Ask(k, m) \/ AskUnsent(k, m)
  PROVE  RawInv'
<1> USE DEF RawInv
<1> DEFINE Sent == [kind |-> k, mode |-> m]
<1>1. /\ doing = "idle" /\ doing' = "sniff" /\ socket = "open"
      /\ layer' = layer /\ socket' = socket /\ packets' = packets /\ capture' = capture
      /\ found' = <<>> /\ inTime' = {}
      /\ result'.did = "nothing" /\ result'.packets = <<>>
  BY DEF Ask, AskUnsent, Begin, Did, kernel
<1>2. /\ request' \in [n : Nat, kind : {k}, mode : {m}]
      /\ \/ request'.n = Len(asked) + 1 /\ asked' = Append(asked, Sent) /\ owed' = Append(owed, Answerers)
         \/ request'.n = 0 /\ asked' = asked /\ owed' = owed
  <2>1. asked \in Seq([kind : Kinds, mode : Modes])
    BY DEF RawTypes, RawTypeOK
  <2>2. Len(asked) \in Nat
    BY <2>1, LenProperties
  <2>3. CASE Ask(k, m)
    BY <2>2, <2>3 DEF Ask, Begin
  <2>4. CASE AskUnsent(k, m)
    BY <2>4 DEF AskUnsent, Begin, net
  <2> QED
    BY <2>3, <2>4
<1>3. asked \in Seq([kind : Kinds, mode : Modes]) /\ owed \in Seq(0..Answerers) /\ Len(owed) = Len(asked)
      /\ Len(asked) \in Nat
  BY LenProperties DEF RawTypes, RawTypeOK
<1>4. Sent \in [kind : Kinds, mode : Modes] /\ Answerers \in 0..Answerers
  BY CapacityAssumption
<1>5. /\ asked' \in Seq([kind : Kinds, mode : Modes]) /\ owed' \in Seq(0..Answerers)
      /\ Len(owed') = Len(asked') /\ Len(asked') \in Nat /\ Len(asked) <= Len(asked')
      /\ \A n \in 1..Len(asked) : asked'[n] = asked[n]
      /\ request'.n \in 0..Len(asked')
      /\ request'.n # 0 => asked'[request'.n] = Sent
  <2>1. CASE request'.n = 0 /\ asked' = asked /\ owed' = owed
    BY <2>1, <1>3
  <2>2. CASE request'.n = Len(asked) + 1 /\ asked' = Append(asked, Sent) /\ owed' = Append(owed, Answerers)
    <3>1. /\ Append(asked, Sent) \in Seq([kind : Kinds, mode : Modes])
          /\ Len(Append(asked, Sent)) = Len(asked) + 1
          /\ \A n \in 1..Len(asked) : Append(asked, Sent)[n] = asked[n]
          /\ Append(asked, Sent)[Len(asked) + 1] = Sent
      BY <1>3, <1>4, AppendProperties
    <3>2. Append(owed, Answerers) \in Seq(0..Answerers) /\ Len(Append(owed, Answerers)) = Len(owed) + 1
      BY <1>3, <1>4, AppendProperties
    <3> QED
      BY <2>2, <3>1, <3>2, <1>3
  <2> QED
    BY <2>1, <2>2, <1>2
<1>6. request'.kind = k /\ request'.mode = m
      /\ request' \in [n : 0..Len(asked'), kind : Kinds \cup {Other}, mode : Modes]
  BY <1>2, <1>5
<1>7. RawTypes'
  <2>1. RawTypeOK'
    BY <1>1, <1>5, <1>6, EmptyRises DEF RawTypes, RawTypeOK
  <2> QED
    BY <2>1, <1>1, <1>5, <1>6 DEF RawTypes
<1>8. RawOrder'
  BY <1>1, EmptyRises DEF RawOrder
<1>9. Pending(capture)'
  <2> SUFFICES ASSUME NEW i \in DOMAIN capture
               PROVE  LET p == capture[i] IN
                        /\ p.of \in 0..Len(asked')
                        /\ p.of = 0 => p.kind = Other
                        /\ (p.of # 0 /\ p.during = p.of) =>
                             (doing' = "sniff" /\ p.of = request'.n) \/ (layer' = 2 /\ asked'[p.of].mode = "one")
    BY <1>1 DEF Pending
  <2>1. LET p == capture[i] IN
          /\ p.of \in 0..Len(asked)
          /\ p.of = 0 => p.kind = Other
          /\ (p.of # 0 /\ p.during = p.of) => layer = 2 /\ asked[p.of].mode = "one"
    BY <1>1 DEF Pending
  <2> QED
    BY <2>1, <1>1, <1>3, <1>5
<1> QED
  BY <1>1, <1>7, <1>8, <1>9 DEF Pending, AllAnswers, NoneIsSkipped, InTimeIsReturned, StaleOnlyWhenLate


(* What the capture and the collection are before a step.                   *)
LEMMA Sequences ==
  ASSUME RawInv
  PROVE  /\ capture \in Seq(Packet) /\ found \in Seq(Packet) /\ result.packets \in Seq(Packet)
         /\ packets \in Nat /\ Len(asked) \in Nat /\ Len(capture) \in Nat
BY LenProperties, RawBoundAssumption DEF RawInv, RawTypes, RawTypeOK

(* The oldest captured packet is taken.                                     *)
LEMMA Taken ==
  ASSUME RawInv, capture # <<>>
  PROVE  /\ Tail(capture) \in Seq(Packet) /\ Len(Tail(capture)) <= Capacity /\ Head(capture) \in Packet
         /\ Rising(Tail(capture)) /\ UpTo(Tail(capture), packets) /\ Older(found, Tail(capture))
         /\ Head(capture).n <= packets
         /\ \A i \in DOMAIN found : found[i].n < Head(capture).n
         /\ \A i \in DOMAIN Tail(capture) : Head(capture).n < Tail(capture)[i].n
         /\ Pending(Tail(capture)) /\ Pending(<<Head(capture)>>)
         /\ \A i \in DOMAIN capture : capture[i] = Head(capture) \/ \E j \in DOMAIN Tail(capture) : capture[i] = Tail(capture)[j]
<1>1. capture \in Seq(Packet) /\ packets \in Nat /\ Len(capture) <= Capacity /\ Capacity \in Nat /\ Len(capture) \in Nat
  BY Sequences, CapacityAssumption DEF RawInv, RawTypes, RawTypeOK
<1>2. Rising(capture) /\ UpTo(capture, packets) /\ Older(found, capture) /\ Pending(capture)
  BY DEF RawInv, RawOrder
<1>3. /\ Tail(capture) \in Seq(Packet) /\ Head(capture) \in Packet /\ Len(Tail(capture)) = Len(capture) - 1
      /\ Head(capture) = capture[1] /\ 1 \in DOMAIN capture
      /\ DOMAIN Tail(capture) = 1..(Len(capture) - 1) /\ DOMAIN capture = 1..Len(capture)
      /\ \A i \in DOMAIN Tail(capture) : i + 1 \in DOMAIN capture /\ Tail(capture)[i] = capture[i + 1]
  BY <1>1, TailOf
<1>4. Rising(Tail(capture)) /\ UpTo(Tail(capture), packets) /\ Head(capture).n <= packets
      /\ \A i \in DOMAIN Tail(capture) : Head(capture).n < Tail(capture)[i].n
  BY <1>1, <1>2, TailRises
<1>5. Older(found, Tail(capture)) /\ \A i \in DOMAIN found : found[i].n < Head(capture).n
  BY <1>1, <1>2, OlderThanTail
<1>6. Pending(Tail(capture))
  BY <1>2, <1>3 DEF Pending
<1>7. DOMAIN <<Head(capture)>> = {1} /\ <<Head(capture)>>[1] = capture[1]
  BY <1>3
<1>8. Pending(<<Head(capture)>>)
  BY <1>2, <1>3, <1>7 DEF Pending
<1>9. ASSUME NEW i \in DOMAIN capture, i # 1
      PROVE  \E j \in DOMAIN Tail(capture) : capture[i] = Tail(capture)[j]
  <2>1. i - 1 \in DOMAIN Tail(capture) /\ i = (i - 1) + 1
    BY <1>1, <1>3, <1>9
  <2> QED
    BY <2>1, <1>3
<1> QED
  BY <1>1, <1>3, <1>4, <1>5, <1>6, <1>8, <1>9

LEMMA SearchKept ==
  ASSUME RawInv, Search
  PROVE  RawInv'
<1> DEFINE p == Head(capture)
<1>1. /\ doing = "sniff" /\ doing' = doing /\ capture # <<>> /\ capture' = Tail(capture)
      /\ layer' = layer /\ socket' = socket /\ packets' = packets /\ request' = request /\ result' = result
      /\ inTime' = inTime /\ asked' = asked /\ owed' = owed
      /\ \/ p.kind = request.kind /\ found' = Append(found, p)
         \/ p.kind # request.kind /\ found' = found
  BY DEF Search, net, IsAnswer
<1>2. found \in Seq(Packet) /\ packets \in Nat /\ p \in Packet
  BY <1>1, Sequences, Taken
<1>3. /\ Rising(found) /\ UpTo(found, packets) /\ Pending(found) /\ AllAnswers(found) /\ NoneIsSkipped
      /\ result.did = "nothing" /\ result.packets = <<>>
  BY <1>1 DEF RawInv, RawOrder, RawTypes
<1>4. ASSUME found' = Append(found, p)
      PROVE  \A i \in DOMAIN found' : \/ i \in DOMAIN found /\ found'[i] = found[i]
                                      \/ found'[i] = p /\ p.kind = request.kind
  <2>1. /\ \A i \in DOMAIN found' : i \in DOMAIN found \/ i = Len(found) + 1
        /\ \A i \in DOMAIN found : found'[i] = found[i]
        /\ found'[Len(found) + 1] = p
    BY <1>2, <1>4, AppendOf
  <2>2. p.kind = request.kind
    <3>1. Len(Append(found, p)) = Len(found) + 1 /\ Len(found) \in Nat
      BY <1>2, AppendOf
    <3> QED
      BY <1>1, <1>4, <3>1
  <2> QED
    BY <2>1, <2>2
<1>5. \A i \in DOMAIN found' : \/ i \in DOMAIN found /\ found'[i] = found[i]
                               \/ found'[i] = p /\ p.kind = request.kind
  BY <1>1, <1>4
<1>6. found' \in Seq(Packet) /\ Rising(found') /\ UpTo(found', packets) /\ Older(found', Tail(capture))
  <2>1. CASE found' = found
    BY <2>1, <1>1, <1>2, <1>3, Taken
  <2>2. CASE found' = Append(found, p)
    <3>1. Append(found, p) \in Seq(Packet)
      BY <1>2, AppendOf
    <3>2. \A i \in DOMAIN found : found[i].n < p.n
      BY <1>1, Taken
    <3>3. Rising(Append(found, p))
      BY <1>2, <1>3, <3>2, AppendRises
    <3>4. UpTo(Append(found, p), packets)
      BY <1>1, <1>2, <1>3, Taken, UpToAppend
    <3>5. Older(Append(found, p), Tail(capture))
      BY <1>1, <1>2, Taken, AppendIsOlder
    <3> QED
      BY <2>2, <3>1, <3>3, <3>4, <3>5
  <2> QED
    BY <1>1, <2>1, <2>2
<1>7. RawTypes'
  BY <1>1, <1>6, Taken DEF RawInv, RawTypes, RawTypeOK
<1>8. RawOrder'
  BY <1>1, <1>3, <1>6, Taken, EmptyRises DEF RawOrder
<1>9. Pending(capture)'
  BY <1>1, Taken DEF Pending
<1>10. Pending(found)' /\ AllAnswers(found)'
  <2>1. DOMAIN <<p>> = {1} /\ <<p>>[1] = p
    OBVIOUS
  <2>2. Pending(<<p>>) /\ Pending(found) /\ AllAnswers(found)
    BY <1>1, <1>3, Taken
  <2> HIDE DEF p
  <2>3. Pending(found)'
    <3>1. ASSUME NEW i \in DOMAIN found'
          PROVE  LET q == found'[i] IN
                   /\ q.of \in 0..Len(asked)
                   /\ q.of = 0 => q.kind = Other
                   /\ (q.of # 0 /\ q.during = q.of) =>
                        (doing = "sniff" /\ q.of = request.n) \/ (layer = 2 /\ asked[q.of].mode = "one")
      <4>1. CASE i \in DOMAIN found /\ found'[i] = found[i]
        BY <4>1, <2>2 DEF Pending
      <4>2. CASE found'[i] = p
        BY <4>2, <2>1, <2>2 DEF Pending
      <4> QED
        BY <1>5, <4>1, <4>2
    <3> QED
      BY <1>1, <3>1 DEF Pending
  <2>4. AllAnswers(found)'
    BY <2>2, <1>1, <1>5 DEF AllAnswers
  <2> QED
    BY <2>3, <2>4
<1>11. NoneIsSkipped'
  <2> SUFFICES ASSUME NEW k \in inTime
               PROVE  \/ \E i \in DOMAIN found' : found'[i].n = k
                      \/ \E i \in DOMAIN Tail(capture) : Tail(capture)[i].n = k /\ Tail(capture)[i].kind = request.kind
    BY <1>1 DEF NoneIsSkipped
  <2>1. \A i \in DOMAIN found : \E j \in DOMAIN found' : found'[j] = found[i]
    BY <1>1, <1>2, AppendOf
  <2>2. p.kind = request.kind => \E j \in DOMAIN found' : found'[j] = p
    BY <1>1, <1>2, AppendOf
  <2>3. CASE \E i \in DOMAIN found : found[i].n = k
    BY <2>1, <2>3
  <2>4. CASE \E i \in DOMAIN capture : capture[i].n = k /\ capture[i].kind = request.kind
    BY <1>1, <2>2, <2>4, Taken
  <2> QED
    BY <1>1, <1>3, <2>3, <2>4 DEF NoneIsSkipped
<1>12. InTimeIsReturned' /\ StaleOnlyWhenLate'
  BY <1>1, <1>3 DEF InTimeIsReturned, StaleOnlyWhenLate
<1> QED
  BY <1>1, <1>3, <1>7, <1>8, <1>9, <1>10, <1>11, <1>12 DEF RawInv


(* A request ends with some of what it found, or with what it just saw.     *)
LEMMA FindFirstKept ==
  ASSUME RawInv, FindFirst
  PROVE  RawInv'
<1> DEFINE p == Head(capture)
<1>1. /\ doing = "sniff" /\ doing' = "idle" /\ capture # <<>> /\ capture' = Tail(capture) /\ found' = <<>>
      /\ layer = 2 /\ request.mode = "one" /\ p.kind = request.kind
      /\ layer' = layer /\ socket' = socket /\ packets' = packets /\ request' = request
      /\ result'.did = "returned" /\ result'.packets = <<p>>
      /\ inTime' = inTime /\ asked' = asked /\ owed' = owed
  BY DEF FindFirst, Enough, IsAnswer, Did, net
<1>2. p \in Packet /\ p.n <= packets /\ (\A i \in DOMAIN Tail(capture) : p.n < Tail(capture)[i].n)
      /\ Pending(Tail(capture)) /\ Pending(<<p>>)
  BY <1>1, Taken
<1>3. DOMAIN <<p>> = {1} /\ <<p>>[1] = p
  OBVIOUS
<1>4. Rising(<<p>>) /\ UpTo(<<p>>, packets) /\ Older(<<p>>, Tail(capture)) /\ <<p>> \in Seq(Packet)
  BY <1>2, OneRises
<1>5. request.kind \in Kinds /\ (request.n # 0 => asked[request.n].mode = "one")
  BY <1>1 DEF RawInv, RawTypes
<1>6. RawTypes'
  BY <1>1, <1>4, Taken, EmptyRises DEF RawInv, RawTypes, RawTypeOK
<1>7. RawOrder'
  BY <1>1, <1>4, Taken, EmptyRises DEF RawOrder
<1>8. Pending(capture)'
  BY <1>1, <1>2, <1>5 DEF Pending
<1>9. AllAnswers(result.packets)'
  BY <1>1, <1>3 DEF AllAnswers
<1>10. InTimeIsReturned'
  BY <1>1, <1>3 DEF InTimeIsReturned, Returned
<1>11. StaleOnlyWhenLate'
  <2>1. p.of # 0
    BY <1>1, <1>2, <1>3, <1>5, KindsAssumption DEF Pending
  <2> QED
    BY <2>1, <1>1, <1>2, <1>3 DEF Pending, StaleOnlyWhenLate
<1> QED
  BY <1>1, <1>6, <1>7, <1>8, <1>9, <1>10, <1>11 DEF RawInv, Pending, AllAnswers, NoneIsSkipped

LEMMA SniffEndsKept ==
  ASSUME RawInv, SniffEnds
  PROVE  RawInv'
<1> DEFINE ps == result'.packets
<1>1. /\ doing = "sniff" /\ doing' = "idle" /\ capture = <<>> /\ capture' = capture /\ found' = <<>>
      /\ layer' = layer /\ socket' = socket /\ packets' = packets /\ request' = request
      /\ result'.did = "returned" /\ ps = IF request.mode = "one" /\ found # <<>> THEN <<found[1]>> ELSE found
      /\ inTime' = inTime /\ asked' = asked /\ owed' = owed
  BY DEF SniffEnds, Return, Did, net, kernel
<1>2. found \in Seq(Packet) /\ Rising(found) /\ UpTo(found, packets) /\ Pending(found) /\ AllAnswers(found)
      /\ packets \in Nat /\ NoneIsSkipped /\ request.kind \in Kinds
  BY <1>1, Sequences DEF RawInv, RawOrder, RawTypes
<1>3. ps \in Seq(Packet) /\ (\A i \in DOMAIN ps : \E j \in DOMAIN found : ps[i] = found[j])
      /\ Rising(ps) /\ UpTo(ps, packets)
  <2>1. CASE ps = found
    BY <2>1, <1>2
  <2>2. CASE found # <<>> /\ ps = <<found[1]>>
    <3>1. found[1] \in Packet /\ 1 \in DOMAIN found
      BY <1>2, <2>2, TailOf
    <3>2. DOMAIN <<found[1]>> = {1} /\ <<found[1]>>[1] = found[1]
      OBVIOUS
    <3>3. found[1].n <= packets
      BY <1>2, <3>1 DEF UpTo
    <3>4. Rising(<<found[1]>>) /\ UpTo(<<found[1]>>, packets) /\ <<found[1]>> \in Seq(Packet)
      BY <3>1, <3>3, EmptyRises, OneRises
    <3> QED
      BY <2>2, <3>1, <3>2, <3>4
  <2> QED
    BY <1>1, <2>1, <2>2
<1>4. RawTypes'
  BY <1>1, <1>3, EmptyRises DEF RawInv, RawTypes, RawTypeOK
<1>5. RawOrder'
  BY <1>1, <1>3, EmptyRises DEF RawOrder
<1>6. AllAnswers(result.packets)'
  BY <1>1, <1>2, <1>3 DEF AllAnswers
<1>7. InTimeIsReturned'
  <2>1. \A k \in inTime : \E i \in DOMAIN found : found[i].n = k
    BY <1>1, <1>2 DEF NoneIsSkipped
  <2>2. CASE request.mode = "all"
    <3>1. ps = found
      BY <1>1, <2>2
    <3> QED
      BY <1>1, <2>1, <2>2, <3>1 DEF InTimeIsReturned, Returned
  <2>3. CASE request.mode # "all"
    <3>1. ASSUME inTime # {} PROVE ps = <<found[1]>>
      <4>1. found # <<>>
        BY <2>1, <3>1
      <4>2. request.mode = "one"
        BY <2>3 DEF RawInv, RawTypes, RawTypeOK, Modes
      <4> QED
        BY <4>1, <4>2, <1>1
    <3>2. DOMAIN <<found[1]>> = {1}
      OBVIOUS
    <3>3. inTime # {} => 1 \in DOMAIN ps
      BY <3>1, <3>2
    <3> QED
      BY <1>1, <2>3, <3>3 DEF InTimeIsReturned, Returned
  <2> QED
    BY <2>2, <2>3
<1>8. StaleOnlyWhenLate'
  <2> SUFFICES ASSUME NEW i \in DOMAIN ps, ps[i].of # request.n, ps[i].during = ps[i].of
               PROVE  layer = 2 /\ asked[ps[i].of].mode = "one"
    BY <1>1 DEF StaleOnlyWhenLate
  <2>1. PICK j \in DOMAIN found : ps[i] = found[j]
    BY <1>3
  <2>2. ps[i].kind = request.kind
    BY <1>2, <2>1 DEF AllAnswers
  <2>3. ps[i].of # 0
    BY <1>2, <2>1, <2>2, KindsAssumption DEF Pending
  <2> QED
    BY <1>2, <2>1, <2>3 DEF Pending
<1> QED
  BY <1>1, <1>4, <1>5, <1>6, <1>7, <1>8 DEF RawInv, Pending, AllAnswers, NoneIsSkipped

LEMMA ReceiveKept ==
  ASSUME RawInv, Receive
  PROVE  RawInv'
<1> DEFINE p == Head(capture)
<1>1. /\ doing = "idle" /\ doing' = "idle" /\ capture # <<>> /\ capture' = Tail(capture)
      /\ layer' = layer /\ socket' = socket /\ packets' = packets /\ request' = request /\ found' = found
      /\ result'.did = "received" /\ result'.packets = <<p>>
      /\ inTime' = inTime /\ asked' = asked /\ owed' = owed
  BY DEF Receive, Did, net
<1>2. p \in Packet /\ p.n <= packets /\ (\A i \in DOMAIN Tail(capture) : p.n < Tail(capture)[i].n)
      /\ Pending(Tail(capture))
  BY <1>1, Taken
<1>3. Rising(<<p>>) /\ UpTo(<<p>>, packets) /\ Older(<<p>>, Tail(capture)) /\ <<p>> \in Seq(Packet)
  BY <1>2, OneRises
<1>4. found = <<>>
  BY <1>1 DEF RawInv, RawTypes
<1>5. RawTypes'
  BY <1>1, <1>3, Taken DEF RawInv, RawTypes, RawTypeOK
<1>6. RawOrder'
  BY <1>1, <1>3, <1>4, Taken, EmptyRises DEF RawOrder
<1>7. Pending(capture)'
  BY <1>1, <1>2 DEF Pending
<1> QED
  BY <1>1, <1>4, <1>5, <1>6, <1>7 DEF RawInv, Pending, AllAnswers, NoneIsSkipped, InTimeIsReturned, StaleOnlyWhenLate


(* Nothing of the socket changes.                                           *)
LEMMA SocketStays ==
  ASSUME RawInv,
         layer' = layer, socket' = socket, capture' = capture, packets' = packets,
         doing' = doing, request' = request, found' = found, result' = result,
         inTime' = inTime, asked' = asked, owed' \in Seq(0..Answerers), Len(owed') = Len(owed)
  PROVE  RawInv'
<1>1. RawTypes'
  BY DEF RawInv, RawTypes, RawTypeOK
<1>2. RawOrder'
  BY DEF RawInv, RawOrder
<1>3. Pending(capture)' /\ Pending(found)'
  BY DEF RawInv, Pending
<1>4. AllAnswers(found)' /\ AllAnswers(result.packets)' = AllAnswers(result.packets)
  BY DEF RawInv, AllAnswers
<1>5. NoneIsSkipped'
  BY DEF RawInv, NoneIsSkipped
<1>6. InTimeIsReturned' /\ StaleOnlyWhenLate'
  BY DEF RawInv, InTimeIsReturned, Returned, StaleOnlyWhenLate
<1> QED
  BY <1>1, <1>2, <1>3, <1>4, <1>5, <1>6 DEF RawInv

(* A packet comes, and is captured or lost.                                 *)
LEMMA ArrivesKept ==
  ASSUME RawInv, NEW n \in 0..Len(asked), NEW k \in Kinds \cup {Other},
         n = 0 => k = Other, n # 0 => k = asked[n].kind,
         Arrives(k, n), asked' = asked, owed' \in Seq(0..Answerers), Len(owed') = Len(owed)
  PROVE  RawInv'
<1> DEFINE p == [n |-> packets + 1, kind |-> k, of |-> n, during |-> During]
<1>1. /\ layer' = layer /\ socket' = socket /\ doing' = doing /\ request' = request
      /\ found' = found /\ result' = result /\ packets < MaxPackets
  BY DEF Arrives
<1>2. \/ /\ socket = "open" /\ Len(capture) < Capacity
         /\ packets' = packets + 1 /\ capture' = Append(capture, p)
         /\ inTime' = IF n # 0 /\ During = n THEN inTime \cup {packets + 1} ELSE inTime
      \/ packets' = packets /\ capture' = capture /\ inTime' = inTime
  BY DEF Arrives, kernel
<1>3. capture \in Seq(Packet) /\ found \in Seq(Packet) /\ result.packets \in Seq(Packet) /\ packets \in Nat
      /\ Len(asked) \in Nat /\ request.n \in 0..Len(asked)
  BY Sequences DEF RawInv, RawTypes, RawTypeOK
<1>4. During = (IF doing = "sniff" THEN request.n ELSE 0) /\ During \in Nat
  BY <1>3 DEF During
<1>5. p \in Packet
  BY <1>3, <1>4 DEF Packet
<1>6. CASE packets' = packets /\ capture' = capture /\ inTime' = inTime
  BY <1>1, <1>6, SocketStays
<1>7. CASE /\ socket = "open" /\ Len(capture) < Capacity
           /\ packets' = packets + 1 /\ capture' = Append(capture, p)
           /\ inTime' = IF n # 0 /\ During = n THEN inTime \cup {packets + 1} ELSE inTime
  <2>1. /\ capture' \in Seq(Packet) /\ Len(capture') = Len(capture) + 1 /\ Len(capture) \in Nat
        /\ DOMAIN capture = 1..Len(capture) /\ DOMAIN capture' = 1..(Len(capture) + 1)
        /\ \A i \in DOMAIN capture : capture'[i] = capture[i]
        /\ capture'[Len(capture) + 1] = p
    BY <1>3, <1>5, <1>7, AppendOf
  <2>2. \A i \in DOMAIN capture' : i \in DOMAIN capture \/ i = Len(capture) + 1
    BY <2>1
  <2>3. packets' \in 0..MaxPackets /\ packets' \in Nat
    BY <1>1, <1>3, <1>7, RawBoundAssumption
  <2>4. inTime' \subseteq 1..packets'
    <3>1. inTime \subseteq 1..packets
      BY DEF RawInv, RawTypes, RawTypeOK
    <3> QED
      BY <3>1, <1>3, <1>7
  <2>5. Len(capture') <= Capacity
    BY <1>7, <2>1, CapacityAssumption
  <2>6. RawTypes'
    BY <1>1, <1>7, <2>1, <2>3, <2>4, <2>5 DEF RawInv, RawTypes, RawTypeOK
  <2>7. ASSUME NEW s \in Seq(Packet), UpTo(s, packets)
        PROVE  UpTo(s, packets') /\ \A i \in DOMAIN s : s[i].n < p.n
    <3>1. \A i \in DOMAIN s : s[i] \in Packet
      BY LenProperties
    <3>2. \A i \in DOMAIN s : s[i].n \in Nat
      BY <3>1 DEF Packet
    <3>3. packets \in Nat /\ packets' = packets + 1 /\ p.n = packets + 1
      BY <1>3, <1>7, <2>3
    <3>4. \A i \in DOMAIN s : s[i].n <= packets
      BY <2>7 DEF UpTo
    <3>5. \A i \in DOMAIN s : s[i].n <= packets' /\ s[i].n < p.n
      BY <3>2, <3>3, <3>4
    <3> QED
      BY <3>5 DEF UpTo
  <2>8. RawOrder'
    <3>1. /\ Rising(capture) /\ UpTo(capture, packets)
          /\ Rising(found) /\ UpTo(found, packets) /\ Older(found, capture)
          /\ Rising(result.packets) /\ UpTo(result.packets, packets) /\ Older(result.packets, capture)
      BY DEF RawInv, RawOrder
    <3>2. Rising(capture') /\ UpTo(capture', packets')
      <4>1. Rising(Append(capture, p))
        BY <1>3, <1>5, <2>7, <3>1, AppendRises
      <4>2. p.n <= packets'
        BY <1>7, <2>3
      <4>3. UpTo(Append(capture, p), packets')
        BY <1>3, <1>5, <2>3, <2>7, <3>1, <4>2, UpToAppend
      <4> QED
        BY <1>7, <4>1, <4>3
    <3>3. Older(found, Append(capture, p)) /\ UpTo(found, packets')
      BY <1>3, <1>5, <2>7, <3>1, OlderThanAppend
    <3>4. Older(result.packets, Append(capture, p)) /\ UpTo(result.packets, packets')
      BY <1>3, <1>5, <2>7, <3>1, OlderThanAppend
    <3> QED
      BY <1>1, <1>7, <3>1, <3>2, <3>3, <3>4 DEF RawOrder
  <2>9. Pending(capture)'
    <3>1. Pending(capture)
      BY DEF RawInv
    <3>2. ASSUME NEW i \in DOMAIN capture'
          PROVE  LET q == capture'[i] IN
                   /\ q.of \in 0..Len(asked)
                   /\ q.of = 0 => q.kind = Other
                   /\ (q.of # 0 /\ q.during = q.of) =>
                        (doing = "sniff" /\ q.of = request.n) \/ (layer = 2 /\ asked[q.of].mode = "one")
      <4>1. CASE i \in DOMAIN capture
        BY <2>1, <3>1, <4>1 DEF Pending
      <4>2. CASE capture'[i] = p
        BY <1>4, <4>2
      <4> QED
        BY <2>1, <2>2, <4>1, <4>2
    <3> QED
      BY <1>1, <3>2 DEF Pending
  <2>10. Pending(found)' /\ AllAnswers(found)'
    BY <1>1 DEF RawInv, Pending, AllAnswers
  <2>11. NoneIsSkipped'
    <3> SUFFICES ASSUME doing = "sniff", NEW m \in inTime'
                 PROVE  \/ \E i \in DOMAIN found : found[i].n = m
                        \/ \E i \in DOMAIN capture' : capture'[i].n = m /\ capture'[i].kind = request.kind
      BY <1>1 DEF NoneIsSkipped
    <3>1. CASE m \in inTime
      <4>1. \/ \E i \in DOMAIN found : found[i].n = m
            \/ \E i \in DOMAIN capture : capture[i].n = m /\ capture[i].kind = request.kind
        BY <3>1 DEF RawInv, NoneIsSkipped
      <4>2. \A i \in DOMAIN capture : i \in DOMAIN capture' /\ capture'[i] = capture[i]
        BY <2>1
      <4> QED
        BY <4>1, <4>2
    <3>2. CASE m \notin inTime
      <4>1. m = packets + 1 /\ n # 0 /\ request.n = n
        BY <3>2, <1>4, <1>7
      <4>2. k = request.kind
        BY <4>1 DEF RawInv, RawTypes
      <4>3. Len(capture) + 1 \in DOMAIN capture' /\ capture'[Len(capture) + 1] = p
        BY <2>1
      <4>4. p.n = m /\ p.kind = request.kind
        BY <4>1, <4>2
      <4> QED
        BY <4>3, <4>4
    <3> QED
      BY <3>1, <3>2
  <2>12. InTimeIsReturned' /\ StaleOnlyWhenLate'
    <3>1. result.did = "returned" => doing # "sniff"
      BY DEF RawInv, RawTypes
    <3>2. result.did = "returned" => inTime' = inTime
      BY <1>4, <1>7, <3>1
    <3> QED
      BY <1>1, <3>2 DEF RawInv, InTimeIsReturned, Returned, StaleOnlyWhenLate
  <2> QED
    BY <1>1, <2>6, <2>8, <2>9, <2>10, <2>11, <2>12 DEF RawInv, AllAnswers
<1> QED
  BY <1>2, <1>6, <1>7

LEMMA SocketStepKept ==
  ASSUME RawInv, SocketStep \/ OpenRaw \/ UNCHANGED rawVars
  PROVE  RawInv'
<1>1. CASE OpenRaw \/ OpenRawRaises \/ CloseRaw \/ AskRaises
  BY <1>1, ResetKept
<1>2. CASE \E k \in Kinds, m \in Modes : Ask(k, m) \/ AskUnsent(k, m)
  BY <1>2, AskKept
<1>3. CASE Search \/ FindFirst \/ SniffEnds \/ Receive
  BY <1>3, SearchKept, FindFirstKept, SniffEndsKept, ReceiveKept
<1>4. asked \in Seq([kind : Kinds, mode : Modes]) /\ owed \in Seq(0..Answerers)
      /\ Len(owed) = Len(asked) /\ Len(asked) \in Nat
  BY Sequences DEF RawInv, RawTypes, RawTypeOK
<1>5. ASSUME NEW n \in DOMAIN asked, AnswerArrives(n) PROVE RawInv'
  <2>1. n \in 1..Len(asked) /\ n # 0 /\ n \in 0..Len(asked)
    BY <1>4, <1>5, LenProperties
  <2>5. asked[n] \in [kind : Kinds, mode : Modes] /\ owed[n] \in 0..Answerers
    BY <1>4, <2>1, ElementOfSeq
  <2>2. owed[n] - 1 \in 0..Answerers
    BY <1>5, <2>5, CapacityAssumption DEF AnswerArrives
  <2>3. owed' \in Seq(0..Answerers) /\ Len(owed') = Len(owed)
    BY <1>4, <1>5, <2>1, <2>2, ExceptSeq DEF AnswerArrives
  <2>4. Arrives(asked[n].kind, n) /\ asked' = asked
    BY <1>5 DEF AnswerArrives
  <2> QED
    BY <1>4, <2>1, <2>3, <2>4, <2>5, ArrivesKept
<1>6. CASE OtherArrives
  <2>1. Arrives(Other, 0) /\ asked' = asked /\ owed' = owed
    BY <1>6 DEF OtherArrives, net
  <2> QED
    BY <2>1, <1>4, ArrivesKept
<1>7. CASE UNCHANGED rawVars
  <2>1. /\ layer' = layer /\ socket' = socket /\ capture' = capture /\ packets' = packets
        /\ doing' = doing /\ request' = request /\ found' = found /\ result' = result
        /\ inTime' = inTime /\ asked' = asked /\ owed' = owed
    BY <1>7 DEF rawVars, kernel, call, net
  <2> QED
    BY <2>1, <1>4, SocketStays
<1> QED
  BY <1>1, <1>2, <1>3, <1>5, <1>6, <1>7 DEF SocketStep


-----------------------------------------------------------------------------
(* The connections.                                                         *)

(* The numbers of activation requests rise, and are all lower than those of *)
(* another sequence.                                                        *)
Ascending(s) == \A i, j \in DOMAIN s : i < j => s[i] < s[j]
Before(s, t) == \A i \in DOMAIN s, j \in DOMAIN t : s[i] < t[j]

ConnType == [fd : {"open", "closed"}, peer : {"up", "down", "reset"},
             toPeer : Seq(DOMAIN sentOn), stream : Seq(DOMAIN sentOn)]

(* These requests were sent over connection c and have not had their answer *)
(* themselves.                                                              *)
Awaited(s, c) == \A i \in DOMAIN s : sentOn[s[i]] = c /\ answers[s[i]] # s[i]

(* What is on a connection is in order and about requests over it.          *)
Flow(conn, c) ==
  /\ conn \in ConnType
  /\ Ascending(conn.stream) /\ Ascending(conn.toPeer) /\ Before(conn.stream, conn.toPeer)
  /\ Awaited(conn.stream, c) /\ Awaited(conn.toPeer, c)

CacheTypes ==
  /\ cache \in Seq([pair : Pairs, conn : DOMAIN conns])
  /\ \A i, j \in DOMAIN cache : cache[i].pair = cache[j].pair => i = j

ConnsFlow == conns \in Seq(ConnType) /\ \A c \in DOMAIN conns : Flow(conns[c], c)

(* The activation under way waits for an answer to the last request.        *)
ActivationTypes ==
  /\ stage \in {"none", "send", "read"}
  /\ IF stage = "none" THEN busy = 0 ELSE \E i \in DOMAIN cache : cache[i].conn = busy
  /\ sentOn \in Seq(DOMAIN conns) /\ answers \in Seq(Nat) /\ Len(answers) = Len(sentOn)
  /\ stage = "read" => /\ Len(sentOn) # 0
                       /\ sentOn[Len(sentOn)] = busy /\ answers[Len(sentOn)] = 0

Results == losses \in 0..MaxLosses /\ outcome \in {"nothing", "raised", "True"}

ConnInv ==
  /\ CacheTypes /\ ConnsFlow /\ ActivationTypes /\ Results
  /\ NoConnectionIsLost /\ TeardownClosesAll /\ ActivationIsOwn

UtilsIInv == RawInv /\ ConnInv


(* The numbers of requests that are left when the first is taken.           *)
LEMMA TailAscends ==
  ASSUME NEW S, NEW s \in Seq(S), s # <<>>, Ascending(s)
  PROVE  /\ Tail(s) \in Seq(S) /\ Head(s) \in S /\ 1 \in DOMAIN s /\ Head(s) = s[1]
         /\ Ascending(Tail(s))
         /\ \A i \in DOMAIN Tail(s) : Head(s) < Tail(s)[i] /\ \E j \in DOMAIN s : Tail(s)[i] = s[j]
<1>1. \A i \in DOMAIN Tail(s) : i \in Nat \ {0} /\ i + 1 \in DOMAIN s /\ Tail(s)[i] = s[i + 1]
  BY TailOf
<1>2. /\ Tail(s) \in Seq(S) /\ Head(s) \in S /\ 1 \in DOMAIN s /\ Head(s) = s[1]
  BY TailOf
<1>3. Ascending(Tail(s))
  BY <1>1 DEF Ascending
<1>4. \A i \in DOMAIN Tail(s) : s[1] < s[i + 1]
  BY <1>1, <1>2 DEF Ascending
<1> QED
  BY <1>1, <1>2, <1>3, <1>4

(* What may still change on a connection keeps it in order.                 *)

LEMMA ConnFields ==
  ASSUME NEW conn \in ConnType
  PROVE  conn.fd \in {"open", "closed"} /\ conn.peer \in {"up", "down", "reset"}
         /\ conn.toPeer \in Seq(DOMAIN sentOn) /\ conn.stream \in Seq(DOMAIN sentOn)
BY DEF ConnType

LEMMA NewConnFlows ==
  ASSUME NEW c
  PROVE  Flow(NewConn, c)
<1>1. NewConn \in ConnType
  BY EmptySeq DEF NewConn, ConnType
<1> QED
  BY <1>1 DEF NewConn, Flow, Ascending, Before, Awaited

(* The connection is closed, or its gateway leaves.                         *)
LEMMA EmptiedFlows ==
  ASSUME NEW c, NEW conn, NEW new, Flow(conn, c),
         new \in [fd : {"open", "closed"}, peer : {"up", "down", "reset"},
                  toPeer : {conn.toPeer, <<>>}, stream : {conn.stream, <<>>}]
  PROVE  Flow(new, c)
<1>1. new \in ConnType
  BY ConnFields, EmptySeq DEF Flow, ConnType
<1>2. new.toPeer \in {conn.toPeer, <<>>} /\ new.stream \in {conn.stream, <<>>}
  OBVIOUS
<1> QED
  BY <1>1, <1>2 DEF Flow, Ascending, Before, Awaited

(* The oldest answer is read.                                               *)
LEMMA ReadFlows ==
  ASSUME sentOn \in Seq(DOMAIN conns), NEW c, NEW conn, Flow(conn, c), conn.stream # <<>>
  PROVE  /\ Flow([conn EXCEPT !.stream = Tail(@)], c)
         /\ Head(conn.stream) \in DOMAIN sentOn
         /\ sentOn[Head(conn.stream)] = c /\ answers[Head(conn.stream)] # Head(conn.stream)
         /\ \A i \in DOMAIN Tail(conn.stream) : Head(conn.stream) < Tail(conn.stream)[i]
         /\ \A i \in DOMAIN conn.toPeer : Head(conn.stream) < conn.toPeer[i]
<1> DEFINE s == conn.stream
           new == [conn EXCEPT !.stream = Tail(s)]
<1>1. conn \in ConnType /\ s \in Seq(DOMAIN sentOn)
  BY ConnFields DEF Flow
<1>2. /\ Tail(s) \in Seq(DOMAIN sentOn) /\ Head(s) \in DOMAIN sentOn /\ Head(s) = s[1] /\ 1 \in DOMAIN s
      /\ Ascending(Tail(s))
      /\ \A i \in DOMAIN Tail(s) : Head(s) < Tail(s)[i] /\ \E j \in DOMAIN s : Tail(s)[i] = s[j]
  <2>1. s \in Seq(DOMAIN sentOn) /\ s # <<>> /\ Ascending(s)
    BY <1>1 DEF Flow
  <2> HIDE DEF s
  <2> QED
    BY <2>1, TailAscends
<1>3. new \in ConnType /\ new.stream = Tail(s) /\ new.toPeer = conn.toPeer
  BY <1>1, <1>2 DEF ConnType
<1>5. Before(Tail(s), conn.toPeer) /\ \A i \in DOMAIN conn.toPeer : Head(s) < conn.toPeer[i]
  BY <1>2 DEF Flow, Before
<1>6. Awaited(Tail(s), c) /\ sentOn[Head(s)] = c /\ answers[Head(s)] # Head(s)
  BY <1>2 DEF Flow, Awaited
<1> QED
  BY <1>2, <1>3, <1>5, <1>6 DEF Flow

(* The gateway answers the oldest request.                                  *)
LEMMA AnsweredFlows ==
  ASSUME NEW c, NEW conn, Flow(conn, c), conn.toPeer # <<>>
  PROVE  Flow([conn EXCEPT !.toPeer = Tail(@), !.stream = Append(@, Head(conn.toPeer))], c)
<1> DEFINE s == conn.stream
           t == conn.toPeer
           k == Head(t)
           new == [conn EXCEPT !.toPeer = Tail(t), !.stream = Append(s, k)]
<1>1. conn \in ConnType /\ s \in Seq(DOMAIN sentOn) /\ t \in Seq(DOMAIN sentOn)
      /\ Ascending(s) /\ Ascending(t) /\ Before(s, t) /\ Awaited(s, c) /\ Awaited(t, c)
  BY ConnFields DEF Flow
<1>2. /\ Tail(t) \in Seq(DOMAIN sentOn) /\ k \in DOMAIN sentOn /\ k = t[1] /\ 1 \in DOMAIN t
      /\ Ascending(Tail(t))
      /\ \A i \in DOMAIN Tail(t) : k < Tail(t)[i] /\ \E j \in DOMAIN t : Tail(t)[i] = t[j]
  <2>1. t \in Seq(DOMAIN sentOn) /\ t # <<>> /\ Ascending(t)
    BY <1>1
  <2> HIDE DEF t
  <2> QED
    BY <2>1, TailAscends
<1>3. /\ Append(s, k) \in Seq(DOMAIN sentOn) /\ Len(s) \in Nat
      /\ DOMAIN s = 1..Len(s) /\ DOMAIN Append(s, k) = 1..(Len(s) + 1)
      /\ \A i \in DOMAIN s : Append(s, k)[i] = s[i]
      /\ Append(s, k)[Len(s) + 1] = k
  BY <1>1, <1>2, AppendOf
<1>4. \A i \in DOMAIN Append(s, k) : i \in DOMAIN s \/ i = Len(s) + 1
  BY <1>3
<1>5. new \in ConnType /\ new.stream = Append(s, k) /\ new.toPeer = Tail(t)
  BY <1>1, <1>2, <1>3 DEF ConnType
<1>6. \A i \in DOMAIN s : s[i] < k
  BY <1>1, <1>2 DEF Before
<1>7. Ascending(Append(s, k))
  <2> SUFFICES ASSUME NEW i \in DOMAIN Append(s, k), NEW j \in DOMAIN Append(s, k), i < j
               PROVE  Append(s, k)[i] < Append(s, k)[j]
    BY DEF Ascending
  <2>1. i \in DOMAIN s
    BY <1>3
  <2>2. CASE j \in DOMAIN s
    BY <2>1, <2>2, <1>1, <1>3 DEF Ascending
  <2>3. CASE j = Len(s) + 1
    BY <2>1, <2>3, <1>3, <1>6
  <2> QED
    BY <1>4, <2>2, <2>3
<1>9. Before(Append(s, k), Tail(t))
  <2>1. \A i \in DOMAIN s, j \in DOMAIN Tail(t) : s[i] < Tail(t)[j]
    BY <1>1, <1>2 DEF Before
  <2> QED
    BY <2>1, <1>2, <1>3, <1>4 DEF Before
<1>10. Awaited(Tail(t), c) /\ sentOn[k] = c /\ answers[k] # k
  BY <1>1, <1>2 DEF Awaited
<1>11. Awaited(Append(s, k), c)
  BY <1>1, <1>3, <1>4, <1>10 DEF Awaited
<1> QED
  BY <1>2, <1>5, <1>7, <1>9, <1>10, <1>11 DEF Flow


(* The connections before a step.                                           *)
LEMMA ConnFacts ==
  ASSUME ConnInv
  PROVE  /\ conns \in Seq(ConnType) /\ Len(conns) \in Nat /\ DOMAIN conns = 1..Len(conns)
         /\ sentOn \in Seq(DOMAIN conns) /\ Len(sentOn) \in Nat /\ DOMAIN sentOn = 1..Len(sentOn)
         /\ answers \in Seq(Nat) /\ Len(answers) = Len(sentOn) /\ DOMAIN answers = 1..Len(sentOn)
         /\ cache \in Seq([pair : Pairs, conn : DOMAIN conns]) /\ Len(cache) \in Nat /\ DOMAIN cache = 1..Len(cache)
         /\ \A i \in DOMAIN cache : cache[i].pair \in Pairs /\ cache[i].conn \in DOMAIN conns
         /\ \A c \in DOMAIN conns : Flow(conns[c], c) /\ conns[c] \in ConnType
         /\ stage # "none" => busy \in DOMAIN conns
<1>1. /\ conns \in Seq(ConnType) /\ sentOn \in Seq(DOMAIN conns) /\ answers \in Seq(Nat)
      /\ cache \in Seq([pair : Pairs, conn : DOMAIN conns]) /\ Len(answers) = Len(sentOn)
      /\ \A c \in DOMAIN conns : Flow(conns[c], c) /\ conns[c] \in ConnType
  BY DEF ConnInv, CacheTypes, ConnsFlow, ActivationTypes, Flow
<1>2. Len(conns) \in Nat /\ DOMAIN conns = 1..Len(conns)
  BY <1>1, LenProperties
<1>3. Len(sentOn) \in Nat /\ DOMAIN sentOn = 1..Len(sentOn) /\ DOMAIN answers = 1..Len(answers)
  BY <1>1, LenProperties
<1>4. Len(cache) \in Nat /\ DOMAIN cache = 1..Len(cache)
      /\ cache \in [1..Len(cache) -> [pair : Pairs, conn : DOMAIN conns]]
  BY <1>1, LenProperties
<1>5. \A i \in DOMAIN cache : cache[i] \in [pair : Pairs, conn : DOMAIN conns]
  BY <1>4
<1>6. \A i \in DOMAIN cache : cache[i].pair \in Pairs /\ cache[i].conn \in DOMAIN conns
  BY <1>5
<1>7. stage # "none" => \E i \in DOMAIN cache : cache[i].conn = busy
  BY DEF ConnInv, ActivationTypes
<1> QED
  BY <1>1, <1>2, <1>3, <1>4, <1>6, <1>7

(* Connections change, and are not opened, while the cache and what was     *)
(* sent and answered stay.                                                  *)
LEMMA ConnsStep ==
  ASSUME ConnInv, cache' = cache, sentOn' = sentOn, answers' = answers,
         conns' \in Seq(ConnType), Len(conns') = Len(conns),
         \A c \in DOMAIN conns : Flow(conns'[c], c) /\ (conns'[c].fd = "open" => conns[c].fd = "open"),
         losses' \in 0..MaxLosses,
         outcome' \in {"nothing", "raised", "True"},
         outcome' = "True" => outcome = "True" \/ \A c \in DOMAIN conns : conns'[c].fd = "closed",
         \/ stage' = stage /\ busy' = busy
         \/ stage' = "none" /\ busy' = 0
         \/ stage' = "send" /\ \E i \in DOMAIN cache : cache[i].conn = busy'
  PROVE  ConnInv'
<1>1. DOMAIN conns' = DOMAIN conns
  BY ConnFacts, LenProperties
<1>2. CacheTypes'
  BY <1>1 DEF ConnInv, CacheTypes
<1>4. ConnsFlow'
  BY <1>1 DEF ConnsFlow, Flow, ConnType, Awaited
<1>5. ActivationTypes'
  BY <1>1 DEF ConnInv, ActivationTypes
<1>6. NoConnectionIsLost'
  BY <1>1 DEF ConnInv, NoConnectionIsLost
<1>7. TeardownClosesAll'
  <2>1. \A c \in DOMAIN conns : conns'[c].fd \in {"open", "closed"} /\ conns[c].fd \in {"open", "closed"}
    BY ConnFacts DEF Flow, ConnType
  <2> QED
    BY <2>1, <1>1 DEF ConnInv, TeardownClosesAll
<1>8. ActivationIsOwn'
  BY DEF ConnInv, ActivationIsOwn
<1> QED
  BY <1>2, <1>4, <1>5, <1>6, <1>7, <1>8 DEF ConnInv, Results


(* A connection is closed.                                                  *)
LEMMA ClosedFlows ==
  ASSUME NEW c, NEW conn, Flow(conn, c)
  PROVE  Flow(Closed(conn), c) /\ Closed(conn) \in ConnType /\ Closed(conn).fd = "closed"
<1>1. conn \in ConnType
  BY DEF Flow
<1>2. Closed(conn) \in [fd : {"open", "closed"}, peer : {"up", "down", "reset"},
                        toPeer : {conn.toPeer, <<>>}, stream : {conn.stream, <<>>}]
      /\ Closed(conn).fd = "closed"
  BY <1>1 DEF ConnType, Closed
<1>3. Flow(Closed(conn), c)
  BY <1>2, EmptiedFlows
<1> QED
  BY <1>2, <1>3 DEF Flow

(* One connection changes.                                                  *)
LEMMA OneChanged ==
  ASSUME ConnInv, NEW c \in DOMAIN conns, NEW new, Flow(new, c), new.fd = "open" => conns[c].fd = "open"
  PROVE  /\ [conns EXCEPT ![c] = new] \in Seq(ConnType)
         /\ Len([conns EXCEPT ![c] = new]) = Len(conns)
         /\ [conns EXCEPT ![c] = new][c] = new
         /\ \A d \in DOMAIN conns : /\ d # c => [conns EXCEPT ![c] = new][d] = conns[d]
                                    /\ Flow([conns EXCEPT ![c] = new][d], d)
                                    /\ [conns EXCEPT ![c] = new][d].fd = "open" => conns[d].fd = "open"
<1>1. new \in ConnType
  BY DEF Flow
<1>2. conns \in Seq(ConnType) /\ DOMAIN conns = 1..Len(conns) /\ \A d \in DOMAIN conns : Flow(conns[d], d)
  BY ConnFacts
<1>3. /\ [conns EXCEPT ![c] = new] \in Seq(ConnType)
      /\ Len([conns EXCEPT ![c] = new]) = Len(conns)
  BY <1>1, <1>2, ExceptSeq
<1>4. /\ [conns EXCEPT ![c] = new][c] = new
      /\ \A d \in DOMAIN conns : d # c => [conns EXCEPT ![c] = new][d] = conns[d]
  OBVIOUS
<1> QED
  BY <1>2, <1>3, <1>4

LEMMA IndexOfPair ==
  ASSUME ConnInv, NEW p \in Pairs, IsCached(p)
  PROVE  IndexOf(p) \in DOMAIN cache /\ cache[IndexOf(p)].pair = p /\ Cached(p) \in DOMAIN conns
         /\ Cached(p) = cache[IndexOf(p)].conn
<1>1. IndexOf(p) \in DOMAIN cache /\ cache[IndexOf(p)].pair = p
  BY DEF IsCached, IndexOf
<1> QED
  BY <1>1, ConnFacts DEF Cached

LEMMA CloseOldOf ==
  ASSUME ConnInv, NEW p \in Pairs
  PROVE  /\ CloseOld(p) \in Seq(ConnType) /\ Len(CloseOld(p)) = Len(conns)
         /\ IsCached(p) => CloseOld(p)[Cached(p)].fd = "closed"
         /\ \A d \in DOMAIN conns : /\ Flow(CloseOld(p)[d], d)
                                    /\ CloseOld(p)[d].fd = "open" => conns[d].fd = "open"
<1>1. CASE IsCached(p)
  <2> DEFINE c == Cached(p)
             new == Closed(conns[c])
  <2>1. c \in DOMAIN conns
    BY <1>1, IndexOfPair
  <2>2. Flow(new, c) /\ new.fd = "closed"
    BY <2>1, ConnFacts, ClosedFlows
  <2>3. CloseOld(p) = [conns EXCEPT ![c] = new]
    BY <1>1 DEF CloseOld
  <2> HIDE DEF c, new
  <2>4. new.fd = "open" => conns[c].fd = "open"
    BY <2>2
  <2>5. /\ CloseOld(p) \in Seq(ConnType) /\ Len(CloseOld(p)) = Len(conns) /\ CloseOld(p)[c] = new
        /\ \A d \in DOMAIN conns : /\ Flow(CloseOld(p)[d], d)
                                   /\ CloseOld(p)[d].fd = "open" => conns[d].fd = "open"
    BY <2>1, <2>2, <2>3, <2>4, OneChanged
  <2> QED
    BY <2>2, <2>5 DEF c
<1>2. CASE ~IsCached(p)
  BY <1>2, ConnFacts DEF CloseOld
<1> QED
  BY <1>1, <1>2

LEMMA CloseFirstOf ==
  ASSUME ConnInv, NEW n \in 0..Len(cache)
  PROVE  /\ CloseFirst(n) \in Seq(ConnType) /\ Len(CloseFirst(n)) = Len(conns)
         /\ \A d \in DOMAIN conns : /\ Flow(CloseFirst(n)[d], d)
                                    /\ CloseFirst(n)[d].fd = "open" => conns[d].fd = "open"
         /\ \A i \in 1..n : CloseFirst(n)[cache[i].conn].fd = "closed"
<1> DEFINE closing == {cache[i].conn : i \in 1..n}
<1>1. DOMAIN conns = 1..Len(conns) /\ Len(conns) \in Nat /\ \A d \in DOMAIN conns : Flow(conns[d], d) /\ conns[d] \in ConnType
  BY ConnFacts
<1>2. CloseFirst(n) = [d \in 1..Len(conns) |-> IF d \in closing THEN Closed(conns[d]) ELSE conns[d]]
  BY <1>1 DEF CloseFirst
<1>3. ASSUME NEW d \in DOMAIN conns
      PROVE  /\ Flow(CloseFirst(n)[d], d) /\ CloseFirst(n)[d] \in ConnType
             /\ CloseFirst(n)[d].fd = "open" => conns[d].fd = "open"
             /\ d \in closing => CloseFirst(n)[d].fd = "closed"
  <2>1. CloseFirst(n)[d] = IF d \in closing THEN Closed(conns[d]) ELSE conns[d]
    BY <1>1, <1>2
  <2>2. Flow(Closed(conns[d]), d) /\ Closed(conns[d]) \in ConnType /\ Closed(conns[d]).fd = "closed"
    BY <1>1, ClosedFlows
  <2> HIDE DEF closing
  <2> QED
    BY <1>1, <2>1, <2>2
<1>4. CloseFirst(n) \in [1..Len(conns) -> ConnType]
  BY <1>1, <1>2, <1>3
<1>5. CloseFirst(n) \in Seq(ConnType) /\ Len(CloseFirst(n)) = Len(conns)
  BY <1>1, <1>4
<1>6. \A i \in 1..n : cache[i].conn \in DOMAIN conns
  <2>1. DOMAIN cache = 1..Len(cache) /\ Len(cache) \in Nat
    BY ConnFacts
  <2>2. \A i \in 1..n : i \in DOMAIN cache
    BY <2>1
  <2> QED
    BY <2>2, ConnFacts
<1> QED
  BY <1>3, <1>5, <1>6


-----------------------------------------------------------------------------
(* The actions on connections.                                              *)

(* The connections stay as they are.                                        *)
LEMMA ConnsStay ==
  ASSUME ConnInv, cache' = cache, sentOn' = sentOn, answers' = answers, conns' = conns, losses' = losses,
         outcome' \in {"nothing", outcome},
         \/ stage' = stage /\ busy' = busy
         \/ stage' = "none" /\ busy' = 0
         \/ stage' = "send" /\ \E i \in DOMAIN cache : cache[i].conn = busy'
  PROVE  ConnInv'
<1>1. losses' \in 0..MaxLosses /\ outcome' \in {"nothing", "raised", "True"}
  BY DEF ConnInv, Results
<1>2. conns' \in Seq(ConnType) /\ \A c \in DOMAIN conns : Flow(conns'[c], c)
  BY ConnFacts
<1>3. outcome' = "True" => outcome = "True"
  OBVIOUS
<1> QED
  BY <1>1, <1>2, <1>3, ConnsStep

LEMMA UseCachedKept ==
  ASSUME ConnInv, NEW p \in Pairs, UseCached(p)
  PROVE  ConnInv'
<1>1. /\ cache' = cache /\ sentOn' = sentOn /\ answers' = answers /\ conns' = conns /\ losses' = losses
      /\ outcome' = "nothing" /\ stage' = "send" /\ busy' = Cached(p) /\ IsCached(p)
  BY DEF UseCached, UseConn
<1>2. \E i \in DOMAIN cache : cache[i].conn = Cached(p)
  BY <1>1, IndexOfPair
<1> QED
  BY <1>1, <1>2, ConnsStay

LEMMA MakeNewRaisesKept ==
  ASSUME ConnInv, NEW p \in Pairs, MakeNewRaises(p)
  PROVE  ConnInv'
<1>1. /\ cache' = cache /\ sentOn' = sentOn /\ answers' = answers /\ conns' = CloseOld(p)
      /\ losses' = losses /\ outcome' = "raised" /\ stage' = stage /\ busy' = busy
  BY DEF MakeNewRaises, activation
<1>2. losses' \in 0..MaxLosses
  BY <1>1 DEF ConnInv, Results
<1>3. /\ CloseOld(p) \in Seq(ConnType) /\ Len(CloseOld(p)) = Len(conns)
      /\ \A d \in DOMAIN conns : Flow(CloseOld(p)[d], d) /\ (CloseOld(p)[d].fd = "open" => conns[d].fd = "open")
  BY CloseOldOf
<1> QED
  BY <1>1, <1>2, <1>3, ConnsStep

LEMMA SendFailsKept ==
  ASSUME ConnInv, SendFails
  PROVE  ConnInv'
<1> DEFINE new == Closed(conns[busy])
<1>1. /\ cache' = cache /\ sentOn' = sentOn /\ answers' = answers /\ conns' = [conns EXCEPT ![busy] = new]
      /\ losses' = losses /\ outcome' = outcome /\ stage' = "none" /\ busy' = 0 /\ busy \in DOMAIN conns
  BY ConnFacts DEF SendFails
<1>2. Flow(new, busy) /\ (new.fd = "open" => conns[busy].fd = "open")
  BY <1>1, ConnFacts, ClosedFlows
<1> HIDE DEF new
<1>3. losses' \in 0..MaxLosses /\ outcome' \in {"nothing", "raised", "True"}
  BY <1>1 DEF ConnInv, Results
<1>4. /\ conns' \in Seq(ConnType) /\ Len(conns') = Len(conns)
      /\ \A d \in DOMAIN conns : Flow(conns'[d], d) /\ (conns'[d].fd = "open" => conns[d].fd = "open")
  BY <1>1, <1>2, OneChanged
<1> QED
  BY <1>1, <1>3, <1>4, ConnsStep

LEMMA TeardownKept ==
  ASSUME ConnInv, Teardown \/ TeardownRaises
  PROVE  ConnInv'
<1>1. cache' = cache /\ sentOn' = sentOn /\ answers' = answers /\ stage' = stage /\ busy' = busy
  BY DEF Teardown, TeardownRaises, activation
<1>2. losses \in 0..MaxLosses /\ MaxLosses \in Nat
  BY UtilsBoundAssumption DEF ConnInv, Results
<1>3. DOMAIN conns = 1..Len(conns) /\ DOMAIN cache = 1..Len(cache) /\ Len(cache) \in Nat
      /\ \A i \in DOMAIN cache : cache[i].conn \in DOMAIN conns
  BY ConnFacts
<1>4. CASE Teardown /\ CloseRaises
  <2>1. conns' = conns /\ losses' = losses /\ outcome' = "raised"
    BY <1>4 DEF Teardown
  <2>2. conns' \in Seq(ConnType) /\ \A c \in DOMAIN conns : Flow(conns'[c], c)
    BY <2>1, ConnFacts
  <2> QED
    BY <1>1, <1>2, <2>1, <2>2, ConnsStep
<1>5. CASE Teardown /\ ~CloseRaises
  <2> DEFINE n == Len(cache)
  <2>1. conns' = CloseFirst(n) /\ losses' = losses /\ outcome' = "True"
    BY <1>5 DEF Teardown
  <2>2. /\ CloseFirst(n) \in Seq(ConnType) /\ Len(CloseFirst(n)) = Len(conns)
        /\ \A d \in DOMAIN conns : Flow(CloseFirst(n)[d], d) /\ (CloseFirst(n)[d].fd = "open" => conns[d].fd = "open")
        /\ \A i \in 1..n : CloseFirst(n)[cache[i].conn].fd = "closed"
    <3>1. n \in 0..Len(cache)
      BY <1>3
    <3> QED
      BY <3>1, CloseFirstOf
  <2>3. ASSUME NEW c \in DOMAIN conns PROVE CloseFirst(n)[c].fd = "closed"
    <3>1. CASE conns[c].fd = "open"
      <4>1. PICK i \in DOMAIN cache : cache[i].conn = c
        BY <3>1 DEF ConnInv, NoConnectionIsLost
      <4> QED
        BY <4>1, <1>3, <2>2
    <3>2. CASE conns[c].fd # "open"
      <4>1. CloseFirst(n)[c] \in ConnType /\ CloseFirst(n)[c].fd # "open"
        BY <2>2, <3>2 DEF Flow
      <4> QED
        BY <4>1, ConnFields
    <3> QED
      BY <3>1, <3>2
  <2> QED
    BY <1>1, <1>2, <2>1, <2>2, <2>3, ConnsStep
<1>6. CASE TeardownRaises
  <2>1. PICK i \in DOMAIN cache :
          /\ IsOpen(cache[i].conn)
          /\ conns' = [CloseFirst(i - 1) EXCEPT ![cache[i].conn].peer = "reset", ![cache[i].conn].stream = <<>>]
    BY <1>6 DEF TeardownRaises
  <2>2. losses' = losses + 1 /\ losses < MaxLosses /\ outcome' = "raised"
    BY <1>6 DEF TeardownRaises
  <2>3. losses' \in 0..MaxLosses
    BY <1>2, <2>2
  <2> DEFINE mid == CloseFirst(i - 1)
             c == cache[i].conn
             new == [mid[c] EXCEPT !.peer = "reset", !.stream = <<>>]
  <2>4. /\ mid \in Seq(ConnType) /\ Len(mid) = Len(conns)
        /\ \A d \in DOMAIN conns : Flow(mid[d], d) /\ (mid[d].fd = "open" => conns[d].fd = "open")
    <3>1. i - 1 \in 0..Len(cache)
      BY <1>3
    <3> QED
      BY <3>1, CloseFirstOf
  <2>5. c \in DOMAIN conns /\ c \in 1..Len(mid) /\ DOMAIN mid = DOMAIN conns
    BY <1>3, <2>4, LenProperties
  <2>6. mid[c] \in ConnType /\ Flow(mid[c], c)
    BY <2>4, <2>5 DEF Flow
  <2>7. conns' = [mid EXCEPT ![c] = new]
    BY <2>1, <2>4, <2>5, <2>6 DEF ConnType
  <2>8. /\ new \in [fd : {"open", "closed"}, peer : {"up", "down", "reset"},
                    toPeer : {mid[c].toPeer, <<>>}, stream : {mid[c].stream, <<>>}]
        /\ new.fd = mid[c].fd
    BY <2>6 DEF ConnType
  <2> HIDE DEF mid, new, c
  <2>9. Flow(new, c)
    BY <2>6, <2>8, EmptiedFlows
  <2>10. conns' \in Seq(ConnType) /\ Len(conns') = Len(conns)
    BY <2>4, <2>5, <2>7, <2>9, ExceptSeq DEF Flow
  <2>11. ASSUME NEW d \in DOMAIN conns
         PROVE  Flow(conns'[d], d) /\ (conns'[d].fd = "open" => conns[d].fd = "open")
    <3>1. conns'[d] = IF d = c THEN new ELSE mid[d]
      BY <2>5, <2>7
    <3> QED
      BY <3>1, <2>4, <2>5, <2>8, <2>9
  <2> QED
    BY <1>1, <2>2, <2>3, <2>10, <2>11, ConnsStep
<1> QED
  BY <1>4, <1>5, <1>6


LEMMA GatewayKept ==
  ASSUME ConnInv, NEW c \in DOMAIN conns, GatewayAnswers(c) \/ GatewayLeaves(c)
  PROVE  ConnInv'
<1>1. /\ cache' = cache /\ sentOn' = sentOn /\ answers' = answers /\ stage' = stage /\ busy' = busy
      /\ outcome' = outcome
  BY DEF GatewayAnswers, GatewayLeaves, activation
<1>2. losses' \in 0..MaxLosses /\ outcome' \in {"nothing", "raised", "True"}
  BY UtilsBoundAssumption DEF ConnInv, Results, GatewayAnswers, GatewayLeaves
<1>3. conns[c] \in ConnType /\ Flow(conns[c], c)
  BY ConnFacts
<1>4. \E new : conns' = [conns EXCEPT ![c] = new] /\ Flow(new, c) /\ new.fd = conns[c].fd
  <2>1. CASE GatewayAnswers(c)
    <3> DEFINE new == [conns[c] EXCEPT !.toPeer = Tail(@), !.stream = Append(@, Head(conns[c].toPeer))]
    <3>1. conns' = [conns EXCEPT ![c] = new] /\ new.fd = conns[c].fd
      BY <2>1, <1>3 DEF GatewayAnswers, ConnType
    <3>2. Flow(new, c)
      BY <2>1, <1>3, AnsweredFlows DEF GatewayAnswers
    <3> HIDE DEF new
    <3> QED
      BY <3>1, <3>2
  <2>2. CASE GatewayLeaves(c)
    <3>1. PICK new \in { [conns[c] EXCEPT !.peer = "down", !.toPeer = <<>>],
                         [conns[c] EXCEPT !.peer = "reset", !.toPeer = <<>>, !.stream = <<>>] } :
            conns' = [conns EXCEPT ![c] = new]
      BY <2>2, <1>3 DEF GatewayLeaves, ConnType
    <3>2. /\ new \in [fd : {"open", "closed"}, peer : {"up", "down", "reset"},
                      toPeer : {conns[c].toPeer, <<>>}, stream : {conns[c].stream, <<>>}]
          /\ new.fd = conns[c].fd
      BY <1>3 DEF ConnType
    <3>3. Flow(new, c)
      BY <3>2, <1>3, EmptiedFlows
    <3> QED
      BY <3>1, <3>2, <3>3
  <2> QED
    BY <2>1, <2>2
<1>5. PICK new : conns' = [conns EXCEPT ![c] = new] /\ Flow(new, c) /\ new.fd = conns[c].fd
  BY <1>4
<1>6. /\ conns' \in Seq(ConnType) /\ Len(conns') = Len(conns)
      /\ \A d \in DOMAIN conns : Flow(conns'[d], d) /\ (conns'[d].fd = "open" => conns[d].fd = "open")
  BY <1>5, OneChanged
<1> QED
  BY <1>1, <1>2, <1>6, ConnsStep

LEMMA FlowStays ==
  ASSUME sentOn' = sentOn, answers' = answers, conns' \in Seq(ConnType),
         \A c \in DOMAIN conns' : Flow(conns'[c], c)
  PROVE  ConnsFlow'
BY DEF ConnsFlow, Flow, ConnType, Awaited

LEMMA MakeNewKept ==
  ASSUME ConnInv, NEW p \in Pairs, MakeNew(p)
  PROVE  ConnInv'
<1> DEFINE old == CloseOld(p)
           c == Len(conns) + 1
           entry == [pair |-> p, conn |-> c]
<1>1. /\ conns' = Append(old, NewConn)
      /\ cache' = IF IsCached(p) THEN [cache EXCEPT ![IndexOf(p)].conn = c] ELSE Append(cache, entry)
      /\ busy' = c /\ stage' = "send" /\ outcome' = "nothing" /\ losses' = losses
      /\ sentOn' = sentOn /\ answers' = answers
  BY DEF MakeNew, UseConn
<1>2. /\ old \in Seq(ConnType) /\ Len(old) = Len(conns)
      /\ IsCached(p) => old[Cached(p)].fd = "closed"
      /\ \A d \in DOMAIN conns : Flow(old[d], d) /\ (old[d].fd = "open" => conns[d].fd = "open")
  BY CloseOldOf
<1>3. Flow(NewConn, c) /\ NewConn \in ConnType /\ Len(conns) \in Nat /\ DOMAIN conns = 1..Len(conns)
  BY NewConnFlows, ConnFacts DEF Flow
<1> HIDE DEF old
<1>4. /\ conns' \in Seq(ConnType) /\ DOMAIN conns' = 1..c /\ DOMAIN conns \subseteq DOMAIN conns'
      /\ \A d \in DOMAIN conns : conns'[d] = old[d]
      /\ conns'[c] = NewConn
      /\ \A d \in DOMAIN conns' : d \in DOMAIN conns \/ d = c
  <2>1. /\ Append(old, NewConn) \in Seq(ConnType) /\ DOMAIN old = 1..Len(old)
        /\ DOMAIN Append(old, NewConn) = 1..(Len(old) + 1)
        /\ \A d \in DOMAIN old : Append(old, NewConn)[d] = old[d]
        /\ Append(old, NewConn)[Len(old) + 1] = NewConn
    BY <1>2, <1>3, AppendOf
  <2> QED
    BY <2>1, <1>1, <1>2, <1>3
<1>5. /\ CacheTypes'
      /\ \E i \in DOMAIN cache' : cache'[i].conn = c
      /\ \A i \in DOMAIN cache : (IsCached(p) /\ i = IndexOf(p)) \/ (i \in DOMAIN cache' /\ cache'[i] = cache[i])
  <2> DEFINE T == [pair : Pairs, conn : DOMAIN conns']
  <2>1. cache \in Seq(T)
    <3>1. [pair : Pairs, conn : DOMAIN conns] \subseteq T
      BY <1>4
    <3> QED
      BY <3>1, ConnFacts, SeqMonotonic
  <2>2. DOMAIN cache = 1..Len(cache) /\ Len(cache) \in Nat
        /\ \A i, j \in DOMAIN cache : cache[i].pair = cache[j].pair => i = j
    BY ConnFacts DEF ConnInv, CacheTypes
  <2>3. entry \in T /\ entry.pair = p /\ entry.conn = c
    BY <1>3, <1>4
  <2> HIDE DEF T
  <2>4. CASE IsCached(p)
    <3> DEFINE k == IndexOf(p)
    <3>1. k \in DOMAIN cache /\ cache[k].pair = p
      BY <2>4, IndexOfPair
    <3>2. cache[k] \in [pair : Pairs, conn : DOMAIN conns]
      BY <3>1, <2>2, ConnFacts, ElementOfSeq
    <3>3. [cache[k] EXCEPT !.conn = c] = entry
      BY <3>1, <3>2
    <3>4. cache' = [cache EXCEPT ![k] = entry]
      BY <1>1, <2>4, <3>3
    <3> HIDE DEF k, entry
    <3>5. cache' \in Seq(T) /\ Len(cache') = Len(cache) /\ DOMAIN cache' = DOMAIN cache
          /\ \A i \in DOMAIN cache : cache'[i] = IF i = k THEN entry ELSE cache[i]
      BY <2>1, <2>2, <2>3, <3>1, <3>4, ExceptSeq
    <3>6. \A i \in DOMAIN cache : cache'[i].pair = cache[i].pair
      BY <3>1, <3>5, <2>3
    <3>7. CacheTypes'
      BY <2>2, <3>5, <3>6 DEF CacheTypes, T
    <3> QED
      BY <2>3, <2>4, <3>1, <3>5, <3>7 DEF k
  <2>5. CASE ~IsCached(p)
    <3> HIDE DEF entry
    <3>1. /\ cache' \in Seq(T) /\ DOMAIN cache' = 1..(Len(cache) + 1)
          /\ \A i \in DOMAIN cache : cache'[i] = cache[i]
          /\ cache'[Len(cache) + 1] = entry
      BY <1>1, <2>1, <2>3, <2>5, AppendOf
    <3>2. \A i \in DOMAIN cache : cache[i].pair # p
      BY <2>5 DEF IsCached
    <3>3. \A i \in DOMAIN cache' : i \in DOMAIN cache \/ i = Len(cache) + 1
      BY <2>2, <3>1
    <3>4. \A i, j \in DOMAIN cache' : cache'[i].pair = cache'[j].pair => i = j
      BY <2>2, <2>3, <3>1, <3>2, <3>3
    <3>5. CacheTypes'
      BY <3>1, <3>4 DEF CacheTypes, T
    <3>6. Len(cache) + 1 \in DOMAIN cache' /\ \A i \in DOMAIN cache : i \in DOMAIN cache'
      BY <2>2, <3>1
    <3> QED
      BY <2>3, <2>5, <3>1, <3>5, <3>6
  <2> QED
    BY <2>4, <2>5
<1>6. ConnsFlow'
  <2>1. \A d \in DOMAIN conns' : Flow(conns'[d], d)
    BY <1>2, <1>3, <1>4
  <2> QED
    BY <2>1, <1>1, <1>4, FlowStays
<1>7. ActivationTypes'
  <2>1. sentOn \in Seq(DOMAIN conns')
    BY <1>4, ConnFacts, SeqMonotonic
  <2> QED
    BY <1>1, <1>5, <2>1 DEF ConnInv, ActivationTypes
<1>8. NoConnectionIsLost'
  <2> SUFFICES ASSUME NEW d \in DOMAIN conns', conns'[d].fd = "open"
               PROVE  \E i \in DOMAIN cache' : cache'[i].conn = d
    BY DEF NoConnectionIsLost
  <2>1. CASE d = c
    BY <2>1, <1>5
  <2>2. CASE d \in DOMAIN conns
    <3>1. old[d].fd = "open" /\ conns[d].fd = "open"
      BY <2>2, <1>2, <1>4
    <3>2. PICK i \in DOMAIN cache : cache[i].conn = d
      BY <2>2, <3>1 DEF ConnInv, NoConnectionIsLost
    <3>3. ~(IsCached(p) /\ i = IndexOf(p))
      BY <3>1, <3>2, <1>2 DEF Cached
    <3> QED
      BY <3>2, <3>3, <1>5
  <2> QED
    BY <1>4, <2>1, <2>2
<1>9. TeardownClosesAll' /\ Results'
  BY <1>1 DEF ConnInv, TeardownClosesAll, Results
<1>10. ActivationIsOwn'
  BY <1>1 DEF ConnInv, ActivationIsOwn
<1> QED
  BY <1>5, <1>6, <1>7, <1>8, <1>9, <1>10 DEF ConnInv


(* A request is sent over the connection, where it is the last.             *)
LEMMA SendActivationKept ==
  ASSUME ConnInv, SendActivation
  PROVE  ConnInv'
<1> DEFINE m == Len(sentOn) + 1
           b == conns[busy]
<1>1. /\ cache' = cache /\ busy' = busy /\ stage = "send" /\ stage' = "read" /\ losses' = losses /\ outcome' = outcome
      /\ sentOn' = Append(sentOn, busy) /\ answers' = Append(answers, 0)
  BY DEF SendActivation
<1>2. /\ busy \in DOMAIN conns /\ b \in ConnType /\ Flow(b, busy) /\ DOMAIN conns = 1..Len(conns) /\ conns \in Seq(ConnType)
      /\ sentOn \in Seq(DOMAIN conns) /\ answers \in Seq(Nat) /\ Len(answers) = Len(sentOn)
      /\ Len(sentOn) \in Nat /\ DOMAIN sentOn = 1..Len(sentOn) /\ DOMAIN answers = 1..Len(sentOn)
      /\ \A d \in DOMAIN conns : Flow(conns[d], d) /\ conns[d] \in ConnType
  BY <1>1, ConnFacts
<1>3. /\ sentOn' \in Seq(DOMAIN conns) /\ Len(sentOn') = m /\ DOMAIN sentOn' = 1..m
      /\ \A k \in DOMAIN sentOn : sentOn'[k] = sentOn[k]
      /\ sentOn'[m] = busy
  BY <1>1, <1>2, AppendOf
<1>4. /\ answers' \in Seq(Nat) /\ Len(answers') = m /\ DOMAIN answers' = 1..m
      /\ \A k \in DOMAIN sentOn : answers'[k] = answers[k]
      /\ answers'[m] = 0
  BY <1>1, <1>2, AppendOf
<1>5. m \in DOMAIN sentOn' /\ m \in Nat \ {0} /\ DOMAIN sentOn \subseteq DOMAIN sentOn' /\ \A k \in DOMAIN sentOn : k < m
  BY <1>2, <1>3
<1>6. ASSUME NEW s \in Seq(DOMAIN sentOn), NEW d, Awaited(s, d)
      PROVE  s \in Seq(DOMAIN sentOn') /\ Awaited(s, d)' /\ \A i \in DOMAIN s : s[i] < m
  <2>1. s \in Seq(DOMAIN sentOn')
    BY <1>5, SeqMonotonic
  <2>2. \A i \in DOMAIN s : s[i] \in DOMAIN sentOn
    BY LenProperties
  <2> QED
    BY <1>3, <1>4, <1>5, <1>6, <2>1, <2>2 DEF Awaited
<1>7. ASSUME NEW d, NEW conn, Flow(conn, d)
      PROVE  Flow(conn, d)' /\ conn \in ConnType'
  <2>1. conn \in ConnType /\ conn.toPeer \in Seq(DOMAIN sentOn) /\ conn.stream \in Seq(DOMAIN sentOn)
    BY <1>7, ConnFields DEF Flow
  <2>2. /\ conn.toPeer \in Seq(DOMAIN sentOn') /\ conn.stream \in Seq(DOMAIN sentOn')
        /\ Awaited(conn.toPeer, d)' /\ Awaited(conn.stream, d)'
    BY <1>6, <1>7, <2>1 DEF Flow
  <2>3. conn \in ConnType'
    BY <2>1, <2>2 DEF ConnType
  <2> QED
    BY <1>7, <2>2, <2>3 DEF Flow
<1>8. ASSUME NEW conn, NEW d, d = busy, Flow(conn, d), NEW t, t = Append(conn.toPeer, m)
      PROVE  Flow([conn EXCEPT !.toPeer = t], d)'
  <2> DEFINE s == conn.stream
             u == conn.toPeer
             new == [conn EXCEPT !.toPeer = t]
  <2>1. conn \in ConnType /\ s \in Seq(DOMAIN sentOn) /\ u \in Seq(DOMAIN sentOn)
        /\ Ascending(s) /\ Ascending(u) /\ Before(s, u) /\ Awaited(s, d) /\ Awaited(u, d)
    BY <1>8, ConnFields DEF Flow
  <2>2. s \in Seq(DOMAIN sentOn') /\ u \in Seq(DOMAIN sentOn') /\ Awaited(s, d)' /\ Awaited(u, d)'
        /\ (\A i \in DOMAIN s : s[i] < m) /\ (\A i \in DOMAIN u : u[i] < m)
    BY <1>6, <2>1
  <2>3. /\ t \in Seq(DOMAIN sentOn') /\ Len(u) \in Nat /\ DOMAIN u = 1..Len(u) /\ DOMAIN t = 1..(Len(u) + 1)
        /\ \A i \in DOMAIN u : t[i] = u[i]
        /\ t[Len(u) + 1] = m
    BY <1>5, <1>8, <2>2, AppendOf
  <2>4. \A i \in DOMAIN t : i \in DOMAIN u \/ i = Len(u) + 1
    BY <2>3
  <2>5. new \in ConnType' /\ new.stream = s /\ new.toPeer = t
    BY <2>1, <2>2, <2>3 DEF ConnType
  <2>6. Ascending(t)
    <3> SUFFICES ASSUME NEW i \in DOMAIN t, NEW j \in DOMAIN t, i < j PROVE t[i] < t[j]
      BY DEF Ascending
    <3>1. i \in DOMAIN u
      BY <2>3
    <3>2. CASE j \in DOMAIN u
      BY <3>1, <3>2, <2>1, <2>3 DEF Ascending
    <3>3. CASE j = Len(u) + 1
      BY <3>1, <3>3, <2>2, <2>3
    <3> QED
      BY <2>4, <3>2, <3>3
  <2>7. Before(s, t)
    BY <2>1, <2>2, <2>3, <2>4 DEF Before
  <2>8. Awaited(t, d)'
    <3>1. ASSUME NEW i \in DOMAIN t PROVE sentOn'[t[i]] = d /\ answers'[t[i]] # t[i]
      <4>1. CASE i \in DOMAIN u
        BY <4>1, <2>2, <2>3 DEF Awaited
      <4>2. CASE i = Len(u) + 1
        BY <4>2, <1>3, <1>4, <1>5, <1>8, <2>3
      <4> QED
        BY <2>4, <4>1, <4>2
    <3> QED
      BY <3>1 DEF Awaited
  <2> QED
    BY <2>1, <2>2, <2>5, <2>6, <2>7, <2>8 DEF Flow
<1>9. /\ conns' \in Seq(ConnType') /\ DOMAIN conns' = DOMAIN conns
      /\ \A d \in DOMAIN conns : (Flow(conns[d], d))' /\ conns'[d].fd = conns[d].fd
  <2>1. CASE conns' = conns
    <3>1. \A d \in DOMAIN conns : conns[d] \in ConnType' /\ Flow(conns[d], d)'
      BY <1>2, <1>7, <2>1
    <3>2. conns \in [1..Len(conns) -> ConnType'] /\ Len(conns) \in Nat
      BY <3>1, <1>2, LenProperties
    <3> QED
      BY <2>1, <3>1, <3>2
  <2>2. CASE conns' # conns
    <3>1. conns' = [conns EXCEPT ![busy] = [b EXCEPT !.toPeer = Append(b.toPeer, m)]]
      BY <2>2, <1>2 DEF SendActivation, ConnType
    <3>2. ASSUME NEW d \in DOMAIN conns
          PROVE  conns'[d] \in ConnType' /\ (Flow(conns[d], d))' /\ conns'[d].fd = conns[d].fd
      <4>1. CASE d = busy
        <5>1. PICK conn, t : conn = conns[d] /\ t = Append(conn.toPeer, m)
          OBVIOUS
        <5>2. conn \in ConnType /\ Flow(conn, d)
          BY <1>2, <5>1
        <5>3. conns'[d] = [conn EXCEPT !.toPeer = t]
          BY <3>1, <4>1, <5>1, <1>2
        <5>4. Flow([conn EXCEPT !.toPeer = t], d)'
          BY <1>8, <4>1, <5>1, <5>2
        <5>5. (Flow(conns[d], d))'
          BY <5>3, <5>4
        <5>6. [conn EXCEPT !.toPeer = t].fd = conn.fd
          BY <5>2 DEF ConnType
        <5> QED
          BY <5>1, <5>3, <5>5, <5>6 DEF Flow
      <4>2. CASE d # busy
        BY <4>2, <1>2, <1>7, <3>1
      <4> QED
        BY <4>1, <4>2
    <3>3. conns' \in [1..Len(conns) -> ConnType'] /\ Len(conns) \in Nat
      <4>1. \A d \in 1..Len(conns) : conns'[d] \in ConnType'
        BY <3>2, <1>2
      <4>2. conns' = [d \in 1..Len(conns) |-> conns'[d]]
        BY <3>1, <1>2
      <4> QED
        BY <4>1, <4>2, <1>2, LenProperties
    <3>4. DOMAIN conns' = DOMAIN conns /\ conns' \in Seq(ConnType')
      <4> DEFINE T == ConnType'
      <4>1. conns' \in [1..Len(conns) -> T]
        BY <3>3
      <4> HIDE DEF T
      <4>2. conns' \in Seq(T) /\ DOMAIN conns' = 1..Len(conns)
        BY <4>1, <3>3
      <4> QED
        BY <4>2, <1>2 DEF T
    <3> QED
      BY <3>2, <3>4
  <2> QED
    BY <2>1, <2>2
<1>10. CacheTypes' /\ NoConnectionIsLost' /\ TeardownClosesAll' /\ Results'
  BY <1>1, <1>9 DEF ConnInv, CacheTypes, NoConnectionIsLost, TeardownClosesAll, Results
<1>11. ConnsFlow'
  BY <1>9 DEF ConnsFlow
<1>12. ActivationTypes'
  BY <1>1, <1>3, <1>4, <1>5, <1>9 DEF ConnInv, ActivationTypes
<1>13. ActivationIsOwn'
  <2> SUFFICES ASSUME NEW n \in DOMAIN answers', answers'[n] # 0
               PROVE  /\ answers'[n] <= n /\ sentOn'[answers'[n]] = sentOn'[n]
                      /\ answers'[n] # n => \E k \in 1..n-1 : sentOn'[k] = sentOn'[n] /\ answers'[k] = 0
    BY DEF ActivationIsOwn
  <2>1. n \in DOMAIN answers /\ n \in DOMAIN sentOn /\ answers'[n] = answers[n] /\ sentOn'[n] = sentOn[n] /\ n < m
    <3>1. n \in 1..m /\ n # m
      BY <1>4
    <3>2. Len(sentOn) \in Nat
      BY <1>2
    <3>3. n \in 1..Len(sentOn)
      BY <3>1, <3>2
    <3>4. n \in DOMAIN answers /\ n \in DOMAIN sentOn /\ n < m
      BY <3>3, <1>2
    <3> QED
      BY <3>4, <1>3, <1>4
  <2>2. answers[n] <= n /\ sentOn[answers[n]] = sentOn[n] /\ answers[n] \in Nat
    BY <2>1, <1>2, LenProperties DEF ConnInv, ActivationIsOwn
  <2>3. answers[n] \in DOMAIN sentOn
    BY <2>1, <2>2, <1>2
  <2>4. answers[n] # n => \E k \in 1..n-1 : sentOn[k] = sentOn[n] /\ answers[k] = 0
    BY <2>1 DEF ConnInv, ActivationIsOwn
  <2>5. \A k \in 1..n-1 : k \in DOMAIN sentOn
    BY <2>1, <1>2
  <2> QED
    BY <2>1, <2>2, <2>3, <2>4, <2>5, <1>3, <1>4
<1> QED
  BY <1>10, <1>11, <1>12, <1>13 DEF ConnInv


(* The oldest answer on the connection is taken for the last request.       *)
LEMMA ReadAnswerKept ==
  ASSUME ConnInv, ReadAnswer
  PROVE  ConnInv'
<1> DEFINE last == Len(sentOn)
           b == conns[busy]
           h == Head(b.stream)
           new == [b EXCEPT !.stream = Tail(b.stream)]
<1>1. /\ cache' = cache /\ sentOn' = sentOn /\ stage = "read" /\ stage' = "none" /\ busy' = 0
      /\ losses' = losses /\ outcome' = outcome /\ b.stream # <<>>
  BY DEF ReadAnswer
<1>2. /\ busy \in DOMAIN conns /\ b \in ConnType /\ Flow(b, busy) /\ DOMAIN conns = 1..Len(conns) /\ conns \in Seq(ConnType)
      /\ sentOn \in Seq(DOMAIN conns) /\ answers \in Seq(Nat) /\ Len(answers) = last
      /\ last \in Nat /\ DOMAIN sentOn = 1..last /\ DOMAIN answers = 1..last
      /\ \A d \in DOMAIN conns : Flow(conns[d], d) /\ conns[d] \in ConnType
  BY <1>1, ConnFacts
<1>3. last \in DOMAIN sentOn /\ sentOn[last] = busy /\ answers[last] = 0
  BY <1>1, <1>2 DEF ConnInv, ActivationTypes
<1>4. conns' = [conns EXCEPT ![busy] = new]
  BY <1>2 DEF ReadAnswer, ConnType
<1>5. /\ Flow(new, busy) /\ h \in DOMAIN sentOn /\ sentOn[h] = busy /\ answers[h] # h
      /\ (\A i \in DOMAIN Tail(b.stream) : h < Tail(b.stream)[i])
      /\ (\A i \in DOMAIN b.toPeer : h < b.toPeer[i])
  BY <1>1, <1>2, ReadFlows
<1>6. new \in ConnType /\ new.fd = b.fd /\ new.stream = Tail(b.stream) /\ new.toPeer = b.toPeer
  BY <1>2, <1>5 DEF Flow, ConnType
<1>7. answers' = [answers EXCEPT ![last] = h]
  BY <1>2 DEF ReadAnswer
<1> HIDE DEF new, b, h
<1>8. h \in 1..last /\ h \in Nat
  BY <1>2, <1>5
<1>9. /\ answers' \in Seq(Nat) /\ Len(answers') = last /\ DOMAIN answers' = 1..last
      /\ answers'[last] = h
      /\ \A k \in DOMAIN answers : k # last => answers'[k] = answers[k]
  BY <1>2, <1>3, <1>7, <1>8, ExceptSeq
<1>10. /\ conns' \in Seq(ConnType) /\ Len(conns') = Len(conns) /\ DOMAIN conns' = DOMAIN conns
       /\ conns'[busy] = new /\ \A d \in DOMAIN conns : d # busy => conns'[d] = conns[d]
  <2>1. new.fd = "open" => conns[busy].fd = "open"
    BY <1>6 DEF b
  <2> QED
    BY <1>2, <1>4, <1>5, <2>1, OneChanged, LenProperties
<1>11. ASSUME NEW s \in Seq(DOMAIN sentOn), NEW d, Awaited(s, d), d # busy \/ \A i \in DOMAIN s : h < s[i]
       PROVE  Awaited(s, d)'
  <2> SUFFICES ASSUME NEW i \in DOMAIN s PROVE sentOn[s[i]] = d /\ answers'[s[i]] # s[i]
    BY <1>1 DEF Awaited
  <2>1. sentOn[s[i]] = d /\ answers[s[i]] # s[i] /\ s[i] \in DOMAIN sentOn
    BY <1>11, LenProperties DEF Awaited
  <2>2. CASE s[i] = last
    BY <2>1, <2>2, <1>3, <1>8, <1>9, <1>11
  <2>3. CASE s[i] # last
    BY <2>1, <2>3, <1>2, <1>9
  <2> QED
    BY <2>1, <2>2, <2>3
<1>12. ASSUME NEW d \in DOMAIN conns PROVE (Flow(conns[d], d))' /\ conns'[d].fd = conns[d].fd
  <2>1. PICK conn : conn = conns'[d]
    OBVIOUS
  <2>2. Flow(conn, d) /\ conn.fd = conns[d].fd
        /\ \/ d # busy
           \/ (\A i \in DOMAIN conn.stream : h < conn.stream[i]) /\ (\A i \in DOMAIN conn.toPeer : h < conn.toPeer[i])
    <3>1. CASE d = busy
      BY <3>1, <2>1, <1>5, <1>6, <1>10 DEF b
    <3>2. CASE d # busy
      BY <3>2, <2>1, <1>2, <1>10
    <3> QED
      BY <3>1, <3>2
  <2>3. conn \in ConnType /\ conn.toPeer \in Seq(DOMAIN sentOn) /\ conn.stream \in Seq(DOMAIN sentOn)
        /\ Awaited(conn.toPeer, d) /\ Awaited(conn.stream, d)
    BY <2>2, ConnFields DEF Flow
  <2>4. Awaited(conn.toPeer, d)' /\ Awaited(conn.stream, d)'
    BY <1>11, <2>2, <2>3
  <2>5. conn \in ConnType'
    BY <2>3, <1>1 DEF ConnType
  <2>6. Flow(conn, d)'
    BY <2>2, <2>4, <2>5 DEF Flow
  <2> QED
    BY <2>1, <2>2, <2>6
<1>13. CacheTypes' /\ NoConnectionIsLost' /\ TeardownClosesAll' /\ Results'
  BY <1>1, <1>10, <1>12 DEF ConnInv, CacheTypes, NoConnectionIsLost, TeardownClosesAll, Results
<1>14. ConnsFlow'
  <2>1. conns' \in Seq(ConnType)'
    BY <1>1, <1>10 DEF ConnType
  <2> QED
    BY <1>10, <1>12, <2>1 DEF ConnsFlow
<1>15. ActivationTypes'
  BY <1>1, <1>2, <1>9, <1>10 DEF ConnInv, ActivationTypes
<1>16. ActivationIsOwn'
  <2> SUFFICES ASSUME NEW n \in DOMAIN answers', answers'[n] # 0
               PROVE  /\ answers'[n] <= n /\ sentOn[answers'[n]] = sentOn[n]
                      /\ answers'[n] # n => \E k \in 1..n-1 : sentOn[k] = sentOn[n] /\ answers'[k] = 0
    BY <1>1 DEF ActivationIsOwn
  <2>1. \A n1 \in DOMAIN answers : answers[n1] # 0 =>
          /\ answers[n1] <= n1 /\ sentOn[answers[n1]] = sentOn[n1]
          /\ answers[n1] # n1 => \E k \in 1..n1-1 : sentOn[k] = sentOn[n1] /\ answers[k] = 0
    BY DEF ConnInv, ActivationIsOwn
  <2>2. n \in 1..last /\ DOMAIN answers = 1..last /\ last \in Nat
    BY <1>2, <1>9
  <2>3. \A k \in 1..last : k < last => answers'[k] = answers[k]
    <3> SUFFICES ASSUME NEW k \in 1..last, k < last PROVE answers'[k] = answers[k]
      OBVIOUS
    <3>1. k \in DOMAIN answers /\ k # last
      BY <2>2
    <3> QED
      BY <3>1, <1>9
  <2>4. CASE n < last
    <3>1. answers'[n] = answers[n] /\ answers[n] # 0
      BY <2>2, <2>3, <2>4
    <3>2. \A k \in 1..n-1 : answers'[k] = answers[k]
      BY <2>2, <2>3, <2>4
    <3> QED
      BY <2>1, <2>2, <3>1, <3>2
  <2>5. CASE n = last
    <3>1. answers'[n] = h /\ sentOn[h] = sentOn[n] /\ h <= n
      BY <2>5, <1>3, <1>5, <1>8, <1>9
    <3>2. ASSUME h # n PROVE \E k \in 1..n-1 : sentOn[k] = sentOn[n] /\ answers'[k] = 0
      <4>1. h \in 1..n-1 /\ h < last /\ h \in 1..last
        BY <3>1, <3>2, <2>2, <2>5, <1>8
      <4>2. CASE answers[h] = 0
        BY <4>1, <4>2, <3>1, <2>3
      <4>3. CASE answers[h] # 0
        <5>1. PICK k \in 1..h-1 : sentOn[k] = sentOn[h] /\ answers[k] = 0
          BY <4>1, <4>3, <2>1, <2>2, <1>5
        <5>2. k \in 1..n-1 /\ k \in 1..last /\ k < last
          BY <4>1, <5>1, <2>2, <2>5
        <5> QED
          BY <5>1, <5>2, <3>1, <2>3
      <4> QED
        BY <4>2, <4>3
    <3> QED
      BY <3>1, <3>2
  <2> QED
    BY <2>2, <2>4, <2>5
<1> QED
  BY <1>13, <1>14, <1>15, <1>16 DEF ConnInv


-----------------------------------------------------------------------------
(* The theorems.                                                            *)

LEMMA InitUtilsIInv == Init => UtilsIInv
<1> SUFFICES ASSUME Init PROVE ConnInv
  BY InitRawInv DEF Init, UtilsIInv
<1>1. cache = <<>> /\ conns = <<>> /\ busy = 0 /\ stage = "none" /\ sentOn = <<>> /\ answers = <<>>
      /\ losses = 0 /\ outcome = "nothing"
  BY DEF Init
<1>2. \A S : <<>> \in Seq(S) /\ DOMAIN <<>> = {} /\ Len(<<>>) = 0
  BY EmptySeq
<1>3. CacheTypes /\ ConnsFlow
  BY <1>1, <1>2 DEF CacheTypes, ConnsFlow
<1>4. ActivationTypes /\ Results
  BY <1>1, <1>2, UtilsBoundAssumption DEF ActivationTypes, Results
<1> QED
  BY <1>1, <1>2, <1>3, <1>4 DEF ConnInv, NoConnectionIsLost, TeardownClosesAll, ActivationIsOwn

(* What is done over the raw socket leaves the connections alone, and what  *)
(* is done over connections leaves the raw socket alone; teardown is both.  *)
LEMMA NextUtilsIInv == UtilsIInv /\ [Next]_vars => UtilsIInv'
<1> SUFFICES ASSUME UtilsIInv, [Next]_vars PROVE RawInv' /\ ConnInv'
  BY DEF UtilsIInv
<1>1. RawInv /\ ConnInv
  BY DEF UtilsIInv
<1>2. ASSUME UNCHANGED utilVars PROVE ConnInv'
  <2>1. /\ cache' = cache /\ sentOn' = sentOn /\ answers' = answers /\ conns' = conns /\ losses' = losses
        /\ outcome' = outcome /\ stage' = stage /\ busy' = busy
    BY <1>2 DEF utilVars, activation
  <2> QED
    BY <2>1, <1>1, ConnsStay
<1>3. CASE UseRaw \/ Setup
  BY <1>1, <1>2, <1>3, SocketStepKept DEF UseRaw, Setup
<1>4. CASE InitiateVehicleIdentityReq \/ ReqEntityStatus
  <2>1. PICK k \in Kinds : Ask(k, "one")
    BY <1>4 DEF InitiateVehicleIdentityReq, ReqEntityStatus, AskFor
  <2>2. "one" \in Modes
    BY DEF Modes
  <2> QED
    BY <1>1, <1>2, <1>4, <2>1, <2>2, AskKept DEF InitiateVehicleIdentityReq, ReqEntityStatus
<1>5. CASE Teardown \/ TeardownRaises
  <2>1. CloseRaw
    BY <1>5 DEF Teardown, TeardownRaises
  <2> QED
    BY <1>1, <1>5, <2>1, ResetKept, TeardownKept
<1>6. ASSUME NEW p \in Pairs, UseCached(p) \/ MakeNew(p) \/ MakeNewRaises(p) PROVE RawInv' /\ ConnInv'
  <2>1. UNCHANGED rawVars
    BY <1>6 DEF UseCached, MakeNew, MakeNewRaises, UseConn
  <2> QED
    BY <1>1, <1>6, <2>1, SocketStepKept, UseCachedKept, MakeNewKept, MakeNewRaisesKept
<1>7. CASE SendActivation \/ SendFails \/ ReadAnswer \/ ReadNothing
  <2>1. UNCHANGED rawVars
    BY <1>7 DEF SendActivation, SendFails, ReadAnswer, ReadNothing
  <2>2. CASE ReadNothing
    <3>1. /\ cache' = cache /\ sentOn' = sentOn /\ answers' = answers /\ conns' = conns /\ losses' = losses
          /\ outcome' = outcome /\ stage' = "none" /\ busy' = 0
      BY <2>2 DEF ReadNothing
    <3> QED
      BY <1>1, <2>1, <3>1, SocketStepKept, ConnsStay
  <2> QED
    BY <1>1, <1>7, <2>1, <2>2, SocketStepKept, SendActivationKept, SendFailsKept, ReadAnswerKept
<1>8. ASSUME NEW c \in DOMAIN conns, GatewayAnswers(c) \/ GatewayLeaves(c) PROVE RawInv' /\ ConnInv'
  <2>1. UNCHANGED rawVars
    BY <1>8 DEF GatewayAnswers, GatewayLeaves
  <2> QED
    BY <1>1, <1>8, <2>1, SocketStepKept, GatewayKept
<1>9. CASE UNCHANGED vars
  BY <1>1, <1>2, <1>9, SocketStepKept DEF vars
<1> QED
  BY <1>3, <1>4, <1>5, <1>6, <1>7, <1>8, <1>9 DEF Next

LEMMA SpecUtilsIInv == Spec => []UtilsIInv
BY InitUtilsIInv, NextUtilsIInv, PTL DEF Spec

(* Every open connection is in the cache, whatever is replaced, fails to be *)
(* made or is reset, and teardown leaves none open (doip_utils.py:53-56 and *)
(* 289-302).                                                                *)
THEOREM ConnectionsAreKept == Spec => []ConnectionsInv
<1>1. UtilsIInv => ConnectionsInv
  BY DEF UtilsIInv, RawInv, RawTypes, ConnInv, CacheTypes, ConnsFlow, ConnType, ActivationTypes, Results,
     TypeOK, ConnectionsInv
<1> QED
  BY <1>1, SpecUtilsIInv, PTL

(* A request returns the answers that came in its time, only those it       *)
(* accepts, in the order of their capture, and those to an earlier request  *)
(* only if they came late or were left by it (raw_socket.py:118-128 and     *)
(* 280-289).                                                                *)
THEOREM RequestsAreAnswered == Spec => []AnswersAreTimely
<1>1. ASSUME UtilsIInv PROVE AnswersAreTimely
  <2> DEFINE ps == result.packets
  <2>1. RawInv /\ ps \in Seq(Packet) /\ capture \in Seq(Packet)
    BY <1>1, Sequences DEF UtilsIInv
  <2>2. DOMAIN Given = DOMAIN ps /\ \A i \in DOMAIN ps : Given[i] = ps[i].n
    BY DEF Given, Numbers
  <2>3. Rising(ps) /\ Older(ps, capture) /\ (result.did = "returned" => AllAnswers(ps))
    BY <2>1 DEF RawInv, RawOrder
  <2>4. PacketsOnceInOrder
    BY <2>2, <2>3 DEF PacketsOnceInOrder, Rising, Older, AllAnswers
  <2> QED
    BY <2>1, <2>4 DEF RawInv, AnswersAreTimely
<1> QED
  BY <1>1, SpecUtilsIInv, PTL

(* An activation returns a response to a request over the same connection,  *)
(* and to another request than its own only after an earlier activation     *)
(* over that connection gave up (doip_utils.py:291-292).                    *)
THEOREM ActivationsAreOwn == Spec => []ActivationIsOwn
<1>1. UtilsIInv => ActivationIsOwn
  BY DEF UtilsIInv, ConnInv
<1> QED
  BY <1>1, SpecUtilsIInv, PTL

-----------------------------------------------------------------------------
(* The communicators over datagrams and the calls of SomeipUtils.            *)

USE SocketAssumption, SizeAssumption, SomeIpAssumption

(* What a communicator may still be handed: what is on its way to it and     *)
(* what its socket has queued.                                               *)
Coming(r) == {d.message : d \in {x \in wire : x.receiver = r}} \cup {queue[r][i] : i \in DOMAIN queue[r]}

ReplyCodes == Codes \cup {"E_UNKNOWN_METHOD", "unlisted"}
EpMessages == {Event(g) : g \in Groups} \cup {Reply(m, code) : m \in Methods, code \in ReplyCodes}
Messages ==
  {Plain} \cup Offers \cup EpMessages
    \cup {Verdict(v, service, g) : v \in {"ack", "nack"}, service \in Services, g \in Groups}

CallTypes ==
  [op : {"none", "find", "subscribe", "initial", "invoke"}, over : Receivers,
   service : Services \cup {"none"}, asked : Groups \cup Methods \cup {NoGroup, "none"}, left : Nat]

CallStates ==
  /\ job \in {"discover", "use"}
  /\ current \in CallTypes /\ \E r \in Retries \cup {1} : current.left \in 0..r
  /\ verdict \in {"none", "ack", "nack"}
  /\ subscribed \subseteq Services \X Groups
  /\ calls \in 0..MaxCalls /\ unasked \in 0..MaxUnasked

(* A call that waits for the end point has the answer it asked for or an     *)
(* event of its group to come, if nothing else was when it began.            *)
EpAnswers ==
  /\ subscribed \subseteq {<<current.service, current.asked>>}
  /\ \A m \in Coming(Ep) :
       \/ m = Event(current.asked)
       \/ current.op = "invoke" /\ m.what = "reply" /\ m.method = current.asked

Waiting(op) == current.op = op /\ current.left = 1

(* A message that may be taken for the answer to this subscription is what   *)
(* the servers said to it, an offer, or something that was on its way.       *)
AnswersIt(m) == m \in Offers \cup {Verdict(verdict, current.service, current.asked)} \/ strays.sd

(* What a call under way knows of what it will be handed.                    *)
UnderWay ==
  /\ Waiting("subscribe") =>
       /\ taken = <<>> /\ got = Gave("None")
       /\ \A m \in Coming(Sd) : IsVerdictOn(m, current.service, current.asked) => AnswersIt(m)
       /\ strays.ep \/ EpAnswers
  /\ Waiting("initial") =>
       /\ taken = <<taken[1]>> /\ AnswersIt(taken[1])
       /\ strays.ep \/ EpAnswers
  /\ Waiting("invoke") => got = Gave("None") /\ (strays.ep \/ EpAnswers)

CallInv == UnderWay /\ SubscriptionIsAnswered /\ InvokeIsOwn

-----------------------------------------------------------------------------
(* What is handed over, and what still may be. *)

LEMMA ComingIs ==
  ASSUME NEW r
  PROVE  /\ \A d \in wire : d.receiver = r => d.message \in Coming(r)
         /\ \A i \in DOMAIN queue[r] : queue[r][i] \in Coming(r)
         /\ \A m \in Coming(r) : \/ \E d \in wire : d.receiver = r /\ d.message = m
                                 \/ \E i \in DOMAIN queue[r] : queue[r][i] = m
BY DEF Coming

(* The queues and the net, however typed.                                    *)
NetTypes ==
  /\ queue \in [Receivers -> Seq(Messages)] /\ \A r \in Receivers : Len(queue[r]) <= QueueSize
  /\ wire \subseteq [receiver : Receivers, port : Ports, message : Messages]

LEMMA QueueFacts ==
  ASSUME NetTypes, NEW r \in Receivers
  PROVE  /\ queue[r] \in Seq(Messages) /\ Len(queue[r]) \in Nat /\ DOMAIN queue[r] = 1..Len(queue[r])
         /\ queue[r] = <<>> <=> Len(queue[r]) = 0
         /\ \A i \in DOMAIN queue[r] : queue[r][i] \in Messages
<1>1. queue[r] \in Seq(Messages)
  BY DEF NetTypes
<1> QED
  BY <1>1, LenProperties, EmptySeq, ElementOfSeq

LEMMA DatagramFacts ==
  ASSUME NetTypes, NEW d \in wire
  PROVE  d.receiver \in Receivers /\ d.message \in Messages /\ d.port \in Ports
BY DEF NetTypes

(* Nothing new is to come while messages only move, are taken, or are lost.  *)
LEMMA LessToCome ==
  ASSUME NEW r, wire' \subseteq wire \/ wire' = wire,
         \A i \in DOMAIN queue'[r] : queue'[r][i] \in Coming(r)
  PROVE  Coming(r)' \subseteq Coming(r)
<1>1. wire' \subseteq wire
  OBVIOUS
<1>2. \A d \in wire : d.receiver = r => d.message \in Coming(r)
  BY ComingIs
<1>3. Coming(r)' = {d.message : d \in {x \in wire' : x.receiver = r}} \cup {queue'[r][i] : i \in DOMAIN queue'[r]}
  BY DEF Coming
<1> QED
  BY <1>1, <1>2, <1>3

LEMMA TakeEffect ==
  ASSUME NetTypes, NEW r \in Receivers, queue[r] # <<>>, Take(r), wire' = wire
  PROVE  /\ NetTypes' /\ Head(queue[r]) \in Coming(r)
         /\ \A x \in Receivers : Coming(x)' \subseteq Coming(x)
         /\ \A x \in Receivers : queue'[x] # <<>> => queue[x] # <<>>
<1>1. queue' = [queue EXCEPT ![r] = Tail(queue[r])]
  BY DEF Take
<1>2. /\ queue[r] \in Seq(Messages) /\ Len(queue[r]) \in Nat /\ DOMAIN queue[r] = 1..Len(queue[r])
      /\ Len(queue[r]) > 0
  BY QueueFacts
<1>3. /\ Tail(queue[r]) \in Seq(Messages) /\ Len(Tail(queue[r])) = Len(queue[r]) - 1
      /\ \A i \in 1..(Len(queue[r]) - 1) : Tail(queue[r])[i] = queue[r][i + 1]
      /\ Head(queue[r]) = queue[r][1]
  BY <1>2, HeadTailProperties
<1>4. DOMAIN Tail(queue[r]) = 1..(Len(queue[r]) - 1)
  BY <1>2, <1>3, LenProperties
<1>5. queue \in [Receivers -> Seq(Messages)]
  BY DEF NetTypes
<1>6. /\ queue' \in [Receivers -> Seq(Messages)]
      /\ \A x \in Receivers : queue'[x] = IF x = r THEN Tail(queue[r]) ELSE queue[x]
  BY <1>1, <1>3, <1>5
<1>7. NetTypes'
  <2>1. ASSUME NEW x \in Receivers PROVE Len(queue'[x]) <= QueueSize
    <3>1. Len(queue[x]) <= QueueSize /\ Len(queue[r]) <= QueueSize
      BY DEF NetTypes
    <3>2. CASE x = r
      <4>1. Len(queue'[x]) = Len(queue[r]) - 1
        BY <1>3, <1>6, <3>2
      <4>2. QueueSize \in Nat
        BY SizeAssumption
      <4> QED
        BY <1>2, <3>1, <4>1, <4>2
    <3>3. CASE x # r
      BY <1>6, <3>1, <3>3
    <3> QED
      BY <3>2, <3>3
  <2>2. wire' \subseteq [receiver : Receivers, port : Ports, message : Messages]
    BY DEF NetTypes
  <2> QED
    BY <1>6, <2>1, <2>2 DEF NetTypes
<1>8. Head(queue[r]) \in Coming(r)
  <2>1. 1 \in DOMAIN queue[r]
    BY <1>2
  <2> QED
    BY <1>3, <2>1, ComingIs
<1>9. ASSUME NEW x \in Receivers PROVE Coming(x)' \subseteq Coming(x)
  <2>1. ASSUME NEW i \in DOMAIN queue'[x] PROVE queue'[x][i] \in Coming(x)
    <3>1. CASE x = r
      <4>1. i \in 1..(Len(queue[r]) - 1) /\ queue'[x][i] = queue[r][i + 1]
        BY <1>3, <1>4, <1>6, <2>1, <3>1
      <4>2. i + 1 \in DOMAIN queue[r]
        BY <1>2, <4>1
      <4> QED
        BY <3>1, <4>1, <4>2, ComingIs
    <3>2. CASE x # r
      BY <1>6, <2>1, <3>2, ComingIs
    <3> QED
      BY <3>1, <3>2
  <2> QED
    BY <2>1, LessToCome
<1>10. ASSUME NEW x \in Receivers, queue'[x] # <<>> PROVE queue[x] # <<>>
  BY <1>6, <1>10
<1> QED
  BY <1>7, <1>8, <1>9, <1>10

(* A queue is emptied, or messages to some ports are no more on their way.   *)
LEMMA DropEffect ==
  ASSUME NetTypes, NEW r \in Receivers, queue' = [queue EXCEPT ![r] = <<>>], wire' \subseteq wire
  PROVE  /\ NetTypes'
         /\ \A x \in Receivers : Coming(x)' \subseteq Coming(x)
         /\ \A x \in Receivers : queue'[x] = IF x = r THEN <<>> ELSE queue[x]
<1>1. <<>> \in Seq(Messages) /\ Len(<<>>) = 0
  BY EmptySeq
<1>2. /\ queue' \in [Receivers -> Seq(Messages)]
      /\ \A x \in Receivers : queue'[x] = IF x = r THEN <<>> ELSE queue[x]
  BY <1>1 DEF NetTypes
<1>3. NetTypes'
  <2>1. QueueSize \in Nat
    BY SizeAssumption
  <2>2. \A x \in Receivers : Len(queue'[x]) <= QueueSize
    BY <1>1, <1>2, <2>1 DEF NetTypes
  <2>3. wire' \subseteq [receiver : Receivers, port : Ports, message : Messages]
    BY DEF NetTypes
  <2> QED
    BY <1>2, <2>2, <2>3 DEF NetTypes
<1>4. ASSUME NEW x \in Receivers PROVE Coming(x)' \subseteq Coming(x)
  <2>1. DOMAIN <<>> = {}
    <3>1. DOMAIN <<>> = 1..0
      BY <1>1, LenProperties
    <3> QED
      BY <3>1
  <2>2. ASSUME NEW i \in DOMAIN queue'[x] PROVE queue'[x][i] \in Coming(x)
    BY <1>2, <2>1, <2>2, ComingIs
  <2> QED
    BY <2>2, LessToCome
<1> QED
  BY <1>2, <1>3, <1>4

LEMMA ArriveEffect ==
  ASSUME NetTypes, Arrive
  PROVE  /\ NetTypes' /\ udp' = udp /\ group' = group
         /\ \A x \in Receivers : Coming(x)' \subseteq Coming(x)
         /\ \A x \in Receivers : queue'[x] = <<>> \/ queue[x] # <<>>
              \/ (IF x = Group THEN group.in ELSE udp[x] \in {"bound", "ephemeral"})
<1>1. udp' = udp /\ group' = group
  BY DEF Arrive
<1>2. PICK d \in wire :
        /\ wire' = wire \ {d}
        /\ IF Reaches(d) /\ Len(queue[d.receiver]) < QueueSize
             THEN queue' = [queue EXCEPT ![d.receiver] = Append(queue[d.receiver], d.message)]
             ELSE queue' = queue
  BY DEF Arrive
<1>3. d.receiver \in Receivers /\ d.message \in Messages
  BY DatagramFacts
<1>4. wire' \subseteq wire
  BY <1>2
<1>5. wire' \subseteq [receiver : Receivers, port : Ports, message : Messages]
  BY <1>4 DEF NetTypes
<1>6. CASE ~(Reaches(d) /\ Len(queue[d.receiver]) < QueueSize)
  <2>1. queue' = queue
    BY <1>2, <1>6
  <2>2. NetTypes'
    BY <1>5, <2>1 DEF NetTypes
  <2>3. \A x \in Receivers : Coming(x)' \subseteq Coming(x)
    BY <1>4, <2>1, LessToCome, ComingIs
  <2> QED
    BY <1>1, <2>1, <2>2, <2>3
<1>7. CASE Reaches(d) /\ Len(queue[d.receiver]) < QueueSize
  <2> DEFINE q == Append(queue[d.receiver], d.message)
  <2>1. queue' = [queue EXCEPT ![d.receiver] = q]
    BY <1>2, <1>7
  <2>2. /\ queue[d.receiver] \in Seq(Messages) /\ Len(queue[d.receiver]) \in Nat
        /\ DOMAIN queue[d.receiver] = 1..Len(queue[d.receiver])
    BY <1>3, QueueFacts
  <2>3. /\ q \in Seq(Messages) /\ Len(q) = Len(queue[d.receiver]) + 1
        /\ \A i \in 1..Len(queue[d.receiver]) : q[i] = queue[d.receiver][i]
        /\ q[Len(queue[d.receiver]) + 1] = d.message
    BY <1>3, <2>2, AppendProperties
  <2>4. DOMAIN q = 1..(Len(queue[d.receiver]) + 1)
    BY <2>3, LenProperties
  <2> HIDE DEF q
  <2>5. /\ queue' \in [Receivers -> Seq(Messages)]
        /\ \A x \in Receivers : queue'[x] = IF x = d.receiver THEN q ELSE queue[x]
    BY <1>3, <2>1, <2>3 DEF NetTypes
  <2>6. NetTypes'
    <3>1. QueueSize \in Nat
      BY SizeAssumption
    <3>2. Len(q) <= QueueSize
      BY <1>7, <2>2, <2>3, <3>1
    <3>3. \A x \in Receivers : Len(queue'[x]) <= QueueSize
      BY <2>5, <3>2 DEF NetTypes
    <3> QED
      BY <1>5, <2>5, <3>3 DEF NetTypes
  <2>7. ASSUME NEW x \in Receivers PROVE Coming(x)' \subseteq Coming(x)
    <3>1. ASSUME NEW i \in DOMAIN queue'[x] PROVE queue'[x][i] \in Coming(x)
      <4>1. CASE x # d.receiver
        BY <2>5, <3>1, <4>1, ComingIs
      <4>2. CASE x = d.receiver /\ i \in DOMAIN queue[d.receiver]
        BY <2>2, <2>3, <2>5, <4>2, ComingIs
      <4>3. CASE x = d.receiver /\ i \notin DOMAIN queue[d.receiver]
        <5>1. i = Len(queue[d.receiver]) + 1
          BY <2>2, <2>4, <2>5, <3>1, <4>3
        <5>2. queue'[x][i] = d.message
          BY <2>3, <2>5, <4>3, <5>1
        <5> QED
          BY <4>3, <5>2, ComingIs
      <4> QED
        BY <4>1, <4>2, <4>3
    <3> QED
      BY <1>4, <3>1, LessToCome
  <2>8. IF d.receiver = Group THEN group.in ELSE udp[d.receiver] \in {"bound", "ephemeral"}
    BY <1>7 DEF Reaches
  <2> QED
    BY <1>1, <2>5, <2>6, <2>7, <2>8
<1> QED
  BY <1>6, <1>7

(* What is sent is to come to whom it is addressed.                          *)
LEMMA SentEffect ==
  ASSUME NetTypes, queue' = queue, NEW new, wire' = wire \cup new,
         new \subseteq [receiver : Receivers, port : Ports, message : Messages]
  PROVE  /\ NetTypes'
         /\ \A x : \A m \in Coming(x)' : m \in Coming(x) \/ \E d \in new : d.receiver = x /\ d.message = m
<1>1. NetTypes'
  BY DEF NetTypes
<1>2. ASSUME NEW x, NEW m \in Coming(x)'
      PROVE  m \in Coming(x) \/ \E d \in new : d.receiver = x /\ d.message = m
  <2>1. CASE \E d \in wire' : d.receiver = x /\ d.message = m
    <3>1. PICK d \in wire' : d.receiver = x /\ d.message = m
      BY <2>1
    <3>2. CASE d \in wire
      BY <3>1, <3>2, ComingIs
    <3>3. CASE d \in new
      BY <3>1, <3>3
    <3> QED
      BY <3>2, <3>3
  <2>2. CASE \E i \in DOMAIN queue[x] : queue[x][i] = m
    BY <2>2, ComingIs
  <2>3. Coming(x)' = {d.message : d \in {y \in wire' : y.receiver = x}} \cup {queue[x][i] : i \in DOMAIN queue[x]}
    BY DEF Coming
  <2> QED
    BY <1>2, <2>1, <2>2, <2>3
<1> QED
  BY <1>1, <1>2

-----------------------------------------------------------------------------
(* The sockets. *)

UdpStates == {"none", "unbound", "bound", "ephemeral", "closed"}

SocketStates ==
  /\ NetTypes
  /\ udp \in [Udps -> UdpStates]
  /\ group \in [in : BOOLEAN, out : BOOLEAN, open : BOOLEAN]
  /\ waits \in Udps \cup {Nobody}
  /\ ops \in 0..MaxOps
  /\ GroupIsWhole /\ QueuesAreOwned /\ OnlyAFailedOpenBlocks

(* No call runs while a receive_from blocks, and to the end point come       *)
(* events and answers only.                                                  *)
SocketsIInv ==
  /\ SocketStates /\ CallStates
  /\ Coming(Ep) \subseteq EpMessages
  /\ waits # Nobody => current.left = 0

LEMMA TransmitEffect ==
  ASSUME udp \in [Udps -> UdpStates], NEW s \in Udps, udp' = Transmitted(s)
  PROVE  /\ udp' \in [Udps -> UdpStates]
         /\ \A x \in Udps : /\ udp[x] \in {"bound", "ephemeral"} => udp'[x] \in {"bound", "ephemeral"}
                            /\ udp[x] \in {"unbound", "ephemeral"} => udp'[x] \in {"unbound", "ephemeral"}
<1>1. \A x \in Udps : udp[x] \in UdpStates /\ udp'[x] = IF x = s /\ udp[x] = "unbound" THEN "ephemeral" ELSE udp[x]
  BY DEF Transmitted
<1>2. udp' = [x \in Udps |-> udp'[x]]
  BY <1>1 DEF Transmitted
<1>3. \A x \in Udps : udp'[x] \in UdpStates
  BY <1>1 DEF UdpStates
<1> QED
  BY <1>1, <1>2, <1>3

(* Of the queues that there may be, those that are left are still owned.     *)
LEMMA StillOwned ==
  ASSUME SocketStates, group' = group,
         \A x \in Receivers : queue'[x] # <<>> => queue[x] # <<>>,
         \A x \in Udps : udp[x] \in {"bound", "ephemeral"} => udp'[x] \in {"bound", "ephemeral"}
  PROVE  QueuesAreOwned'
<1>1. QueuesAreOwned /\ GroupIsOpen' = GroupIsOpen
  BY DEF SocketStates, GroupIsOpen
<1>2. Group \in Receivers /\ \A s \in Udps : s \in Receivers
  BY DEF Receivers
<1> QED
  BY <1>1, <1>2 DEF QueuesAreOwned

LEMMA OpenKeeps ==
  ASSUME SocketStates, NEW s \in Udps, Open(s) \/ (Close(s) /\ udp[s] # "none")
  PROVE  SocketStates' /\ \A x \in Receivers : Coming(x)' \subseteq Coming(x)
<1>1. /\ \E state \in {"bound", "unbound", "closed"} : udp' = [udp EXCEPT ![s] = state]
      /\ waits = Nobody /\ ops < MaxOps /\ ops' = ops + 1 /\ waits' = waits /\ group' = group
      /\ queue' = [queue EXCEPT ![s] = <<>>] /\ wire' = Reachable(s)
  BY DEF Open, Close, Call
<1>2. NetTypes /\ s \in Receivers /\ wire' \subseteq wire
  BY <1>1 DEF SocketStates, Reachable, Receivers
<1>3. /\ NetTypes'
      /\ \A x \in Receivers : Coming(x)' \subseteq Coming(x)
      /\ \A x \in Receivers : queue'[x] = IF x = s THEN <<>> ELSE queue[x]
  BY <1>1, <1>2, DropEffect
<1>4. /\ udp' \in [Udps -> UdpStates]
      /\ \A x \in Udps : x # s => udp'[x] = udp[x]
  <2>1. PICK state \in {"bound", "unbound", "closed"} : udp' = [udp EXCEPT ![s] = state]
    BY <1>1
  <2> QED
    BY <2>1 DEF SocketStates, UdpStates
<1>5. QueuesAreOwned'
  <2>1. Group # s /\ Group \in Receivers /\ \A x \in Udps : x \in Receivers
    BY SocketAssumption DEF Receivers
  <2>2. QueuesAreOwned /\ GroupIsOpen' = GroupIsOpen
    BY <1>1 DEF SocketStates, GroupIsOpen
  <2> QED
    BY <1>3, <1>4, <2>1, <2>2 DEF QueuesAreOwned
<1>6. waits' \in Udps \cup {Nobody} /\ ops' \in 0..MaxOps /\ OnlyAFailedOpenBlocks'
  <2>1. ops \in 0..MaxOps /\ MaxOps \in Nat
    BY SizeAssumption DEF SocketStates
  <2>2. ops' \in 0..MaxOps
    BY <1>1, <2>1
  <2> QED
    BY <1>1, <2>2 DEF OnlyAFailedOpenBlocks
<1>7. group' \in [in : BOOLEAN, out : BOOLEAN, open : BOOLEAN] /\ GroupIsWhole'
  BY <1>1 DEF SocketStates, GroupIsWhole
<1> QED
  BY <1>3, <1>4, <1>5, <1>6, <1>7 DEF SocketStates

LEMMA GroupKeeps ==
  ASSUME SocketStates, OpenGroup \/ CloseGroup
  PROVE  SocketStates' /\ \A x \in Receivers : Coming(x)' \subseteq Coming(x)
<1>1. /\ group' \in {[in |-> TRUE, out |-> TRUE, open |-> TRUE], Gone}
      /\ waits = Nobody /\ ops < MaxOps /\ ops' = ops + 1 /\ waits' = waits /\ udp' = udp
      /\ queue' = [queue EXCEPT ![Group] = <<>>] /\ wire' = wire
  BY DEF OpenGroup, CloseGroup, Call
<1>2. NetTypes /\ Group \in Receivers /\ wire' \subseteq wire
  BY <1>1 DEF SocketStates, Receivers
<1>3. /\ NetTypes'
      /\ \A x \in Receivers : Coming(x)' \subseteq Coming(x)
      /\ \A x \in Receivers : queue'[x] = IF x = Group THEN <<>> ELSE queue[x]
  BY <1>1, <1>2, DropEffect
<1>4. QueuesAreOwned'
  <2>1. \A x \in Udps : x \in Receivers /\ x # Group
    BY SocketAssumption DEF Receivers
  <2>2. QueuesAreOwned
    BY DEF SocketStates
  <2> QED
    BY <1>1, <1>2, <1>3, <2>1, <2>2 DEF QueuesAreOwned
<1>5. waits' \in Udps \cup {Nobody} /\ ops' \in 0..MaxOps /\ OnlyAFailedOpenBlocks'
  <2>1. ops \in 0..MaxOps /\ MaxOps \in Nat
    BY SizeAssumption DEF SocketStates
  <2>2. ops' \in 0..MaxOps
    BY <1>1, <2>1
  <2> QED
    BY <1>1, <2>2 DEF OnlyAFailedOpenBlocks
<1>6. group' \in [in : BOOLEAN, out : BOOLEAN, open : BOOLEAN] /\ GroupIsWhole'
  <2>1. CASE group' = [in |-> TRUE, out |-> TRUE, open |-> TRUE]
    BY <2>1 DEF GroupIsWhole
  <2>2. CASE group' = Gone
    BY <2>2 DEF GroupIsWhole, Gone
  <2> QED
    BY <1>1, <2>1, <2>2
<1>7. udp' \in [Udps -> UdpStates]
  BY <1>1 DEF SocketStates
<1> QED
  BY <1>3, <1>4, <1>5, <1>6, <1>7 DEF SocketStates

(* What leaves the sockets as they are, and takes at most one message.       *)
LEMMA ReceiveKeeps ==
  ASSUME SocketStates, NEW r \in Receivers, wire' = wire, udp' = udp, group' = group,
         queue' = queue \/ (queue[r] # <<>> /\ Take(r)),
         ops' = ops \/ (ops < MaxOps /\ ops' = ops + 1),
         waits' \in Udps \cup {Nobody}, OnlyAFailedOpenBlocks'
  PROVE  SocketStates' /\ \A x \in Receivers : Coming(x)' \subseteq Coming(x)
<1>1. NetTypes
  BY DEF SocketStates
<1>2. /\ NetTypes'
      /\ \A x \in Receivers : Coming(x)' \subseteq Coming(x)
      /\ \A x \in Receivers : queue'[x] # <<>> => queue[x] # <<>>
  <2>1. CASE queue' = queue
    <3>1. NetTypes'
      BY <1>1, <2>1 DEF NetTypes
    <3>2. \A x \in Receivers : Coming(x)' \subseteq Coming(x)
      BY <2>1, LessToCome, ComingIs
    <3> QED
      BY <2>1, <3>1, <3>2
  <2>2. CASE queue[r] # <<>> /\ Take(r)
    BY <1>1, <2>2, TakeEffect
  <2> QED
    BY <2>1, <2>2
<1>3. QueuesAreOwned'
  BY <1>2, StillOwned
<1>4. ops' \in 0..MaxOps
  <2>1. ops \in 0..MaxOps /\ MaxOps \in Nat
    BY SizeAssumption DEF SocketStates
  <2> QED
    BY <2>1
<1>5. /\ udp' \in [Udps -> UdpStates] /\ group' \in [in : BOOLEAN, out : BOOLEAN, open : BOOLEAN]
      /\ GroupIsWhole'
  BY DEF SocketStates, GroupIsWhole
<1> QED
  BY <1>2, <1>3, <1>4, <1>5 DEF SocketStates

(* What sends: an unbound socket gets a port, and what is sent is to come.   *)
LEMMA SendKeeps ==
  ASSUME SocketStates, queue' = queue, group' = group, waits' = waits,
         udp' = udp \/ \E s \in Udps : udp' = Transmitted(s),
         ops' = ops \/ (ops < MaxOps /\ ops' = ops + 1),
         NEW new, wire' = wire \cup new,
         new \subseteq [receiver : Receivers, port : Ports, message : Messages]
  PROVE  /\ SocketStates'
         /\ \A x : \A m \in Coming(x)' : m \in Coming(x) \/ \E d \in new : d.receiver = x /\ d.message = m
<1>1. NetTypes
  BY DEF SocketStates
<1>2. /\ NetTypes'
      /\ \A x : \A m \in Coming(x)' : m \in Coming(x) \/ \E d \in new : d.receiver = x /\ d.message = m
  BY <1>1, SentEffect
<1>3. /\ udp' \in [Udps -> UdpStates]
      /\ \A x \in Udps : /\ udp[x] \in {"bound", "ephemeral"} => udp'[x] \in {"bound", "ephemeral"}
                         /\ udp[x] \in {"unbound", "ephemeral"} => udp'[x] \in {"unbound", "ephemeral"}
  <2>1. udp \in [Udps -> UdpStates]
    BY DEF SocketStates
  <2>2. CASE udp' = udp
    BY <2>1, <2>2
  <2>3. CASE \E s \in Udps : udp' = Transmitted(s)
    BY <2>1, <2>3, TransmitEffect
  <2> QED
    BY <2>2, <2>3
<1>4. QueuesAreOwned'
  BY <1>3, StillOwned
<1>5. ops' \in 0..MaxOps
  <2>1. ops \in 0..MaxOps /\ MaxOps \in Nat
    BY SizeAssumption DEF SocketStates
  <2> QED
    BY <2>1
<1>6. waits' \in Udps \cup {Nobody} /\ OnlyAFailedOpenBlocks'
  BY <1>3 DEF SocketStates, OnlyAFailedOpenBlocks
<1>7. group' \in [in : BOOLEAN, out : BOOLEAN, open : BOOLEAN] /\ GroupIsWhole'
  BY DEF SocketStates, GroupIsWhole
<1> QED
  BY <1>2, <1>3, <1>4, <1>5, <1>6, <1>7 DEF SocketStates

LEMMA SendDirectly ==
  ASSUME SocketStates, NEW s \in Udps, Send(s)
  PROVE  SocketStates' /\ \A x \in Receivers : Coming(x)' \subseteq Coming(x)
<1> DEFINE nothing == {}
<1>1. /\ queue' = queue /\ group' = group /\ waits' = waits /\ wire' = wire \cup nothing
      /\ udp' = udp \/ udp' = Transmitted(s)
      /\ ops < MaxOps /\ ops' = ops + 1
  BY DEF Send, Call
<1>2. nothing \subseteq [receiver : Receivers, port : Ports, message : Messages] /\ \A d \in nothing : FALSE
  OBVIOUS
<1> HIDE DEF nothing
<1>3. /\ SocketStates'
      /\ \A x : \A m \in Coming(x)' : m \in Coming(x) \/ \E d \in nothing : d.receiver = x /\ d.message = m
  BY <1>1, <1>2, SendKeeps
<1> QED
  BY <1>2, <1>3

LEMMA SendToGroup ==
  ASSUME SocketStates, SendGroup
  PROVE  SocketStates' /\ Coming(Ep)' \subseteq Coming(Ep)
<1>1. PICK new \in {{}, {Datagram(Group, "own", Plain)}} : wire' = wire \cup new
  BY DEF SendGroup
<1>2. /\ queue' = queue /\ group' = group /\ waits' = waits /\ udp' = udp
      /\ ops < MaxOps /\ ops' = ops + 1
  BY DEF SendGroup, Call
<1>3. /\ new \subseteq [receiver : Receivers, port : Ports, message : Messages]
      /\ \A d \in new : d.receiver = Group
  BY DEF Datagram, Receivers, Ports, Messages
<1>4. /\ SocketStates'
      /\ \A x : \A m \in Coming(x)' : m \in Coming(x) \/ \E d \in new : d.receiver = x /\ d.message = m
  BY <1>1, <1>2, <1>3, SendKeeps
<1>5. Ep # Group
  BY SocketAssumption, SomeIpAssumption
<1> QED
  BY <1>3, <1>4, <1>5

LEMMA ReceiveDirectly ==
  ASSUME SocketStates, NEW r \in Receivers,
         \/ Recv(r)
         \/ r \in Udps /\ (ReceiveFrom(r) \/ ReceiveFromTimed(r) \/ (Close(r) /\ udp[r] = "none"))
         \/ r = Group /\ (ReceiveFromGroup \/ SendToHost)
         \/ r = waits /\ Unblock
  PROVE  SocketStates' /\ \A x \in Receivers : Coming(x)' \subseteq Coming(x)
<1>1. wire' = wire /\ udp' = udp /\ group' = group
  BY DEF Recv, ReceiveFrom, ReceiveFromTimed, Close, ReceiveFromGroup, SendToHost, Unblock, sockets
<1>2. queue' = queue \/ (queue[r] # <<>> /\ Take(r))
  BY DEF Recv, ReceiveFrom, ReceiveFromTimed, Close, ReceiveFromGroup, SendToHost, Unblock, sockets
<1>3. ops' = ops \/ (ops < MaxOps /\ ops' = ops + 1)
  BY DEF Recv, ReceiveFrom, ReceiveFromTimed, Close, ReceiveFromGroup, SendToHost, Unblock, Call
<1>4. waits' \in Udps \cup {Nobody} /\ OnlyAFailedOpenBlocks'
  <2>1. CASE r \in Udps /\ ReceiveFrom(r) /\ waits' # waits
    <3>1. waits' = r /\ Live(r) /\ udp[r] # "bound"
      BY <2>1 DEF ReceiveFrom
    <3> QED
      BY <1>1, <2>1, <3>1 DEF OnlyAFailedOpenBlocks, Live
  <2>2. CASE waits' = waits
    BY <1>1, <2>2 DEF SocketStates, OnlyAFailedOpenBlocks
  <2>3. CASE waits' = Nobody
    BY <2>3 DEF OnlyAFailedOpenBlocks
  <2>4. waits' = waits \/ waits' = Nobody \/ (r \in Udps /\ ReceiveFrom(r) /\ waits' # waits)
    BY DEF Recv, ReceiveFromTimed, Close, ReceiveFromGroup, SendToHost, Unblock
  <2> QED
    BY <2>1, <2>2, <2>3, <2>4
<1> QED
  BY <1>1, <1>2, <1>3, <1>4, ReceiveKeeps

LEMMA DirectKeeps ==
  ASSUME SocketStates, Unblock \/ \E r \in Receivers : Direct(r)
  PROVE  SocketStates' /\ Coming(Ep)' \subseteq Coming(Ep)
<1>0. Ep \in Receivers /\ (waits \in Udps => waits \in Receivers)
  BY SomeIpAssumption DEF Receivers
<1>1. CASE Unblock
  BY <1>0, <1>1, ReceiveDirectly DEF Unblock
<1>2. ASSUME NEW r \in Receivers, Direct(r)
      PROVE  SocketStates' /\ Coming(Ep)' \subseteq Coming(Ep)
  <2>1. CASE r \in Udps /\ (Open(r) \/ Close(r))
    BY <1>0, <2>1, OpenKeeps, ReceiveDirectly
  <2>2. CASE r \in Udps /\ Send(r)
    BY <1>0, <2>2, SendDirectly
  <2>3. CASE Recv(r) \/ (r \in Udps /\ (ReceiveFrom(r) \/ ReceiveFromTimed(r)))
    BY <1>0, <2>3, ReceiveDirectly
  <2>4. CASE OpenGroup \/ CloseGroup
    BY <1>0, <2>4, GroupKeeps
  <2>5. CASE SendGroup
    BY <2>5, SendToGroup
  <2>6. CASE r = Group /\ (SendToHost \/ ReceiveFromGroup)
    BY <1>0, <2>6, ReceiveDirectly
  <2> QED
    BY <1>2, <2>1, <2>2, <2>3, <2>4, <2>5, <2>6 DEF Direct
<1> QED
  BY <1>1, <1>2

-----------------------------------------------------------------------------
(* The sockets under the calls of SomeipUtils. *)

LEMMA IInvGivesSocketsInv == SocketsIInv => SocketsInv
<1> SUFFICES ASSUME SocketsIInv PROVE SocketsInv
  OBVIOUS
<1>1. SocketStates /\ CallStates
  BY DEF SocketsIInv
<1>2. SocketsTypeOK
  BY <1>1 DEF SocketStates, NetTypes, UdpStates, SocketsTypeOK
<1>3. SomeIpTypeOK
  BY <1>1, <1>2 DEF CallStates, CallTypes, SomeIpTypeOK
<1> QED
  BY <1>1, <1>3 DEF SocketStates, SocketsInv

LEMMA BeginEffect ==
  ASSUME SocketsIInv, NEW op \in {"find", "subscribe", "invoke"}, NEW over \in Receivers,
         NEW service \in Services, NEW sought \in Groups \cup Methods \cup {NoGroup},
         NEW left \in Nat, \E r \in Retries \cup {1} : left \in 0..r,
         BeginCall(op, over, service, sought, left)
  PROVE  /\ current' = [op |-> op, over |-> over, service |-> service, asked |-> sought, left |-> left]
         /\ current' \in CallTypes /\ (\E r \in Retries \cup {1} : current'.left \in 0..r)
         /\ calls' \in 0..MaxCalls /\ waits = Nobody /\ current.left = 0
<1>1. /\ current' = [op |-> op, over |-> over, service |-> service, asked |-> sought, left |-> left]
      /\ waits = Nobody /\ current.left = 0 /\ calls < MaxCalls /\ calls' = calls + 1
  BY DEF BeginCall, NothingRuns
<1>2. current' \in CallTypes
  BY <1>1 DEF CallTypes
<1>3. current'.left = left
  BY <1>1
<1>4. calls' \in 0..MaxCalls
  <2>1. calls \in 0..MaxCalls /\ MaxCalls \in Nat
    BY SomeIpAssumption DEF SocketsIInv, CallStates
  <2> QED
    BY <1>1, <2>1
<1> QED
  BY <1>1, <1>2, <1>3, <1>4

(* A call that begins and sends.                                             *)
LEMMA CallSends ==
  ASSUME SocketsIInv, NEW op \in {"find", "subscribe", "invoke"}, NEW over \in Receivers,
         NEW service \in Services, NEW sought \in Groups \cup Methods \cup {NoGroup},
         NEW left \in Nat, \E r \in Retries \cup {1} : left \in 0..r,
         BeginCall(op, over, service, sought, left),
         queue' = queue, group' = group, waits' = waits, ops' = ops,
         udp' = udp \/ \E s \in Udps : udp' = Transmitted(s),
         NEW new, wire' = wire \cup new,
         new \subseteq [receiver : Receivers, port : Ports, message : Messages],
         \A d \in new : d.receiver = Ep => d.message \in EpMessages,
         verdict' \in {"none", "ack", "nack"}, subscribed' \subseteq Services \X Groups,
         unasked' = unasked, job' = job
  PROVE  SocketsIInv'
<1>1. /\ current' \in CallTypes /\ (\E r \in Retries \cup {1} : current'.left \in 0..r)
      /\ calls' \in 0..MaxCalls /\ waits = Nobody
  BY BeginEffect, SMTT(30)
<1>2. /\ SocketStates'
      /\ \A x : \A m \in Coming(x)' : m \in Coming(x) \/ \E d \in new : d.receiver = x /\ d.message = m
  BY SendKeeps DEF SocketsIInv
<1>3. Coming(Ep)' \subseteq EpMessages
  BY <1>2 DEF SocketsIInv
<1>4. CallStates'
  BY <1>1 DEF SocketsIInv, CallStates
<1> QED
  BY <1>1, <1>2, <1>3, <1>4 DEF SocketsIInv

LEMMA SdIs == /\ Sd \in Udps /\ Ep \in Udps /\ Sd # Ep /\ Sd # Group /\ Ep # Group
              /\ Sd \in Receivers /\ Ep \in Receivers /\ Group \in Receivers
  BY SomeIpAssumption, SocketAssumption DEF Receivers

LEMMA RaisedCall ==
  ASSUME SocketsIInv, NEW op \in {"find", "subscribe", "invoke"}, NEW over \in Receivers,
         NEW service \in Services, NEW sought \in Groups \cup Methods \cup {NoGroup},
         SendRaises(op, over, service, sought), job' = job
  PROVE  SocketsIInv'
<1> DEFINE nothing == {}
<1>1. /\ BeginCall(op, over, service, sought, 0) /\ verdict' = "none" /\ unasked' = unasked
      /\ queue' = queue /\ group' = group /\ waits' = waits /\ ops' = ops /\ udp' = udp
      /\ wire' = wire \cup nothing /\ subscribed' = subscribed
  BY DEF SendRaises, sockets, servers
<1>2. /\ nothing \subseteq [receiver : Receivers, port : Ports, message : Messages]
      /\ \A d \in nothing : d.receiver = Ep => d.message \in EpMessages
  OBVIOUS
<1>3. subscribed' \subseteq Services \X Groups
  BY <1>1 DEF SocketsIInv, CallStates
<1>4. 0 \in Nat /\ \E r \in Retries \cup {1} : 0 \in 0..r
  BY SomeIpAssumption
<1> HIDE DEF nothing
<1> QED
  BY <1>1, <1>2, <1>3, <1>4, CallSends

LEMMA RetriesAreNumbers ==
  ASSUME NEW left \in Retries \cup {1}
  PROVE  left \in Nat /\ \E r \in Retries \cup {1} : left \in 0..r
<1>1. left \in Nat
  BY SomeIpAssumption
<1> QED
  BY <1>1

LEMMA AnswersSend ==
  ASSUME NEW s \in Udps, NEW messages, messages \subseteq Messages, Answers(s, messages),
         s = Ep => messages \subseteq EpMessages
  PROVE  /\ queue' = queue /\ group' = group /\ udp' = Transmitted(s)
         /\ \E new : /\ wire' = wire \cup new
                     /\ new \subseteq [receiver : Receivers, port : Ports, message : Messages]
                     /\ \A d \in new : d.receiver = s /\ d.message \in messages
                     /\ \A d \in new : d.receiver = Ep => d.message \in EpMessages
<1>1. /\ queue' = queue /\ group' = group /\ udp' = Transmitted(s)
      /\ \E new \in {{}} \cup {{Datagram(s, AnswerPort(s), m)} : m \in messages} : wire' = wire \cup new
  BY DEF Answers
<1>2. PICK new \in {{}} \cup {{Datagram(s, AnswerPort(s), m)} : m \in messages} : wire' = wire \cup new
  BY <1>1
<1>3. s \in Receivers /\ AnswerPort(s) \in Ports
  BY DEF Receivers, Ports, AnswerPort
<1>4. CASE new = {}
  BY <1>1, <1>2, <1>4
<1>5. ASSUME NEW m \in messages, new = {Datagram(s, AnswerPort(s), m)}
      PROVE  /\ new \subseteq [receiver : Receivers, port : Ports, message : Messages]
             /\ \A d \in new : d.receiver = s /\ d.message \in messages
             /\ \A d \in new : d.receiver = Ep => d.message \in EpMessages
  BY <1>3, <1>5 DEF Datagram
<1> QED
  BY <1>1, <1>2, <1>4, <1>5

LEMMA FindBegins ==
  ASSUME SocketsIInv, FindOverUdp \/ FindOverGroup, job' = job
  PROVE  SocketsIInv'
<1>1. NoGroup \in Groups \cup Methods \cup {NoGroup} /\ subscribed \subseteq Services \X Groups
  BY DEF SocketsIInv, CallStates
<1>2. ASSUME NEW service \in Services, SendRaises("find", Sd, service, NoGroup) PROVE SocketsIInv'
  BY <1>1, <1>2, SdIs, RaisedCall
<1>3. ASSUME NEW service \in Services, NEW retries \in Retries, BeginCall("find", Sd, service, NoGroup, retries),
             Answers(Sd, Offers), verdict' = "none", UNCHANGED <<waits, ops, servers>>
      PROVE  SocketsIInv'
  <2>1. PICK new : /\ wire' = wire \cup new
                   /\ new \subseteq [receiver : Receivers, port : Ports, message : Messages]
                   /\ \A d \in new : d.receiver = Ep => d.message \in EpMessages
    <3>1. Offers \subseteq Messages
      BY DEF Messages
    <3>2. /\ Sd = Ep => Offers \subseteq EpMessages
          /\ Sd \in Udps
      BY SdIs
    <3> QED
      BY <1>3, <3>1, <3>2, AnswersSend
  <2>2. queue' = queue /\ group' = group /\ udp' = Transmitted(Sd)
    BY <1>3 DEF Answers
  <2>3. waits' = waits /\ ops' = ops /\ subscribed' = subscribed /\ unasked' = unasked
    BY <1>3 DEF servers
  <2> QED
    BY <1>1, <1>3, <2>1, <2>2, <2>3, SdIs, RetriesAreNumbers, CallSends
<1>4. ASSUME NEW service \in Services, NEW retries \in Retries,
             BeginCall("find", Group, service, NoGroup, retries),
             verdict' = "none", UNCHANGED <<sockets, waits, ops, servers>>
      PROVE  SocketsIInv'
  <2> DEFINE nothing == {}
  <2>1. /\ nothing \subseteq [receiver : Receivers, port : Ports, message : Messages]
        /\ \A d \in nothing : d.receiver = Ep => d.message \in EpMessages
        /\ wire' = wire \cup nothing
    BY <1>4 DEF sockets
  <2> HIDE DEF nothing
  <2>2. queue' = queue /\ group' = group /\ udp' = udp
    BY <1>4 DEF sockets
  <2>3. waits' = waits /\ ops' = ops /\ subscribed' = subscribed /\ unasked' = unasked
    BY <1>4 DEF servers
  <2> QED
    BY <1>1, <1>4, <2>1, <2>2, <2>3, SdIs, RetriesAreNumbers, CallSends
<1> QED
  BY <1>2, <1>3, <1>4 DEF FindOverUdp, FindOverGroup

LEMMA SubscribeBegins ==
  ASSUME SocketsIInv, NEW service \in Services, NEW g \in Groups, BeginCall("subscribe", Sd, service, g, 1),
         NEW v \in {"none", "ack", "nack"}, NEW told \in BOOLEAN, NEW notified \in BOOLEAN,
         told => v # "none",
         udp' = Transmitted(Sd), verdict' = v,
         subscribed' = IF v = "ack" THEN subscribed \cup {<<service, g>>} ELSE subscribed,
         wire' = wire
           \cup (IF told THEN {Datagram(Sd, AnswerPort(Sd), Verdict(v, service, g))} ELSE {})
           \cup (IF notified THEN {Datagram(Ep, "own", Event(g))} ELSE {}),
         UNCHANGED <<group, queue, waits, ops, unasked>>, job' = job
  PROVE  SocketsIInv'
<1> DEFINE answer == IF told THEN {Datagram(Sd, AnswerPort(Sd), Verdict(v, service, g))} ELSE {}
           event == IF notified THEN {Datagram(Ep, "own", Event(g))} ELSE {}
           new == answer \cup event
<1>1. /\ answer \subseteq [receiver : Receivers, port : Ports, message : Messages]
      /\ \A d \in answer : d.receiver = Sd
  <2>1. ASSUME told PROVE Verdict(v, service, g) \in Messages
    BY <2>1 DEF Messages
  <2>2. AnswerPort(Sd) \in Ports
    BY DEF AnswerPort, Ports
  <2> QED
    BY <2>1, <2>2, SdIs DEF Datagram
<1>2. /\ event \subseteq [receiver : Receivers, port : Ports, message : Messages]
      /\ \A d \in event : d.message \in EpMessages
  <2>1. Event(g) \in EpMessages /\ Event(g) \in Messages
    BY DEF EpMessages, Messages
  <2> QED
    BY <2>1, SdIs DEF Datagram, Ports
<1>3. wire' = wire \cup new
  OBVIOUS
<1> HIDE DEF answer, event
<1>4. /\ new \subseteq [receiver : Receivers, port : Ports, message : Messages]
      /\ \A d \in new : d.receiver = Ep => d.message \in EpMessages
  BY <1>1, <1>2, SdIs
<1> HIDE DEF new
<1>5. subscribed' \subseteq Services \X Groups
  BY DEF SocketsIInv, CallStates
<1>6. g \in Groups \cup Methods \cup {NoGroup} /\ 1 \in Retries \cup {1}
  OBVIOUS
<1> QED
  BY <1>3, <1>4, <1>5, <1>6, SdIs, RetriesAreNumbers, CallSends

LEMMA InvokeBegins ==
  ASSUME SocketsIInv, Invoke, job' = job
  PROVE  SocketsIInv'
<1>1. subscribed \subseteq Services \X Groups
  BY DEF SocketsIInv, CallStates
<1>2. ASSUME NEW service \in Services, NEW method \in Methods, SendRaises("invoke", Ep, service, method)
      PROVE  SocketsIInv'
  BY <1>2, SdIs, RaisedCall
<1>3. ASSUME NEW service \in Services, NEW method \in Methods, BeginCall("invoke", Ep, service, method, 1),
             Answers(Ep, {Reply(method, code) : code \in ReplyCodes}), verdict' = "none",
             UNCHANGED <<waits, ops, servers>>
      PROVE  SocketsIInv'
  <2> DEFINE messages == {Reply(method, code) : code \in ReplyCodes}
  <2>1. messages \subseteq EpMessages /\ messages \subseteq Messages
    BY DEF EpMessages, Messages
  <2>2. Answers(Ep, messages)
    BY <1>3
  <2> HIDE DEF messages
  <2>3. PICK new : /\ wire' = wire \cup new
                   /\ new \subseteq [receiver : Receivers, port : Ports, message : Messages]
                   /\ \A d \in new : d.receiver = Ep => d.message \in EpMessages
    BY <2>1, <2>2, SdIs, AnswersSend
  <2>4. queue' = queue /\ group' = group /\ udp' = Transmitted(Ep)
    BY <1>3 DEF Answers
  <2>5. waits' = waits /\ ops' = ops /\ subscribed' = subscribed /\ unasked' = unasked
    BY <1>3 DEF servers
  <2>6. method \in Groups \cup Methods \cup {NoGroup} /\ 1 \in Retries \cup {1}
    OBVIOUS
  <2> QED
    BY <1>1, <1>3, <2>3, <2>4, <2>5, <2>6, SdIs, RetriesAreNumbers, CallSends
<1> QED
  BY <1>2, <1>3 DEF Invoke, ReplyCodes

LEMMA CallReceives ==
  ASSUME SocketsIInv, NEW r \in Receivers, current.left > 0,
         wire' = wire, udp' = udp, group' = group, queue' = queue \/ (queue[r] # <<>> /\ Take(r)),
         \/ current' = [current EXCEPT !.left = 0]
         \/ current' = [current EXCEPT !.left = current.left - 1]
         \/ current' = [current EXCEPT !.op = "initial"],
         UNCHANGED <<waits, ops, verdict, servers, calls, job>>
  PROVE  SocketsIInv' /\ \A x \in Receivers : Coming(x)' \subseteq Coming(x)
<1>1. SocketStates /\ CallStates /\ waits = Nobody
  BY DEF SocketsIInv, CallStates, CallTypes
<1>2. waits' \in Udps \cup {Nobody} /\ OnlyAFailedOpenBlocks'
  BY <1>1 DEF SocketStates, OnlyAFailedOpenBlocks
<1>3. SocketStates' /\ \A x \in Receivers : Coming(x)' \subseteq Coming(x)
  BY <1>1, <1>2, ReceiveKeeps
<1>4. current \in CallTypes /\ current.left \in Nat /\ \E x \in Retries \cup {1} : current.left \in 0..x
  BY <1>1 DEF CallStates, CallTypes
<1>5. current' \in CallTypes /\ \E x \in Retries \cup {1} : current'.left \in 0..x
  <2>1. CASE current' = [current EXCEPT !.left = 0]
    <3>1. current' \in CallTypes /\ current'.left = 0
      BY <1>4, <2>1 DEF CallTypes
    <3>2. 0 \in 0..1
      OBVIOUS
    <3> QED
      BY <3>1, <3>2
  <2>2. CASE current' = [current EXCEPT !.left = current.left - 1]
    <3>1. current.left - 1 \in Nat
      BY <1>4
    <3>2. current' \in CallTypes /\ current'.left = current.left - 1
      BY <1>4, <2>2, <3>1 DEF CallTypes
    <3>3. PICK x \in Retries \cup {1} : current.left \in 0..x
      BY <1>4
    <3>4. x \in Nat
      BY SomeIpAssumption
    <3>5. current'.left \in 0..x
      BY <3>1, <3>2, <3>3, <3>4
    <3> QED
      BY <3>2, <3>5
  <2>3. CASE current' = [current EXCEPT !.op = "initial"]
    <3>1. current' \in CallTypes /\ current'.left = current.left
      BY <1>4, <2>3 DEF CallTypes
    <3> QED
      BY <1>4, <3>1
  <2> QED
    BY <2>1, <2>2, <2>3
<1>6. CallStates'
  BY <1>1, <1>5 DEF CallStates, servers
<1>7. Coming(Ep)' \subseteq EpMessages
  BY <1>3, SdIs DEF SocketsIInv
<1> QED
  BY <1>1, <1>3, <1>6, <1>7 DEF SocketsIInv

LEMMA StepReceives ==
  ASSUME SocketsIInv, Steps, job' = job
  PROVE  /\ current.left > 0
         /\ SocketsIInv' /\ \A x \in Receivers : Coming(x)' \subseteq Coming(x)
<1>1. current.left \in Nat /\ current.over \in Receivers
  BY DEF SocketsIInv, CallStates, CallTypes
<1>2. CASE FindReceives
  <2>1. /\ current.left > 0 /\ wire' = wire /\ udp' = udp /\ group' = group
        /\ UNCHANGED <<waits, ops, verdict, servers, calls>>
    BY <1>2 DEF FindReceives
  <2>2. queue' = queue \/ (queue[current.over] # <<>> /\ Take(current.over))
    BY <1>2 DEF FindReceives
  <2>3. current' = [current EXCEPT !.left = 0] \/ current' = [current EXCEPT !.left = current.left - 1]
    BY <1>2 DEF FindReceives, End
  <2> QED
    BY <1>1, <2>1, <2>2, <2>3, CallReceives
<1>3. CASE SubscribeReceives
  <2>1. /\ current.left > 0 /\ wire' = wire /\ udp' = udp /\ group' = group
        /\ UNCHANGED <<waits, ops, verdict, servers, calls>>
    BY <1>3 DEF SubscribeReceives, direct
  <2>2. queue' = queue \/ (queue[Sd] # <<>> /\ Take(Sd))
    BY <1>3 DEF SubscribeReceives
  <2>3. current' = [current EXCEPT !.left = 0] \/ current' = [current EXCEPT !.op = "initial"]
    BY <1>3 DEF SubscribeReceives, End
  <2> QED
    BY <2>1, <2>2, <2>3, SdIs, CallReceives
<1>4. CASE InitialReceives \/ InvokeReceives
  <2>1. /\ current.left > 0 /\ wire' = wire /\ udp' = udp /\ group' = group
        /\ UNCHANGED <<waits, ops, verdict, servers, calls>>
    BY <1>4 DEF InitialReceives, InvokeReceives
  <2>2. queue' = queue \/ (queue[Ep] # <<>> /\ Take(Ep))
    BY <1>4 DEF InitialReceives, InvokeReceives
  <2>3. current' = [current EXCEPT !.left = 0]
    BY <1>4 DEF InitialReceives, InvokeReceives, End
  <2> QED
    BY <2>1, <2>2, <2>3, SdIs, CallReceives
<1> QED
  BY <1>2, <1>3, <1>4 DEF Steps

(* What the servers send of themselves.                                      *)
LEMMA UnaskedSends ==
  ASSUME SocketsIInv, Offer \/ Notify, job' = job
  PROVE  /\ SocketsIInv'
         /\ \E new : /\ wire' = wire \cup new
                     /\ \A d \in new : \/ d.receiver # Ep /\ d.message \in Offers
                                       \/ d.receiver = Ep /\ \E s \in subscribed : d.message = Event(s[2])
                     /\ \A x : \A m \in Coming(x)' : m \in Coming(x) \/ \E d \in new : d.receiver = x /\ d.message = m
<1>1. /\ unasked < MaxUnasked /\ unasked' = unasked + 1
      /\ UNCHANGED <<udp, group, queue, waits, ops, got, current, verdict, strays, subscribed, calls>>
  BY DEF Offer, Notify, Unasked, direct, history
<1>2. SocketStates /\ CallStates
  BY DEF SocketsIInv
<1>3. PICK new : /\ wire' = wire \cup new
                 /\ new \subseteq [receiver : Receivers, port : Ports, message : Messages]
                 /\ \A d \in new : \/ d.receiver # Ep /\ d.message \in Offers
                                   \/ d.receiver = Ep /\ \E s \in subscribed : d.message = Event(s[2])
  <2>1. CASE Offer
    <3>1. PICK m \in Offers, r \in {Group, Sd} : wire' = wire \cup {Datagram(r, "own", m)}
      BY <2>1 DEF Offer
    <3>2. m \in Messages /\ r \in Receivers /\ r # Ep /\ "own" \in Ports
      BY SdIs DEF Messages, Ports
    <3> DEFINE d == Datagram(r, "own", m)
    <3>3. /\ d \in [receiver : Receivers, port : Ports, message : Messages]
          /\ d.receiver # Ep /\ d.message \in Offers
      BY <3>2 DEF Datagram
    <3>4. wire' = wire \cup {d}
      BY <3>1
    <3> HIDE DEF d
    <3> DEFINE sent == {d}
    <3>8. /\ wire' = wire \cup sent
          /\ sent \subseteq [receiver : Receivers, port : Ports, message : Messages]
          /\ \A x \in sent : \/ x.receiver # Ep /\ x.message \in Offers
                             \/ x.receiver = Ep /\ \E y \in subscribed : x.message = Event(y[2])
      BY <3>3, <3>4
    <3> HIDE DEF sent
    <3> QED
      BY <3>8
  <2>2. CASE Notify
    <3>1. PICK s \in subscribed : wire' = wire \cup {Datagram(Ep, "own", Event(s[2]))}
      BY <2>2 DEF Notify
    <3>2. s[2] \in Groups
      BY <1>2 DEF CallStates
    <3>3. Event(s[2]) \in Messages /\ "own" \in Ports
      BY <3>2 DEF Messages, EpMessages, Ports
    <3> DEFINE d == Datagram(Ep, "own", Event(s[2]))
    <3>4. /\ d \in [receiver : Receivers, port : Ports, message : Messages]
          /\ d.receiver = Ep /\ \E x \in subscribed : d.message = Event(x[2])
      BY <3>3, SdIs DEF Datagram
    <3>5. wire' = wire \cup {d}
      BY <3>1
    <3> HIDE DEF d
    <3> DEFINE sent == {d}
    <3>8. /\ wire' = wire \cup sent
          /\ sent \subseteq [receiver : Receivers, port : Ports, message : Messages]
          /\ \A x \in sent : \/ x.receiver # Ep /\ x.message \in Offers
                             \/ x.receiver = Ep /\ \E y \in subscribed : x.message = Event(y[2])
      BY <3>4, <3>5
    <3> HIDE DEF sent
    <3> QED
      BY <3>8
  <2> QED
    BY <2>1, <2>2
<1>4. /\ SocketStates'
      /\ \A x : \A m \in Coming(x)' : m \in Coming(x) \/ \E d \in new : d.receiver = x /\ d.message = m
  BY <1>1, <1>2, <1>3, SendKeeps
<1>5. \A s \in subscribed : Event(s[2]) \in EpMessages
  <2>1. \A s \in subscribed : s[2] \in Groups
    BY <1>2 DEF CallStates
  <2> QED
    BY <2>1 DEF EpMessages
<1>6. Coming(Ep)' \subseteq EpMessages
  BY <1>3, <1>4, <1>5 DEF SocketsIInv
<1>7. unasked' \in 0..MaxUnasked
  <2>1. unasked \in 0..MaxUnasked /\ MaxUnasked \in Nat
    BY <1>2, SomeIpAssumption DEF CallStates
  <2> QED
    BY <1>1, <2>1
<1>8. CallStates'
  BY <1>1, <1>2, <1>7 DEF CallStates
<1>9. SocketsIInv'
  BY <1>1, <1>4, <1>6, <1>8 DEF SocketsIInv
<1> QED
  BY <1>3, <1>4, <1>9

LEMMA NetworkKeeps ==
  ASSUME SocketsIInv, Network, job' = job
  PROVE  SocketsIInv' /\ \A x \in Receivers : Coming(x)' \subseteq Coming(x)
<1>1. Arrive /\ UNCHANGED <<waits, ops, got, current, verdict, strays, subscribed, unasked, calls>>
  BY DEF Network, direct, history, servers
<1>2. SocketStates /\ CallStates
  BY DEF SocketsIInv
<1>3. /\ NetTypes' /\ udp' = udp /\ group' = group
      /\ \A x \in Receivers : Coming(x)' \subseteq Coming(x)
      /\ \A x \in Receivers : queue'[x] = <<>> \/ queue[x] # <<>>
           \/ (IF x = Group THEN group.in ELSE udp[x] \in {"bound", "ephemeral"})
  BY <1>1, <1>2, ArriveEffect DEF SocketStates
<1>4. QueuesAreOwned'
  <2>1. QueuesAreOwned /\ GroupIsWhole /\ group.in \in BOOLEAN
    BY <1>2 DEF SocketStates
  <2>2. Group \in Receivers /\ \A x \in Udps : x \in Receivers /\ x # Group
    BY SocketAssumption DEF Receivers
  <2>3. group.in => GroupIsOpen
    BY <2>1 DEF GroupIsWhole, GroupIsOpen
  <2> QED
    BY <1>3, <2>1, <2>2, <2>3 DEF QueuesAreOwned, GroupIsOpen
<1>5. SocketStates'
  BY <1>1, <1>2, <1>3, <1>4 DEF SocketStates, GroupIsWhole, OnlyAFailedOpenBlocks
<1>6. CallStates'
  BY <1>1, <1>2 DEF CallStates
<1> QED
  BY <1>1, <1>3, <1>5, <1>6, SdIs DEF SocketsIInv

LEMMA DirectUseKeeps ==
  ASSUME SocketsIInv, DirectUse, job' = job
  PROVE  SocketsIInv'
<1>1. /\ current' = NoCall /\ verdict' = "none"
      /\ UNCHANGED <<subscribed, unasked, calls>>
  BY DEF DirectUse, servers
<1>2. SocketStates' /\ Coming(Ep)' \subseteq Coming(Ep)
  <2>1. Unblock \/ \E r \in Receivers : Direct(r)
    BY SdIs DEF DirectUse
  <2> QED
    BY <2>1, DirectKeeps DEF SocketsIInv
<1>3. NoCall \in CallTypes /\ NoCall.left = 0
  BY SdIs DEF NoCall, CallTypes
<1>4. CallStates'
  <2>1. \E r \in Retries \cup {1} : 0 \in 0..r
    BY SomeIpAssumption
  <2> QED
    BY <1>1, <1>3, <2>1 DEF SocketsIInv, CallStates
<1> QED
  BY <1>1, <1>2, <1>3, <1>4 DEF SocketsIInv

(* Subscriptions may end at any time. *)
LEMMA SocketsRest ==
  ASSUME SocketsIInv, UNCHANGED <<udp, group, queue, wire, waits, ops, current, verdict, unasked, calls, job>>,
         subscribed' \subseteq subscribed
  PROVE  SocketsIInv'
<1>1. SocketStates'
  BY DEF SocketsIInv, SocketStates, NetTypes, GroupIsWhole, QueuesAreOwned, GroupIsOpen, OnlyAFailedOpenBlocks
<1>2. CallStates'
  BY DEF SocketsIInv, CallStates
<1>3. Coming(Ep)' = Coming(Ep)
  BY DEF Coming
<1> QED
  BY <1>1, <1>2, <1>3 DEF SocketsIInv

LEMMA SocketsStep == SocketsIInv /\ [SomeIpNext]_someIpVars => SocketsIInv'
<1> SUFFICES ASSUME SocketsIInv, [SomeIpNext]_someIpVars PROVE SocketsIInv'
  OBVIOUS
<1>1. CASE UNCHANGED someIpVars
  BY <1>1, SocketsRest DEF someIpVars, sockets, direct, history, servers
<1>2. CASE Calls /\ job' = job
  <2>1. CASE FindOverUdp \/ FindOverGroup
    BY <1>2, <2>1, FindBegins
  <2>2. CASE Subscribe
    BY <1>2, <2>2, SdIs, RaisedCall, SubscribeBegins DEF Subscribe
  <2>3. CASE Invoke
    BY <1>2, <2>3, InvokeBegins
  <2> QED
    BY <1>2, <2>1, <2>2, <2>3 DEF Calls
<1>3. CASE Steps /\ job' = job
  BY <1>3, StepReceives
<1>4. CASE DirectUse /\ job' = job
  BY <1>4, DirectUseKeeps
<1>5. CASE Network /\ job' = job
  BY <1>5, NetworkKeeps
<1>6. CASE (Offer \/ Notify) /\ job' = job
  BY <1>6, UnaskedSends
<1>7. CASE Expire /\ job' = job
  <2>1. /\ subscribed' \subseteq subscribed
        /\ UNCHANGED <<udp, group, queue, wire, waits, ops, current, verdict, unasked, calls>>
    BY <1>7 DEF Expire, sockets, direct, history
  <2> QED
    BY <1>7, <2>1, SocketsRest
<1>8. CASE AllCallsDone \/ BlockedForEver
  BY <1>1, <1>8 DEF AllCallsDone, BlockedForEver
<1> QED
  BY <1>1, <1>2, <1>3, <1>4, <1>5, <1>6, <1>7, <1>8 DEF SomeIpNext

LEMMA SocketsInitially == SomeIpInit => SocketsIInv
<1> SUFFICES ASSUME SomeIpInit PROVE SocketsIInv
  OBVIOUS
<1>1. <<>> \in Seq(Messages) /\ Len(<<>>) = 0 /\ DOMAIN <<>> = {}
  BY EmptySeq
<1>2. NetTypes
  BY <1>1, SizeAssumption DEF SomeIpInit, SocketsInit, NetTypes
<1>3. SocketStates
  <2>1. 0 \in 0..MaxOps
    BY SizeAssumption
  <2>2. QueuesAreOwned
    BY DEF SomeIpInit, SocketsInit, QueuesAreOwned, Receivers
  <2> QED
    BY <1>2, <2>1, <2>2 DEF SomeIpInit, SocketsInit, SocketStates, UdpStates, GroupIsWhole, OnlyAFailedOpenBlocks
<1>4. CallStates
  <2>1. /\ 0 \in 0..MaxCalls /\ 0 \in 0..MaxUnasked
        /\ \E r \in Retries \cup {1} : 0 \in 0..r
    BY SomeIpAssumption
  <2>2. NoCall \in CallTypes /\ NoCall.left = 0
    BY SdIs DEF NoCall, CallTypes
  <2> QED
    BY <2>1, <2>2 DEF SomeIpInit, CallStates
<1>5. Coming(Ep) = {}
  BY <1>1, SdIs DEF SomeIpInit, SocketsInit, Coming
<1> QED
  BY <1>3, <1>4, <1>5 DEF SomeIpInit, SocketsInit, SocketsIInv

LEMMA SocketsAlways == SomeIpSpec => []SocketsIInv
<1> QED
  BY SocketsInitially, SocketsStep, PTL DEF SomeIpSpec

(* The group communicator is open with both sockets or closed with neither,  *)
(* a queue has a socket that receives, and nothing blocks but a receive_from *)
(* on a socket whose open failed, in any order of opens, closes, sends and   *)
(* receives: udp.py:15-109, multicast.py:31-253.                             *)
THEOREM SocketsAreKnown == SomeIpSpec => []SocketsInv
<1> QED
  BY SocketsAlways, IInvGivesSocketsInv, PTL

-----------------------------------------------------------------------------
(* What the calls of SomeipUtils return. *)

(* A call of find_service, and none, has nothing to be told here.            *)
LEMMA OtherCalls ==
  ASSUME current'.op \in {"none", "find"}
  PROVE  CallInv'
BY DEF CallInv, UnderWay, Waiting, SubscriptionIsAnswered, InvokeIsOwn, Ended

(* While a call is under way, or after its end, less is to come, or more     *)
(* that is not an answer to it.                                              *)
LEMMA CallRests ==
  ASSUME SocketsIInv, CallInv, UNCHANGED <<udp, got, current, history>>, subscribed' \subseteq subscribed,
         \A m \in Coming(Sd)' : m \in Coming(Sd) \/ m \in Offers,
         \A m \in Coming(Ep)' : m \in Coming(Ep) \/ \E s \in subscribed : m = Event(s[2])
  PROVE  CallInv'
<1>1. UnderWay /\ SubscriptionIsAnswered /\ InvokeIsOwn
  BY DEF CallInv
<1>2. SubscriptionIsAnswered' /\ InvokeIsOwn'
  BY <1>1 DEF SubscriptionIsAnswered, InvokeIsOwn, Ended, Live, history
<1>3. ASSUME EpAnswers PROVE EpAnswers'
  <2>1. \A s \in subscribed : s[2] = current.asked
    BY <1>3 DEF EpAnswers
  <2> QED
    BY <1>3, <2>1 DEF EpAnswers
<1>4. \A m : (AnswersIt(m) => AnswersIt(m)') /\ (m \in Offers => AnswersIt(m)')
  BY DEF AnswersIt, history
<1>5. UnderWay'
  BY <1>1, <1>3, <1>4 DEF UnderWay, Waiting, IsVerdictOn, history
<1> QED
  BY <1>2, <1>5 DEF CallInv

(* What a call of SomeipUtils knows when it begins.                          *)
LEMMA StraysAreKnown ==
  ASSUME NEW op, NEW over, NEW service, NEW sought, NEW left, BeginCall(op, over, service, sought, left)
  PROVE  /\ strays'.sd \/ \A m \in Coming(Sd) : ~IsVerdictOn(m, service, sought)
         /\ strays'.ep \/ /\ subscribed \subseteq {<<service, sought>>}
                          /\ \A m \in Coming(Ep) : m = Event(sought)
<1>1. strays' = [sd |-> \/ \E d \in wire : d.receiver = Sd /\ IsVerdictOn(d.message, service, sought)
                        \/ \E i \in DOMAIN queue[Sd] : IsVerdictOn(queue[Sd][i], service, sought),
                 ep |-> subscribed \ {<<service, sought>>} # {}
                        \/ \/ \E d \in wire : d.receiver = Ep /\ d.message # Event(sought)
                           \/ \E i \in DOMAIN queue[Ep] : queue[Ep][i] # Event(sought)]
  BY DEF BeginCall, OnTheWay
<1>2. strays'.sd <=> \/ \E d \in wire : d.receiver = Sd /\ IsVerdictOn(d.message, service, sought)
                     \/ \E i \in DOMAIN queue[Sd] : IsVerdictOn(queue[Sd][i], service, sought)
  BY <1>1
<1>3. strays'.ep <=> \/ subscribed \ {<<service, sought>>} # {}
                     \/ \E d \in wire : d.receiver = Ep /\ d.message # Event(sought)
                     \/ \E i \in DOMAIN queue[Ep] : queue[Ep][i] # Event(sought)
  BY <1>1
<1> QED
  BY <1>2, <1>3, ComingIs

(* A call whose send raises asked nothing of the servers.                     *)
LEMMA RaisedIsTold ==
  ASSUME NEW op \in {"find", "subscribe", "invoke"}, NEW over, NEW service, NEW sought,
         SendRaises(op, over, service, sought)
  PROVE  CallInv'
<1>1. /\ current' = [op |-> op, over |-> over, service |-> service, asked |-> sought, left |-> 0]
      /\ got' = Raised(SendError(over)) /\ verdict' = "none"
  BY DEF SendRaises, BeginCall
<1>2. got'.kind \in {"RuntimeError", "AttributeError", "OSError"}
  BY <1>1 DEF Raised, Result, SendError
<1> QED
  BY <1>1, <1>2 DEF CallInv, UnderWay, Waiting, SubscriptionIsAnswered, InvokeIsOwn, Ended

LEMMA SubscribeIsTold ==
  ASSUME SocketsIInv, NEW service \in Services, NEW g \in Groups, BeginCall("subscribe", Sd, service, g, 1),
         NEW v \in {"none", "ack", "nack"}, NEW told \in BOOLEAN, NEW notified \in BOOLEAN,
         told => v # "none", verdict' = v, got' = Gave("None"), queue' = queue,
         subscribed' = IF v = "ack" THEN subscribed \cup {<<service, g>>} ELSE subscribed,
         wire' = wire
           \cup (IF told THEN {Datagram(Sd, AnswerPort(Sd), Verdict(v, service, g))} ELSE {})
           \cup (IF notified THEN {Datagram(Ep, "own", Event(g))} ELSE {})
  PROVE  CallInv'
<1>1. current' = [op |-> "subscribe", over |-> Sd, service |-> service, asked |-> g, left |-> 1]
  BY DEF BeginCall
<1>2. ASSUME NEW m \in Coming(Sd)' PROVE m \in Coming(Sd) \/ m = Verdict(v, service, g)
  <2>1. ASSUME NEW d \in wire', d.receiver = Sd PROVE d \in wire \/ d.message = Verdict(v, service, g)
    BY <2>1, SdIs DEF Datagram
  <2>2. (\E d \in wire' : d.receiver = Sd /\ d.message = m) \/ \E i \in DOMAIN queue[Sd] : queue[Sd][i] = m
    BY <1>2 DEF Coming
  <2> QED
    BY <2>1, <2>2, ComingIs
<1>3. ASSUME NEW m \in Coming(Ep)' PROVE m \in Coming(Ep) \/ m = Event(g)
  <2>1. ASSUME NEW d \in wire', d.receiver = Ep PROVE d \in wire \/ d.message = Event(g)
    BY <2>1, SdIs DEF Datagram
  <2>2. (\E d \in wire' : d.receiver = Ep /\ d.message = m) \/ \E i \in DOMAIN queue[Ep] : queue[Ep][i] = m
    BY <1>3 DEF Coming
  <2> QED
    BY <2>1, <2>2, ComingIs
<1>4. strays'.ep \/ EpAnswers'
  <2>1. strays'.ep \/ (subscribed \subseteq {<<service, g>>} /\ \A m \in Coming(Ep) : m = Event(g))
    BY StraysAreKnown
  <2> QED
    BY <1>1, <1>3, <2>1 DEF EpAnswers
<1>5. ASSUME NEW m \in Coming(Sd)', IsVerdictOn(m, service, g) PROVE AnswersIt(m)'
  BY <1>1, <1>2, <1>5, StraysAreKnown DEF AnswersIt
<1>8. taken' = <<>>
  BY DEF BeginCall
<1>6. Waiting("subscribe")' /\ ~Waiting("initial")' /\ ~Waiting("invoke")'
  BY <1>1 DEF Waiting
<1>7. UnderWay'
  BY <1>1, <1>4, <1>5, <1>6, <1>8 DEF UnderWay, IsVerdictOn
<1> QED
  BY <1>1, <1>7 DEF CallInv, SubscriptionIsAnswered, InvokeIsOwn, Ended

LEMMA InvokeIsTold ==
  ASSUME SocketsIInv, NEW service \in Services, NEW method \in Methods, BeginCall("invoke", Ep, service, method, 1),
         Answers(Ep, {Reply(method, code) : code \in ReplyCodes}), got' = Gave("None"), subscribed' = subscribed
  PROVE  CallInv'
<1>1. current' = [op |-> "invoke", over |-> Ep, service |-> service, asked |-> method, left |-> 1]
  BY DEF BeginCall
<1>2. ASSUME NEW m \in Coming(Ep)' PROVE m \in Coming(Ep) \/ (m.what = "reply" /\ m.method = method)
  <2>1. queue' = queue
    BY DEF Answers
  <2>2. ASSUME NEW d \in wire', d.receiver = Ep
        PROVE  d \in wire \/ (d.message.what = "reply" /\ d.message.method = method)
    BY <2>2 DEF Answers, Datagram, Reply
  <2>3. (\E d \in wire' : d.receiver = Ep /\ d.message = m) \/ \E i \in DOMAIN queue[Ep] : queue[Ep][i] = m
    BY <1>2, <2>1 DEF Coming
  <2> QED
    BY <2>2, <2>3, ComingIs
<1>3. strays'.ep \/ EpAnswers'
  <2>1. strays'.ep \/ (subscribed \subseteq {<<service, method>>} /\ \A m \in Coming(Ep) : m = Event(method))
    BY StraysAreKnown
  <2> QED
    BY <1>1, <1>2, <2>1 DEF EpAnswers
<1>4. Waiting("invoke")' /\ ~Waiting("initial")' /\ ~Waiting("subscribe")'
  BY <1>1 DEF Waiting
<1>5. UnderWay'
  BY <1>3, <1>4 DEF UnderWay
<1> QED
  BY <1>1, <1>5 DEF CallInv, SubscriptionIsAnswered, InvokeIsOwn, Ended

(* An answer on the group was given to this call, or had been on its way.    *)
LEMMA SubscriptionIsTold ==
  ASSUME SocketsIInv, CallInv, SubscribeReceives, job' = job
  PROVE  CallInv'
<1>1. /\ Waiting("subscribe") /\ got' = Gave("None") /\ verdict' = verdict /\ strays' = strays
      /\ taken = <<>> /\ (strays.ep \/ EpAnswers) /\ subscribed' = subscribed
      /\ \A m \in Coming(Sd) : IsVerdictOn(m, current.service, current.asked) => AnswersIt(m)
  BY DEF SubscribeReceives, CallInv, UnderWay, Waiting, direct, servers
<1>2. \A x \in Receivers : Coming(x)' \subseteq Coming(x)
  BY StepReceives DEF Steps
<1>3. current \in CallTypes /\ NetTypes
  BY DEF SocketsIInv, SocketStates, CallStates
<1>4. CASE End
  <2>1. current'.op = "subscribe" /\ current'.left = 0
    BY <1>1, <1>3, <1>4 DEF End, Waiting, CallTypes
  <2>2. got'.kind = "None"
    BY <1>1 DEF Gave, Result
  <2> QED
    BY <2>1, <2>2 DEF CallInv, UnderWay, Waiting, SubscriptionIsAnswered, InvokeIsOwn, Ended
<1>5. CASE /\ queue[Sd] # <<>> /\ Take(Sd) /\ IsSubscriptionAnswer(Head(queue[Sd]))
           /\ current' = [current EXCEPT !.op = "initial"] /\ taken' = Append(taken, Head(queue[Sd]))
  <2>1. /\ current'.op = "initial" /\ current'.left = 1
        /\ current'.service = current.service /\ current'.asked = current.asked
    BY <1>1, <1>3, <1>5 DEF Waiting, CallTypes
  <2>2. Head(queue[Sd]) \in Coming(Sd)
    <3>1. wire' = wire
      BY DEF SubscribeReceives
    <3> QED
      BY <1>3, <1>5, <3>1, SdIs, TakeEffect
  <2>3. AnswersIt(Head(queue[Sd])) /\ taken' = <<Head(queue[Sd])>>
    BY <1>1, <1>5, <2>2 DEF IsSubscriptionAnswer
  <2>7. \A m : AnswersIt(m) => AnswersIt(m)'
    BY <1>1, <2>1 DEF AnswersIt
  <2>8. \A m : taken' = <<m>> => taken' = <<taken'[1]>> /\ taken'[1] = m
    OBVIOUS
  <2>6. taken' = <<taken'[1]>> /\ AnswersIt(taken[1])'
    <3>1. PICK m : taken' = <<m>> /\ AnswersIt(m)'
      BY <2>3, <2>7
    <3> QED
      BY <2>8, <3>1 DEF AnswersIt
  <2>4. ASSUME EpAnswers PROVE EpAnswers'
    <3>1. Coming(Ep)' \subseteq Coming(Ep) /\ current.op # "invoke"
      BY <1>1, <1>2, SdIs DEF Waiting
    <3> QED
      BY <1>1, <2>1, <2>4, <3>1 DEF EpAnswers
  <2>5. UnderWay'
    BY <1>1, <2>1, <2>4, <2>6 DEF UnderWay, Waiting
  <2> QED
    BY <2>1, <2>5 DEF CallInv, SubscriptionIsAnswered, InvokeIsOwn, Ended
<1> QED
  BY <1>4, <1>5 DEF SubscribeReceives

LEMMA InitialIsTold ==
  ASSUME SocketsIInv, CallInv, InitialReceives
  PROVE  CallInv'
<1>1. /\ Waiting("initial") /\ verdict' = verdict /\ strays' = strays /\ udp' = udp
      /\ taken = <<taken[1]>> /\ AnswersIt(taken[1])
      /\ strays.ep \/ EpAnswers
  BY DEF InitialReceives, CallInv, UnderWay, Waiting
<1>2. current \in CallTypes /\ NetTypes
  BY DEF SocketsIInv, SocketStates, CallStates
<1>3. /\ current'.op = "initial" /\ current'.left = 0
      /\ current'.asked = current.asked /\ current'.service = current.service
  BY <1>1, <1>2 DEF InitialReceives, End, Waiting, CallTypes
<1>5. taken'[1] = taken[1]
  <2>1. taken' = taken \/ taken' = Append(taken, Head(queue[Ep]))
    BY DEF InitialReceives
  <2>2. ASSUME NEW x, NEW y PROVE Append(<<x>>, y)[1] = x
    OBVIOUS
  <2> QED
    BY <1>1, <2>1, <2>2
<1>6. taken'[1] \in Offers \cup {Verdict(verdict', current'.service, current'.asked)} \/ strays'.sd
  BY <1>1, <1>3, <1>5 DEF AnswersIt
<1>4. SubscriptionIsAnswered'
  <2>1. CASE ~Live(Ep)
    <3>1. got'.kind \in {"RuntimeError", "TypeError", "ValueError"}
      BY <2>1 DEF InitialReceives, Raised, Result, ReceiveError
    <3>2. ~Live(Ep)'
      BY <1>1, <2>1 DEF Live
    <3> QED
      BY <3>1, <3>2 DEF SubscriptionIsAnswered, Ended
  <2>2. CASE Live(Ep) /\ queue[Ep] = <<>>
    <3>1. got'.kind = "group" /\ got'.datagram = NoDatagram
      BY <2>2 DEF InitialReceives, Result
    <3> QED
      BY <1>1, <1>6, <3>1 DEF SubscriptionIsAnswered, Ended
  <2>3. CASE Live(Ep) /\ queue[Ep] # <<>>
    <3>1. got'.kind = "group" /\ got'.datagram = Head(queue[Ep]) /\ Take(Ep) /\ wire' = wire
      BY <2>3 DEF InitialReceives, Result
    <3>2. Head(queue[Ep]) \in Coming(Ep)
      BY <1>2, <2>3, <3>1, SdIs, TakeEffect
    <3>3. strays.ep \/ Head(queue[Ep]) = Event(current.asked)
      BY <1>1, <3>2 DEF EpAnswers, Waiting
    <3> QED
      BY <1>1, <1>3, <1>6, <3>1, <3>3 DEF SubscriptionIsAnswered, Ended
  <2> QED
    BY <2>1, <2>2, <2>3
<1> QED
  BY <1>3, <1>4 DEF CallInv, UnderWay, Waiting, InvokeIsOwn, Ended

LEMMA MethodIsTold ==
  ASSUME SocketsIInv, CallInv, InvokeReceives
  PROVE  CallInv'
<1>1. /\ Waiting("invoke") /\ strays' = strays /\ wire' = wire
      /\ got = Gave("None") /\ (strays.ep \/ EpAnswers)
  BY DEF InvokeReceives, CallInv, UnderWay, Waiting
<1>2. current \in CallTypes /\ NetTypes /\ Coming(Ep) \subseteq EpMessages
  BY DEF SocketsIInv, SocketStates, CallStates
<1>3. current'.op = "invoke" /\ current'.left = 0 /\ current'.asked = current.asked
  BY <1>1, <1>2 DEF InvokeReceives, End, Waiting, CallTypes
<1>4. InvokeIsOwn'
  <2>1. CASE queue[Ep] = <<>>
    <3>1. got'.kind = "None"
      BY <1>1, <2>1 DEF InvokeReceives, Gave, Result
    <3> QED
      BY <3>1 DEF InvokeIsOwn
  <2>2. CASE queue[Ep] # <<>>
    <3> DEFINE m == Head(queue[Ep])
    <3>1. got' = InvokeResult(m) /\ Take(Ep)
      BY <2>2 DEF InvokeReceives
    <3>2. m \in Coming(Ep) /\ m \in EpMessages
      BY <1>1, <1>2, <2>2, <3>1, SdIs, TakeEffect
    <3> HIDE DEF m
    <3>3. /\ m.what = "event" => CodeOf(m) = "E_OK" /\ MethodOf(m) = m.group
          /\ m.what # "event" => CodeOf(m) = m.code /\ m.code \in ReplyCodes /\ MethodOf(m) = m.method
      BY <3>2 DEF EpMessages, Event, Reply, CodeOf, MethodOf
    <3>4. got'.kind = "method" => got'.datagram = m /\ CodeOf(m) \notin {"E_UNKNOWN_METHOD", "unlisted"}
      BY <3>1 DEF InvokeResult, Gave, Raised, Result
    <3>5. CodeOf(m) \in Codes \cup {"E_OK", "E_UNKNOWN_METHOD", "unlisted"}
      BY <3>3 DEF ReplyCodes
    <3>6. strays.ep \/ MethodOf(m) = current.asked
      <4>1. Event(current.asked).what = "event" /\ Event(current.asked).group = current.asked
        BY DEF Event
      <4>2. strays.ep \/ m = Event(current.asked) \/ (m.what = "reply" /\ m.method = current.asked)
        BY <1>1, <3>2 DEF EpAnswers
      <4> QED
        BY <3>3, <4>1, <4>2
    <3> QED
      BY <1>1, <1>3, <3>4, <3>5, <3>6 DEF InvokeIsOwn
  <2> QED
    BY <2>1, <2>2
<1> QED
  BY <1>3, <1>4 DEF CallInv, UnderWay, Waiting, SubscriptionIsAnswered, Ended

LEMMA CallStep == SocketsIInv /\ CallInv /\ [SomeIpNext]_someIpVars => CallInv'
<1> SUFFICES ASSUME SocketsIInv, CallInv, [SomeIpNext]_someIpVars PROVE CallInv'
  OBVIOUS
<1>1. CASE UNCHANGED someIpVars
  <2>1. /\ UNCHANGED <<udp, got, current, history>> /\ subscribed' \subseteq subscribed
        /\ queue' = queue /\ wire' = wire
    BY <1>1 DEF someIpVars, sockets, direct, history, servers
  <2> QED
    BY <2>1, CallRests DEF Coming
<1>2. CASE Calls /\ job' = job
  <2>1. CASE FindOverUdp \/ FindOverGroup
    <3>1. PICK over, service, left : BeginCall("find", over, service, NoGroup, left)
      BY <2>1 DEF FindOverUdp, FindOverGroup, SendRaises
    <3>2. current'.op = "find"
      BY <3>1 DEF BeginCall
    <3> QED
      BY <3>2, OtherCalls
  <2>2. CASE Subscribe
    BY <2>2, RaisedIsTold, SubscribeIsTold DEF Subscribe
  <2>3. CASE Invoke
    BY <2>3, RaisedIsTold, InvokeIsTold DEF Invoke, ReplyCodes, servers
  <2> QED
    BY <1>2, <2>1, <2>2, <2>3 DEF Calls
<1>3. CASE FindReceives
  <2>1. current \in CallTypes
    BY DEF SocketsIInv, CallStates
  <2>2. current'.op = "find"
    BY <1>3, <2>1 DEF FindReceives, End, CallTypes
  <2> QED
    BY <2>2, OtherCalls
<1>4. CASE Steps /\ ~FindReceives /\ job' = job
  BY <1>4, SubscriptionIsTold, InitialIsTold, MethodIsTold DEF Steps
<1>5. CASE DirectUse
  BY <1>5, OtherCalls DEF DirectUse, NoCall
<1>6. CASE Network /\ job' = job
  <2>1. UNCHANGED <<udp, got, current, history, subscribed>>
    BY <1>6 DEF Network, Arrive, direct, history, servers
  <2> QED
    BY <1>6, <2>1, SdIs, NetworkKeeps, CallRests
<1>7. CASE (Offer \/ Notify) /\ job' = job
  <2>1. UNCHANGED <<udp, got, current, history, subscribed>>
    BY <1>7 DEF Offer, Notify, direct, history
  <2>2. /\ \A m \in Coming(Sd)' : m \in Coming(Sd) \/ m \in Offers
        /\ \A m \in Coming(Ep)' : m \in Coming(Ep) \/ \E s \in subscribed : m = Event(s[2])
    BY <1>7, SdIs, UnaskedSends
  <2> QED
    BY <2>1, <2>2, CallRests
<1>8. CASE Expire
  <2>1. /\ UNCHANGED <<udp, got, current, history>> /\ subscribed' \subseteq subscribed
        /\ queue' = queue /\ wire' = wire
    BY <1>8 DEF Expire, sockets, direct, history
  <2> QED
    BY <2>1, CallRests DEF Coming
<1>9. CASE AllCallsDone \/ BlockedForEver
  BY <1>1, <1>9 DEF AllCallsDone, BlockedForEver
<1> QED
  BY <1>1, <1>2, <1>3, <1>4, <1>5, <1>6, <1>7, <1>8, <1>9 DEF SomeIpNext

LEMMA CallsAlways == SomeIpSpec => []CallInv
<1>1. SomeIpInit => CallInv
  BY OtherCalls DEF SomeIpInit, NoCall, CallInv, UnderWay, Waiting, SubscriptionIsAnswered, InvokeIsOwn, Ended
<1> QED
  BY <1>1, SocketsAlways, CallStep, PTL DEF SomeIpSpec

(* A group that subscribe_evtgrp returns was answered for: by what the       *)
(* servers said to this call, or by an answer that was on its way when it    *)
(* began, or by an offer whose minor version equals the group; its initial   *)
(* data is an event of the group, unless something else was to come; and a   *)
(* call that raises after an answer had no end point socket:                 *)
(* someip_utils.py:178-201 and udp.py:45-90.                                *)
THEOREM SubscriptionsAreAnswered == SomeIpSpec => []SubscriptionIsAnswered
<1>1. CallInv => SubscriptionIsAnswered
  BY DEF CallInv
<1> QED
  BY <1>1, CallsAlways, PTL

(* What method_invoke returns is the answer of the method it asked for, with *)
(* a code that is listed and is not "no such method", unless something else  *)
(* was to come to the end point when it began: someip_utils.py:289-306.      *)
THEOREM InvocationsAreOwn == SomeIpSpec => []InvokeIsOwn
<1>1. CallInv => InvokeIsOwn
  BY DEF CallInv
<1> QED
  BY <1>1, CallsAlways, PTL

=============================================================================
