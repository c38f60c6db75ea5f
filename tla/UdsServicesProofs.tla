------------------------- MODULE UdsServicesProofs -------------------------
(***************************************************************************)
(* Proofs about UdsServices, for any number of attempts, blocks, calls and *)
(* restarts, any identifiers and values, and a block counter of at least   *)
(* three values.                                                           *)
(***************************************************************************)
EXTENDS UdsServices, SequenceTheorems, TLAPS

USE AttemptsAssumption, BlockAssumption, LimitAssumption

-----------------------------------------------------------------------------
(* Types.                                                                   *)

Whats == Services \cup Authentications
Vals == Nat \cup Targets \cup DidLists
Bodies == Nat \cup UNION {[DOMAIN list -> Values \cup {Absent}] : list \in DidLists}

(* The counter of a block is that of its place in the image.                *)
RequestType ==
  {r \in [what : Whats, val : Vals, body : Bodies] :
     /\ r.what = "block" => r.body \in 1..Blocks /\ r.val = Counter(r.body)
     /\ r.what = "write" => r.val \in Targets
     /\ r.what \in {"write", "clear"} => r.body \in Nat
     /\ r.what = "read" => r.val \in DidLists}

AnswerType ==
  {a \in [what : Whats, ok : BOOLEAN, val : Vals, body : Bodies] :
     a.what = "block" => a.body \in 1..Blocks /\ (a.ok => a.val = Counter(a.body))}

EcuType ==
  [download : BOOLEAN, expects : Nat \ {0}, image : Seq(Nat), flashed : BOOLEAN,
   challenge : Nat, challenges : Nat, authenticated : BOOLEAN,
   stored : [Targets -> Nat], cleared : Nat]

(* What each operation asks the ECU.                                        *)
Asks(o) ==
  CASE o = "transfer" -> {"block"}
    [] o = "exchange" -> {"verify", "proof"}
    [] o = "raw" -> {"routine"}
    [] o \in {"none", "bidirectional"} -> Whats \cup {"nothing"}
    [] OTHER -> {o}

LinkTypes == requests \in Seq(RequestType) /\ answers \in Seq(AnswerType)

EcuTypes == ecu \in EcuType /\ ecu.challenge <= ecu.challenges

CallTypes ==
  /\ job \in Jobs
  /\ op \in Operations \cup {"none", "bidirectional"}
  /\ asked \in RequestType \cup {Nothing}
  /\ asked.what \in Asks(op)
  /\ tries \in 0..Attempts
  /\ op \in {"none", "bidirectional"} => Idle
  /\ result.kind \in {"returned", "raised"}
  /\ calls \in 0..MaxCalls[job]
  /\ late \in BOOLEAN /\ staleFlash \in BOOLEAN
  /\ epoch \in 0..restarts /\ restarts \in 0..MaxRestarts

(* The caller's place in a download, and what it asks for there.            *)
PlanTypes ==
  /\ plan \in [granted : BOOLEAN, next : 1..(Blocks + 1)]
  /\ ~plan.granted /\ plan.next > 1 => plan.next = Blocks + 1
  /\ ~Idle /\ op = "download" => ~plan.granted /\ plan.next = 1
  /\ ~Idle /\ op = "transfer" =>
       plan.granted /\ plan.next <= Blocks /\ asked.val = Counter(plan.next) /\ asked.body = plan.next
  /\ ~Idle /\ op = "exit" => plan.granted /\ plan.next = Blocks + 1

TypeInv == LinkTypes /\ EcuTypes /\ CallTypes /\ PlanTypes

-----------------------------------------------------------------------------
(* The image.                                                               *)

(* An answer that grants a download is the last thing heard of it as long   *)
(* as no block was answered since.                                          *)
GrantIsFresh ==
  \A i \in DOMAIN answers :
    (/\ answers[i].what = "download" /\ answers[i].ok
     /\ \A j \in DOMAIN answers : j > i => answers[j].what # "block") =>
      ecu.image = <<>> /\ (ecu.download => ecu.expects = 1)

Flashing == {"block", "exit"}

(* Before a download is granted, nothing of it is on its way.               *)
NotBegun ==
  /\ \A i \in DOMAIN requests : requests[i].what \notin Flashing
  /\ \A i \in DOMAIN answers : answers[i].what \notin Flashing

(* Blocks on their way are the next one and the one before it, in order;    *)
(* the ECU has one of them last.                                            *)
BlocksInOrder ==
  /\ \A i \in DOMAIN requests : requests[i].what = "block" => requests[i].body \in {plan.next - 1, plan.next}
  /\ \A i \in DOMAIN answers : answers[i].what = "block" => answers[i].body \in {plan.next - 1, plan.next}
  /\ \A i, j \in DOMAIN requests :
       (i < j /\ requests[i].what = "block" /\ requests[j].what = "block") => requests[i].body <= requests[j].body
  /\ \A i, j \in DOMAIN answers :
       (i < j /\ answers[i].what = "block" /\ answers[j].what = "block") => answers[i].body <= answers[j].body
  /\ \A i \in DOMAIN answers, j \in DOMAIN requests :
       (answers[i].what = "block" /\ requests[j].what = "block") => answers[i].body <= requests[j].body

Written == Len(ecu.image)
EcuFollows ==
  /\ ecu.image = Image(Written)
  /\ Written \in {plan.next - 1, plan.next} /\ Written <= Blocks
  /\ ecu.download => ecu.expects = Written + 1
  /\ \A i \in DOMAIN answers :
       /\ (answers[i].what = "block" /\ answers[i].ok /\ answers[i].body = plan.next) => Written = plan.next
       /\ (answers[i].what = "exit" /\ answers[i].ok) => ecu.flashed

(* A request for the download that is still on its way is ahead of its      *)
(* blocks.                                                                  *)
DownloadIsAhead ==
  \A j \in DOMAIN requests :
    requests[j].what = "download" =>
      /\ plan.next = 1 /\ Written = 0
      /\ \A i \in DOMAIN requests : i < j => requests[i].what \notin Flashing
      /\ \A i \in DOMAIN answers : answers[i].what \notin Flashing

Begun == plan.granted \/ plan.next > 1

ImageInv ==
  /\ GrantIsFresh
  /\ ~staleFlash =>
       /\ ~Begun => NotBegun
       /\ Begun => BlocksInOrder /\ EcuFollows /\ DownloadIsAhead
       /\ Succeeds("exit") => ecu.flashed /\ plan.next = Blocks + 1

-----------------------------------------------------------------------------
(* Authentication.                                                          *)

Opposite(task) == IF task = "proof" THEN "deAuthenticate" ELSE "proof"
TakenUp(task) == ecu.authenticated = (task = "proof")
NoneAsked(task) == \A i \in DOMAIN requests : requests[i].what # task

(* The task of this call is done last: what undoes it was asked before.     *)
TaskIsLast(task) ==
  /\ \A i, j \in DOMAIN requests : (i < j /\ requests[i].what = task) => requests[j].what # Opposite(task)
  /\ \A i \in DOMAIN answers :
       (answers[i].what = task /\ answers[i].ok) => TakenUp(task) /\ NoneAsked(Opposite(task))
  /\ Idle /\ result.kind = "returned" /\ result.val = ReturnValue[task] =>
       TakenUp(task) /\ NoneAsked(Opposite(task))

AuthenticationInv ==
  (~late /\ restarts = epoch) =>
    /\ op = "exchange" =>
         /\ TaskIsLast("proof")
         /\ asked.what = "verify" =>
              /\ \A i \in DOMAIN requests : requests[i].what # "proof"
              /\ \A i \in DOMAIN answers : answers[i].what # "proof"
    /\ op = "deAuthenticate" => TaskIsLast("deAuthenticate")

-----------------------------------------------------------------------------
(* Data.                                                                    *)

(* What the ECU did when it answered.                                       *)
Effect(a) ==
  /\ op = "write" => ecu.stored[asked.val] = asked.body
  /\ op = "clear" => ecu.cleared = asked.body
  /\ op \in {"routine", "dtc"} => a.val = asked.val

(* All that could be taken for this call's is this call's.                  *)
DataInv ==
  (~late /\ op \in {"write", "clear", "routine", "dtc"}) =>
    /\ \A i \in DOMAIN requests : Confusable(asked, requests[i]) => requests[i] = asked
    /\ \A i \in DOMAIN answers : (Confusable(asked, answers[i]) /\ answers[i].ok) => Effect(answers[i])
    /\ DataIsOwn

-----------------------------------------------------------------------------
(* What serving a request does, told by the answer.                         *)

(* The part of the ECU that is flashed.                                     *)
FlashOf(e) == <<e.download, e.expects, e.image, e.flashed>>
FlashedBy(r, a) ==
  /\ a.what = r.what
  /\ r.what = "block" => a.body = r.body
  /\ ~a.ok \/ r.what \notin Flashing \cup {"download"} => FlashOf(ecu') = FlashOf(ecu)
  /\ a.ok /\ r.what = "download" => FlashOf(ecu') = <<TRUE, 1, <<>>, FALSE>>
  /\ a.ok /\ r.what = "exit" => FlashOf(ecu') = <<FALSE, ecu.expects, ecu.image, TRUE>>
  /\ a.ok /\ r.what = "block" =>
       /\ ecu.download
       /\ \/ /\ r.val = Counter(ecu.expects)
             /\ FlashOf(ecu') = <<TRUE, ecu.expects + 1, Append(ecu.image, r.body), ecu.flashed>>
          \/ /\ ecu.image # <<>> /\ r.val = Counter(ecu.expects - 1)
             /\ FlashOf(ecu') = FlashOf(ecu)

(* Whether it is authenticated.                                             *)
TaskedBy(r, a) ==
  /\ a.what = r.what
  /\ a.ok /\ r.what = "proof" => ecu'.authenticated = TRUE
  /\ a.ok /\ r.what = "deAuthenticate" => ecu'.authenticated = FALSE
  /\ ~a.ok \/ r.what \notin {"proof", "deAuthenticate"} => ecu'.authenticated = ecu.authenticated

(* What it stores, and what it says of it.                                  *)
StoredBy(r, a) ==
  /\ a.what = r.what
  /\ a.ok /\ r.what \in {"write", "routine", "dtc"} => a.val = r.val
  /\ ecu'.stored = IF a.ok /\ r.what = "write" THEN [ecu.stored EXCEPT ![r.val] = r.body] ELSE ecu.stored
  /\ ecu'.cleared = IF a.ok /\ r.what = "clear" THEN r.body ELSE ecu.cleared

-----------------------------------------------------------------------------
(* What is left of a line when its first elements are gone.                 *)
Left(q, s) ==
  \E k \in Nat :
    /\ \A i \in DOMAIN s : i \in Nat \ {0} /\ i + k \in DOMAIN q /\ s[i] = q[i + k]
    /\ \A j \in DOMAIN q : j \in Nat \ {0} /\ (j > k => j - k \in DOMAIN s)

(* What taking an answer does.                                              *)

(* The challenge of an answer is proved.                                    *)
Proves(a) ==
  /\ op = "exchange" /\ asked.what = "verify" /\ a.what = "verify" /\ a.ok
  /\ asked' = Request("proof", a.val, 0) /\ requests' = Append(requests, Request("proof", a.val, 0))
  /\ tries' = 1
  /\ UNCHANGED <<result, plan>>

(* Or the operation ends: the caller's place in the download, and the       *)
(* result.                                                                  *)
PlanBy(a) ==
  \/ plan' = plan
  \/ op = "download" /\ a.what = "download" /\ a.ok /\ plan' = [plan EXCEPT !.granted = TRUE]
  \/ op = "transfer" /\ a.what = "block" /\ a.ok /\ a.val = asked.val /\ plan' = [plan EXCEPT !.next = @ + 1]
  \/ op = "exit" /\ a.what = "exit" /\ a.ok /\ plan' = [plan EXCEPT !.granted = FALSE]

ResultBy(a) ==
  result'.kind = "returned" =>
    /\ op \in {"exit", "clear", "routine", "dtc"} => a.what = op /\ a.ok
    /\ op \in {"routine", "dtc"} => result'.val = a.val
    /\ op = "write" /\ result'.val = "True" => a.what = op /\ a.ok /\ a.val = asked.val
    /\ op = "exchange" /\ result'.val = ReturnValue["proof"] => a.what = "proof" /\ a.ok
    /\ op = "deAuthenticate" /\ result'.val = ReturnValue["deAuthenticate"] => a.what = op /\ a.ok

EndsWith(a) ==
  /\ tries' = 0 /\ result'.kind \in {"returned", "raised"}
  /\ UNCHANGED <<asked, requests>>
  /\ PlanBy(a) /\ ResultBy(a)

-----------------------------------------------------------------------------
(* Sequences, counters and images.                                          *)

(* What is left of a sequence, and its head.                                *)
LEMMA TailOf ==
  ASSUME NEW S, NEW s \in Seq(S), s # <<>>
  PROVE  /\ Head(s) = s[1] /\ Head(s) \in S /\ 1 \in DOMAIN s
         /\ Tail(s) \in Seq(S)
         /\ \A i \in DOMAIN Tail(s) : i \in Nat \ {0} /\ i + 1 \in DOMAIN s /\ Tail(s)[i] = s[i + 1]
<1>1. Len(s) \in Nat \ {0}
  BY EmptySeq
<1>2. Tail(s) \in Seq(S) /\ Len(Tail(s)) = Len(s) - 1
      /\ \A i \in 1..Len(Tail(s)) : Tail(s)[i] = s[i + 1]
  BY HeadTailProperties
<1>3. DOMAIN s = 1..Len(s) /\ DOMAIN Tail(s) = 1..Len(Tail(s))
  BY <1>2, LenProperties
<1>4. Head(s) = s[1] /\ s[1] \in S
  BY <1>1, ElementOfSeq
<1> QED
  BY <1>1, <1>2, <1>3, <1>4

(* A sequence to which an element is appended: the old ones, which stand    *)
(* before it, and the new one.                                              *)
LEMMA AppendOf ==
  ASSUME NEW S, NEW s \in Seq(S), NEW e \in S
  PROVE  /\ Append(s, e) \in Seq(S) /\ Append(s, e) # <<>>
         /\ Len(Append(s, e)) = Len(s) + 1 /\ Len(s) \in Nat
         /\ DOMAIN s = 1..Len(s)
         /\ \A i \in DOMAIN s : i \in Nat /\ i < Len(s) + 1 /\ Append(s, e)[i] = s[i]
         /\ Append(s, e)[Len(s) + 1] = e
         /\ \A i \in DOMAIN Append(s, e) : i \in Nat /\ (i \in DOMAIN s \/ i = Len(s) + 1)
<1>1. Append(s, e) \in Seq(S) /\ Len(Append(s, e)) = Len(s) + 1
      /\ (\A i \in 1..Len(s) : Append(s, e)[i] = s[i]) /\ Append(s, e)[Len(s) + 1] = e
  BY AppendProperties
<1>2. DOMAIN s = 1..Len(s) /\ DOMAIN Append(s, e) = 1..Len(Append(s, e)) /\ Len(s) \in Nat
  BY <1>1, LenProperties
<1>3. Append(s, e) # <<>>
  BY <1>1, <1>2, EmptySeq
<1> QED
  BY <1>1, <1>2, <1>3

(* The counter tells the numbers of three blocks in a row apart.            *)
LEMMA CountersDiffer ==
  ASSUME NEW m \in Nat, NEW n \in Nat, m < n, n <= m + 2
  PROVE  Counter(m) # Counter(n)
<1> SUFFICES ASSUME Counter(m) = Counter(n) PROVE FALSE
  OBVIOUS
<1> DEFINE r == m % Wrap
           a == m \div Wrap
           b == n \div Wrap
<1>1. Wrap \in Nat /\ Wrap > 2
  BY BlockAssumption
<1>2. m = Wrap * a + r /\ a \in Int /\ n = Wrap * b + (n % Wrap) /\ b \in Int /\ r \in Int
  BY <1>1
<1>3. n % Wrap = r
  BY DEF Counter
<1>4. n - m = Wrap * (b - a)
  BY <1>1, <1>2, <1>3
<1> HIDE DEF r, a, b
<1>5. b - a >= 1 \/ b - a <= 0
  BY <1>2
<1>6. CASE b - a >= 1
  <2> DEFINE d == b - a - 1
  <2>1. d \in Nat /\ Wrap * (b - a) = Wrap + Wrap * d /\ Wrap * d \in Nat
    BY <1>1, <1>2, <1>6
  <2> QED
    BY <2>1, <1>4, <1>1
<1>7. CASE b - a <= 0
  <2> DEFINE d == a - b
  <2>1. d \in Nat /\ Wrap * (b - a) = -(Wrap * d) /\ Wrap * d \in Nat
    BY <1>1, <1>2, <1>7
  <2> QED
    BY <2>1, <1>4, <1>1
<1> QED
  BY <1>5, <1>6, <1>7

(* One more block makes the next image; an image is as long as it says.     *)
LEMMA ImageOf ==
  ASSUME NEW k \in Nat
  PROVE  /\ Image(k) \in Seq(Nat) /\ Len(Image(k)) = k
         /\ Append(Image(k), k + 1) = Image(k + 1)
         /\ Image(k) = <<>> <=> k = 0
<1>1. Image(k) \in Seq(Nat) /\ Len(Image(k)) = k
  BY DEF Image
<1>2. Image(k + 1) \in Seq(Nat) /\ Len(Image(k + 1)) = k + 1
  BY DEF Image
<1>3. Append(Image(k), k + 1) \in Seq(Nat) /\ Len(Append(Image(k), k + 1)) = k + 1
      /\ (\A i \in 1..k : Append(Image(k), k + 1)[i] = Image(k)[i]) /\ Append(Image(k), k + 1)[k + 1] = k + 1
  BY <1>1, AppendProperties
<1>4. \A i \in 1..(k + 1) : Append(Image(k), k + 1)[i] = Image(k + 1)[i]
  <2> SUFFICES ASSUME NEW i \in 1..(k + 1) PROVE Append(Image(k), k + 1)[i] = i
    BY DEF Image
  <2>1. CASE i \in 1..k
    BY <2>1, <1>3 DEF Image
  <2>2. CASE i = k + 1
    BY <2>2, <1>3
  <2>3. i \in 1..k \/ i = k + 1
    OBVIOUS
  <2> QED
    BY <2>1, <2>2, <2>3
<1>5. Append(Image(k), k + 1) = Image(k + 1)
  BY <1>2, <1>3, <1>4, SeqEqual
<1> QED
  BY <1>1, <1>5, EmptySeq

-----------------------------------------------------------------------------
(* The ECU.                                                                 *)

(* The fields of the ECU may change one by one.                             *)
LEMMA EcuUpdated ==
  ASSUME NEW e \in EcuType, e.challenge <= e.challenges
  PROVE  /\ \A b \in BOOLEAN :
              LET f == [e EXCEPT !.download = b] IN f \in EcuType /\ f.challenge <= f.challenges
         /\ \A b \in BOOLEAN :
              LET f == [e EXCEPT !.flashed = b] IN f \in EcuType /\ f.challenge <= f.challenges
         /\ \A b \in BOOLEAN :
              LET f == [e EXCEPT !.authenticated = b] IN f \in EcuType /\ f.challenge <= f.challenges
         /\ \A n \in Nat \ {0} :
              LET f == [e EXCEPT !.expects = n] IN f \in EcuType /\ f.challenge <= f.challenges
         /\ \A s \in Seq(Nat) :
              LET f == [e EXCEPT !.image = s] IN f \in EcuType /\ f.challenge <= f.challenges
         /\ LET f == [e EXCEPT !.challenge = 0] IN f \in EcuType /\ f.challenge <= f.challenges
<1>1. ASSUME NEW b \in BOOLEAN, NEW f, f = [e EXCEPT !.download = b]
      PROVE  f \in EcuType /\ f.challenge <= f.challenges
  BY <1>1 DEF EcuType
<1>2. ASSUME NEW b \in BOOLEAN, NEW f, f = [e EXCEPT !.flashed = b]
      PROVE  f \in EcuType /\ f.challenge <= f.challenges
  BY <1>2 DEF EcuType
<1>3. ASSUME NEW b \in BOOLEAN, NEW f, f = [e EXCEPT !.authenticated = b]
      PROVE  f \in EcuType /\ f.challenge <= f.challenges
  BY <1>3 DEF EcuType
<1>4. ASSUME NEW n \in Nat \ {0}, NEW f, f = [e EXCEPT !.expects = n]
      PROVE  f \in EcuType /\ f.challenge <= f.challenges
  BY <1>4 DEF EcuType
<1>5. ASSUME NEW s \in Seq(Nat), NEW f, f = [e EXCEPT !.image = s]
      PROVE  f \in EcuType /\ f.challenge <= f.challenges
  BY <1>5 DEF EcuType
<1>6. ASSUME NEW f, f = [e EXCEPT !.challenge = 0]
      PROVE  f \in EcuType /\ f.challenge <= f.challenges
  <2>1. f \in EcuType /\ f.challenge = 0 /\ f.challenges = e.challenges
    BY <1>6 DEF EcuType
  <2> QED
    BY <2>1 DEF EcuType
<1> QED
  BY <1>1, <1>2, <1>3, <1>4, <1>5, <1>6

(* An ECU that answers keeps its types, answers one request with one        *)
(* answer, and does what the request says if the answer is positive.        *)
LEMMA EcuAnswers ==
  ASSUME LinkTypes, EcuTypes, EcuServes, NEW r, r = Head(requests)
  PROVE  /\ EcuTypes'
         /\ \E a \in AnswerType :
              answers' = Append(answers, a) /\ FlashedBy(r, a) /\ TaskedBy(r, a) /\ StoredBy(r, a)
<1> DEFINE Goal == /\ EcuTypes'
                   /\ \E a \in AnswerType :
                        answers' = Append(answers, a) /\ FlashedBy(r, a) /\ TaskedBy(r, a) /\ StoredBy(r, a)
<1>1. Serves(r) /\ r \in RequestType
  BY TailOf DEF EcuServes, LinkTypes
<1>2. ecu \in EcuType /\ ecu.challenge <= ecu.challenges
  BY DEF EcuTypes
<1>3. r.what \in Whats /\ r.val \in Vals /\ r.body \in Bodies
      /\ (r.what = "block" => r.body \in 1..Blocks /\ r.val = Counter(r.body))
      /\ (r.what = "write" => r.val \in Targets)
      /\ (r.what \in {"write", "clear"} => r.body \in Nat)
      /\ (r.what = "read" => r.val \in DidLists)
  BY <1>1 DEF RequestType
<1>4. ASSUME NEW e \in EcuType, e.challenge <= e.challenges, NEW ok \in BOOLEAN, NEW val \in Vals, NEW body \in Bodies,
             Serve(r, e, ok, val, body),
             r.what = "block" => body = r.body /\ (ok => val = r.val),
             NEW a, a = [what |-> r.what, ok |-> ok, val |-> val, body |-> body]
      PROVE  EcuTypes' /\ a \in AnswerType /\ answers' = Append(answers, a) /\ ecu' = e
  BY <1>3, <1>4 DEF Serve, Answer, EcuTypes, AnswerType
<1>5. 0 \in Vals /\ 0 \in Bodies
  BY DEF Vals, Bodies
<1>6. ASSUME Refuse(r) PROVE Goal
  <2> DEFINE a == [what |-> r.what, ok |-> FALSE, val |-> 0, body |-> r.body]
  <2>1. EcuTypes' /\ a \in AnswerType /\ answers' = Append(answers, a) /\ ecu' = ecu
    BY <1>2, <1>3, <1>4, <1>5, <1>6 DEF Refuse
  <2>2. FlashedBy(r, a) /\ TaskedBy(r, a) /\ StoredBy(r, a)
    BY <2>1 DEF FlashedBy, TaskedBy, StoredBy
  <2> QED
    BY <2>1, <2>2
<1> SUFFICES ASSUME ~Refuse(r) PROVE Goal
  BY <1>6
<1>7. CASE r.what = "download"
  <2> DEFINE e == [ecu EXCEPT !.download = TRUE, !.expects = 1, !.image = <<>>, !.flashed = FALSE]
             a == [what |-> r.what, ok |-> TRUE, val |-> 0, body |-> 0]
  <2>1. Serve(r, e, TRUE, 0, 0)
    BY <1>1, <1>7 DEF Serves
  <2>2. e \in EcuType /\ e.challenge <= e.challenges
    <3> DEFINE f == [ecu EXCEPT !.download = TRUE]
               g == [f EXCEPT !.expects = 1]
               h == [g EXCEPT !.image = <<>>]
    <3>1. f \in EcuType /\ f.challenge <= f.challenges
      BY <1>2, EcuUpdated
    <3>2. [h EXCEPT !.flashed = FALSE] = e
      OBVIOUS
    <3> HIDE DEF e, f
    <3>3. g \in EcuType /\ g.challenge <= g.challenges
      <4>1. 1 \in Nat \ {0}
        OBVIOUS
      <4>2. \A n \in Nat \ {0} : LET k == [f EXCEPT !.expects = n] IN k \in EcuType /\ k.challenge <= k.challenges
        BY <3>1, EcuUpdated
      <4> QED
        BY <4>1, <4>2
    <3> HIDE DEF g
    <3>4. h \in EcuType /\ h.challenge <= h.challenges
      BY <3>3, EcuUpdated, EmptySeq
    <3> HIDE DEF h
    <3> QED
      BY <3>2, <3>4, EcuUpdated
  <2>3. EcuTypes' /\ a \in AnswerType /\ answers' = Append(answers, a) /\ ecu' = e
    BY <1>4, <1>5, <1>7, <2>1, <2>2
  <2>4. FlashedBy(r, a) /\ TaskedBy(r, a) /\ StoredBy(r, a)
    BY <1>2, <1>7, <2>3 DEF FlashedBy, TaskedBy, StoredBy, EcuType, FlashOf, Flashing
  <2> QED
    BY <2>3, <2>4
<1>8. CASE r.what = "block"
  <2> DEFINE e == IF r.val = Counter(ecu.expects)
                  THEN [ecu EXCEPT !.expects = @ + 1, !.image = Append(@, r.body)] ELSE ecu
             a == [what |-> r.what, ok |-> TRUE, val |-> r.val, body |-> r.body]
  <2>1. ServeBlock(r)
    BY <1>1, <1>8 DEF Serves
  <2>2. /\ Serve(r, e, TRUE, r.val, r.body)
        /\ ecu.download
        /\ r.val = Counter(ecu.expects) \/ (ecu.image # <<>> /\ r.val = Counter(ecu.expects - 1))
    BY <2>1, <1>8 DEF ServeBlock
  <2>3. Append(ecu.image, r.body) \in Seq(Nat) /\ ecu.expects + 1 \in Nat \ {0}
    BY <1>2, <1>3, <1>8, AppendProperties DEF EcuType
  <2>4. e \in EcuType /\ e.challenge <= e.challenges
    BY <1>2, <2>3 DEF EcuType
  <2>5. EcuTypes' /\ a \in AnswerType /\ answers' = Append(answers, a) /\ ecu' = e
    <3>1. a = [what |-> r.what, ok |-> TRUE, val |-> r.val, body |-> r.body]
      OBVIOUS
    <3>2. Serve(r, e, TRUE, r.val, r.body) /\ r.val \in Vals /\ r.body \in Bodies
      BY <1>3, <2>2
    <3> HIDE DEF e, a
    <3> QED
      BY <1>4, <2>4, <3>1, <3>2
  <2>6. FlashedBy(r, a) /\ TaskedBy(r, a) /\ StoredBy(r, a)
    BY <1>2, <1>8, <2>2, <2>5 DEF FlashedBy, TaskedBy, StoredBy, EcuType, FlashOf, Flashing
  <2> QED
    BY <2>5, <2>6
<1>9. CASE r.what = "exit"
  <2> DEFINE e == [ecu EXCEPT !.download = FALSE, !.flashed = TRUE]
             a == [what |-> r.what, ok |-> TRUE, val |-> 0, body |-> 0]
  <2>1. Serve(r, e, TRUE, 0, 0)
    BY <1>1, <1>9 DEF Serves, ServeExit
  <2>2. e \in EcuType /\ e.challenge <= e.challenges
    BY <1>2 DEF EcuType
  <2>3. EcuTypes' /\ a \in AnswerType /\ answers' = Append(answers, a) /\ ecu' = e
    BY <1>4, <1>5, <1>9, <2>1, <2>2
  <2>4. FlashedBy(r, a) /\ TaskedBy(r, a) /\ StoredBy(r, a)
    BY <1>2, <1>9, <2>3 DEF FlashedBy, TaskedBy, StoredBy, EcuType, FlashOf, Flashing
  <2> QED
    BY <2>3, <2>4
<1>10. CASE r.what = "verify"
  <2>1. PICK e, c : /\ Serve(r, e, TRUE, c, 0)
                    /\ \/ c = ecu.challenges + 1 /\ e = [ecu EXCEPT !.challenge = c, !.challenges = c]
                       \/ c = 0 /\ e = ecu
    BY <1>1, <1>10 DEF Serves
  <2> DEFINE a == [what |-> r.what, ok |-> TRUE, val |-> c, body |-> 0]
  <2>2. c \in Nat /\ e \in EcuType /\ e.challenge <= e.challenges
    <3>1. CASE c = 0 /\ e = ecu
      BY <1>2, <3>1
    <3>2. CASE c = ecu.challenges + 1 /\ e = [ecu EXCEPT !.challenge = c, !.challenges = c]
      <4>1. c \in Nat
        BY <1>2, <3>2 DEF EcuType
      <4>2. e \in EcuType
        BY <1>2, <3>2, <4>1 DEF EcuType
      <4>3. e.challenge = c /\ e.challenges = c
        BY <1>2, <3>2 DEF EcuType
      <4> QED
        BY <4>1, <4>2, <4>3
    <3> QED
      BY <2>1, <3>1, <3>2
  <2>3. EcuTypes' /\ a \in AnswerType /\ answers' = Append(answers, a) /\ ecu' = e
    BY <1>4, <1>5, <1>10, <2>1, <2>2 DEF Vals
  <2>4. FlashedBy(r, a) /\ TaskedBy(r, a) /\ StoredBy(r, a)
    BY <1>2, <1>10, <2>1, <2>3 DEF FlashedBy, TaskedBy, StoredBy, EcuType, FlashOf, Flashing
  <2> QED
    BY <2>3, <2>4
<1>11. CASE r.what = "proof"
  <2> DEFINE ok == ecu.challenge # 0 /\ r.val = ecu.challenge
             e == [ecu EXCEPT !.authenticated = (ok \/ ecu.authenticated), !.challenge = 0]
  <2>1. Serve(r, e, ok, 0, 0)
    BY <1>1, <1>2, <1>11 DEF Serves, ServeProof, EcuType
  <2> DEFINE a == [what |-> r.what, ok |-> ok, val |-> 0, body |-> 0]
  <2>2. e \in EcuType /\ e.challenge <= e.challenges
    <3> DEFINE b == ok \/ ecu.authenticated
    <3>1. b \in BOOLEAN
      OBVIOUS
    <3> HIDE DEF b
    <3>2. e = [ecu EXCEPT !.authenticated = b, !.challenge = 0]
      BY DEF b
    <3> DEFINE f == [ecu EXCEPT !.authenticated = b]
    <3>3. f \in EcuType /\ f.challenge <= f.challenges
      BY <1>2, <3>1, EcuUpdated
    <3>4. e = [f EXCEPT !.challenge = 0]
      BY <3>2
    <3> HIDE DEF e, f
    <3> QED
      BY <3>3, <3>4, EcuUpdated
  <2>3. EcuTypes' /\ a \in AnswerType /\ answers' = Append(answers, a) /\ ecu' = e
    BY <1>4, <1>5, <1>11, <2>1, <2>2
  <2>4. FlashedBy(r, a) /\ TaskedBy(r, a) /\ StoredBy(r, a)
    BY <1>2, <1>11, <2>1, <2>3 DEF FlashedBy, TaskedBy, StoredBy, EcuType, FlashOf, Flashing
  <2> QED
    BY <2>3, <2>4
<1>12. CASE r.what = "deAuthenticate"
  <2> DEFINE e == [ecu EXCEPT !.authenticated = FALSE]
             a == [what |-> r.what, ok |-> TRUE, val |-> 0, body |-> 0]
  <2>1. Serve(r, e, TRUE, 0, 0)
    BY <1>1, <1>12 DEF Serves
  <2>2. e \in EcuType /\ e.challenge <= e.challenges
    BY <1>2 DEF EcuType
  <2>3. EcuTypes' /\ a \in AnswerType /\ answers' = Append(answers, a) /\ ecu' = e
    BY <1>4, <1>5, <1>12, <2>1, <2>2
  <2>4. FlashedBy(r, a) /\ TaskedBy(r, a) /\ StoredBy(r, a)
    BY <1>2, <1>12, <2>3 DEF FlashedBy, TaskedBy, StoredBy, EcuType, FlashOf, Flashing
  <2> QED
    BY <2>3, <2>4
<1>13. CASE r.what = "write"
  <2> DEFINE e == [ecu EXCEPT !.stored = [ecu.stored EXCEPT ![r.val] = r.body]]
             a == [what |-> r.what, ok |-> TRUE, val |-> r.val, body |-> 0]
  <2>1. Serve(r, e, TRUE, r.val, 0)
    BY <1>1, <1>13 DEF Serves
  <2>2. e \in EcuType /\ e.challenge <= e.challenges
    BY <1>2, <1>3, <1>13 DEF EcuType
  <2>3. EcuTypes' /\ a \in AnswerType /\ answers' = Append(answers, a) /\ ecu' = e
    BY <1>3, <1>4, <1>5, <1>13, <2>1, <2>2
  <2>4. FlashedBy(r, a) /\ TaskedBy(r, a) /\ StoredBy(r, a)
    BY <1>2, <1>13, <2>3 DEF FlashedBy, TaskedBy, StoredBy, EcuType, FlashOf, Flashing
  <2> QED
    BY <2>3, <2>4
<1>14. CASE r.what = "clear"
  <2> DEFINE e == [ecu EXCEPT !.cleared = r.body]
             a == [what |-> r.what, ok |-> TRUE, val |-> 0, body |-> 0]
  <2>1. Serve(r, e, TRUE, 0, 0)
    BY <1>1, <1>14 DEF Serves
  <2>2. e \in EcuType /\ e.challenge <= e.challenges
    BY <1>2, <1>3, <1>14 DEF EcuType
  <2>3. EcuTypes' /\ a \in AnswerType /\ answers' = Append(answers, a) /\ ecu' = e
    BY <1>4, <1>5, <1>14, <2>1, <2>2
  <2>4. FlashedBy(r, a) /\ TaskedBy(r, a) /\ StoredBy(r, a)
    BY <1>2, <1>14, <2>3 DEF FlashedBy, TaskedBy, StoredBy, EcuType, FlashOf, Flashing
  <2> QED
    BY <2>3, <2>4
<1>15. CASE r.what \in {"configuration", "transmit", "routine", "dtc", "read"}
  <2>1. PICK body \in Bodies : Serve(r, ecu, TRUE, r.val, body)
    <3>1. CASE r.what # "read"
      BY <1>1, <1>5, <1>15, <3>1 DEF Serves
    <3>2. CASE r.what = "read"
      BY <1>1, <1>3, <1>15, <3>2 DEF Serves, Bodies
    <3> QED
      BY <3>1, <3>2
  <2> DEFINE a == [what |-> r.what, ok |-> TRUE, val |-> r.val, body |-> body]
  <2>2. EcuTypes' /\ a \in AnswerType /\ answers' = Append(answers, a) /\ ecu' = ecu
    BY <1>2, <1>3, <1>4, <1>15, <2>1
  <2>3. FlashedBy(r, a) /\ TaskedBy(r, a) /\ StoredBy(r, a)
    BY <1>15, <2>2 DEF FlashedBy, TaskedBy, StoredBy, FlashOf, Flashing
  <2> QED
    BY <2>2, <2>3
<1>16. r.what \in {"download", "block", "exit", "verify", "proof", "deAuthenticate", "write", "clear",
                   "configuration", "transmit", "routine", "dtc", "read"}
  BY <1>3 DEF Whats, Services, Authentications
<1> HIDE DEF Goal
<1>17. Goal
  BY <1>6, <1>7, <1>8, <1>9, <1>10, <1>11, <1>12, <1>13, <1>14, <1>15, <1>16
<1> QED
  BY <1>17 DEF Goal

-----------------------------------------------------------------------------
(* The caller.                                                              *)

(* What an operation asks for first.                                        *)
LEMMA FirstRequestIs ==
  ASSUME CallTypes, PlanTypes, NEW o \in Operations, o \in Wanted, NEW r \in FirstRequests(o)
  PROVE  /\ r \in RequestType /\ r.what \in Asks(o)
         /\ o = "transfer" =>
              /\ plan.granted /\ plan.next <= Blocks
              /\ r.what = "block" /\ r.val = Counter(plan.next) /\ r.body = plan.next
         /\ o = "exit" => plan.granted /\ plan.next = Blocks + 1 /\ r.what = "exit"
         /\ o = "exchange" => r.what = "verify"
         /\ o \notin {"transfer", "exchange", "raw"} => r.what = o
<1>1. calls + 1 \in Nat /\ plan.next \in 1..(Blocks + 1) /\ plan.granted \in BOOLEAN
  BY DEF CallTypes, PlanTypes
<1>2. calls + 1 \in Vals /\ calls + 1 \in Bodies /\ 0 \in Vals /\ 0 \in Bodies
  BY <1>1 DEF Vals, Bodies
<1>3. CASE o = "transfer"
  <2>1. plan.granted /\ plan.next <= Blocks
    <3>1. job = "flash"
      BY <1>3 DEF Wanted, CallTypes, Jobs
    <3>2. "transfer" \in {"download"} \cup (IF ~plan.granted THEN {} ELSE IF plan.next <= Blocks THEN {"transfer"} ELSE {"exit"})
      BY <1>3, <3>1 DEF Wanted
    <3> QED
      BY <3>2
  <2>2. r = Request("block", Counter(plan.next), plan.next)
    BY <1>3 DEF FirstRequests
  <2>3. plan.next \in 1..Blocks /\ plan.next \in Bodies
    BY <1>1, <2>1 DEF Bodies
  <2>4. Counter(plan.next) \in Vals
    BY <1>1 DEF Counter, Vals
  <2>5. r = [what |-> "block", val |-> Counter(plan.next), body |-> plan.next]
    BY <2>2 DEF Request
  <2>6. r \in RequestType
    BY <2>3, <2>4, <2>5 DEF RequestType, Whats, Services
  <2> QED
    BY <1>3, <2>1, <2>5, <2>6 DEF Asks
<1>4. CASE o \in {"download", "exit", "exchange"}
  <2>1. r = [what |-> IF o = "exchange" THEN "verify" ELSE o, val |-> 0, body |-> 0]
    BY <1>4 DEF FirstRequests, Request
  <2>2. r \in RequestType
    BY <1>2, <1>4, <2>1 DEF RequestType, Whats, Services, Authentications
  <2>3. o = "exit" => plan.granted /\ plan.next = Blocks + 1
    <3> HAVE o = "exit"
    <3>1. job = "flash"
      BY DEF Wanted, CallTypes, Jobs
    <3>2. "exit" \in {"download"} \cup (IF ~plan.granted THEN {} ELSE IF plan.next <= Blocks THEN {"transfer"} ELSE {"exit"})
      BY <3>1 DEF Wanted
    <3> QED
      BY <1>1, <3>2
  <2> QED
    BY <1>4, <2>1, <2>2, <2>3 DEF Asks
<1>5. CASE o \in {"raw", "write", "routine", "dtc"}
  <2>1. PICK t \in Targets : r = [what |-> IF o = "raw" THEN "routine" ELSE o, val |-> t, body |-> calls + 1]
    BY <1>5 DEF FirstRequests, Request
  <2>2. r \in RequestType
    BY <1>1, <1>2, <1>5, <2>1 DEF RequestType, Whats, Services, Vals
  <2> QED
    BY <1>5, <2>1, <2>2 DEF Asks
<1>6. CASE o = "read"
  <2>1. PICK list \in DidLists : r = [what |-> "read", val |-> list, body |-> 0]
    BY <1>6 DEF FirstRequests, Request
  <2>2. r \in RequestType
    BY <1>2, <2>1 DEF RequestType, Whats, Services, Vals
  <2> QED
    BY <1>6, <2>1, <2>2 DEF Asks
<1>7. CASE o \in {"deAuthenticate", "configuration", "transmit", "clear"}
  <2>1. r = [what |-> o, val |-> 0, body |-> calls + 1]
    BY <1>7 DEF FirstRequests, Request
  <2>2. r \in RequestType
    BY <1>1, <1>2, <1>7, <2>1 DEF RequestType, Whats, Services, Authentications
  <2> QED
    BY <1>7, <2>1, <2>2 DEF Asks
<1> QED
  BY <1>3, <1>4, <1>5, <1>6, <1>7 DEF Operations

(* What a caller asks for tells the operation.                              *)
LEMMA AskedTells ==
  ASSUME CallTypes
  PROVE  /\ ~Idle => asked \in RequestType /\ asked.what \in Whats
         /\ op = "download" <=> (op \in Operations /\ asked.what = "download")
         /\ op = "transfer" => asked.what = "block"
         /\ op \in {"download", "exit", "write", "dtc", "clear", "routine", "deAuthenticate"} => asked.what = op
         /\ op = "exchange" => asked.what \in {"verify", "proof"}
         /\ ~Idle /\ asked.what = "block" => op = "transfer"
         /\ ~Idle /\ asked.what = "exit" => op = "exit"
         /\ ~Idle /\ asked.what = "verify" => op = "exchange"
<1>1. ~Idle => op \in Operations
  BY DEF CallTypes
<1>2. asked.what \in Asks(op) /\ op \in Operations \cup {"none", "bidirectional"}
  BY DEF CallTypes
<1>3. ~Idle => asked.what # "nothing"
  BY <1>1, <1>2 DEF Asks, Operations
<1>4. ~Idle => asked \in RequestType
  BY <1>3 DEF CallTypes, Nothing, Request
<1> QED
  BY <1>1, <1>2, <1>4 DEF Asks, Operations, RequestType

(* An answer that is taken either has its challenge proved or ends the      *)
(* operation.                                                               *)
LEMMA AnswerEnds ==
  ASSUME TypeInv, TakeAnswer, NEW a, a = Head(answers)
  PROVE  Proves(a) \/ EndsWith(a)
<1>1. ~Idle /\ Answered(a) /\ Sid(a.what) = Sid(asked.what)
  BY DEF TakeAnswer
<1>2. a \in AnswerType
  BY <1>1, TailOf DEF TypeInv, LinkTypes, TakeAnswer
<1>3. a.what \in Whats /\ a.ok \in BOOLEAN
  BY <1>2 DEF AnswerType
<1>4. asked.what \in Whats
  BY <1>1, AskedTells DEF TypeInv
<1>5. a.what = asked.what \/ (a.what \in Authentications /\ asked.what \in Authentications)
  BY <1>1, <1>3, <1>4 DEF Sid, Whats, Services, Authentications
<1>6. CASE ~a.ok
  <2>1. tries' = 0 /\ UNCHANGED <<asked, requests, plan>>
    BY <1>1, <1>6 DEF Answered, End
  <2>2. result' = IF op = "raw" THEN Returned("negative") ELSE Raised("NegativeResponse")
    BY <1>1, <1>6 DEF Answered, End
  <2>3. result'.kind \in {"returned", "raised"} /\ (result'.kind = "returned" => op = "raw")
    BY <2>2 DEF Returned, Raised
  <2> QED
    BY <2>1, <2>3 DEF EndsWith, PlanBy, ResultBy
<1>7. CASE a.ok
  <2>1. PositiveAnswered(a)
    BY <1>1, <1>7 DEF Answered
  <2>2. CASE asked.what = "download"
    <3>1. a.what = "download" /\ op = "download"
      BY <1>1, <1>5, <2>2, AskedTells DEF TypeInv, Authentications, CallTypes
    <3>2. DownloadAnswered(a)
      BY <2>1, <2>2 DEF PositiveAnswered, Authentications
    <3> QED
      BY <1>7, <3>1, <3>2 DEF DownloadAnswered, End, Returned, EndsWith, PlanBy, ResultBy
  <2>3. CASE asked.what = "block"
    <3>1. a.what = "block" /\ op = "transfer"
      BY <1>1, <1>5, <2>3, AskedTells DEF TypeInv, Authentications
    <3>2. BlockAnswered(a)
      BY <2>1, <2>3 DEF PositiveAnswered, Authentications
    <3>3. CASE a.val = asked.val
      BY <1>7, <3>1, <3>2, <3>3 DEF BlockAnswered, End, Returned, EndsWith, PlanBy, ResultBy
    <3>4. CASE a.val # asked.val
      BY <1>7, <3>1, <3>2, <3>4 DEF BlockAnswered, End, Raised, EndsWith, PlanBy, ResultBy
    <3> QED
      BY <3>3, <3>4
  <2>4. CASE asked.what = "exit"
    <3>1. a.what = "exit" /\ op = "exit"
      BY <1>1, <1>5, <2>4, AskedTells DEF TypeInv, Authentications
    <3>2. ExitAnswered(a)
      BY <2>1, <2>4 DEF PositiveAnswered, Authentications
    <3> QED
      BY <1>7, <3>1, <3>2 DEF ExitAnswered, End, Returned, EndsWith, PlanBy, ResultBy
  <2>5. CASE asked.what = "verify"
    <3>1. op = "exchange"
      BY <1>1, <2>5, AskedTells DEF TypeInv
    <3>2. VerifyAnswered(a) /\ UNCHANGED plan
      BY <2>1, <2>5 DEF PositiveAnswered, Authentications
    <3>3. CASE /\ a.what = "verify"
               /\ LET r == Request("proof", a.val, 0) IN asked' = r /\ Send(r)
               /\ tries' = 1
               /\ UNCHANGED result
      BY <1>7, <2>5, <3>1, <3>2, <3>3 DEF Proves, Send
    <3>4. CASE End(Raised("NotImplementedError")) \/ End(Raised("InvalidResponse"))
      BY <3>2, <3>4 DEF End, Raised, EndsWith, PlanBy, ResultBy
    <3> QED
      BY <3>2, <3>3, <3>4 DEF VerifyAnswered
  <2>6. CASE asked.what \in Authentications \ {"verify"}
    <3>1. TaskAnswered(a) /\ UNCHANGED plan
      BY <2>1, <2>6 DEF PositiveAnswered, Authentications
    <3>2. a.what \in Authentications
      BY <1>5, <2>6
    <3>3. op \notin {"exit", "clear", "routine", "dtc", "write"}
      BY <2>6, AskedTells DEF TypeInv, Authentications
    <3>4. /\ ReturnValue[a.what] = ReturnValue["proof"] => a.what = "proof"
          /\ ReturnValue[a.what] = ReturnValue["deAuthenticate"] => a.what = "deAuthenticate"
      BY <3>2 DEF ReturnValue, Authentications
    <3>5. tries' = 0 /\ result' = [kind |-> "returned", val |-> ReturnValue[a.what]] /\ UNCHANGED <<asked, requests, plan>>
      BY <3>1 DEF TaskAnswered, End, Returned
    <3>6. ResultBy(a)
      BY <1>7, <3>3, <3>4, <3>5 DEF ResultBy
    <3> QED
      BY <3>5, <3>6 DEF EndsWith, PlanBy
  <2>7. CASE asked.what = "write"
    <3>1. WriteAnswered(a) /\ UNCHANGED plan /\ a.what = "write"
      BY <1>5, <2>1, <2>7 DEF PositiveAnswered, Authentications
    <3>2. op \notin {"exit", "clear", "routine", "dtc", "exchange", "deAuthenticate"}
      BY <2>7, AskedTells DEF TypeInv
    <3>3. /\ tries' = 0 /\ UNCHANGED <<asked, requests, plan>>
          /\ result' = [kind |-> "returned", val |-> IF a.val = asked.val THEN "True" ELSE "False"]
      BY <3>1 DEF WriteAnswered, End, Returned
    <3>4. ResultBy(a)
      BY <1>7, <3>1, <3>2, <3>3 DEF ResultBy
    <3> QED
      BY <3>3, <3>4 DEF EndsWith, PlanBy
  <2>8. CASE asked.what \in {"routine", "dtc", "clear", "read"}
    <3>1. a.what = asked.what /\ UNCHANGED plan
      BY <1>5, <2>1, <2>8 DEF PositiveAnswered, Authentications
    <3>2. \E v : End(Returned(v)) /\ (asked.what \in {"routine", "dtc"} => v = a.val)
      BY <2>1, <2>8 DEF PositiveAnswered, Authentications, RoutineAnswered, ReportAnswered, ClearAnswered, ReadAnswered
    <3>3. op \notin {"write", "exchange", "deAuthenticate"} /\ (op \in {"exit", "clear", "routine", "dtc"} => asked.what = op)
      BY <2>8, AskedTells DEF TypeInv
    <3>4. PICK v : /\ tries' = 0 /\ UNCHANGED <<asked, requests>>
                   /\ result' = [kind |-> "returned", val |-> v] /\ (asked.what \in {"routine", "dtc"} => v = a.val)
      BY <3>2 DEF End, Returned
    <3>5. ResultBy(a)
      BY <1>7, <3>1, <3>3, <3>4 DEF ResultBy
    <3> QED
      BY <3>1, <3>4, <3>5 DEF EndsWith, PlanBy
  <2> QED
    BY <1>4, <2>2, <2>3, <2>4, <2>5, <2>6, <2>7, <2>8 DEF Whats, Services
<1> QED
  BY <1>3, <1>6, <1>7

-----------------------------------------------------------------------------
(* Every step keeps the types.                                              *)

LEMMA StartTypes ==
  ASSUME TypeInv, NEW o \in Operations, Start(o)
  PROVE  TypeInv'
<1>1. PICK r \in FirstRequests(o) : asked' = r /\ requests' = Append(requests, r)
                                    /\ late' = OnTheWay(LAMBDA m : Confusable(r, m))
  BY DEF Start, Send
<1>2. o \in Wanted /\ Idle
  BY DEF Start
<1>3. /\ r \in RequestType /\ r.what \in Asks(o)
      /\ o = "transfer" =>
           /\ plan.granted /\ plan.next <= Blocks
           /\ r.what = "block" /\ r.val = Counter(plan.next) /\ r.body = plan.next
      /\ o = "exit" => plan.granted /\ plan.next = Blocks + 1 /\ r.what = "exit"
  BY <1>2, FirstRequestIs DEF TypeInv
<1>4. LinkTypes'
  BY <1>1, <1>3, AppendOf DEF LinkTypes, TypeInv, Start
<1>5. EcuTypes'
  BY DEF EcuTypes, TypeInv, Start
<1>6. CallTypes'
  <2>1. job \in Jobs /\ MaxCalls[job] \in Nat /\ calls \in 0..MaxCalls[job] /\ calls < MaxCalls[job]
    BY DEF TypeInv, CallTypes, Start
  <2>2. calls' \in 0..MaxCalls[job] /\ job' = job
    BY <2>1 DEF Start
  <2>3. restarts' = restarts /\ epoch' = restarts /\ restarts \in 0..MaxRestarts
    BY DEF TypeInv, CallTypes, Start
  <2>4. late' \in BOOLEAN
    BY <1>1 DEF OnTheWay
  <2>5. staleFlash' \in BOOLEAN
    BY DEF TypeInv, CallTypes, Start, OnTheWay
  <2>6. tries' = 1 /\ op' = o /\ o \notin {"none", "bidirectional"}
    BY DEF Start, Operations
  <2>7. result'.kind \in {"returned", "raised"}
    BY DEF Start, Returned
  <2>8. asked' \in RequestType /\ asked'.what \in Asks(op')
    BY <1>1, <1>3, <2>6
  <2> QED
    BY <2>1, <2>2, <2>3, <2>4, <2>5, <2>6, <2>7, <2>8 DEF CallTypes
<1>7. PlanTypes'
  <2>1. op' = o /\ tries' = 1
    BY DEF Start
  <2>2. CASE o = "download"
    <3>1. plan' = [granted |-> FALSE, next |-> 1]
      BY <2>2 DEF Start
    <3> QED
      BY <2>1, <2>2, <3>1 DEF PlanTypes
  <2>3. CASE o # "download"
    <3>1. plan' = plan
      BY <2>3 DEF Start
    <3> QED
      BY <1>1, <1>3, <2>1, <2>3, <3>1 DEF PlanTypes, TypeInv
  <2> QED
    BY <2>2, <2>3
<1> QED
  BY <1>4, <1>5, <1>6, <1>7 DEF TypeInv

LEMMA TakeAnswerTypes ==
  ASSUME TypeInv, TakeAnswer
  PROVE  TypeInv'
<1> DEFINE a == Head(answers)
<1>1. ~Idle /\ answers # <<>> /\ answers' = Tail(answers)
      /\ UNCHANGED <<job, op, calls, late, epoch, staleFlash, ecu, restarts>>
  BY DEF TakeAnswer, NoExchange
<1>2. answers' \in Seq(AnswerType) /\ a \in AnswerType
  BY <1>1, TailOf DEF TypeInv, LinkTypes
<1> HIDE DEF a
<1>3. Proves(a) \/ EndsWith(a)
  BY AnswerEnds DEF a
<1>4. EcuTypes'
  BY <1>1 DEF TypeInv, EcuTypes
<1>5. CASE Proves(a)
  <2>1. Request("proof", a.val, 0) \in RequestType
    BY <1>2 DEF AnswerType, RequestType, Request, Whats, Authentications, Bodies
  <2>2. LinkTypes'
    BY <1>2, <1>5, <2>1, AppendOf DEF Proves, TypeInv, LinkTypes
  <2>3. tries' = 1 /\ result' = result /\ plan' = plan /\ asked' = Request("proof", a.val, 0) /\ op = "exchange"
    BY <1>5 DEF Proves
  <2>4. CallTypes'
    BY <1>1, <2>1, <2>3 DEF TypeInv, CallTypes, Asks, Request
  <2>5. PlanTypes'
    BY <1>1, <2>3 DEF TypeInv, PlanTypes
  <2> QED
    BY <1>4, <2>2, <2>4, <2>5 DEF TypeInv
<1>6. CASE EndsWith(a)
  <2>1. tries' = 0 /\ result'.kind \in {"returned", "raised"} /\ UNCHANGED <<asked, requests>> /\ PlanBy(a)
    BY <1>6 DEF EndsWith
  <2>2. LinkTypes'
    BY <1>2, <2>1 DEF TypeInv, LinkTypes
  <2>3. CallTypes'
    BY <1>1, <2>1 DEF TypeInv, CallTypes, Idle
  <2>4. PlanTypes'
    <3>1. plan \in [granted : BOOLEAN, next : 1..(Blocks + 1)] /\ PlanTypes
      BY DEF TypeInv, PlanTypes
    <3>2. CASE plan' = plan
      BY <2>1, <3>1, <3>2 DEF PlanTypes, Idle
    <3>3. CASE op = "download" /\ plan' = [plan EXCEPT !.granted = TRUE]
      BY <2>1, <3>1, <3>3 DEF PlanTypes, Idle
    <3>4. CASE op = "transfer" /\ plan' = [plan EXCEPT !.next = @ + 1]
      <4>1. plan.granted /\ plan.next <= Blocks
        BY <1>1, <3>1, <3>4 DEF PlanTypes
      <4>2. plan' \in [granted : BOOLEAN, next : 1..(Blocks + 1)] /\ plan'.granted
        BY <3>1, <3>4, <4>1
      <4> QED
        BY <2>1, <4>2 DEF PlanTypes, Idle
    <3>5. CASE op = "exit" /\ plan' = [plan EXCEPT !.granted = FALSE]
      <4>1. plan.next = Blocks + 1
        BY <1>1, <3>1, <3>5 DEF PlanTypes
      <4>2. plan' \in [granted : BOOLEAN, next : 1..(Blocks + 1)] /\ plan'.next = Blocks + 1
        BY <3>1, <3>5, <4>1
      <4> QED
        BY <2>1, <4>2 DEF PlanTypes, Idle
    <3> QED
      BY <2>1, <3>2, <3>3, <3>4, <3>5 DEF PlanBy
  <2> QED
    BY <1>4, <2>2, <2>3, <2>4 DEF TypeInv
<1> QED
  BY <1>3, <1>5, <1>6

LEMMA TypeNext ==
  ASSUME TypeInv, [Next]_vars
  PROVE  TypeInv'
<1>1. LinkTypes /\ EcuTypes /\ CallTypes /\ PlanTypes
  BY DEF TypeInv
<1>2. ASSUME NEW o \in Operations, Start(o) PROVE TypeInv'
  BY <1>2, StartTypes
<1>3. CASE NotImplemented
  <2>1. UNCHANGED <<job, asked, tries, late, epoch, plan, staleFlash, requests, answers, ecu, restarts>>
        /\ Idle /\ op' = "bidirectional" /\ result'.kind = "raised"
        /\ calls' = calls + 1 /\ calls < MaxCalls[job]
    BY <1>3 DEF NotImplemented, Raised
  <2>2. asked.what \in Whats \cup {"nothing"}
    BY <1>1 DEF CallTypes, RequestType, Nothing, Request
  <2>3. job \in Jobs /\ MaxCalls[job] \in Nat /\ calls \in 0..MaxCalls[job]
    BY <1>1 DEF CallTypes
  <2>4. calls' \in 0..MaxCalls[job]
    BY <2>1, <2>3
  <2>5. CallTypes'
    BY <1>1, <2>1, <2>2, <2>4 DEF CallTypes, Asks, Idle
  <2>6. PlanTypes'
    BY <1>1, <2>1 DEF PlanTypes, Idle
  <2> QED
    BY <1>1, <2>1, <2>5, <2>6 DEF TypeInv, LinkTypes, EcuTypes
<1>4. CASE OtherService
  <2>1. answers # <<>> /\ answers' = Tail(answers) /\ UNCHANGED <<job, client, requests, ecu, restarts>>
    BY <1>4 DEF OtherService
  <2>2. LinkTypes'
    BY <1>1, <2>1, TailOf DEF LinkTypes
  <2> QED
    BY <1>1, <2>1, <2>2 DEF TypeInv, EcuTypes, CallTypes, PlanTypes, client, Idle
<1>5. CASE TakeAnswer
  BY <1>5, TakeAnswerTypes
<1>6. CASE Malformed
  <2>1. /\ answers # <<>> /\ answers' = Tail(answers) /\ tries' = 0 /\ result'.kind = "raised"
        /\ UNCHANGED <<job, op, asked, calls, late, epoch, plan, staleFlash, requests, ecu, restarts>>
    BY <1>6 DEF Malformed, End, Raised, NoExchange
  <2>2. LinkTypes'
    BY <1>1, <2>1, TailOf DEF LinkTypes
  <2>3. CallTypes' /\ PlanTypes'
    BY <1>1, <2>1 DEF CallTypes, PlanTypes, Idle
  <2> QED
    BY <1>1, <2>1, <2>2, <2>3 DEF TypeInv, EcuTypes
<1>7. CASE SendAgain
  <2>1. /\ ~Idle /\ tries < Attempts /\ tries' = tries + 1 /\ requests' = Append(requests, asked)
        /\ UNCHANGED <<job, op, asked, result, calls, late, epoch, plan, staleFlash, answers, ecu, restarts>>
    BY <1>7 DEF SendAgain, Send, NoExchange
  <2>2. asked \in RequestType
    BY <1>1, <2>1, AskedTells
  <2>3. LinkTypes'
    BY <1>1, <2>1, <2>2, AppendOf DEF LinkTypes
  <2>4. tries \in 1..Attempts /\ tries' \in 1..Attempts
    BY <1>1, <2>1 DEF CallTypes, Idle
  <2>5. CallTypes'
    BY <1>1, <2>1, <2>4 DEF CallTypes, Idle
  <2>6. PlanTypes'
    BY <1>1, <2>1, <2>4 DEF PlanTypes, Idle
  <2> QED
    BY <1>1, <2>1, <2>3, <2>5, <2>6 DEF TypeInv, EcuTypes
<1>8. CASE GiveUp
  <2>1. /\ tries' = 0 /\ result'.kind = "raised"
        /\ UNCHANGED <<job, op, asked, calls, late, epoch, plan, staleFlash, requests, answers, ecu, restarts>>
    BY <1>8 DEF GiveUp, End, Raised, NoExchange
  <2>2. CallTypes' /\ PlanTypes'
    BY <1>1, <2>1 DEF CallTypes, PlanTypes, Idle
  <2> QED
    BY <1>1, <2>1, <2>2 DEF TypeInv, EcuTypes, LinkTypes
<1>9. CASE EcuServes
  <2>1. requests # <<>> /\ requests' = Tail(requests) /\ UNCHANGED <<job, client, restarts>>
    BY <1>9 DEF EcuServes
  <2>2. EcuTypes' /\ \E a \in AnswerType : answers' = Append(answers, a)
    BY <1>1, <1>9, EcuAnswers
  <2>3. LinkTypes'
    <3>1. requests' \in Seq(RequestType)
      BY <1>1, <2>1, TailOf DEF LinkTypes
    <3>2. answers' \in Seq(AnswerType)
      BY <1>1, <2>2, AppendOf DEF LinkTypes
    <3> QED
      BY <3>1, <3>2 DEF LinkTypes
  <2> QED
    BY <1>1, <2>1, <2>2, <2>3 DEF TypeInv, CallTypes, PlanTypes, client, Idle
<1>10. CASE Restart
  <2>1. /\ restarts < MaxRestarts /\ restarts' = restarts + 1 /\ requests' = <<>>
        /\ ecu' = [ecu EXCEPT !.download = FALSE, !.challenge = 0, !.authenticated = FALSE]
        /\ UNCHANGED <<job, client, answers>>
    BY <1>10 DEF Restart
  <2>2. EcuTypes'
    <3> DEFINE f == [ecu EXCEPT !.download = FALSE]
               g == [f EXCEPT !.challenge = 0]
    <3>1. f \in EcuType /\ f.challenge <= f.challenges
      BY <1>1, EcuUpdated DEF EcuTypes
    <3>2. ecu' = [g EXCEPT !.authenticated = FALSE]
      BY <2>1
    <3> HIDE DEF f
    <3>3. g \in EcuType /\ g.challenge <= g.challenges
      BY <3>1, EcuUpdated
    <3> HIDE DEF g
    <3> QED
      BY <3>2, <3>3, EcuUpdated DEF EcuTypes
  <2>3. LinkTypes'
    BY <1>1, <2>1, EmptySeq DEF LinkTypes
  <2>4. CallTypes'
    BY <1>1, <2>1 DEF CallTypes, client, Idle
  <2> QED
    BY <1>1, <2>1, <2>2, <2>3, <2>4 DEF TypeInv, PlanTypes, client, Idle
<1>11. CASE LoseRequest
  <2>1. requests # <<>> /\ requests' = Tail(requests) /\ UNCHANGED <<job, client, answers, ecu, restarts>>
    BY <1>11 DEF LoseRequest
  <2>2. LinkTypes'
    BY <1>1, <2>1, TailOf DEF LinkTypes
  <2> QED
    BY <1>1, <2>1, <2>2 DEF TypeInv, EcuTypes, CallTypes, PlanTypes, client, Idle
<1>12. CASE LoseAnswer
  <2>1. answers # <<>> /\ answers' = Tail(answers) /\ UNCHANGED <<job, client, requests, ecu, restarts>>
    BY <1>12 DEF LoseAnswer
  <2>2. LinkTypes'
    BY <1>1, <2>1, TailOf DEF LinkTypes
  <2> QED
    BY <1>1, <2>1, <2>2 DEF TypeInv, EcuTypes, CallTypes, PlanTypes, client, Idle
<1>13. CASE UNCHANGED vars
  BY <1>1, <1>13 DEF TypeInv, LinkTypes, EcuTypes, CallTypes, PlanTypes, vars, client, Idle
<1> QED
  BY <1>2, <1>3, <1>4, <1>5, <1>6, <1>7, <1>8, <1>9, <1>10, <1>11, <1>12, <1>13 DEF Next, AllCallsDone

-----------------------------------------------------------------------------
(* The image of a download.                                                 *)

LEMMA LeftOf ==
  ASSUME NEW S, NEW q \in Seq(S)
  PROVE  /\ Left(q, q) /\ Left(q, <<>>)
         /\ q # <<>> => Left(q, Tail(q))
<1>1. Len(q) \in Nat /\ DOMAIN q = 1..Len(q)
  BY LenProperties
<1>2. Left(q, q)
  <2>1. /\ \A i \in DOMAIN q : i \in Nat \ {0} /\ i + 0 \in DOMAIN q /\ q[i] = q[i + 0]
        /\ \A j \in DOMAIN q : j \in Nat \ {0} /\ (j > 0 => j - 0 \in DOMAIN q)
    BY <1>1
  <2> QED
    BY <2>1 DEF Left
<1>3. Left(q, <<>>)
  <2>1. DOMAIN <<>> = {} /\ \A j \in DOMAIN q : j \in Nat \ {0} /\ (j > Len(q) => j - Len(q) \in DOMAIN <<>>)
    BY <1>1
  <2> QED
    BY <1>1, <2>1 DEF Left
<1>4. ASSUME q # <<>> PROVE Left(q, Tail(q))
  <2>1. Len(q) > 0 /\ Tail(q) \in Seq(S) /\ Len(Tail(q)) = Len(q) - 1
    BY <1>1, <1>4, EmptySeq, HeadTailProperties
  <2>2. DOMAIN Tail(q) = 1..(Len(q) - 1)
    BY <2>1, LenProperties
  <2>3. \A i \in DOMAIN Tail(q) : i \in Nat \ {0} /\ i + 1 \in DOMAIN q /\ Tail(q)[i] = q[i + 1]
    BY <1>4, TailOf
  <2>4. \A j \in DOMAIN q : j \in Nat \ {0} /\ (j > 1 => j - 1 \in DOMAIN Tail(q))
    BY <1>1, <2>1, <2>2
  <2> QED
    BY <2>3, <2>4 DEF Left
<1> QED
  BY <1>2, <1>3, <1>4

(* Whether a grant is the last thing heard of a download depends on the     *)
(* answers left and the ECU.                                                *)
LEMMA GrantStaysFresh ==
  ASSUME GrantIsFresh, Left(answers, answers'),
         ecu'.image = ecu.image, ecu'.expects = ecu.expects, ecu'.download => ecu.download
  PROVE  GrantIsFresh'
<1>1. PICK k \in Nat :
        /\ \A i \in DOMAIN answers' : i \in Nat \ {0} /\ i + k \in DOMAIN answers /\ answers'[i] = answers[i + k]
        /\ \A j \in DOMAIN answers : j \in Nat \ {0} /\ (j > k => j - k \in DOMAIN answers')
  BY DEF Left
<1> SUFFICES ASSUME NEW i \in DOMAIN answers', answers'[i].what = "download", answers'[i].ok,
                    \A j \in DOMAIN answers' : j > i => answers'[j].what # "block"
             PROVE  ecu'.image = <<>> /\ (ecu'.download => ecu'.expects = 1)
  BY DEF GrantIsFresh
<1>2. i \in Nat /\ i + k \in DOMAIN answers /\ answers[i + k].what = "download" /\ answers[i + k].ok
  BY <1>1
<1>3. ASSUME NEW j \in DOMAIN answers, j > i + k PROVE answers[j].what # "block"
  <2>1. j \in Nat /\ j - k \in DOMAIN answers' /\ j - k > i /\ (j - k) + k = j
    BY <1>1, <1>2, <1>3
  <2>2. answers'[j - k] = answers[j]
    BY <1>1, <2>1
  <2> QED
    BY <2>1, <2>2
<1>4. ecu.image = <<>> /\ (ecu.download => ecu.expects = 1)
  BY <1>2, <1>3 DEF GrantIsFresh
<1> QED
  BY <1>4

(* Requests and answers may go missing from the front of their lines, and   *)
(* a download may be forgotten.                                             *)
LEMMA LossKeepsImage ==
  ASSUME TypeInv, ImageInv, Left(requests, requests'), Left(answers, answers'),
         plan'.next = plan.next, Begun' = Begun, staleFlash' = staleFlash,
         ecu'.image = ecu.image, ecu'.expects = ecu.expects, ecu'.flashed = ecu.flashed,
         ecu'.download => ecu.download,
         ~staleFlash /\ Succeeds("exit")' => ecu.flashed /\ plan.next = Blocks + 1
  PROVE  ImageInv'
<1>1. PICK k \in Nat :
        /\ \A i \in DOMAIN requests' : i \in Nat \ {0} /\ i + k \in DOMAIN requests /\ requests'[i] = requests[i + k]
        /\ \A j \in DOMAIN requests : j \in Nat \ {0} /\ (j > k => j - k \in DOMAIN requests')
  BY DEF Left
<1>2. PICK l \in Nat :
        /\ \A i \in DOMAIN answers' : i \in Nat \ {0} /\ i + l \in DOMAIN answers /\ answers'[i] = answers[i + l]
        /\ \A j \in DOMAIN answers : j \in Nat \ {0} /\ (j > l => j - l \in DOMAIN answers')
  BY DEF Left
<1>3. GrantIsFresh'
  BY GrantStaysFresh DEF ImageInv
<1>4. ASSUME ~staleFlash, NotBegun PROVE NotBegun'
  BY <1>1, <1>2, <1>4 DEF NotBegun
<1>5. ASSUME ~staleFlash, BlocksInOrder PROVE BlocksInOrder'
  <2>1. \A i \in DOMAIN requests' : requests'[i].what = "block" => requests'[i].body \in {plan.next - 1, plan.next}
    BY <1>1, <1>5 DEF BlocksInOrder
  <2>2. \A i \in DOMAIN answers' : answers'[i].what = "block" => answers'[i].body \in {plan.next - 1, plan.next}
    BY <1>2, <1>5 DEF BlocksInOrder
  <2>3. ASSUME NEW i \in DOMAIN requests', NEW j \in DOMAIN requests', i < j,
               requests'[i].what = "block", requests'[j].what = "block"
        PROVE  requests'[i].body <= requests'[j].body
    <3>1. i + k \in DOMAIN requests /\ j + k \in DOMAIN requests /\ i + k < j + k
          /\ requests'[i] = requests[i + k] /\ requests'[j] = requests[j + k]
      BY <1>1, <2>3
    <3> QED
      BY <1>5, <2>3, <3>1 DEF BlocksInOrder
  <2>4. ASSUME NEW i \in DOMAIN answers', NEW j \in DOMAIN answers', i < j,
               answers'[i].what = "block", answers'[j].what = "block"
        PROVE  answers'[i].body <= answers'[j].body
    <3>1. i + l \in DOMAIN answers /\ j + l \in DOMAIN answers /\ i + l < j + l
          /\ answers'[i] = answers[i + l] /\ answers'[j] = answers[j + l]
      BY <1>2, <2>4
    <3> QED
      BY <1>5, <2>4, <3>1 DEF BlocksInOrder
  <2>5. \A i \in DOMAIN answers', j \in DOMAIN requests' :
          (answers'[i].what = "block" /\ requests'[j].what = "block") => answers'[i].body <= requests'[j].body
    BY <1>1, <1>2, <1>5 DEF BlocksInOrder
  <2> QED
    BY <2>1, <2>2, <2>3, <2>4, <2>5 DEF BlocksInOrder
<1>6. ASSUME ~staleFlash, EcuFollows PROVE EcuFollows'
  BY <1>2, <1>6 DEF EcuFollows, Written
<1>7. ASSUME ~staleFlash, DownloadIsAhead PROVE DownloadIsAhead'
  <2> SUFFICES ASSUME NEW j \in DOMAIN requests', requests'[j].what = "download"
               PROVE  /\ plan.next = 1 /\ Written = 0
                      /\ \A i \in DOMAIN requests' : i < j => requests'[i].what \notin Flashing
                      /\ \A i \in DOMAIN answers' : answers'[i].what \notin Flashing
    BY DEF DownloadIsAhead, Written
  <2>1. j \in Nat /\ j + k \in DOMAIN requests /\ requests[j + k].what = "download"
    BY <1>1
  <2>2. /\ plan.next = 1 /\ Written = 0
        /\ \A i \in DOMAIN requests : i < j + k => requests[i].what \notin Flashing
        /\ \A i \in DOMAIN answers : answers[i].what \notin Flashing
    BY <1>7, <2>1 DEF DownloadIsAhead
  <2>3. \A i \in DOMAIN requests' : i < j => i + k \in DOMAIN requests /\ i + k < j + k /\ requests'[i] = requests[i + k]
    BY <1>1, <2>1
  <2> QED
    BY <1>2, <2>2, <2>3
<1> QED
  BY <1>3, <1>4, <1>5, <1>6, <1>7 DEF ImageInv

(* A request is asked after all others.                                     *)
LEMMA RequestKeepsImage ==
  ASSUME TypeInv, ImageInv, NEW r \in RequestType, requests' = Append(requests, r), tries' # 0,
         Left(answers, answers'),
         UNCHANGED <<plan, staleFlash, ecu>>,
         r.what = "block" => plan.granted /\ r.body = plan.next,
         r.what = "exit" => plan.granted,
         r.what = "download" => ~plan.granted /\ plan.next = 1
  PROVE  ImageInv'
<1> DEFINE n == Len(requests) + 1
<1>1. /\ n \in Nat /\ requests'[n] = r
      /\ \A i \in DOMAIN requests : i \in Nat /\ i < n /\ requests'[i] = requests[i]
      /\ \A i \in DOMAIN requests' : i \in Nat /\ (i \in DOMAIN requests \/ i = n)
  BY AppendOf DEF TypeInv, LinkTypes
<1> HIDE DEF n
<1>2. GrantIsFresh'
  BY GrantStaysFresh DEF ImageInv
<1>3. PICK l \in Nat :
        \A i \in DOMAIN answers' : i \in Nat \ {0} /\ i + l \in DOMAIN answers /\ answers'[i] = answers[i + l]
  BY DEF Left
<1>4. Begun' = Begun /\ plan.next \in Nat /\ plan.granted \in BOOLEAN
  BY DEF Begun, TypeInv, PlanTypes
<1>5. ASSUME NotBegun, ~Begun PROVE NotBegun'
  BY <1>1, <1>3, <1>5 DEF NotBegun, Flashing, Begun
<1>6. ASSUME BlocksInOrder, Begun PROVE BlocksInOrder'
  <2>1. \A i \in DOMAIN requests' : requests'[i].what = "block" => requests'[i].body \in {plan.next - 1, plan.next}
    BY <1>1, <1>6 DEF BlocksInOrder
  <2>2. \A i \in DOMAIN answers' : answers'[i].what = "block" => answers'[i].body \in {plan.next - 1, plan.next}
    BY <1>3, <1>6 DEF BlocksInOrder
  <2>3. ASSUME NEW i \in DOMAIN requests', NEW j \in DOMAIN requests', i < j,
               requests'[i].what = "block", requests'[j].what = "block"
        PROVE  requests'[i].body <= requests'[j].body
    <3>1. i \in DOMAIN requests
      BY <1>1, <2>3
    <3>2. CASE j \in DOMAIN requests
      BY <1>1, <1>6, <2>3, <3>1, <3>2 DEF BlocksInOrder
    <3>3. CASE j = n
      <4>1. requests'[j].body = plan.next
        BY <1>1, <2>3, <3>3
      <4> QED
        BY <1>4, <2>1, <2>3, <4>1
    <3> QED
      BY <1>1, <3>2, <3>3
  <2>4. ASSUME NEW i \in DOMAIN answers', NEW j \in DOMAIN answers', i < j,
               answers'[i].what = "block", answers'[j].what = "block"
        PROVE  answers'[i].body <= answers'[j].body
    <3>1. i + l \in DOMAIN answers /\ j + l \in DOMAIN answers /\ i + l < j + l
          /\ answers'[i] = answers[i + l] /\ answers'[j] = answers[j + l]
      BY <1>3, <2>4
    <3> QED
      BY <1>6, <2>4, <3>1 DEF BlocksInOrder
  <2>5. ASSUME NEW i \in DOMAIN answers', NEW j \in DOMAIN requests', answers'[i].what = "block", requests'[j].what = "block"
        PROVE  answers'[i].body <= requests'[j].body
    <3>1. CASE j \in DOMAIN requests
      BY <1>1, <1>3, <1>6, <2>5, <3>1 DEF BlocksInOrder
    <3>2. CASE j = n
      <4>1. requests'[j].body = plan.next
        BY <1>1, <2>5, <3>2
      <4> QED
        BY <1>4, <2>2, <2>5, <4>1
    <3> QED
      BY <1>1, <3>1, <3>2
  <2> QED
    BY <2>1, <2>2, <2>3, <2>4, <2>5 DEF BlocksInOrder
<1>7. ASSUME EcuFollows PROVE EcuFollows'
  BY <1>3, <1>7 DEF EcuFollows, Written
<1>8. ASSUME DownloadIsAhead, Begun PROVE DownloadIsAhead'
  <2> SUFFICES ASSUME NEW j \in DOMAIN requests', requests'[j].what = "download"
               PROVE  /\ plan.next = 1 /\ Written = 0
                      /\ \A i \in DOMAIN requests' : i < j => requests'[i].what \notin Flashing
                      /\ \A i \in DOMAIN answers' : answers'[i].what \notin Flashing
    BY DEF DownloadIsAhead, Written
  <2>1. j \in DOMAIN requests
    BY <1>1, <1>8 DEF Begun
  <2>2. \A i \in DOMAIN requests' : i < j => i \in DOMAIN requests
    BY <1>1, <2>1
  <2> QED
    BY <1>1, <1>3, <1>8, <2>1, <2>2 DEF DownloadIsAhead
<1>9. ~Succeeds("exit")'
  BY DEF Succeeds, Ended, Idle
<1> QED
  BY <1>2, <1>4, <1>5, <1>6, <1>7, <1>8, <1>9 DEF ImageInv

LEMMA StartKeepsImage ==
  ASSUME TypeInv, ImageInv, NEW o \in Operations, Start(o)
  PROVE  ImageInv'
<1>1. PICK r \in FirstRequests(o) : requests' = Append(requests, r)
  BY DEF Start, Send
<1>2. o \in Wanted /\ Idle /\ tries' = 1 /\ answers' = answers /\ ecu' = ecu
  BY DEF Start
<1>3. /\ r \in RequestType
      /\ o = "transfer" =>
           /\ plan.granted /\ plan.next <= Blocks
           /\ r.what = "block" /\ r.val = Counter(plan.next) /\ r.body = plan.next
      /\ o = "exit" => plan.granted /\ plan.next = Blocks + 1 /\ r.what = "exit"
      /\ o = "exchange" => r.what = "verify"
      /\ o \notin {"transfer", "exchange", "raw"} => r.what = o
      /\ r.what \in Asks(o)
  BY <1>2, FirstRequestIs DEF TypeInv
<1>4. o = "raw" => r.what = "routine"
  BY <1>3 DEF Asks
<1>5. CASE o = "download"
  <2>1. /\ plan' = [granted |-> FALSE, next |-> 1]
        /\ staleFlash' = OnTheWay(LAMBDA m : m.what \in {"block", "exit"})
    BY <1>5 DEF Start
  <2>2. ~Begun' /\ ~Succeeds("exit")'
    BY <1>2, <2>1 DEF Begun, Succeeds, Ended, Idle
  <2>3. GrantIsFresh'
    BY <1>2 DEF ImageInv, GrantIsFresh
  <2>4. ASSUME ~staleFlash' PROVE NotBegun'
    <3>1. /\ \A i \in DOMAIN requests : requests[i].what \notin Flashing
          /\ \A i \in DOMAIN answers : answers[i].what \notin Flashing
      BY <2>1, <2>4 DEF OnTheWay, Flashing
    <3>2. r.what \notin Flashing
      BY <1>3, <1>5 DEF Flashing
    <3>3. /\ \A i \in DOMAIN requests : requests'[i] = requests[i]
          /\ requests'[Len(requests) + 1] = r
          /\ \A i \in DOMAIN requests' : i \in DOMAIN requests \/ i = Len(requests) + 1
      BY <1>1, <1>3, AppendOf DEF TypeInv, LinkTypes
    <3> QED
      BY <1>2, <3>1, <3>2, <3>3 DEF NotBegun
  <2> QED
    BY <2>2, <2>3, <2>4 DEF ImageInv
<1>6. CASE o # "download"
  <2>1. plan' = plan /\ staleFlash' = staleFlash
    BY <1>6 DEF Start
  <2>2. Left(answers, answers')
    BY <1>2, LeftOf DEF TypeInv, LinkTypes
  <2>3. /\ r.what = "block" => plan.granted /\ r.body = plan.next
        /\ r.what = "exit" => plan.granted
        /\ r.what # "download"
    BY <1>3, <1>4, <1>6 DEF Operations
  <2> QED
    BY <1>1, <1>2, <1>3, <2>1, <2>2, <2>3, RequestKeepsImage
<1> QED
  BY <1>5, <1>6

(* The next block is acknowledged: all that is left on the way are copies   *)
(* of it.                                                                   *)
LEMMA AcknowledgedKeepsImage ==
  ASSUME TypeInv, ImageInv, ~Idle, op = "transfer", answers # <<>>, NEW a, a = Head(answers),
         a.what = "block", a.ok, a.val = asked.val, tries' = 0,
         answers' = Tail(answers), plan' = [plan EXCEPT !.next = @ + 1],
         UNCHANGED <<op, requests, staleFlash, ecu>>
  PROVE  ImageInv'
<1>1. /\ Left(answers, answers') /\ 1 \in DOMAIN answers /\ answers[1] = a /\ a \in AnswerType
      /\ \A i \in DOMAIN answers' : i \in Nat \ {0} /\ i + 1 \in DOMAIN answers /\ answers'[i] = answers[i + 1]
  BY TailOf, LeftOf DEF TypeInv, LinkTypes
<1>2. GrantIsFresh'
  BY <1>1, GrantStaysFresh DEF ImageInv
<1>3. plan.granted /\ plan.next \in 1..Blocks /\ asked.val = Counter(plan.next)
  BY DEF TypeInv, PlanTypes
<1>4. plan'.granted = plan.granted /\ plan'.next = plan.next + 1
  BY DEF TypeInv, PlanTypes
<1>5. ~Succeeds("exit")'
  BY DEF Succeeds, Ended
<1>6. Begun /\ Begun'
  BY <1>3, <1>4 DEF Begun
<1> SUFFICES ASSUME ~staleFlash PROVE BlocksInOrder' /\ EcuFollows' /\ DownloadIsAhead'
  BY <1>2, <1>5, <1>6 DEF ImageInv
<1>7. BlocksInOrder /\ EcuFollows /\ DownloadIsAhead
  BY <1>6 DEF ImageInv
<1>8. a.body = plan.next
  <2>1. a.body \in {plan.next - 1, plan.next} /\ a.body \in 1..Blocks /\ a.val = Counter(a.body)
    BY <1>1, <1>7 DEF BlocksInOrder, AnswerType
  <2>2. ASSUME a.body = plan.next - 1 PROVE FALSE
    <3>1. a.body \in Nat /\ plan.next \in Nat /\ a.body < plan.next /\ plan.next <= a.body + 2
      BY <1>3, <2>1, <2>2
    <3>2. Counter(a.body) # Counter(plan.next)
      BY <3>1, CountersDiffer
    <3> QED
      BY <1>3, <2>1, <3>2
  <2> QED
    BY <2>1, <2>2
<1>9. Written = plan.next
  BY <1>1, <1>7, <1>8 DEF EcuFollows
<1>10. \A i \in DOMAIN requests : requests[i].what = "block" => requests[i].body = plan.next
  BY <1>1, <1>3, <1>7, <1>8 DEF BlocksInOrder
<1>11. \A i \in DOMAIN answers' : answers'[i].what = "block" => answers'[i].body = plan.next
  <2> SUFFICES ASSUME NEW i \in DOMAIN answers', answers'[i].what = "block" PROVE answers'[i].body = plan.next
    OBVIOUS
  <2>1. i \in Nat \ {0} /\ i + 1 \in DOMAIN answers /\ answers'[i] = answers[i + 1] /\ 1 < i + 1
    BY <1>1
  <2>2. a.body <= answers[i + 1].body /\ answers[i + 1].body \in {plan.next - 1, plan.next}
    BY <1>1, <1>7, <2>1 DEF BlocksInOrder
  <2> QED
    BY <1>3, <1>8, <2>1, <2>2
<1>12. BlocksInOrder'
  <2>1. plan.next = plan'.next - 1 /\ plan.next <= plan.next
    BY <1>3, <1>4
  <2>2. \A i \in DOMAIN requests' : requests'[i].what = "block" => requests'[i].body = plan.next
    BY <1>10
  <2> QED
    BY <1>11, <2>1, <2>2 DEF BlocksInOrder
<1>13. EcuFollows'
  <2>1. /\ ecu'.image = Image(Written') /\ Written' = plan.next /\ Written' \in {plan'.next - 1, plan'.next}
        /\ Written' <= Blocks /\ (ecu'.download => ecu'.expects = Written' + 1)
    BY <1>3, <1>4, <1>7, <1>9 DEF EcuFollows, Written
  <2>2. ASSUME NEW i \in DOMAIN answers'
        PROVE  /\ (answers'[i].what = "block" /\ answers'[i].ok /\ answers'[i].body = plan'.next) => Written' = plan'.next
               /\ (answers'[i].what = "exit" /\ answers'[i].ok) => ecu'.flashed
    <3>1. (answers'[i].what = "exit" /\ answers'[i].ok) => ecu'.flashed
      BY <1>1, <1>7 DEF EcuFollows
    <3>2. answers'[i].what = "block" => answers'[i].body # plan'.next
      BY <1>3, <1>4, <1>11
    <3> QED
      BY <3>1, <3>2
  <2> QED
    BY <2>1, <2>2 DEF EcuFollows
<1>14. DownloadIsAhead'
  BY <1>1, <1>7 DEF DownloadIsAhead, Flashing
<1> QED
  BY <1>12, <1>13, <1>14

(* A download is granted: nothing of it is on its way, and nothing is       *)
(* written.                                                                 *)
LEMMA GrantKeepsImage ==
  ASSUME TypeInv, ImageInv, ~Idle, op = "download", answers # <<>>, NEW a, a = Head(answers),
         a.what = "download", a.ok, answers' = Tail(answers), plan' = [plan EXCEPT !.granted = TRUE],
         UNCHANGED <<op, requests, staleFlash, ecu>>
  PROVE  ImageInv'
<1>1. /\ Left(answers, answers') /\ 1 \in DOMAIN answers /\ answers[1] = a
      /\ \A i \in DOMAIN answers' : i \in Nat \ {0} /\ i + 1 \in DOMAIN answers /\ answers'[i] = answers[i + 1]
  BY TailOf, LeftOf DEF TypeInv, LinkTypes
<1>2. GrantIsFresh'
  BY <1>1, GrantStaysFresh DEF ImageInv
<1>3. ~plan.granted /\ plan.next = 1 /\ plan'.granted /\ plan'.next = 1
  BY DEF TypeInv, PlanTypes
<1>4. ~Succeeds("exit")' /\ ~Begun /\ Begun'
  BY <1>3 DEF Succeeds, Ended, Begun
<1> SUFFICES ASSUME ~staleFlash PROVE BlocksInOrder' /\ EcuFollows' /\ DownloadIsAhead'
  BY <1>2, <1>4 DEF ImageInv
<1>5. /\ \A i \in DOMAIN requests' : requests'[i].what \notin Flashing
      /\ \A i \in DOMAIN answers' : answers'[i].what \notin Flashing
      /\ \A i \in DOMAIN answers : answers[i].what \notin Flashing
  BY <1>1, <1>4 DEF ImageInv, NotBegun
<1>6. ecu.image = <<>> /\ (ecu.download => ecu.expects = 1)
  BY <1>1, <1>5 DEF ImageInv, GrantIsFresh, Flashing
<1>7. Written' = 0 /\ ecu'.image = Image(0)
  BY <1>6, ImageOf, EmptySeq DEF Written
<1> QED
  BY <1>3, <1>5, <1>6, <1>7 DEF BlocksInOrder, EcuFollows, DownloadIsAhead, Flashing

LEMMA TakeAnswerKeepsImage ==
  ASSUME TypeInv, ImageInv, TakeAnswer
  PROVE  ImageInv'
<1> DEFINE a == Head(answers)
<1>1. ~Idle /\ answers # <<>> /\ answers' = Tail(answers)
      /\ UNCHANGED <<job, op, calls, late, epoch, staleFlash, ecu, restarts>>
  BY DEF TakeAnswer, NoExchange
<1>2. /\ a \in AnswerType /\ Left(answers, answers') /\ Left(requests, requests)
      /\ 1 \in DOMAIN answers /\ answers[1] = a
  BY <1>1, TailOf, LeftOf DEF TypeInv, LinkTypes
<1>3. Proves(a) \/ EndsWith(a)
  BY AnswerEnds
<1>4. CASE Proves(a)
  <2>1. Request("proof", a.val, 0) \in RequestType
    BY <1>2 DEF AnswerType, RequestType, Request, Whats, Authentications, Bodies
  <2>2. Request("proof", a.val, 0).what = "proof"
    BY DEF Request
  <2> HIDE DEF a
  <2> QED
    BY <1>1, <1>2, <1>4, <2>1, <2>2, RequestKeepsImage DEF Proves
<1>5. CASE EndsWith(a)
  <2>1. tries' = 0 /\ UNCHANGED <<asked, requests>> /\ PlanBy(a) /\ ResultBy(a)
    BY <1>5 DEF EndsWith
  <2>2. CASE op = "download" /\ a.what = "download" /\ a.ok /\ plan' = [plan EXCEPT !.granted = TRUE]
    BY <1>1, <2>1, <2>2, GrantKeepsImage
  <2>3. CASE op = "transfer" /\ a.what = "block" /\ a.ok /\ a.val = asked.val /\ plan' = [plan EXCEPT !.next = @ + 1]
    BY <1>1, <2>1, <2>3, AcknowledgedKeepsImage
  <2>4. CASE plan' = plan \/ (op = "exit" /\ plan' = [plan EXCEPT !.granted = FALSE])
    <3>1. PlanTypes
      BY DEF TypeInv
    <3>2. plan'.next = plan.next
      BY <2>4, <3>1 DEF PlanTypes
    <3>3. Begun' = Begun
      <4>1. CASE plan' = plan
        BY <4>1 DEF Begun
      <4>2. CASE op = "exit"
        <5>1. plan.next = Blocks + 1
          BY <1>1, <3>1, <4>2 DEF PlanTypes
        <5> QED
          BY <3>2, <5>1 DEF Begun
      <4> QED
        BY <2>4, <4>1, <4>2
    <3>4. ASSUME ~staleFlash, Succeeds("exit")' PROVE ecu.flashed /\ plan.next = Blocks + 1
      <4>1. op = "exit" /\ result'.kind = "returned"
        BY <1>1, <3>4 DEF Succeeds, Ended
      <4>2. a.what = "exit" /\ a.ok
        BY <2>1, <4>1 DEF ResultBy
      <4>3. plan.next = Blocks + 1 /\ plan.granted
        BY <1>1, <3>1, <4>1 DEF PlanTypes
      <4>4. EcuFollows
        BY <3>4, <4>3 DEF ImageInv, Begun
      <4> QED
        BY <1>2, <4>2, <4>3, <4>4 DEF EcuFollows
    <3> QED
      BY <1>1, <1>2, <2>1, <3>2, <3>3, <3>4, LossKeepsImage
  <2> QED
    BY <2>1, <2>2, <2>3, <2>4 DEF PlanBy
<1> QED
  BY <1>3, <1>4, <1>5

(* The ECU serves a request: it writes the next block, acknowledges the     *)
(* last one again, or has nothing to do with the image.                     *)
LEMMA EcuKeepsImage ==
  ASSUME TypeInv, ImageInv, EcuServes
  PROVE  ImageInv'
<1> DEFINE r == Head(requests)
           n == Len(answers) + 1
<1>1. requests # <<>> /\ requests' = Tail(requests) /\ UNCHANGED <<job, client, restarts>>
  BY DEF EcuServes
<1>2. UNCHANGED <<op, asked, tries, result, plan, staleFlash>>
  BY <1>1 DEF client
<1>3. PICK a \in AnswerType : answers' = Append(answers, a) /\ FlashedBy(r, a)
  BY EcuAnswers DEF TypeInv
<1>4. /\ r \in RequestType /\ 1 \in DOMAIN requests /\ requests[1] = r
      /\ \A i \in DOMAIN requests' : i \in Nat \ {0} /\ i + 1 \in DOMAIN requests /\ requests'[i] = requests[i + 1]
  BY <1>1, TailOf DEF TypeInv, LinkTypes
<1>5. /\ n \in Nat /\ n \in DOMAIN answers' /\ answers'[n] = a
      /\ \A i \in DOMAIN answers : i \in Nat /\ i < n /\ i \in DOMAIN answers' /\ answers'[i] = answers[i]
      /\ \A i \in DOMAIN answers' : i \in Nat /\ (i \in DOMAIN answers \/ i = n)
  <2>1. answers \in Seq(AnswerType)
    BY DEF TypeInv, LinkTypes
  <2>2. /\ answers' \in Seq(AnswerType) /\ Len(answers') = n /\ n \in Nat \ {0} /\ DOMAIN answers = 1..Len(answers)
        /\ answers'[n] = a
        /\ \A i \in DOMAIN answers : i \in Nat /\ i < n /\ answers'[i] = answers[i]
    BY <1>3, <2>1, AppendOf
  <2>3. DOMAIN answers' = 1..n
    BY <2>2, LenProperties
  <2> QED
    BY <2>2, <2>3
<1> HIDE DEF r, n
<1>6. a.what = r.what /\ (r.what = "block" => a.body = r.body /\ r.body \in 1..Blocks /\ r.val = Counter(r.body))
  BY <1>3, <1>4 DEF FlashedBy, RequestType
<1>7. ecu \in EcuType /\ PlanTypes
  BY DEF TypeInv, EcuTypes
(* What became of the image. *)
<1>8. \/ FlashOf(ecu') = FlashOf(ecu) /\ (a.ok => r.what \notin {"download", "exit"})
      \/ r.what = "download" /\ FlashOf(ecu') = <<TRUE, 1, <<>>, FALSE>>
      \/ r.what = "exit" /\ FlashOf(ecu') = <<FALSE, ecu.expects, ecu.image, TRUE>>
      \/ /\ r.what = "block" /\ ecu.download /\ r.val = Counter(ecu.expects)
         /\ FlashOf(ecu') = <<TRUE, ecu.expects + 1, Append(ecu.image, r.body), ecu.flashed>>
  BY <1>3 DEF FlashedBy, Flashing
<1>9. GrantIsFresh'
  <2> SUFFICES ASSUME NEW i \in DOMAIN answers', answers'[i].what = "download", answers'[i].ok,
                      \A j \in DOMAIN answers' : j > i => answers'[j].what # "block"
               PROVE  ecu'.image = <<>> /\ (ecu'.download => ecu'.expects = 1)
    BY DEF GrantIsFresh
  <2>1. CASE i \in DOMAIN answers
    <3>1. r.what # "block"
      BY <1>5, <1>6, <2>1
    <3>2. ecu.image = <<>> /\ (ecu.download => ecu.expects = 1)
      BY <1>5, <2>1 DEF ImageInv, GrantIsFresh
    <3> QED
      BY <1>8, <3>1, <3>2 DEF FlashOf
  <2>2. CASE i = n
    <3>1. FlashOf(ecu') = <<TRUE, 1, <<>>, FALSE>>
      BY <1>3, <1>5, <1>6, <2>2 DEF FlashedBy
    <3> QED
      BY <3>1 DEF FlashOf
  <2> QED
    BY <1>5, <2>1, <2>2
<1>10. ASSUME NotBegun PROVE NotBegun'
  BY <1>4, <1>5, <1>6, <1>10 DEF NotBegun
<1>11. Begun' = Begun /\ Succeeds("exit")' = Succeeds("exit")
  BY <1>2 DEF Begun, Succeeds, Ended, Idle
<1> SUFFICES ASSUME ~staleFlash, Begun
             PROVE  BlocksInOrder' /\ EcuFollows' /\ DownloadIsAhead' /\ (Succeeds("exit") => ecu'.flashed)
  <2>1. ASSUME ~staleFlash, Succeeds("exit") PROVE Begun /\ plan.next = Blocks + 1
    BY <2>1 DEF ImageInv, Begun
  <2>2. ASSUME ~staleFlash, ~Begun PROVE NotBegun'
    BY <1>10, <2>2 DEF ImageInv
  <2> QED
    BY <1>2, <1>9, <1>11, <2>1, <2>2 DEF ImageInv
<1>12. BlocksInOrder /\ EcuFollows /\ DownloadIsAhead
  BY DEF ImageInv
<1>13. BlocksInOrder'
  <2>1. \A i \in DOMAIN requests' : requests'[i].what = "block" => requests'[i].body \in {plan.next - 1, plan.next}
    BY <1>4, <1>12 DEF BlocksInOrder
  <2>2. \A i \in DOMAIN answers' : answers'[i].what = "block" => answers'[i].body \in {plan.next - 1, plan.next}
    BY <1>4, <1>5, <1>6, <1>12 DEF BlocksInOrder
  <2>3. ASSUME NEW i \in DOMAIN requests', NEW j \in DOMAIN requests', i < j,
               requests'[i].what = "block", requests'[j].what = "block"
        PROVE  requests'[i].body <= requests'[j].body
    <3>1. i + 1 \in DOMAIN requests /\ j + 1 \in DOMAIN requests /\ i + 1 < j + 1
          /\ requests'[i] = requests[i + 1] /\ requests'[j] = requests[j + 1]
      BY <1>4, <2>3
    <3> QED
      BY <1>12, <2>3, <3>1 DEF BlocksInOrder
  <2>4. ASSUME NEW i \in DOMAIN answers', NEW j \in DOMAIN answers', i < j,
               answers'[i].what = "block", answers'[j].what = "block"
        PROVE  answers'[i].body <= answers'[j].body
    <3>1. i \in DOMAIN answers
      BY <1>5, <2>4
    <3>2. CASE j \in DOMAIN answers
      BY <1>5, <1>12, <2>4, <3>1, <3>2 DEF BlocksInOrder
    <3>3. CASE j = n
      BY <1>4, <1>5, <1>6, <1>12, <2>4, <3>1, <3>3 DEF BlocksInOrder
    <3> QED
      BY <1>5, <3>2, <3>3
  <2>5. ASSUME NEW i \in DOMAIN answers', NEW j \in DOMAIN requests', answers'[i].what = "block", requests'[j].what = "block"
        PROVE  answers'[i].body <= requests'[j].body
    <3>1. j + 1 \in DOMAIN requests /\ 1 < j + 1 /\ requests'[j] = requests[j + 1]
      BY <1>4
    <3>2. CASE i \in DOMAIN answers
      BY <1>5, <1>12, <2>5, <3>1, <3>2 DEF BlocksInOrder
    <3>3. CASE i = n
      BY <1>4, <1>5, <1>6, <1>12, <2>5, <3>1, <3>3 DEF BlocksInOrder
    <3> QED
      BY <1>5, <3>2, <3>3
  <2> QED
    BY <1>2, <2>1, <2>2, <2>3, <2>4, <2>5 DEF BlocksInOrder
<1>14. /\ ecu.image = Image(Written) /\ Written \in {plan.next - 1, plan.next} /\ Written <= Blocks
       /\ ecu.download => ecu.expects = Written + 1
       /\ plan.next \in Nat \ {0} /\ Written \in Nat
       /\ \A i \in DOMAIN answers :
            /\ (answers[i].what = "block" /\ answers[i].ok /\ answers[i].body = plan.next) => Written = plan.next
            /\ (answers[i].what = "exit" /\ answers[i].ok) => ecu.flashed
  BY <1>7, <1>12, LenProperties DEF EcuFollows, PlanTypes, EcuType, Written
<1>15. r.what = "block" => r.body \in {plan.next - 1, plan.next}
  BY <1>4, <1>12 DEF BlocksInOrder
<1>16. r.what = "download" => plan.next = 1 /\ Written = 0 /\ \A i \in DOMAIN answers : answers[i].what \notin Flashing
  BY <1>4, <1>12 DEF DownloadIsAhead
(* The image in the ECU. *)
<1>17. /\ ecu'.image = Image(Written') /\ Written' \in {plan.next - 1, plan.next} /\ Written' <= Blocks
       /\ ecu'.download => ecu'.expects = Written' + 1
       /\ Written <= Written'
       /\ (ecu.flashed /\ r.what # "download") => ecu'.flashed
  <2>1. CASE FlashOf(ecu') = FlashOf(ecu)
    BY <1>14, <2>1 DEF FlashOf, Written
  <2>2. CASE r.what = "download" /\ FlashOf(ecu') = <<TRUE, 1, <<>>, FALSE>>
    <3>1. ecu'.image = <<>> /\ ecu'.expects = 1
      BY <2>2 DEF FlashOf
    <3>2. Written' = 0 /\ ecu'.image = Image(0)
      BY <3>1, ImageOf, EmptySeq DEF Written
    <3> QED
      BY <1>14, <1>16, <2>2, <3>1, <3>2
  <2>3. CASE r.what = "exit" /\ FlashOf(ecu') = <<FALSE, ecu.expects, ecu.image, TRUE>>
    BY <1>14, <2>3 DEF FlashOf, Written
  <2>4. CASE /\ r.what = "block" /\ ecu.download /\ r.val = Counter(ecu.expects)
             /\ FlashOf(ecu') = <<TRUE, ecu.expects + 1, Append(ecu.image, r.body), ecu.flashed>>
    <3>1. ecu.expects = Written + 1 /\ Counter(r.body) = Counter(Written + 1)
      BY <1>6, <1>14, <2>4
    <3>2. r.body \in Nat \ {0} /\ r.body \in {plan.next - 1, plan.next} /\ r.body <= Blocks
      BY <1>6, <1>15, <2>4
    <3>3. r.body = Written + 1
      <4>1. r.body <= Written + 1
        BY <1>14, <3>2
      <4>2. ASSUME r.body < Written + 1 PROVE FALSE
        <5>1. Written + 1 <= r.body + 2 /\ Written + 1 \in Nat /\ r.body \in Nat
          BY <1>14, <3>2
        <5>2. Counter(r.body) # Counter(Written + 1)
          BY <4>2, <5>1, CountersDiffer
        <5> QED
          BY <3>1, <5>2
      <4> QED
        BY <1>14, <3>2, <4>1, <4>2
    <3>4. ecu'.image = Append(Image(Written), Written + 1) /\ ecu'.expects = Written + 2 /\ ecu'.flashed = ecu.flashed
      BY <1>14, <2>4, <3>1, <3>3 DEF FlashOf
    <3>5. ecu'.image = Image(Written + 1) /\ Written' = Written + 1
      <4>1. Written + 1 \in Nat /\ Append(Image(Written), Written + 1) = Image(Written + 1)
        BY <1>14, ImageOf
      <4>2. Len(Image(Written + 1)) = Written + 1
        BY <4>1, ImageOf
      <4>3. ecu'.image = Image(Written + 1)
        BY <3>4, <4>1
      <4>4. Written' = Len(ecu'.image)
        BY DEF Written
      <4> QED
        BY <4>2, <4>3, <4>4
    <3> QED
      BY <1>14, <3>2, <3>3, <3>4, <3>5
  <2> QED
    BY <1>8, <2>1, <2>2, <2>3, <2>4
<1>18. ASSUME NEW i \in DOMAIN answers'
       PROVE  /\ (answers'[i].what = "block" /\ answers'[i].ok /\ answers'[i].body = plan.next) => Written' = plan.next
              /\ (answers'[i].what = "exit" /\ answers'[i].ok) => ecu'.flashed
  <2>1. CASE i \in DOMAIN answers
    <3>1. answers'[i] = answers[i]
      BY <1>5, <2>1
    <3>2. (answers[i].what = "block" /\ answers[i].ok /\ answers[i].body = plan.next) => Written' = plan.next
      BY <1>14, <1>17, <2>1
    <3>3. (answers[i].what = "exit" /\ answers[i].ok) => ecu'.flashed
      BY <1>14, <1>16, <1>17, <2>1 DEF Flashing
    <3> QED
      BY <3>1, <3>2, <3>3
  <2>2. CASE i = n
    <3>1. answers'[i] = a
      BY <1>5, <2>2
    <3>2. (a.what = "exit" /\ a.ok) => ecu'.flashed
      BY <1>3, <1>6 DEF FlashedBy, FlashOf
    <3>3. ASSUME a.what = "block", a.ok, a.body = plan.next PROVE Written' = plan.next
      <4>1. r.what = "block" /\ r.body = plan.next /\ r.val = Counter(plan.next)
        BY <1>6, <3>3
      <4>2. /\ ecu.download
            /\ \/ FlashOf(ecu') = <<TRUE, ecu.expects + 1, Append(ecu.image, r.body), ecu.flashed>>
               \/ r.val = Counter(ecu.expects - 1)
        BY <1>3, <3>3, <4>1 DEF FlashedBy
      <4>3. ecu.expects = Written + 1
        BY <1>14, <4>2
      <4>4. CASE FlashOf(ecu') = <<TRUE, ecu.expects + 1, Append(ecu.image, r.body), ecu.flashed>>
        <5>1. ecu'.image = Append(ecu.image, r.body)
          BY <4>4 DEF FlashOf
        <5>2. Written' = Written + 1
          BY <1>6, <1>7, <4>1, <5>1, AppendProperties DEF EcuType, Written
        <5> QED
          BY <1>14, <1>17, <5>2
      <4>5. CASE r.val = Counter(ecu.expects - 1)
        <5>1. Counter(plan.next) = Counter(Written)
          BY <1>14, <4>1, <4>3, <4>5
        <5>2. ASSUME Written # plan.next PROVE FALSE
          <6>1. Written < plan.next /\ plan.next <= Written + 2
            BY <1>14, <5>2
          <6>2. Counter(Written) # Counter(plan.next)
            BY <1>14, <6>1, CountersDiffer
          <6> QED
            BY <5>1, <6>2
        <5> QED
          BY <1>14, <1>17, <5>2
      <4> QED
        BY <4>2, <4>4, <4>5
    <3> QED
      BY <3>1, <3>2, <3>3
  <2> QED
    BY <1>5, <2>1, <2>2
<1>19. EcuFollows'
  BY <1>2, <1>17, <1>18 DEF EcuFollows
<1>20. DownloadIsAhead'
  <2> SUFFICES ASSUME NEW j \in DOMAIN requests', requests'[j].what = "download"
               PROVE  /\ plan.next = 1 /\ Written' = 0
                      /\ \A i \in DOMAIN requests' : i < j => requests'[i].what \notin Flashing
                      /\ \A i \in DOMAIN answers' : answers'[i].what \notin Flashing
    BY <1>2 DEF DownloadIsAhead
  <2>1. j \in Nat \ {0} /\ j + 1 \in DOMAIN requests /\ requests[j + 1].what = "download"
    BY <1>4
  <2>2. /\ plan.next = 1 /\ Written = 0
        /\ \A i \in DOMAIN requests : i < j + 1 => requests[i].what \notin Flashing
        /\ \A i \in DOMAIN answers : answers[i].what \notin Flashing
    BY <1>12, <2>1 DEF DownloadIsAhead
  <2>3. r.what \notin Flashing
    BY <1>4, <2>1, <2>2
  <2>4. \A i \in DOMAIN answers' : answers'[i].what \notin Flashing
    BY <1>5, <1>6, <2>2, <2>3
  <2>5. Written' = 0
    BY <1>8, <2>2, <2>3, EmptySeq DEF FlashOf, Written, Flashing
  <2>6. \A i \in DOMAIN requests' : i < j => requests'[i].what \notin Flashing
    <3> SUFFICES ASSUME NEW i \in DOMAIN requests', i < j PROVE requests'[i].what \notin Flashing
      OBVIOUS
    <3>1. i + 1 \in DOMAIN requests /\ i + 1 < j + 1 /\ requests'[i] = requests[i + 1]
      BY <1>4, <2>1
    <3> QED
      BY <2>2, <3>1
  <2> QED
    BY <2>2, <2>4, <2>5, <2>6
<1>21. ASSUME Succeeds("exit") PROVE ecu'.flashed
  <2>1. ecu.flashed /\ plan.next = Blocks + 1
    BY <1>21 DEF ImageInv
  <2>2. r.what # "download"
    BY <1>16, <2>1
  <2> QED
    BY <1>17, <2>1, <2>2
<1> QED
  BY <1>13, <1>19, <1>20, <1>21

LEMMA ImageNext ==
  ASSUME TypeInv, ImageInv, [Next]_vars
  PROVE  ImageInv'
<1>1. requests \in Seq(RequestType) /\ answers \in Seq(AnswerType)
  BY DEF TypeInv, LinkTypes
<1>2. ASSUME NEW o \in Operations, Start(o) PROVE ImageInv'
  BY <1>2, StartKeepsImage
<1>3. CASE TakeAnswer
  BY <1>3, TakeAnswerKeepsImage
<1>4. CASE EcuServes
  BY <1>4, EcuKeepsImage
<1>5. CASE SendAgain
  <2>1. /\ ~Idle /\ tries' = tries + 1 /\ requests' = Append(requests, asked) /\ tries \in Nat
        /\ UNCHANGED <<answers, plan, staleFlash, ecu>>
    BY <1>5 DEF SendAgain, Send, NoExchange, TypeInv, CallTypes
  <2>2. asked \in RequestType /\ tries' # 0 /\ Left(answers, answers')
    BY <1>1, <2>1, AskedTells, LeftOf DEF TypeInv
  <2>3. /\ asked.what = "block" => op = "transfer"
        /\ asked.what = "exit" => op = "exit"
        /\ asked.what = "download" => op = "download"
    BY <2>1, AskedTells DEF TypeInv, CallTypes
  <2>4. /\ asked.what = "block" => plan.granted /\ asked.body = plan.next
        /\ asked.what = "exit" => plan.granted
        /\ asked.what = "download" => ~plan.granted /\ plan.next = 1
    BY <2>1, <2>3 DEF TypeInv, PlanTypes
  <2> QED
    BY <2>1, <2>2, <2>4, RequestKeepsImage
<1>6. CASE \/ NotImplemented \/ OtherService \/ Malformed \/ GiveUp
           \/ Restart \/ LoseRequest \/ LoseAnswer \/ UNCHANGED vars
  <2>1. requests' = requests \/ requests' = <<>> \/ (requests # <<>> /\ requests' = Tail(requests))
    BY <1>6 DEF NotImplemented, OtherService, Malformed, GiveUp, End, Restart, LoseRequest, LoseAnswer, vars
  <2>2. answers' = answers \/ (answers # <<>> /\ answers' = Tail(answers))
    BY <1>6 DEF NotImplemented, OtherService, Malformed, GiveUp, Restart, LoseRequest, LoseAnswer, vars
  <2>3. Left(requests, requests') /\ Left(answers, answers')
    BY <1>1, <2>1, <2>2, LeftOf
  <2>4. plan' = plan /\ staleFlash' = staleFlash
    BY <1>6 DEF NotImplemented, OtherService, Malformed, GiveUp, Restart, LoseRequest, LoseAnswer, vars, client, NoExchange
  <2>5. \/ ecu' = ecu
        \/ ecu' = [ecu EXCEPT !.download = FALSE, !.challenge = 0, !.authenticated = FALSE]
    BY <1>6 DEF NotImplemented, OtherService, Malformed, GiveUp, Restart, LoseRequest, LoseAnswer, vars, NoExchange
  <2>6. /\ ecu'.image = ecu.image /\ ecu'.expects = ecu.expects /\ ecu'.flashed = ecu.flashed
        /\ ecu'.download => ecu.download
    BY <2>5 DEF TypeInv, EcuTypes, EcuType
  <2>7. Succeeds("exit")' => Succeeds("exit")
    <3>1. CASE NotImplemented \/ Malformed \/ GiveUp
      BY <3>1 DEF NotImplemented, Malformed, GiveUp, End, Raised, Succeeds, Ended
    <3>2. CASE OtherService \/ Restart \/ LoseRequest \/ LoseAnswer \/ UNCHANGED vars
      BY <3>2 DEF OtherService, Restart, LoseRequest, LoseAnswer, vars, client, Succeeds, Ended, Idle
    <3> QED
      BY <1>6, <3>1, <3>2
  <2>8. ~staleFlash /\ Succeeds("exit")' => ecu.flashed /\ plan.next = Blocks + 1
    BY <2>7 DEF ImageInv
  <2>9. plan'.next = plan.next /\ Begun' = Begun
    BY <2>4 DEF Begun
  <2> QED
    BY <2>3, <2>4, <2>6, <2>8, <2>9, LossKeepsImage
<1> QED
  BY <1>2, <1>3, <1>4, <1>5, <1>6 DEF Next, AllCallsDone

-----------------------------------------------------------------------------
(* The calls keep their types, and a download its image.                    *)

LEMMA InitHolds == Init => TypeInv /\ ImageInv
<1> SUFFICES ASSUME Init PROVE TypeInv /\ ImageInv
  OBVIOUS
<1> USE DEF Init
<1>1. LinkTypes
  BY EmptySeq DEF LinkTypes
<1>2. EcuTypes
  <2>1. <<>> \in Seq(Nat) /\ 1 \in Nat \ {0} /\ [t \in Targets |-> 0] \in [Targets -> Nat]
    BY EmptySeq
  <2> QED
    BY <2>1 DEF EcuTypes, EcuType
<1>3. CallTypes
  <2>1. asked = Nothing /\ Nothing.what = "nothing" /\ result.kind = "returned"
    BY DEF Nothing, Request, Returned
  <2>2. MaxCalls[job] \in Nat /\ tries \in 0..Attempts /\ calls \in 0..MaxCalls[job]
    BY DEF Jobs
  <2> QED
    <3>1. Asks(op) = Whats \cup {"nothing"}
      BY DEF Asks
    <3>2. epoch \in 0..restarts /\ restarts \in 0..MaxRestarts /\ late \in BOOLEAN /\ staleFlash \in BOOLEAN
      <4>1. epoch = 0 /\ restarts = 0 /\ MaxRestarts \in Nat
        OBVIOUS
      <4>2. late \in BOOLEAN
        OBVIOUS
      <4>3. staleFlash \in BOOLEAN
        OBVIOUS
      <4>4. epoch \in 0..restarts
        BY <4>1
      <4>5. restarts \in 0..MaxRestarts
        BY <4>1
      <4> QED
        BY <4>2, <4>3, <4>4, <4>5
    <3>3. op \in Operations \cup {"none", "bidirectional"} /\ Idle /\ job \in Jobs
      BY DEF Idle
    <3>4. asked \in RequestType \cup {Nothing} /\ asked.what \in Asks(op)
      BY <2>1, <3>1
    <3> QED
      BY <2>1, <2>2, <3>2, <3>3, <3>4 DEF CallTypes
<1>4. PlanTypes
  BY DEF PlanTypes, Idle
<1>5. ImageInv
  <2>1. DOMAIN requests = {} /\ DOMAIN answers = {} /\ ~Begun
    BY DEF Begun
  <2> QED
    BY <2>1 DEF ImageInv, GrantIsFresh, NotBegun, Succeeds, Ended
<1> QED
  BY <1>1, <1>2, <1>3, <1>4, <1>5 DEF TypeInv

LEMMA TransferInvHolds ==
  ASSUME TypeInv, ImageInv
  PROVE  TransferInv
<1>1. LinkTypes /\ EcuTypes /\ CallTypes /\ PlanTypes
  BY DEF TypeInv
<1>2. TypeOK
  <2>1. asked.what \in Services \cup Authentications \cup {"nothing"}
    BY <1>1 DEF CallTypes, RequestType, Whats, Nothing, Request
  <2>2. ecu.challenge \in 0..ecu.challenges
    BY <1>1 DEF EcuTypes, EcuType
  <2> QED
    BY <1>1, <2>1, <2>2 DEF TypeOK, CallTypes, PlanTypes
<1>3. ImageIsWhole
  <2> SUFFICES ASSUME ~staleFlash
               PROVE  /\ plan.granted => ecu.image \in {Image(plan.next - 1), Image(plan.next)}
                      /\ Succeeds("exit") => ecu.flashed /\ ecu.image = Image(Blocks)
    BY DEF ImageIsWhole
  <2>1. Begun => /\ ecu.image = Image(Written) /\ Written \in {plan.next - 1, plan.next} /\ Written <= Blocks
                 /\ Written \in Nat /\ plan.next \in Nat
    BY <1>1, LenProperties DEF ImageInv, EcuFollows, EcuTypes, EcuType, Written, PlanTypes
  <2>2. plan.granted => ecu.image \in {Image(plan.next - 1), Image(plan.next)}
    BY <2>1 DEF Begun
  <2>3. ASSUME Succeeds("exit") PROVE ecu.flashed /\ ecu.image = Image(Blocks)
    <3>1. ecu.flashed /\ plan.next = Blocks + 1
      BY <2>3 DEF ImageInv
    <3>2. Begun
      BY <3>1 DEF Begun
    <3>3. Written = Blocks
      BY <2>1, <3>1, <3>2
    <3> QED
      BY <2>1, <3>1, <3>2, <3>3
  <2> QED
    BY <2>2, <2>3
<1> QED
  BY <1>2, <1>3 DEF TransferInv

(* An operation is never sent more often than attempts (uds_utils.py:587),  *)
(* blocks are only transferred in a download that was granted, and the      *)
(* image in the ECU is the caller's as far as it was acknowledged, each     *)
(* block once and in order, or one block further, and whole when            *)
(* transfer_exit returns (transfer_data, uds_utils.py:342-362): although    *)
(* blocks are sent again and lost, their counter wraps, answers are late    *)
(* and the ECU restarts.                                                    *)
THEOREM TransfersAreWhole == Spec => []TransferInv
<1>1. Init => TypeInv /\ ImageInv
  BY InitHolds
<1>2. TypeInv /\ ImageInv /\ [Next]_vars => TypeInv' /\ ImageInv'
  BY TypeNext, ImageNext
<1>3. TypeInv /\ ImageInv => TransferInv
  BY TransferInvHolds
<1> QED
  BY <1>1, <1>2, <1>3, PTL DEF Spec

-----------------------------------------------------------------------------
(* Authentication.                                                          *)

Tasks == {"proof", "deAuthenticate"}
Returns(task) == Idle /\ result.kind = "returned" /\ result.val = ReturnValue[task]

(* Requests and answers may go missing, an operation may end.               *)
LEMMA LossKeepsTask ==
  ASSUME NEW task, TaskIsLast(task), Left(requests, requests'), Left(answers, answers'),
         ecu'.authenticated = ecu.authenticated,
         Returns(task)' => TakenUp(task) /\ NoneAsked(Opposite(task))
  PROVE  TaskIsLast(task)'
<1>1. PICK k \in Nat :
        \A i \in DOMAIN requests' : i \in Nat \ {0} /\ i + k \in DOMAIN requests /\ requests'[i] = requests[i + k]
  BY DEF Left
<1>2. PICK l \in Nat :
        \A i \in DOMAIN answers' : i \in Nat \ {0} /\ i + l \in DOMAIN answers /\ answers'[i] = answers[i + l]
  BY DEF Left
<1>3. TakenUp(task)' = TakenUp(task) /\ (NoneAsked(Opposite(task)) => NoneAsked(Opposite(task))')
  BY <1>1 DEF TakenUp, NoneAsked, Opposite
<1>4. ASSUME NEW i \in DOMAIN requests', NEW j \in DOMAIN requests', i < j, requests'[i].what = task
      PROVE  requests'[j].what # Opposite(task)
  <2>1. i + k \in DOMAIN requests /\ j + k \in DOMAIN requests /\ i + k < j + k
        /\ requests'[i] = requests[i + k] /\ requests'[j] = requests[j + k]
    BY <1>1, <1>4
  <2> QED
    BY <1>4, <2>1 DEF TaskIsLast
<1>5. ASSUME NEW i \in DOMAIN answers', answers'[i].what = task, answers'[i].ok
      PROVE  TakenUp(task)' /\ NoneAsked(Opposite(task))'
  BY <1>2, <1>3, <1>5 DEF TaskIsLast
<1>6. Returns(task)' => TakenUp(task)' /\ NoneAsked(Opposite(task))'
  BY <1>3
<1> QED
  BY <1>4, <1>5, <1>6 DEF TaskIsLast, Opposite, Returns

(* What undoes the task is not asked while it is awaited.                   *)
LEMMA RequestKeepsTask ==
  ASSUME TypeInv, NEW task, TaskIsLast(task), NEW r \in RequestType, r.what # Opposite(task),
         requests' = Append(requests, r), Left(answers, answers'), ecu' = ecu, tries' # 0
  PROVE  TaskIsLast(task)'
<1> DEFINE n == Len(requests) + 1
<1>1. /\ n \in Nat /\ requests'[n] = r
      /\ \A i \in DOMAIN requests : i \in Nat /\ i < n /\ requests'[i] = requests[i]
      /\ \A i \in DOMAIN requests' : i \in Nat /\ (i \in DOMAIN requests \/ i = n)
  BY AppendOf DEF TypeInv, LinkTypes
<1> HIDE DEF n
<1>2. PICK l \in Nat :
        \A i \in DOMAIN answers' : i \in Nat \ {0} /\ i + l \in DOMAIN answers /\ answers'[i] = answers[i + l]
  BY DEF Left
<1>3. TakenUp(task)' = TakenUp(task) /\ (NoneAsked(Opposite(task)) => NoneAsked(Opposite(task))')
  BY <1>1 DEF TakenUp, NoneAsked, Opposite
<1>4. ASSUME NEW i \in DOMAIN requests', NEW j \in DOMAIN requests', i < j, requests'[i].what = task
      PROVE  requests'[j].what # Opposite(task)
  <2>1. i \in DOMAIN requests
    BY <1>1, <1>4
  <2>2. CASE j \in DOMAIN requests
    BY <1>1, <1>4, <2>1, <2>2 DEF TaskIsLast
  <2>3. CASE j = n
    BY <1>1, <2>3
  <2> QED
    BY <1>1, <2>2, <2>3
<1>5. ASSUME NEW i \in DOMAIN answers', answers'[i].what = task, answers'[i].ok
      PROVE  TakenUp(task)' /\ NoneAsked(Opposite(task))'
  BY <1>2, <1>3, <1>5 DEF TaskIsLast
<1>6. ~Returns(task)'
  BY DEF Returns, Idle
<1> QED
  BY <1>4, <1>5, <1>6 DEF TaskIsLast, Opposite, Returns

(* The ECU does the task, and nothing that undoes it after that.            *)
LEMMA EcuKeepsTask ==
  ASSUME TypeInv, NEW task \in Tasks, TaskIsLast(task), EcuServes
  PROVE  TaskIsLast(task)'
<1> DEFINE r == Head(requests)
           n == Len(answers) + 1
<1>1. requests # <<>> /\ requests' = Tail(requests) /\ UNCHANGED <<tries, result>>
  BY DEF EcuServes, client
<1>2. PICK a \in AnswerType : answers' = Append(answers, a) /\ TaskedBy(r, a)
  BY EcuAnswers DEF TypeInv
<1>3. /\ 1 \in DOMAIN requests /\ requests[1] = r
      /\ \A i \in DOMAIN requests' : i \in Nat \ {0} /\ i + 1 \in DOMAIN requests /\ requests'[i] = requests[i + 1]
  BY <1>1, TailOf DEF TypeInv, LinkTypes
<1>4. /\ answers'[n] = a
      /\ \A i \in DOMAIN answers : answers'[i] = answers[i]
      /\ \A i \in DOMAIN answers' : i \in DOMAIN answers \/ i = n
  <2>1. answers \in Seq(AnswerType)
    BY DEF TypeInv, LinkTypes
  <2> QED
    BY <1>2, <2>1, AppendOf
<1> HIDE DEF r, n
<1>5. ecu.authenticated \in BOOLEAN
  BY DEF TypeInv, EcuTypes, EcuType
<1>6. a.what = r.what /\ Opposite(task) \in Tasks \ {task}
  BY <1>2 DEF TaskedBy, Opposite, Tasks
<1>7. ASSUME TakenUp(task), NoneAsked(Opposite(task))
      PROVE  TakenUp(task)' /\ NoneAsked(Opposite(task))'
  <2>1. r.what # Opposite(task) /\ NoneAsked(Opposite(task))'
    BY <1>3, <1>7 DEF NoneAsked, Opposite
  <2>2. TakenUp(task)'
    BY <1>2, <1>6, <1>7, <2>1 DEF TakenUp, TaskedBy, Opposite, Tasks
  <2> QED
    BY <2>1, <2>2
<1>8. ASSUME NEW i \in DOMAIN requests', NEW j \in DOMAIN requests', i < j, requests'[i].what = task
      PROVE  requests'[j].what # Opposite(task)
  <2>1. i + 1 \in DOMAIN requests /\ j + 1 \in DOMAIN requests /\ i + 1 < j + 1
        /\ requests'[i] = requests[i + 1] /\ requests'[j] = requests[j + 1]
    BY <1>3, <1>8
  <2> QED
    BY <1>8, <2>1 DEF TaskIsLast
<1>9. ASSUME NEW i \in DOMAIN answers', answers'[i].what = task, answers'[i].ok
      PROVE  TakenUp(task)' /\ NoneAsked(Opposite(task))'
  <2>1. CASE i \in DOMAIN answers
    BY <1>4, <1>7, <1>9, <2>1 DEF TaskIsLast
  <2>2. CASE i = n
    <3>1. a.ok /\ r.what = task
      BY <1>4, <1>6, <1>9, <2>2
    <3>2. TakenUp(task)'
      BY <1>2, <3>1 DEF TaskedBy, TakenUp, Tasks
    <3>3. ASSUME NEW j \in DOMAIN requests' PROVE requests'[j].what # Opposite(task)
      <4>1. j + 1 \in DOMAIN requests /\ 1 < j + 1 /\ requests'[j] = requests[j + 1]
        BY <1>3
      <4> QED
        BY <1>3, <3>1, <4>1 DEF TaskIsLast
    <3> QED
      BY <3>2, <3>3 DEF NoneAsked, Opposite
  <2> QED
    BY <1>4, <2>1, <2>2
<1>10. Returns(task)' => TakenUp(task)' /\ NoneAsked(Opposite(task))'
  <2>1. Returns(task)' => Returns(task)
    BY <1>1 DEF Returns, Idle
  <2> QED
    BY <1>7, <2>1 DEF TaskIsLast, Returns
<1> QED
  BY <1>8, <1>9, <1>10 DEF TaskIsLast, Opposite, Returns

(* Nothing of this kind is on its way.                                      *)
None(what) ==
  /\ \A i \in DOMAIN requests : requests[i].what # what
  /\ \A i \in DOMAIN answers : answers[i].what # what

LEMMA StartKeepsAuthentication ==
  ASSUME TypeInv, NEW o \in Operations, Start(o)
  PROVE  AuthenticationInv'
<1>1. PICK r \in FirstRequests(o) :
        requests' = Append(requests, r) /\ asked' = r /\ late' = OnTheWay(LAMBDA m : Confusable(r, m))
  BY DEF Start, Send
<1>2. o \in Wanted /\ tries' = 1 /\ answers' = answers /\ op' = o
  BY DEF Start
<1>3. /\ r \in RequestType
      /\ o = "exchange" => r.what = "verify"
      /\ o = "deAuthenticate" => r.what = "deAuthenticate"
  BY <1>2, FirstRequestIs DEF TypeInv
<1> DEFINE n == Len(requests) + 1
<1>4. /\ n \in Nat /\ requests'[n] = r
      /\ \A i \in DOMAIN requests : i \in Nat /\ i < n /\ requests'[i] = requests[i]
      /\ \A i \in DOMAIN requests' : i \in Nat /\ (i \in DOMAIN requests \/ i = n)
  BY <1>1, <1>3, AppendOf DEF TypeInv, LinkTypes
<1> HIDE DEF n
<1>5. ~Returns("proof")' /\ ~Returns("deAuthenticate")'
  BY <1>2 DEF Returns, Idle
<1>6. ASSUME ~late', o = "exchange"
      PROVE  TaskIsLast("proof")' /\ (\A i \in DOMAIN requests' : requests'[i].what # "proof")
             /\ \A i \in DOMAIN answers' : answers'[i].what # "proof"
  <2>1. None("proof")
    BY <1>1, <1>3, <1>6 DEF OnTheWay, Confusable, None
  <2>2. /\ \A i \in DOMAIN requests' : requests'[i].what # "proof"
        /\ \A i \in DOMAIN answers' : answers'[i].what # "proof"
    BY <1>2, <1>3, <1>4, <1>6, <2>1 DEF None
  <2> QED
    BY <1>5, <2>2 DEF TaskIsLast, Returns
<1>7. ASSUME ~late', o = "deAuthenticate" PROVE TaskIsLast("deAuthenticate")'
  <2>1. None("deAuthenticate")
    BY <1>1, <1>3, <1>7 DEF OnTheWay, Confusable, None
  <2>2. \A i, j \in DOMAIN requests' : i < j => requests'[i].what # "deAuthenticate"
    BY <1>4, <2>1 DEF None
  <2>3. \A i \in DOMAIN answers' : answers'[i].what # "deAuthenticate"
    BY <1>2, <2>1 DEF None
  <2> QED
    BY <1>5, <2>2, <2>3 DEF TaskIsLast, Returns
<1> QED
  BY <1>2, <1>6, <1>7 DEF AuthenticationInv

LEMMA AuthenticationNext ==
  ASSUME TypeInv, AuthenticationInv, [Next]_vars
  PROVE  AuthenticationInv'
<1>1. requests \in Seq(RequestType) /\ answers \in Seq(AnswerType)
  BY DEF TypeInv, LinkTypes
<1>2. ASSUME NEW o \in Operations, Start(o) PROVE AuthenticationInv'
  BY <1>2, StartKeepsAuthentication
<1>3. CASE TakeAnswer
  <2> DEFINE a == Head(answers)
  <2>1. ~Idle /\ answers # <<>> /\ answers' = Tail(answers) /\ UNCHANGED <<op, late, epoch, ecu, restarts>>
    BY <1>3 DEF TakeAnswer, NoExchange
  <2>2. /\ Left(answers, answers') /\ Left(requests, requests) /\ a \in AnswerType
        /\ 1 \in DOMAIN answers /\ answers[1] = a
    BY <1>1, <2>1, LeftOf, TailOf
  <2>3. Proves(a) \/ EndsWith(a)
    BY <1>3, AnswerEnds
  <2>4. CASE Proves(a)
    <3>1. Request("proof", a.val, 0) \in RequestType /\ Request("proof", a.val, 0).what = "proof"
      BY <2>2 DEF AnswerType, RequestType, Request, Whats, Authentications, Bodies
    <3>2. op = "exchange" /\ asked'.what = "proof" /\ tries' # 0
          /\ requests' = Append(requests, Request("proof", a.val, 0))
      BY <2>4, <3>1 DEF Proves
    <3> HIDE DEF a
    <3>3. TaskIsLast("proof") => TaskIsLast("proof")'
      BY <2>1, <2>2, <3>1, <3>2, RequestKeepsTask DEF Opposite
    <3> QED
      BY <2>1, <3>2, <3>3 DEF AuthenticationInv
  <2>5. CASE EndsWith(a)
    <3>1. tries' = 0 /\ UNCHANGED <<asked, requests>> /\ ResultBy(a)
      BY <2>5 DEF EndsWith
    <3>2. ASSUME op = "exchange", TaskIsLast("proof") PROVE TaskIsLast("proof")'
      <4>1. Returns("proof")' => TakenUp("proof") /\ NoneAsked(Opposite("proof"))
        BY <2>1, <2>2, <3>1, <3>2 DEF Returns, ResultBy, TaskIsLast, ReturnValue
      <4> QED
        BY <2>1, <2>2, <3>1, <3>2, <4>1, LossKeepsTask
    <3>3. ASSUME op = "deAuthenticate", TaskIsLast("deAuthenticate") PROVE TaskIsLast("deAuthenticate")'
      <4>1. Returns("deAuthenticate")' => TakenUp("deAuthenticate") /\ NoneAsked(Opposite("deAuthenticate"))
        BY <2>1, <2>2, <3>1, <3>3 DEF Returns, ResultBy, TaskIsLast, ReturnValue
      <4> QED
        BY <2>1, <2>2, <3>1, <3>3, <4>1, LossKeepsTask
    <3>4. None("proof") => None("proof")'
      BY <1>1, <2>1, <3>1, TailOf DEF None
    <3> QED
      BY <2>1, <3>1, <3>2, <3>3, <3>4 DEF AuthenticationInv, None
  <2> QED
    BY <2>3, <2>4, <2>5
<1>4. CASE SendAgain
  <2>1. /\ ~Idle /\ tries' = tries + 1 /\ requests' = Append(requests, asked) /\ tries \in Nat
        /\ UNCHANGED <<op, asked, late, epoch, restarts, answers, ecu>>
    BY <1>4 DEF SendAgain, Send, NoExchange, TypeInv, CallTypes
  <2>2. asked \in RequestType /\ tries' # 0 /\ Left(answers, answers')
    BY <1>1, <2>1, AskedTells, LeftOf DEF TypeInv
  <2>3. /\ op = "exchange" => asked.what \in {"verify", "proof"}
        /\ op = "deAuthenticate" => asked.what = "deAuthenticate"
    BY AskedTells DEF TypeInv
  <2>4. op = "exchange" /\ TaskIsLast("proof") => TaskIsLast("proof")'
    <3> SUFFICES ASSUME op = "exchange", TaskIsLast("proof") PROVE TaskIsLast("proof")'
      OBVIOUS
    <3>1. asked.what # Opposite("proof")
      BY <2>3 DEF Opposite
    <3> QED
      BY <2>1, <2>2, <3>1, RequestKeepsTask
  <2>5. op = "deAuthenticate" /\ TaskIsLast("deAuthenticate") => TaskIsLast("deAuthenticate")'
    <3> SUFFICES ASSUME op = "deAuthenticate", TaskIsLast("deAuthenticate") PROVE TaskIsLast("deAuthenticate")'
      OBVIOUS
    <3>1. asked.what # Opposite("deAuthenticate")
      BY <2>3 DEF Opposite
    <3> QED
      BY <2>1, <2>2, <3>1, RequestKeepsTask
  <2>6. asked.what = "verify" /\ None("proof") => None("proof")'
    <3>1. /\ \A i \in DOMAIN requests : requests'[i] = requests[i]
          /\ requests'[Len(requests) + 1] = asked
          /\ \A i \in DOMAIN requests' : i \in DOMAIN requests \/ i = Len(requests) + 1
      BY <1>1, <2>1, <2>2, AppendOf
    <3> QED
      BY <2>1, <3>1 DEF None
  <2> QED
    BY <2>1, <2>4, <2>5, <2>6 DEF AuthenticationInv, None
<1>5. CASE EcuServes
  <2>1. requests # <<>> /\ requests' = Tail(requests) /\ UNCHANGED <<op, asked, late, epoch, restarts>>
    BY <1>5 DEF EcuServes, client
  <2>2. /\ TaskIsLast("proof") => TaskIsLast("proof")'
        /\ TaskIsLast("deAuthenticate") => TaskIsLast("deAuthenticate")'
    BY <1>5, EcuKeepsTask DEF Tasks
  <2>3. None("proof") => None("proof")'
    <3>1. PICK a \in AnswerType : answers' = Append(answers, a) /\ a.what = Head(requests).what
      BY <1>5, EcuAnswers DEF TypeInv, FlashedBy
    <3>2. /\ Head(requests) = requests[1] /\ 1 \in DOMAIN requests
          /\ \A i \in DOMAIN requests' : i + 1 \in DOMAIN requests /\ requests'[i] = requests[i + 1]
      BY <1>1, <2>1, TailOf
    <3>3. /\ answers'[Len(answers) + 1] = a
          /\ \A i \in DOMAIN answers : answers'[i] = answers[i]
          /\ \A i \in DOMAIN answers' : i \in DOMAIN answers \/ i = Len(answers) + 1
      BY <1>1, <3>1, AppendOf
    <3> QED
      BY <3>1, <3>2, <3>3 DEF None
  <2> QED
    BY <2>1, <2>2, <2>3 DEF AuthenticationInv, None
<1>6. CASE OtherService \/ Malformed \/ GiveUp \/ LoseRequest \/ LoseAnswer \/ UNCHANGED vars
  <2>1. requests' = requests \/ (requests # <<>> /\ requests' = Tail(requests))
    BY <1>6 DEF OtherService, Malformed, GiveUp, End, LoseRequest, LoseAnswer, vars
  <2>2. answers' = answers \/ (answers # <<>> /\ answers' = Tail(answers))
    BY <1>6 DEF OtherService, Malformed, GiveUp, LoseRequest, LoseAnswer, vars
  <2>3. Left(requests, requests') /\ Left(answers, answers')
    BY <1>1, <2>1, <2>2, LeftOf
  <2>4. UNCHANGED <<op, asked, late, epoch, restarts, ecu>>
    BY <1>6 DEF OtherService, Malformed, GiveUp, End, LoseRequest, LoseAnswer, vars, client, NoExchange
  <2>5. ASSUME NEW task PROVE Returns(task)' => Returns(task)
    <3>1. CASE Malformed \/ GiveUp
      BY <3>1 DEF Malformed, GiveUp, End, Raised, Returns
    <3>2. CASE OtherService \/ LoseRequest \/ LoseAnswer \/ UNCHANGED vars
      BY <3>2 DEF OtherService, LoseRequest, LoseAnswer, vars, client, Returns, Idle
    <3> QED
      BY <1>6, <3>1, <3>2
  <2>6. ASSUME NEW task, TaskIsLast(task) PROVE TaskIsLast(task)'
    <3>1. Returns(task)' => TakenUp(task) /\ NoneAsked(Opposite(task))
      BY <2>5, <2>6 DEF TaskIsLast, Returns
    <3> QED
      BY <2>3, <2>4, <2>6, <3>1, LossKeepsTask
  <2>7. None("proof") => None("proof")'
    BY <2>3 DEF None, Left
  <2>8. /\ TaskIsLast("proof") => TaskIsLast("proof")'
        /\ TaskIsLast("deAuthenticate") => TaskIsLast("deAuthenticate")'
    BY <2>6
  <2> QED
    BY <2>4, <2>7, <2>8 DEF AuthenticationInv, None
<1>7. CASE NotImplemented
  BY <1>7 DEF NotImplemented, AuthenticationInv
<1>8. CASE Restart
  <2>1. epoch' = epoch /\ restarts' = restarts + 1 /\ epoch \in 0..restarts /\ restarts \in Nat
    BY <1>8 DEF Restart, client, TypeInv, CallTypes
  <2> QED
    BY <2>1 DEF AuthenticationInv
<1> QED
  BY <1>2, <1>3, <1>4, <1>5, <1>6, <1>7, <1>8 DEF Next, AllCallsDone

-----------------------------------------------------------------------------
(* Data.                                                                    *)

Accesses == {"write", "clear", "routine", "dtc"}

(* What can be taken for an answer to this call is one.                     *)
Own ==
  /\ \A i \in DOMAIN requests : Confusable(asked, requests[i]) => requests[i] = asked
  /\ \A i \in DOMAIN answers : (Confusable(asked, answers[i]) /\ answers[i].ok) => Effect(answers[i])

(* Requests and answers may go missing.                                     *)
LEMMA LossKeepsOwn ==
  ASSUME Own, Left(requests, requests'), Left(answers, answers'), UNCHANGED <<op, asked>>,
         ecu'.stored = ecu.stored, ecu'.cleared = ecu.cleared
  PROVE  Own'
<1>1. PICK k \in Nat :
        \A i \in DOMAIN requests' : i \in Nat \ {0} /\ i + k \in DOMAIN requests /\ requests'[i] = requests[i + k]
  BY DEF Left
<1>2. PICK l \in Nat :
        \A i \in DOMAIN answers' : i \in Nat \ {0} /\ i + l \in DOMAIN answers /\ answers'[i] = answers[i + l]
  BY DEF Left
<1>3. \A i \in DOMAIN requests' : Confusable(asked, requests'[i]) => requests'[i] = asked
  BY <1>1 DEF Own
<1>4. \A i \in DOMAIN answers' : (Confusable(asked, answers'[i]) /\ answers'[i].ok) => Effect(answers'[i])
  BY <1>2 DEF Own
<1>5. ASSUME NEW i \in DOMAIN answers', Effect(answers'[i]) PROVE Effect(answers[i])'
  BY <1>5 DEF Effect
<1> QED
  BY <1>3, <1>4, <1>5 DEF Own, Confusable

(* What the ECU does for this call it does as asked, and nothing else       *)
(* undoes it.                                                               *)
LEMMA EcuKeepsOwn ==
  ASSUME TypeInv, op \in Accesses, Own, EcuServes
  PROVE  /\ Own'
         /\ op = "write" /\ ecu.stored[asked.val] = asked.body => ecu'.stored[asked.val] = asked.body
         /\ op = "clear" /\ ecu.cleared = asked.body => ecu'.cleared = asked.body
<1> DEFINE r == Head(requests)
           n == Len(answers) + 1
<1>1. requests # <<>> /\ requests' = Tail(requests) /\ UNCHANGED <<op, asked>>
  BY DEF EcuServes, client
<1>2. PICK a \in AnswerType : answers' = Append(answers, a) /\ StoredBy(r, a)
  BY EcuAnswers DEF TypeInv
<1>3. /\ r \in RequestType /\ 1 \in DOMAIN requests /\ requests[1] = r
      /\ \A i \in DOMAIN requests' : i + 1 \in DOMAIN requests /\ requests'[i] = requests[i + 1]
  BY <1>1, TailOf DEF TypeInv, LinkTypes
<1>4. /\ answers'[n] = a
      /\ \A i \in DOMAIN answers : answers'[i] = answers[i]
      /\ \A i \in DOMAIN answers' : i \in DOMAIN answers \/ i = n
  <2>1. answers \in Seq(AnswerType)
    BY DEF TypeInv, LinkTypes
  <2> QED
    BY <1>2, <2>1, AppendOf
<1> HIDE DEF r, n
<1>5. asked.what = op /\ op \in Accesses
  BY AskedTells DEF TypeInv, Accesses
<1>6. Confusable(asked, r) => r = asked
  BY <1>3 DEF Own
<1>7. ecu.stored \in [Targets -> Nat] /\ (r.what = "write" => r.val \in Targets) /\ a.what = r.what
  BY <1>2, <1>3 DEF TypeInv, EcuTypes, EcuType, RequestType, StoredBy
<1>8. op = "write" /\ ecu.stored[asked.val] = asked.body => ecu'.stored[asked.val] = asked.body
  <2> SUFFICES ASSUME op = "write", ecu.stored[asked.val] = asked.body PROVE ecu'.stored[asked.val] = asked.body
    OBVIOUS
  <2>1. CASE a.ok /\ r.what = "write"
    <3>1. ecu'.stored = [ecu.stored EXCEPT ![r.val] = r.body]
      BY <1>2, <2>1 DEF StoredBy
    <3>2. CASE r.val = asked.val
      BY <1>5, <1>6, <1>7, <2>1, <3>1, <3>2 DEF Confusable
    <3>3. CASE r.val # asked.val
      BY <1>7, <2>1, <3>1, <3>3
    <3> QED
      BY <3>2, <3>3
  <2>2. CASE ~(a.ok /\ r.what = "write")
    BY <1>2, <2>2 DEF StoredBy
  <2> QED
    BY <2>1, <2>2
<1>9. op = "clear" /\ ecu.cleared = asked.body => ecu'.cleared = asked.body
  BY <1>2, <1>5, <1>6 DEF StoredBy, Confusable
<1>10. \A i \in DOMAIN requests' : Confusable(asked, requests'[i]) => requests'[i] = asked
  BY <1>3 DEF Own
<1>11. ASSUME NEW i \in DOMAIN answers', Confusable(asked, answers'[i]), answers'[i].ok
       PROVE  /\ op = "write" => ecu'.stored[asked.val] = asked.body
              /\ op = "clear" => ecu'.cleared = asked.body
              /\ op \in {"routine", "dtc"} => answers'[i].val = asked.val
  <2>1. CASE i \in DOMAIN answers
    <3>1. Effect(answers[i]) /\ answers'[i] = answers[i]
      BY <1>4, <1>11, <2>1 DEF Own
    <3> QED
      BY <1>8, <1>9, <3>1 DEF Effect
  <2>2. CASE i = n
    <3>1. answers'[i] = a /\ a.what = r.what /\ a.ok
      BY <1>4, <1>7, <1>11, <2>2
    <3>2. r.what = asked.what /\ (op = "write" => a.val = asked.val)
      BY <1>5, <1>11, <3>1 DEF Confusable, Accesses
    <3>3. op \in {"write", "routine", "dtc"} => a.val = r.val
      BY <1>2, <1>5, <3>1, <3>2 DEF StoredBy
    <3>4. r = asked
      BY <1>5, <1>6, <3>2, <3>3 DEF Confusable, Accesses
    <3>5. op = "write" => ecu'.stored[asked.val] = asked.body
      BY <1>2, <1>5, <1>7, <3>1, <3>4 DEF StoredBy
    <3>6. op = "clear" => ecu'.cleared = asked.body
      BY <1>2, <1>5, <3>1, <3>4 DEF StoredBy
    <3> QED
      BY <3>1, <3>3, <3>4, <3>5, <3>6
  <2> QED
    BY <1>4, <2>1, <2>2
<1>12. Own'
  BY <1>1, <1>10, <1>11 DEF Own, Effect, Confusable
<1> QED
  BY <1>8, <1>9, <1>12

LEMMA DataNext ==
  ASSUME TypeInv, DataInv, [Next]_vars
  PROVE  DataInv'
<1>1. requests \in Seq(RequestType) /\ answers \in Seq(AnswerType)
  BY DEF TypeInv, LinkTypes
<1>2. ~late /\ op \in Accesses => Own /\ DataIsOwn
  BY DEF DataInv, Own, Accesses
<1>3. SUFFICES ASSUME ~late', op' \in Accesses PROVE Own' /\ DataIsOwn'
  BY DEF DataInv, Own, Accesses
<1>4. op \in Accesses => asked.what = op
  BY AskedTells DEF TypeInv, Accesses
<1>5. ASSUME NEW o \in Operations, Start(o) PROVE Own' /\ DataIsOwn'
  <2>1. PICK r \in FirstRequests(o) :
          requests' = Append(requests, r) /\ asked' = r /\ late' = OnTheWay(LAMBDA m : Confusable(r, m))
    BY <1>5 DEF Start, Send
  <2>2. o \in Wanted /\ tries' = 1 /\ answers' = answers
    BY <1>5 DEF Start
  <2>3. r \in RequestType
    BY <2>2, FirstRequestIs DEF TypeInv
  <2>4. /\ \A i \in DOMAIN requests : ~Confusable(r, requests[i])
        /\ \A i \in DOMAIN answers : ~Confusable(r, answers[i])
    BY <1>3, <2>1 DEF OnTheWay
  <2>5. /\ requests'[Len(requests) + 1] = r
        /\ \A i \in DOMAIN requests : requests'[i] = requests[i]
        /\ \A i \in DOMAIN requests' : i \in DOMAIN requests \/ i = Len(requests) + 1
    BY <1>1, <2>1, <2>3, AppendOf
  <2>6. Own'
    <3>1. \A i \in DOMAIN requests' : Confusable(r, requests'[i]) => requests'[i] = r
      BY <2>4, <2>5
    <3>2. \A i \in DOMAIN answers' : ~Confusable(r, answers'[i])
      BY <2>2, <2>4
    <3> QED
      BY <2>1, <3>1, <3>2 DEF Own, Confusable
  <2>7. DataIsOwn'
    BY <2>2 DEF DataIsOwn, Succeeds, Ended, Idle
  <2> QED
    BY <2>6, <2>7
<1>6. CASE TakeAnswer
  <2> DEFINE a == Head(answers)
  <2>1. ~Idle /\ answers # <<>> /\ answers' = Tail(answers) /\ UNCHANGED <<op, late, ecu>>
    BY <1>6 DEF TakeAnswer, NoExchange
  <2>2. Left(answers, answers') /\ Left(requests, requests) /\ 1 \in DOMAIN answers /\ answers[1] = a
    BY <1>1, <2>1, LeftOf, TailOf
  <2>3. EndsWith(a)
    BY <1>3, <1>6, <2>1, AnswerEnds DEF Proves, Accesses
  <2>4. tries' = 0 /\ UNCHANGED <<asked, requests>> /\ ResultBy(a)
    BY <2>3 DEF EndsWith
  <2>5. Own /\ op \in Accesses /\ asked.what = op
    BY <1>2, <1>3, <1>4, <2>1
  <2>6. Own'
    BY <2>1, <2>2, <2>4, <2>5, LossKeepsOwn
  <2>7. DataIsOwn'
    <3> HIDE DEF a
    <3>1. ASSUME op = "write", result'.kind = "returned", result'.val = "True" PROVE ecu.stored[asked.val] = asked.body
      <4>1. a.what = "write" /\ a.ok /\ a.val = asked.val
        BY <2>4, <3>1 DEF ResultBy
      <4>2. Confusable(asked, a)
        BY <2>5, <3>1, <4>1 DEF Confusable
      <4> QED
        BY <2>2, <2>5, <3>1, <4>1, <4>2 DEF Own, Effect
    <3>2. ASSUME op = "clear", result'.kind = "returned" PROVE ecu.cleared = asked.body
      <4>1. a.what = "clear" /\ a.ok
        BY <2>4, <3>2 DEF ResultBy
      <4>2. Confusable(asked, a)
        BY <2>5, <3>2, <4>1 DEF Confusable
      <4> QED
        BY <2>2, <2>5, <3>2, <4>1, <4>2 DEF Own, Effect
    <3>3. ASSUME op \in {"routine", "dtc"}, result'.kind = "returned" PROVE result'.val = asked.val
      <4>1. a.what = op /\ a.ok /\ result'.val = a.val
        BY <2>4, <3>3 DEF ResultBy
      <4>2. Confusable(asked, a)
        BY <2>5, <3>3, <4>1 DEF Confusable
      <4> QED
        BY <2>2, <2>5, <3>3, <4>1, <4>2 DEF Own, Effect
    <3> QED
      BY <2>1, <2>4, <3>1, <3>2, <3>3 DEF DataIsOwn, Succeeds, Ended
  <2> QED
    BY <2>6, <2>7
<1>7. CASE SendAgain
  <2>1. /\ ~Idle /\ tries' = tries + 1 /\ requests' = Append(requests, asked) /\ tries \in Nat
        /\ UNCHANGED <<op, asked, late, answers, ecu>>
    BY <1>7 DEF SendAgain, Send, NoExchange, TypeInv, CallTypes
  <2>2. asked \in RequestType /\ Own
    BY <1>2, <1>3, <2>1, AskedTells DEF TypeInv
  <2>3. /\ requests'[Len(requests) + 1] = asked
        /\ \A i \in DOMAIN requests : requests'[i] = requests[i]
        /\ \A i \in DOMAIN requests' : i \in DOMAIN requests \/ i = Len(requests) + 1
    BY <1>1, <2>1, <2>2, AppendOf
  <2>4. Own'
    BY <2>1, <2>2, <2>3 DEF Own, Confusable, Effect
  <2>5. DataIsOwn'
    BY <2>1 DEF DataIsOwn, Succeeds, Ended, Idle
  <2> QED
    BY <2>4, <2>5
<1>8. CASE EcuServes
  <2>1. UNCHANGED <<op, asked, late, tries, result>>
    BY <1>8 DEF EcuServes, client
  <2>2. Own /\ DataIsOwn /\ op \in Accesses
    BY <1>2, <1>3, <2>1
  <2>3. /\ Own'
        /\ op = "write" /\ ecu.stored[asked.val] = asked.body => ecu'.stored[asked.val] = asked.body
        /\ op = "clear" /\ ecu.cleared = asked.body => ecu'.cleared = asked.body
    BY <1>8, <2>2, EcuKeepsOwn
  <2>4. DataIsOwn'
    BY <1>3, <2>1, <2>2, <2>3 DEF DataIsOwn, Succeeds, Ended, Idle
  <2> QED
    BY <2>3, <2>4
<1>9. CASE OtherService \/ Malformed \/ GiveUp \/ Restart \/ LoseRequest \/ LoseAnswer \/ UNCHANGED vars
  <2>1. requests' = requests \/ requests' = <<>> \/ (requests # <<>> /\ requests' = Tail(requests))
    BY <1>9 DEF OtherService, Malformed, GiveUp, End, Restart, LoseRequest, LoseAnswer, vars
  <2>2. answers' = answers \/ (answers # <<>> /\ answers' = Tail(answers))
    BY <1>9 DEF OtherService, Malformed, GiveUp, Restart, LoseRequest, LoseAnswer, vars
  <2>3. Left(requests, requests') /\ Left(answers, answers')
    BY <1>1, <2>1, <2>2, LeftOf
  <2>4. UNCHANGED <<op, asked, late>>
    BY <1>9 DEF OtherService, Malformed, GiveUp, End, Restart, LoseRequest, LoseAnswer, vars, client, NoExchange
  <2>5. \/ ecu' = ecu
        \/ ecu' = [ecu EXCEPT !.download = FALSE, !.challenge = 0, !.authenticated = FALSE]
    BY <1>9 DEF OtherService, Malformed, GiveUp, Restart, LoseRequest, LoseAnswer, vars, NoExchange
  <2>6. ecu'.stored = ecu.stored /\ ecu'.cleared = ecu.cleared
    BY <2>5 DEF TypeInv, EcuTypes, EcuType
  <2>7. Own /\ DataIsOwn
    BY <1>2, <1>3, <2>4
  <2>8. Own'
    BY <2>3, <2>4, <2>6, <2>7, LossKeepsOwn
  <2>9. (Idle' /\ result'.kind = "returned") => (Idle /\ result' = result)
    <3>1. CASE Malformed \/ GiveUp
      BY <3>1 DEF Malformed, GiveUp, End, Raised
    <3>2. CASE OtherService \/ Restart \/ LoseRequest \/ LoseAnswer \/ UNCHANGED vars
      BY <3>2 DEF OtherService, Restart, LoseRequest, LoseAnswer, vars, client, Idle
    <3> QED
      BY <1>9, <3>1, <3>2
  <2>10. DataIsOwn'
    BY <1>3, <2>4, <2>6, <2>7, <2>9 DEF DataIsOwn, Succeeds, Ended
  <2> QED
    BY <2>8, <2>10
<1>10. CASE NotImplemented
  BY <1>3, <1>10 DEF NotImplemented, Accesses
<1> QED
  BY <1>5, <1>6, <1>7, <1>8, <1>9, <1>10 DEF Next, AllCallsDone

(* What the services return is of this call: an authentication that returns *)
(* "ownership verified" left the ECU authenticated, one that returns        *)
(* "de-authenticated" left it not (uds_utils.py:478-575), write_did returns *)
(* True with the value stored, and routine and report data are those asked  *)
(* for (uds_utils.py:199-269, 385-452); unless an answer that could be      *)
(* taken for this call's was on its way when it began, or the ECU           *)
(* restarted.                                                               *)
THEOREM AnswersAreOfTheCall == Spec => []AnswersAreOwn
<1>1. Init => TypeInv /\ AuthenticationInv /\ DataInv
  <2> SUFFICES ASSUME Init PROVE AuthenticationInv /\ DataInv
    BY InitHolds
  <2>1. op = "none"
    BY DEF Init
  <2> QED
    BY <2>1 DEF AuthenticationInv, DataInv
<1>2. TypeInv /\ AuthenticationInv /\ DataInv /\ [Next]_vars => TypeInv' /\ AuthenticationInv' /\ DataInv'
  BY TypeNext, AuthenticationNext, DataNext
<1>3. TypeInv /\ AuthenticationInv /\ DataInv => AnswersAreOwn
  <2> SUFFICES ASSUME AuthenticationInv, DataInv PROVE AuthenticationIsRight /\ DataIsOwn
    BY DEF AnswersAreOwn
  <2>1. AuthenticationIsRight
    BY DEF AuthenticationIsRight, AuthenticationInv, TaskIsLast, TakenUp, Succeeds, Ended
  <2>2. DataIsOwn
    BY DEF DataIsOwn, DataInv, Succeeds, Ended
  <2> QED
    BY <2>1, <2>2
<1> QED
  BY <1>1, <1>2, <1>3, PTL DEF Spec

=============================================================================
