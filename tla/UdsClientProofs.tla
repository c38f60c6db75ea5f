-------------------------- MODULE UdsClientProofs --------------------------
(***************************************************************************)
(* Proofs about UdsClient, for every route, every set of sessions and of   *)
(* transitions between them, every set of faults and every bound.          *)
(***************************************************************************)
EXTENDS UdsClient, SequenceTheorems, TLAPS

USE SessionAssumption, RouteAssumption, BoundAssumption

Requests == [what : Asked, val : Nat \cup Sessions]
Answers == [what : Asked, ok : BOOLEAN, val : Nat \cup Sessions]

(* What an operation leaves to the client, and the exchange it belongs to. *)
ClientType ==
  /\ pc \in {"idle"} \cup Asked
  /\ step \in 0..Len(Route)
  /\ pc = "session" => step > 0 /\ op \in {"transit", "recover"}
  /\ pc \in {"seed", "key"} => op \in {"transit", "recover", "security"}
  /\ pc = "key" => seeds > 0
  /\ pc = "reset" => op = "reset"
  /\ pc = "present" => op = "present"
  /\ pc = "did" => op = "sessionCheck"
  /\ result \in {"none", "True", "False", "raised"}
  /\ requests \in Seq(Requests)

(* What the ECU gives out, and that its default session is a locked one.   *)
LockInv ==
  /\ session = Default => ~unlocked /\ seed = 0
  /\ seed # 0 => ~unlocked
  /\ \A i \in DOMAIN answers : answers[i].what = "seed" => answers[i].val \in 0..seeds

(* The data link fails in an exchange only. *)
BreakInv == broken => failed /\ pc # "idle"

StateInv == TypeOK /\ ClientType /\ LockInv /\ BreakInv

-----------------------------------------------------------------------------
(* The two lines of the link. *)

LastIn(line) == line[Len(line)]

LEMMA LineFacts ==
  ASSUME NEW S, NEW line \in Seq(S)
  PROVE  /\ Len(line) \in Nat /\ DOMAIN line = 1..Len(line)
         /\ line = <<>> <=> Len(line) = 0
         /\ \A i \in DOMAIN line : line[i] \in S
         /\ line # <<>> => /\ LastIn(line) \in S /\ Len(line) \in DOMAIN line
                           /\ Head(line) = line[1] /\ 1 \in DOMAIN line /\ Head(line) \in S
<1>1. Len(line) \in Nat /\ DOMAIN line = 1..Len(line)
  BY LenProperties
<1>2. \A i \in DOMAIN line : line[i] \in S
  BY <1>1, ElementOfSeq
<1>3. line = <<>> <=> Len(line) = 0
  BY EmptySeq, <1>1
<1> QED
  BY <1>1, <1>2, <1>3, HeadTailProperties DEF LastIn

LEMMA LineTail ==
  ASSUME NEW S, NEW line \in Seq(S), line # <<>>
  PROVE  /\ Tail(line) \in Seq(S) /\ Len(Tail(line)) = Len(line) - 1
         /\ DOMAIN Tail(line) = 1..(Len(line) - 1)
         /\ \A i \in DOMAIN Tail(line) : i + 1 \in DOMAIN line /\ Tail(line)[i] = line[i + 1]
         /\ Len(line) > 1 => Tail(line) # <<>> /\ LastIn(Tail(line)) = LastIn(line)
         /\ Len(line) = 1 => Tail(line) = <<>> /\ Head(line) = LastIn(line)
<1>1. /\ Len(line) \in Nat /\ Len(line) > 0 /\ DOMAIN line = 1..Len(line) /\ Head(line) = line[1]
  BY LineFacts
<1>2. /\ Tail(line) \in Seq(S) /\ Len(Tail(line)) = Len(line) - 1
      /\ \A i \in 1..(Len(line) - 1) : Tail(line)[i] = line[i + 1]
  BY HeadTailProperties
<1>3. DOMAIN Tail(line) = 1..(Len(line) - 1)
  BY <1>2, LineFacts
<1>4. \A i \in DOMAIN Tail(line) : i + 1 \in DOMAIN line /\ Tail(line)[i] = line[i + 1]
  BY <1>1, <1>2, <1>3
<1>5. Len(line) > 1 => Tail(line) # <<>> /\ LastIn(Tail(line)) = LastIn(line)
  <2> SUFFICES ASSUME Len(line) > 1
               PROVE  Tail(line) # <<>> /\ LastIn(Tail(line)) = LastIn(line)
    OBVIOUS
  <2>1. Len(line) - 1 \in DOMAIN Tail(line) /\ (Len(line) - 1) + 1 = Len(line)
    BY <1>1, <1>3
  <2>2. Tail(line)[Len(line) - 1] = line[Len(line)]
    BY <1>4, <2>1
  <2>3. Tail(line) # <<>>
    <3> DEFINE n == Len(line)
               t == Tail(line)
    <3>1. Len(t) = n - 1 /\ n \in Nat /\ n > 1 /\ t \in Seq(S)
      BY <1>1, <1>2
    <3> HIDE DEF n, t
    <3>2. Len(t) # 0
      BY <3>1
    <3>3. t # <<>>
      BY <3>1, <3>2, EmptySeq
    <3> QED
      BY <3>3 DEF t
  <2> QED
    BY <1>2, <2>2, <2>3 DEF LastIn
<1>6. Len(line) = 1 => Tail(line) = <<>> /\ Head(line) = LastIn(line)
  BY <1>1, <1>2, LineFacts DEF LastIn
<1> QED
  BY <1>2, <1>3, <1>4, <1>5, <1>6

LEMMA LineAppend ==
  ASSUME NEW S, NEW line \in Seq(S), NEW x \in S
  PROVE  /\ Append(line, x) \in Seq(S) /\ Len(Append(line, x)) = Len(line) + 1
         /\ Append(line, x) # <<>> /\ LastIn(Append(line, x)) = x
         /\ DOMAIN Append(line, x) = 1..(Len(line) + 1)
         /\ \A i \in DOMAIN line : Append(line, x)[i] = line[i]
<1>1. Len(line) \in Nat /\ DOMAIN line = 1..Len(line)
  BY LineFacts
<1>2. /\ Append(line, x) \in Seq(S) /\ Len(Append(line, x)) = Len(line) + 1
      /\ Append(line, x)[Len(line) + 1] = x
      /\ \A i \in 1..Len(line) : Append(line, x)[i] = line[i]
  BY AppendProperties
<1> QED
  BY <1>1, <1>2, LineFacts DEF LastIn

(* A link that fails loses both lines, the last request, or nothing.        *)
LEMMA LineBreaks ==
  ASSUME requests \in Seq(Requests), answers \in Seq(Answers), LinkFails
  PROVE  /\ requests' \in Seq(Requests) /\ answers' \in Seq(Answers)
         /\ \A i \in DOMAIN requests' : i \in DOMAIN requests /\ requests'[i] = requests[i]
         /\ \A i \in DOMAIN answers' : i \in DOMAIN answers /\ answers'[i] = answers[i]
<1>1. CASE requests' = <<>> /\ answers' = <<>>
  <2>1. requests' \in Seq(Requests) /\ answers' \in Seq(Answers) /\ DOMAIN requests' = {} /\ DOMAIN answers' = {}
    BY <1>1, EmptySeq, LineFacts
  <2> QED
    BY <2>1
<1>2. CASE requests # <<>> /\ requests' = SubSeq(requests, 1, Len(requests) - 1) /\ UNCHANGED answers
  <2>1. Len(requests) \in Nat /\ Len(requests) > 0 /\ DOMAIN requests = 1..Len(requests)
    BY <1>2, LineFacts
  <2>2. \A i \in 1..(Len(requests) - 1) : requests[i] \in Requests
    BY <2>1, LineFacts
  <2>3. /\ SubSeq(requests, 1, Len(requests) - 1) \in Seq(Requests)
        /\ Len(SubSeq(requests, 1, Len(requests) - 1)) = Len(requests) - 1
        /\ \A i \in 1..(Len(requests) - 1) : SubSeq(requests, 1, Len(requests) - 1)[i] = requests[i]
    BY <2>1, <2>2, SubSeqProperties
  <2>4. requests' \in Seq(Requests) /\ DOMAIN requests' = 1..(Len(requests) - 1)
    BY <1>2, <2>3, LineFacts
  <2> QED
    BY <1>2, <2>1, <2>3, <2>4
<1>3. CASE UNCHANGED link
  BY <1>3 DEF link
<1> QED
  BY <1>1, <1>2, <1>3 DEF LinkFails

LEMMA LinkTypes ==
  ASSUME StateInv
  PROVE  requests \in Seq(Requests) /\ answers \in Seq(Answers)
BY DEF StateInv, TypeOK, Requests, Answers

-----------------------------------------------------------------------------
(* What an operation does next, in the types. *)

LEMMA AskType ==
  ASSUME StateInv, NEW what \in Asked, NEW val \in Nat \cup Sessions, Ask(what, val)
  PROVE  /\ pc' = what /\ result' = result /\ requests' \in Seq(Requests)
         /\ requests' # <<>> /\ LastIn(requests)' = Request(what, val)
         /\ Len(requests') = Len(requests) + 1
         /\ \A i \in DOMAIN requests' : i < Len(requests') => i \in DOMAIN requests /\ requests'[i] = requests[i]
<1>1. Request(what, val) \in Requests /\ requests \in Seq(Requests)
  BY LinkTypes DEF Request, Requests
<1>2. requests' = Append(requests, Request(what, val)) /\ pc' = what /\ result' = result
  BY DEF Ask
<1> DEFINE r == Request(what, val)
<1> HIDE DEF r
<1>3. /\ Append(requests, r) \in Seq(Requests) /\ Len(Append(requests, r)) = Len(requests) + 1
      /\ Append(requests, r) # <<>> /\ LastIn(Append(requests, r)) = r
      /\ DOMAIN Append(requests, r) = 1..(Len(requests) + 1)
      /\ \A i \in DOMAIN requests : Append(requests, r)[i] = requests[i]
  BY <1>1, LineAppend DEF r
<1>4. Len(requests) \in Nat /\ DOMAIN requests = 1..Len(requests)
  BY <1>1, LineFacts
<1>5. LastIn(requests)' = r
  BY <1>2, <1>3 DEF LastIn, r
<1>6. \A i \in DOMAIN requests' : i < Len(requests') => i \in DOMAIN requests /\ requests'[i] = requests[i]
  BY <1>2, <1>3, <1>4 DEF r
<1> QED
  BY <1>2, <1>3, <1>5, <1>6 DEF r

LEMMA RouteStep ==
  ASSUME NEW i \in 1..Len(Route)
  PROVE  Route[i].id \in Sessions /\ Route[i].elevate \in BOOLEAN
<1>1. Route[i] \in [id : Sessions, elevate : BOOLEAN]
  BY ElementOfSeq
<1> QED
  BY <1>1

LEMMA RouteLength == Len(Route) \in Nat /\ Len(Route) > 0
BY LineFacts

LEMMA AskSessionType ==
  ASSUME StateInv, op' \in {"transit", "recover"}, NEW i \in 1..Len(Route), AskSession(i)
  PROVE  ClientType'
<1>1. i > 0 /\ i \in 0..Len(Route)
  BY RouteLength
<1>2. Route[i].id \in Nat \cup Sessions /\ "session" \in Asked
  BY RouteStep DEF Asked
<1>3. pc' = "session" /\ result' = result /\ requests' \in Seq(Requests)
  BY <1>2, AskType DEF AskSession
<1> QED
  BY <1>1, <1>2, <1>3 DEF AskSession, ClientType, StateInv

LEMMA ReturnType ==
  ASSUME StateInv, NEW value \in {"True", "False", "raised"}, Return(value)
  PROVE  ClientType'
BY DEF Return, ClientType, StateInv

LEMMA TruthType == \A b : Truth(b) \in {"True", "False"}
BY DEF Truth

LEMMA NextSessionType ==
  ASSUME StateInv, op \in {"transit", "recover"}, op' = op, NextSession
  PROVE  ClientType'
<1>1. CASE step < Len(Route)
  <2>1. step + 1 \in 1..Len(Route)
    BY <1>1, RouteLength DEF StateInv, ClientType
  <2> QED
    BY <1>1, <2>1, AskSessionType DEF NextSession
<1>2. CASE ~(step < Len(Route))
  BY <1>2, ReturnType DEF NextSession
<1> QED
  BY <1>1, <1>2

LEMMA SecurityDoneType ==
  ASSUME StateInv, pc \in {"seed", "key"}, op' = op,
         NEW value \in {"True", "False", "raised"}, SecurityDone(value)
  PROVE  ClientType'
BY ReturnType, NextSessionType DEF SecurityDone, StateInv, ClientType

LEMMA NoAnswerType ==
  ASSUME StateInv, pc # "idle", op' = op, NEW why, NoAnswer(why)
  PROVE  ClientType'
<1>1. CASE pc \in {"session", "reset"}
  BY <1>1, ReturnType DEF NoAnswer
<1>2. CASE pc \in {"seed", "key"}
  BY <1>2, SecurityDoneType DEF NoAnswer
<1>3. CASE pc \in {"present", "did"}
  <2>1. Return(Truth(why = "NoResponse")) /\ Truth(why = "NoResponse") \in {"True", "False", "raised"}
    BY <1>3, TruthType DEF NoAnswer
  <2> QED
    BY <2>1, ReturnType
<1> QED
  BY <1>1, <1>2, <1>3 DEF StateInv, ClientType, Asked


LEMMA AnsweredType ==
  ASSUME StateInv, pc # "idle", UNCHANGED <<op, seeds>>, answers # <<>>,
         Sid(Head(answers).what) = Sid(pc), Answered(Head(answers))
  PROVE  ClientType'
<1> DEFINE a == Head(answers)
<1>1. a \in Answers /\ (a.what = "seed" => a.val \in 0..seeds)
  <2>1. answers \in Seq(Answers)
    BY LinkTypes
  <2> QED
    BY <2>1, LineFacts DEF StateInv, LockInv
<1>2. CASE pc = "session"
  <2>1. SessionAnswered(a)
    BY <1>2 DEF Answered
  <2>2. CASE ~a.ok
    BY <2>1, <2>2, ReturnType DEF SessionAnswered
  <2>3. CASE a.ok /\ Route[step].elevate
    <3>1. Ask("seed", 0) /\ UNCHANGED step /\ "seed" \in Asked /\ 0 \in Nat \cup Sessions
      BY <2>1, <2>3 DEF SessionAnswered, Asked
    <3> QED
      BY <1>2, <3>1, AskType DEF ClientType, StateInv
  <2>4. CASE a.ok /\ ~Route[step].elevate
    BY <1>2, <2>1, <2>4, NextSessionType DEF SessionAnswered, StateInv, ClientType
  <2> QED
    BY <2>2, <2>3, <2>4
<1>3. CASE pc = "seed"
  <2>1. SeedAnswered(a)
    BY <1>3 DEF Answered
  <2>2. CASE ~a.ok \/ a.what # "seed"
    BY <1>3, <2>1, <2>2, SecurityDoneType DEF SeedAnswered
  <2>3. CASE a.ok /\ a.what = "seed" /\ a.val = 0
    BY <1>3, <2>1, <2>3, SecurityDoneType DEF SeedAnswered
  <2>4. CASE a.ok /\ a.what = "seed" /\ a.val # 0
    <3>1. PICK key \in KeysFor(a.val) : Ask("key", key) /\ UNCHANGED step
      BY <2>1, <2>4 DEF SeedAnswered
    <3>2. key \in Nat \cup Sessions /\ "key" \in Asked /\ seeds > 0 /\ seeds' = seeds
      BY <1>1, <2>4 DEF KeysFor, Asked, StateInv, TypeOK
    <3> QED
      BY <1>3, <3>1, <3>2, AskType DEF ClientType, StateInv
  <2> QED
    BY <2>2, <2>3, <2>4
<1>4. CASE pc = "key"
  <2>1. KeyAnswered(a)
    BY <1>4 DEF Answered
  <2> QED
    BY <1>4, <2>1, SecurityDoneType, TruthType DEF KeyAnswered
<1>5. CASE pc = "reset"
  <2>1. Return(Truth(a.ok))
    BY <1>5 DEF Answered, ResetAnswered
  <2> QED
    BY <2>1, ReturnType, TruthType
<1>6. CASE pc = "present"
  <2>1. Return("False")
    BY <1>6 DEF Answered, PresentAnswered
  <2> QED
    BY <2>1, ReturnType
<1>7. CASE pc = "did"
  <2> DEFINE b == a.ok /\ Decimal[a.val] \notin {Unreadable, Current}
  <2>1. Return(Truth(b))
    BY <1>7 DEF Answered, DidAnswered
  <2> HIDE DEF b
  <2> QED
    BY <2>1, ReturnType, TruthType
<1> QED
  BY <1>2, <1>3, <1>4, <1>5, <1>6, <1>7 DEF StateInv, ClientType, Asked

LEMMA StartType ==
  ASSUME StateInv, NEW o \in Operations, Start(o)
  PROVE  ClientType'
<1> USE DEF StateInv
<1>1. pc = "idle" /\ op' = o
  BY DEF Start
<1>2. CASE o \in {"transit", "recover"} /\ AskSession(1)
  BY <1>1, <1>2, AskSessionType, RouteLength
<1>3. ASSUME NEW what \in {"seed", "reset", "present", "did"}, Ask(what, 0), step' = 0,
             what = "seed" => o \in {"recover", "security"},
             what = "reset" => o = "reset",
             what = "present" => o = "present",
             what = "did" => o = "sessionCheck"
      PROVE  ClientType'
  <2>1. pc' = what /\ result' = result /\ requests' \in Seq(Requests)
    BY <1>3, AskType DEF Asked
  <2> QED
    BY <1>1, <1>3, <2>1, RouteLength DEF ClientType, Asked
<1> QED
  BY <1>1, <1>2, <1>3 DEF Start, Operations


-----------------------------------------------------------------------------
(* What the ECU does with a request, told by its answer. *)

(* What an answer to a request for a seed says of the lock.                *)
TellsLock(a) ==
  IF ~a.ok THEN ~unlocked ELSE IF a.val = 0 THEN unlocked ELSE ~unlocked /\ seed = a.val

Reply(a) ==
  /\ up /\ requests # <<>> /\ requests' = Tail(requests)
  /\ a \in Answers /\ a.what = request.what /\ answers' = Append(answers, a)
  /\ UNCHANGED <<client, up, crashes>>
  /\ session' \in Sessions /\ unlocked' \in BOOLEAN
  /\ seeds' \in Nat /\ seeds <= seeds' /\ seed' \in 0..seeds'
  /\ session' = Default => ~unlocked' /\ seed' = 0
  /\ seed' # 0 => ~unlocked'
  /\ a.what = "session" /\ a.ok => session' = request.val
  /\ a.what \in {"seed", "key", "present", "did"} => session' = session
  /\ a.what = "seed" => a.val \in 0..seeds' /\ TellsLock(a)'
  /\ a.what = "key" /\ ~unlocked => (a.ok <=> unlocked')
  /\ a.what = "did" => a.ok /\ a.val = session'

LEMMA EcuReplies ==
  ASSUME StateInv, EcuServes
  PROVE  \E a \in Answers : Reply(a)
<1> USE DEF StateInv
<1>1. requests # <<>> => request \in Requests
  BY LinkTypes, LineFacts DEF request
<1>t. /\ session \in Sessions /\ unlocked \in BOOLEAN /\ seeds \in Nat /\ seed \in 0..seeds
      /\ session = Default => ~unlocked /\ seed = 0
      /\ seed # 0 => ~unlocked
  BY DEF TypeOK, LockInv
<1>2. CASE ServesSession
  <2>1. /\ up /\ requests # <<>> /\ request.what = "session" /\ requests' = Tail(requests)
        /\ UNCHANGED <<client, up, crashes>> /\ seeds' = seeds
    BY <1>2 DEF ServesSession, Serves
  <2>2. CASE <<session, request.val>> \in Reachable
    <3>a. PICK a \in Answers : a = Answer("session", TRUE, request.val)
      BY <1>1, <2>1 DEF Answer, Answers, Requests, Asked
    <3>1. /\ session' = request.val /\ ~unlocked' /\ unlocked' \in BOOLEAN /\ seed' = 0
          /\ answers' = Append(answers, a)
      BY <3>a, <1>2, <2>2 DEF ServesSession, Says
    <3>2. request.val \in Sessions
      BY <2>2
    <3>3. a \in Answers /\ a.what = "session" /\ a.ok
      BY <3>a DEF Answer
    <3>4. Reply(a)
      BY <1>t, <2>1, <3>1, <3>2, <3>3 DEF Reply
    <3> QED
      BY <3>3, <3>4
  <2>3. CASE <<session, request.val>> \notin Reachable
    <3>a. PICK a \in Answers : a = Answer("session", FALSE, 0)
      BY DEF Answer, Answers, Asked
    <3>1. UNCHANGED <<session, unlocked, seed>> /\ answers' = Append(answers, a)
      BY <3>a, <1>2, <2>3 DEF ServesSession, Says
    <3>2. a \in Answers /\ a.what = "session" /\ ~a.ok
      BY <3>a DEF Answer
    <3>3. Reply(a)
      BY <1>t, <2>1, <3>1, <3>2 DEF Reply
    <3> QED
      BY <3>2, <3>3
  <2> QED
    BY <2>2, <2>3
<1>3. CASE ServesSeed
  <2>1. /\ up /\ requests # <<>> /\ request.what = "seed" /\ requests' = Tail(requests)
        /\ UNCHANGED <<client, up, crashes, session, unlocked>>
    BY <1>3 DEF ServesSeed, Serves
  <2>2. ASSUME NEW a \in Answers, a.what = "seed", answers' = Append(answers, a),
               seeds' \in Nat, seeds <= seeds', seed' \in 0..seeds', seed' # 0 => ~unlocked,
               session = Default => seed' = 0, a.val \in 0..seeds', TellsLock(a)'
        PROVE  \E x \in Answers : Reply(x)
    <3>1. Reply(a)
      BY <1>t, <2>1, <2>2 DEF Reply
    <3> QED
      BY <3>1
  <2>3. CASE session = Default
    <3>a. PICK a \in Answers : a = Answer("seed", FALSE, 0)
      BY DEF Answer, Answers, Asked
    <3>1. UNCHANGED <<seed, seeds>> /\ answers' = Append(answers, a)
      BY <3>a, <1>3, <2>3 DEF ServesSeed, Says
    <3>2. a \in Answers /\ a.what = "seed" /\ ~a.ok /\ a.val = 0
      BY <3>a DEF Answer
    <3>3. TellsLock(a)' /\ a.val \in 0..seeds'
      BY <1>t, <2>1, <2>3, <3>1, <3>2 DEF TellsLock
    <3> QED
      BY <1>t, <2>2, <2>3, <3>1, <3>2, <3>3
  <2>4. CASE session # Default /\ unlocked
    <3>a. PICK a \in Answers : a = Answer("seed", TRUE, 0)
      BY DEF Answer, Answers, Asked
    <3>1. UNCHANGED <<seed, seeds>> /\ answers' = Append(answers, a)
      BY <3>a, <1>3, <2>4 DEF ServesSeed, Says
    <3>2. a \in Answers /\ a.what = "seed" /\ a.ok /\ a.val = 0
      BY <3>a DEF Answer
    <3>3. TellsLock(a)' /\ a.val \in 0..seeds'
      BY <1>t, <2>1, <2>4, <3>1, <3>2 DEF TellsLock
    <3> QED
      BY <1>t, <2>2, <2>4, <3>1, <3>2, <3>3
  <2>5. CASE session # Default /\ ~unlocked
    <3>a. PICK a \in Answers : a = Answer("seed", TRUE, seeds + 1)
      <4>1. seeds + 1 \in Nat \cup Sessions
        BY <1>t
      <4>2. Answer("seed", TRUE, seeds + 1) \in Answers
        BY <4>1 DEF Answer, Answers, Asked
      <4> QED
        BY <4>2
    <3>1. seeds' = seeds + 1 /\ seed' = seeds + 1 /\ answers' = Append(answers, a)
      BY <3>a, <1>3, <2>5 DEF ServesSeed, Says
    <3>2. a \in Answers /\ a.what = "seed" /\ a.ok /\ a.val = seeds + 1
      BY <3>a DEF Answer
    <3>3. seeds' \in Nat /\ seeds <= seeds' /\ seed' \in 0..seeds' /\ a.val \in 0..seeds' /\ a.val # 0
      BY <1>t, <3>1, <3>2
    <3>4. ~unlocked' /\ seed' = a.val
      BY <2>1, <2>5, <3>1, <3>2
    <3>5. TellsLock(a)'
      BY <3>2, <3>3, <3>4 DEF TellsLock
    <3> QED
      BY <2>2, <2>5, <3>1, <3>2, <3>3, <3>5
  <2> QED
    BY <1>t, <2>3, <2>4, <2>5
<1>4. CASE ServesKey
  <2>1. /\ up /\ requests # <<>> /\ request.what = "key" /\ requests' = Tail(requests)
        /\ UNCHANGED <<client, up, crashes, session, seeds>> /\ seed' = 0
    BY <1>4 DEF ServesKey, Serves
  <2>2. CASE seed # 0 /\ request.val = seed
    <3>a. PICK a \in Answers : a = Answer("key", TRUE, 0)
      BY DEF Answer, Answers, Asked
    <3>1. unlocked' /\ unlocked' \in BOOLEAN /\ answers' = Append(answers, a)
      BY <3>a, <1>4, <2>2 DEF ServesKey, Says
    <3>2. a \in Answers /\ a.what = "key" /\ a.ok
      BY <3>a DEF Answer
    <3>3. Reply(a)
      BY <1>t, <2>1, <2>2, <3>1, <3>2 DEF Reply
    <3> QED
      BY <3>2, <3>3
  <2>3. CASE ~(seed # 0 /\ request.val = seed)
    <3>a. PICK a \in Answers : a = Answer("key", FALSE, 0)
      BY DEF Answer, Answers, Asked
    <3>1. unlocked' = unlocked /\ answers' = Append(answers, a)
      BY <3>a, <1>4, <2>3 DEF ServesKey, Says
    <3>2. a \in Answers /\ a.what = "key" /\ ~a.ok
      BY <3>a DEF Answer
    <3>3. Reply(a)
      BY <1>t, <2>1, <3>1, <3>2 DEF Reply
    <3> QED
      BY <3>2, <3>3
  <2> QED
    BY <2>2, <2>3
<1>5. CASE ServesReset
  <2>a. PICK a \in Answers : a = Answer("reset", TRUE, 0)
    BY DEF Answer, Answers, Asked
  <2>1. /\ up /\ requests # <<>> /\ request.what = "reset" /\ requests' = Tail(requests)
        /\ UNCHANGED <<client, up, crashes, seeds>> /\ session' = Default
        /\ ~unlocked' /\ unlocked' \in BOOLEAN /\ seed' = 0 /\ answers' = Append(answers, a)
    BY <2>a, <1>5 DEF ServesReset, Serves, Says
  <2>2. a \in Answers /\ a.what = "reset"
    BY <2>a DEF Answer
  <2>3. Reply(a)
    BY <1>t, <2>1, <2>2 DEF Reply
  <2> QED
    BY <2>2, <2>3
<1>6. CASE ServesPresent
  <2>a. PICK a \in Answers : a = Answer("present", TRUE, 0)
    BY DEF Answer, Answers, Asked
  <2>1. /\ up /\ requests # <<>> /\ request.what = "present" /\ requests' = Tail(requests)
        /\ UNCHANGED <<client, up, crashes, session, unlocked, seed, seeds>>
        /\ answers' = Append(answers, a)
    BY <2>a, <1>6 DEF ServesPresent, Serves, Says
  <2>2. a \in Answers /\ a.what = "present"
    BY <2>a DEF Answer
  <2>3. Reply(a)
    BY <1>t, <2>1, <2>2 DEF Reply
  <2> QED
    BY <2>2, <2>3
<1>7. CASE ServesDid
  <2>a. PICK a \in Answers : a = Answer("did", TRUE, session)
    BY <1>t DEF Answer, Answers, Asked
  <2>1. /\ up /\ requests # <<>> /\ request.what = "did" /\ requests' = Tail(requests)
        /\ UNCHANGED <<client, up, crashes, session, unlocked, seed, seeds>>
        /\ answers' = Append(answers, a)
    BY <2>a, <1>7 DEF ServesDid, Serves, Says
  <2>2. a \in Answers /\ a.what = "did" /\ a.ok /\ a.val = session
    BY <2>a DEF Answer
  <2>3. Reply(a)
    BY <1>t, <2>1, <2>2 DEF Reply
  <2> QED
    BY <2>2, <2>3
<1> QED
  BY <1>2, <1>3, <1>4, <1>5, <1>6, <1>7 DEF EcuServes


LEMMA ReplyStateInv ==
  ASSUME StateInv, NEW a \in Answers, Reply(a)
  PROVE  StateInv'
<1>1. requests \in Seq(Requests) /\ answers \in Seq(Answers)
  BY LinkTypes
<1>2. requests' \in Seq(Requests)
  BY <1>1, LineTail DEF Reply
<1>3. /\ answers' \in Seq(Answers) /\ DOMAIN answers' = 1..(Len(answers) + 1)
      /\ \A i \in DOMAIN answers : answers'[i] = answers[i]
      /\ answers'[Len(answers) + 1] = a /\ DOMAIN answers = 1..Len(answers) /\ Len(answers) \in Nat
  BY <1>1, LineAppend, LineFacts DEF Reply, LastIn
<1>4. /\ \A i \in DOMAIN answers' : i \in DOMAIN answers \/ answers'[i] = a
  BY <1>3
<1>5. \A i \in DOMAIN answers' : answers'[i].what = "seed" => answers'[i].val \in 0..seeds'
  <2>1. seeds \in Nat /\ seeds' \in Nat /\ seeds <= seeds' /\ 0..seeds \subseteq 0..seeds'
    BY DEF Reply, StateInv, TypeOK
  <2>2. a.what = "seed" => a.val \in 0..seeds'
    BY DEF Reply
  <2> QED
    BY <1>3, <1>4, <2>1, <2>2 DEF StateInv, LockInv
<1>6. LockInv'
  BY <1>5 DEF Reply, LockInv
<1>7. ClientType'
  BY <1>2 DEF Reply, client, StateInv, ClientType, TypeOK
<1> QED
  BY <1>2, <1>3, <1>6, <1>7 DEF Reply, client, StateInv, TypeOK, Requests, Answers, ClientType, BreakInv

-----------------------------------------------------------------------------
(* Types, the exchange each operation is in, and the lock of the ECU.      *)

LEMMA ClientStateInv ==
  ASSUME StateInv, ClientType', UNCHANGED <<ecu>>, answers' = answers \/ (answers # <<>> /\ answers' = Tail(answers)),
         op' \in {"none"} \cup Operations, calls' \in Nat, late' \in BOOLEAN, cut' \in BOOLEAN,
         sawUp' \in BOOLEAN, sawDown' \in BOOLEAN,
         failed' \in BOOLEAN, broken' = FALSE
  PROVE  StateInv'
<1>1. answers \in Seq(Answers)
  BY LinkTypes
<1>2. answers' \in Seq(Answers) /\ \A i \in DOMAIN answers' : \E j \in DOMAIN answers : answers'[i] = answers[j]
  BY <1>1, LineTail
<1>3. LockInv'
  BY <1>2 DEF StateInv, LockInv, ecu
<1> QED
  BY <1>2, <1>3 DEF StateInv, TypeOK, ClientType, BreakInv, Requests, Answers, ecu

LEMMA NextStateInv == StateInv /\ [Next]_vars => StateInv'
<1> SUFFICES ASSUME StateInv, [Next]_vars PROVE StateInv'
  OBVIOUS
<1>t. /\ op \in {"none"} \cup Operations /\ calls \in Nat /\ late \in BOOLEAN /\ cut \in BOOLEAN
      /\ sawUp \in BOOLEAN /\ sawDown \in BOOLEAN /\ up \in BOOLEAN
      /\ failed \in BOOLEAN /\ broken \in BOOLEAN /\ (broken => failed /\ pc # "idle")
      /\ requests \in Seq(Requests) /\ answers \in Seq(Answers)
  BY LinkTypes DEF StateInv, TypeOK, BreakInv
<1>1. ASSUME NEW o \in Operations, Start(o) PROVE StateInv'
  <2>1. /\ op' = o /\ calls' = calls + 1 /\ late' = OnTheWay(SidsOf(o)) /\ cut' = FALSE
        /\ sawUp' = up /\ sawDown' = ~up /\ answers' = answers /\ UNCHANGED ecu
        /\ failed' = FALSE /\ broken' = FALSE
    BY <1>1, <1>t DEF Start
  <2>2. late' \in BOOLEAN
    BY <2>1 DEF OnTheWay
  <2>3. ClientType'
    BY <1>1, StartType
  <2>4. calls' \in Nat
    BY <1>t, <2>1
  <2>6. cut' \in BOOLEAN /\ sawUp' \in BOOLEAN
    BY <1>t, <2>1
  <2>5. sawDown' \in BOOLEAN
    BY <2>1
  <2> QED
    BY <1>1, <2>1, <2>2, <2>3, <2>4, <2>5, <2>6, ClientStateInv
<1>2. CASE OtherService
  <2>1. ClientType'
    BY <1>2 DEF OtherService, client, StateInv, ClientType, ecu
  <2> QED
    BY <1>2, <1>t, <2>1, ClientStateInv DEF OtherService, client
<1>3. CASE TakeAnswer
  <2>1. ClientType'
    BY <1>3, AnsweredType DEF TakeAnswer, ecu
  <2> QED
    BY <1>3, <1>t, <2>1, ClientStateInv DEF TakeAnswer
<1>4. CASE Silence
  <2>1. ClientType'
    BY <1>4, NoAnswerType DEF Silence
  <2>2. cut' \in BOOLEAN
    BY <1>4, <1>t DEF Silence
  <2> QED
    BY <1>4, <1>t, <2>1, <2>2, ClientStateInv DEF Silence
<1>5. CASE Malformed
  <2>1. ClientType'
    BY <1>5, NoAnswerType DEF Malformed
  <2>2. cut' \in BOOLEAN
    BY <1>5 DEF Malformed
  <2> QED
    BY <1>5, <1>t, <2>1, <2>2, ClientStateInv DEF Malformed
<1>6. CASE EcuServes
  BY <1>6, EcuReplies, ReplyStateInv
<1>7. CASE Crash
  <2>1. requests' = <<>> /\ crashes' \in Nat
    BY <1>7 DEF Crash, StateInv, TypeOK
  <2>3. <<>> \in Seq(Requests)
    BY EmptySeq
  <2>4. sawDown' \in BOOLEAN /\ unlocked' \in BOOLEAN /\ ~unlocked' /\ up' \in BOOLEAN
    BY <1>7 DEF Crash
  <2>2. ClientType' /\ LockInv' /\ BreakInv'
    BY <1>7, <2>1, <2>3, <2>4 DEF Crash, StateInv, ClientType, LockInv, BreakInv
  <2> QED
    BY <1>7, <2>1, <2>2, <2>3, <2>4 DEF Crash, StateInv, TypeOK, ClientType, Requests
<1>8. CASE Restart
  <2>1. up' \in BOOLEAN /\ sawUp' \in BOOLEAN
    BY <1>8 DEF Restart
  <2> QED
    BY <1>8, <2>1 DEF Restart, link, StateInv, ClientType, LockInv, BreakInv, TypeOK
<1>9. CASE NobodyListens
  <2>1. requests' \in Seq(Requests)
    BY <1>9, <1>t, LineTail DEF NobodyListens
  <2> QED
    BY <1>9, <2>1 DEF NobodyListens, client, ecu, StateInv, ClientType, LockInv, BreakInv, TypeOK, Requests
<1>10. CASE UNCHANGED vars
  BY <1>10 DEF vars, client, link, ecu, StateInv, ClientType, LockInv, BreakInv, TypeOK
<1>11. CASE LinkFails
  <2>1. requests' \in Seq(Requests) /\ answers' \in Seq(Answers)
        /\ \A i \in DOMAIN answers' : i \in DOMAIN answers /\ answers'[i] = answers[i]
    BY <1>11, <1>t, LineBreaks
  <2>2. LockInv'
    BY <1>11, <2>1 DEF LinkFails, StateInv, LockInv, ecu
  <2> QED
    BY <1>11, <2>1, <2>2 DEF LinkFails, StateInv, ClientType, BreakInv, TypeOK, Requests, Answers, ecu
<1>12. CASE LinkRaises
  <2>1. ClientType' /\ broken' = FALSE /\ failed' \in BOOLEAN
    BY <1>12, <1>t, NoAnswerType DEF LinkRaises, ecu
  <2> QED
    BY <1>12, <1>t, <2>1, ClientStateInv DEF LinkRaises
<1> QED
  BY <1>1, <1>2, <1>3, <1>4, <1>5, <1>6, <1>7, <1>8, <1>9, <1>10, <1>11, <1>12
     DEF Next, ClientStep, AllCallsDone


-----------------------------------------------------------------------------
(* Which request is on its way, and which answer.                          *)

NoneAsked(sid) == \A i \in DOMAIN requests : Sid(requests[i].what) # sid
NoneAnswered(sid) == \A i \in DOMAIN answers : Sid(answers[i].what) # sid

(* The request of this exchange is the last in line, and of its service    *)
(* there is no other, nor an answer.                                       *)
Asking ==
  /\ requests # <<>> /\ LastIn(requests).what = pc
  /\ \A i \in DOMAIN requests : i < Len(requests) => Sid(requests[i].what) # Sid(pc)
  /\ NoneAnswered(Sid(pc))

(* It was served after all others, and its answer is the last in line.     *)
Served ==
  /\ requests = <<>> /\ answers # <<>> /\ LastIn(answers).what = pc
  /\ \A i \in DOMAIN answers : i < Len(answers) => Sid(answers[i].what) # Sid(pc)

OnlySecurity == \A i \in DOMAIN requests : requests[i].what \in {"seed", "key"}

LEMMA AskedIsLast ==
  ASSUME StateInv, NEW what \in Asked, NEW val \in Nat \cup Sessions, Ask(what, val),
         NoneAsked(Sid(what)), NoneAnswered(Sid(what))'
  PROVE  Asking' /\ LastIn(requests)' = Request(what, val) /\ Len(requests') = Len(requests) + 1
<1>1. /\ pc' = what /\ requests' # <<>> /\ LastIn(requests)' = Request(what, val)
      /\ Len(requests') = Len(requests) + 1
      /\ \A i \in DOMAIN requests' : i < Len(requests') => i \in DOMAIN requests /\ requests'[i] = requests[i]
  BY AskType
<1>2. \A i \in DOMAIN requests' : i < Len(requests') => Sid(requests'[i].what) # Sid(what)
  BY <1>1 DEF NoneAsked
<1> QED
  BY <1>1, <1>2 DEF Asking, Request, NoneAnswered, Sid

(* A request of another service changes nothing of the rest.               *)
LEMMA AskedAdds ==
  ASSUME StateInv, NEW what \in Asked, NEW val \in Nat \cup Sessions, Ask(what, val)
  PROVE  /\ \A sid : NoneAsked(sid) /\ Sid(what) # sid => NoneAsked(sid)'
         /\ OnlySecurity /\ what \in {"seed", "key"} => OnlySecurity'
<1>1. /\ LastIn(requests)' = Request(what, val) /\ requests' \in Seq(Requests)
      /\ \A i \in DOMAIN requests' : i < Len(requests') => i \in DOMAIN requests /\ requests'[i] = requests[i]
  BY AskType
<1>2. Len(requests') \in Nat /\ DOMAIN requests' = 1..Len(requests')
  BY <1>1, LineFacts
<1>3. \A i \in DOMAIN requests' : \/ i \in DOMAIN requests /\ requests'[i] = requests[i]
                                  \/ requests'[i].what = what
  <2> SUFFICES ASSUME NEW i \in DOMAIN requests', ~(i < Len(requests')) PROVE requests'[i].what = what
    BY <1>1
  <2>1. i = Len(requests')
    BY <1>2
  <2> QED
    BY <1>1, <2>1 DEF LastIn, Request
<1> QED
  BY <1>3 DEF NoneAsked, OnlySecurity

LEMMA ReplyInTurn ==
  ASSUME StateInv, NEW a \in Answers, Reply(a)
  PROVE  /\ Asking => \/ Asking' /\ LastIn(requests)' = LastIn(requests) /\ Len(requests') = Len(requests) - 1
                         /\ Len(requests) > 1
                      \/ Served' /\ LastIn(answers)' = a /\ request = LastIn(requests) /\ a.what = pc
         /\ ~Served
         /\ \A sid : NoneAsked(sid) => NoneAsked(sid)' /\ (NoneAnswered(sid) => NoneAnswered(sid)')
         /\ OnlySecurity => OnlySecurity' /\ a.what \in {"seed", "key"}
<1>1. /\ requests \in Seq(Requests) /\ requests # <<>> /\ requests' = Tail(requests)
      /\ answers \in Seq(Answers) /\ answers' = Append(answers, a) /\ a.what = request.what /\ pc' = pc
  BY LinkTypes DEF Reply, client
<1>2. /\ Len(requests) \in Nat /\ Len(requests) > 0 /\ request = requests[1] /\ 1 \in DOMAIN requests
      /\ DOMAIN requests = 1..Len(requests)
  BY <1>1, LineFacts DEF request
<1>3. /\ Len(requests') = Len(requests) - 1 /\ DOMAIN requests' = 1..(Len(requests) - 1)
      /\ \A i \in DOMAIN requests' : i + 1 \in DOMAIN requests /\ requests'[i] = requests[i + 1]
      /\ Len(requests) > 1 => requests' # <<>> /\ LastIn(requests') = LastIn(requests)
      /\ Len(requests) = 1 => requests' = <<>> /\ request = LastIn(requests)
  BY <1>1, LineTail DEF request
<1>4. /\ Len(answers') = Len(answers) + 1 /\ answers' # <<>> /\ LastIn(answers') = a
      /\ DOMAIN answers' = 1..(Len(answers) + 1) /\ Len(answers) \in Nat /\ DOMAIN answers = 1..Len(answers)
      /\ \A i \in DOMAIN answers : answers'[i] = answers[i]
  BY <1>1, LineAppend, LineFacts
<1>5. \A i \in DOMAIN answers' : (i \in DOMAIN answers /\ answers'[i] = answers[i]) \/ (i = Len(answers') /\ answers'[i] = a)
  BY <1>4 DEF LastIn
<1>6. \A sid : NoneAsked(sid) => NoneAsked(sid)' /\ (NoneAnswered(sid) => NoneAnswered(sid)')
  BY <1>1, <1>2, <1>3, <1>5 DEF NoneAsked, NoneAnswered
<1>7. OnlySecurity => OnlySecurity' /\ a.what \in {"seed", "key"}
  BY <1>1, <1>2, <1>3 DEF OnlySecurity
<1>8. CASE Asking /\ Len(requests) > 1
  <2>1. Sid(a.what) # Sid(pc)
    BY <1>1, <1>2, <1>8 DEF Asking
  <2>2. \A i \in DOMAIN requests' : i < Len(requests') => Sid(requests'[i].what) # Sid(pc)
    BY <1>2, <1>3, <1>8 DEF Asking
  <2>3. NoneAnswered(Sid(pc))'
    BY <1>1, <1>5, <1>8, <2>1 DEF Asking, NoneAnswered, Sid
  <2>4. Asking'
    BY <1>1, <1>3, <1>8, <2>2, <2>3 DEF Asking, Sid, LastIn
  <2>5. LastIn(requests)' = LastIn(requests)
    BY <1>3, <1>8 DEF LastIn
  <2> QED
    BY <1>1, <1>3, <1>6, <1>7, <1>8, <2>4, <2>5 DEF Served
<1>9. CASE Asking /\ Len(requests) = 1
  <2>1. requests' = <<>> /\ request = LastIn(requests) /\ a.what = pc
    BY <1>1, <1>3, <1>9 DEF Asking
  <2>2. \A i \in DOMAIN answers' : i < Len(answers') => Sid(answers'[i].what) # Sid(pc)
    BY <1>4, <1>5, <1>9 DEF Asking, NoneAnswered
  <2>3. Served' /\ LastIn(answers)' = a
    BY <1>1, <1>4, <2>1, <2>2 DEF Served, Sid, LastIn
  <2> QED
    BY <1>1, <1>6, <1>7, <2>1, <2>3 DEF Served
<1> QED
  BY <1>1, <1>2, <1>6, <1>7, <1>8, <1>9 DEF Served

(* An answer is taken from the queue. *)
LEMMA TakenInTurn ==
  ASSUME StateInv, answers # <<>>, answers' = Tail(answers)
  PROVE  /\ \A sid : NoneAnswered(sid) => NoneAnswered(sid)'
         /\ Asking => Sid(Head(answers).what) # Sid(pc)
         /\ Served /\ Sid(Head(answers).what) = Sid(pc)
              => answers' = <<>> /\ Head(answers) = LastIn(answers) /\ Head(answers).what = pc
         /\ Served /\ Sid(Head(answers).what) # Sid(pc) /\ UNCHANGED <<pc, requests>>
              => Served' /\ LastIn(answers)' = LastIn(answers)
         /\ Asking /\ UNCHANGED <<pc, requests>> => Asking' /\ LastIn(requests)' = LastIn(requests)
<1>1. answers \in Seq(Answers)
  BY LinkTypes
<1>2. /\ Len(answers) \in Nat /\ Len(answers) > 0 /\ Head(answers) = answers[1] /\ 1 \in DOMAIN answers
      /\ DOMAIN answers = 1..Len(answers)
  BY <1>1, LineFacts
<1>3. /\ Len(answers') = Len(answers) - 1 /\ DOMAIN answers' = 1..(Len(answers) - 1)
      /\ \A i \in DOMAIN answers' : i + 1 \in DOMAIN answers /\ answers'[i] = answers[i + 1]
      /\ Len(answers) > 1 => answers' # <<>> /\ LastIn(answers') = LastIn(answers)
      /\ Len(answers) = 1 => answers' = <<>> /\ Head(answers) = LastIn(answers)
  BY <1>1, LineTail
<1>4. \A sid : NoneAnswered(sid) => NoneAnswered(sid)'
  BY <1>3 DEF NoneAnswered
<1>5. Asking => Sid(Head(answers).what) # Sid(pc)
  BY <1>2 DEF Asking, NoneAnswered
<1>6. Served /\ Sid(Head(answers).what) = Sid(pc)
        => answers' = <<>> /\ Head(answers) = LastIn(answers) /\ Head(answers).what = pc
  BY <1>2, <1>3 DEF Served
<1>7. Served /\ Sid(Head(answers).what) # Sid(pc) => Len(answers) > 1
  BY <1>2, <1>3 DEF Served
<1>8. ASSUME Served, Sid(Head(answers).what) # Sid(pc), UNCHANGED <<pc, requests>>
      PROVE  Served' /\ LastIn(answers)' = LastIn(answers)
  <2>1. \A i \in DOMAIN answers' : i < Len(answers') => Sid(answers'[i].what) # Sid(pc)
    BY <1>2, <1>3, <1>8 DEF Served
  <2>2. answers' # <<>> /\ LastIn(answers)' = LastIn(answers)
    BY <1>3, <1>7, <1>8 DEF LastIn
  <2> QED
    BY <1>8, <2>1, <2>2 DEF Served, Sid
<1>9. ASSUME Asking, UNCHANGED <<pc, requests>> PROVE Asking' /\ LastIn(requests)' = LastIn(requests)
  BY <1>4, <1>9 DEF Asking, LastIn, Sid, NoneAnswered
<1> QED
  BY <1>4, <1>5, <1>6, <1>8, <1>9



-----------------------------------------------------------------------------
(* transit_to_session and recover. *)

(* While nothing late is in the way and the ECU does not go down, it is in *)
(* the session of the step of the route that was answered, and the request *)
(* or the answer of this step is the only one for a session.               *)
RouteInv ==
  op \in {"transit", "recover"} /\ ~late /\ ~sawDown =>
    /\ pc = "session" /\ ~broken =>
         \/ Asking /\ LastIn(requests).val = Route[step].id
         \/ Served /\ (LastIn(answers).ok => session = Route[step].id)
    /\ pc \in {"seed", "key"} => NoneAsked("session") /\ NoneAnswered("session")
    /\ pc \in {"seed", "key"} /\ step > 0 => session = Route[step].id /\ OnlySecurity
    /\ pc = "idle" /\ result = "True" => session = Target /\ OnlySecurity

LEMMA RouteAsks ==
  ASSUME StateInv, session' = session, NEW i \in 1..Len(Route), AskSession(i),
         NoneAsked("session"), NoneAnswered("session")'
  PROVE  RouteInv'
<1>1. "session" \in Asked /\ Route[i].id \in Nat \cup Sessions /\ Sid("session") = "session"
  BY RouteStep DEF Asked, Sid
<1>2. Ask("session", Route[i].id) /\ pc' = "session" /\ step' = i
  BY DEF AskSession, Ask
<1>3. Asking' /\ LastIn(requests)' = Request("session", Route[i].id)
  BY <1>1, <1>2, AskedIsLast
<1>4. Asking' /\ LastIn(requests)'.val = Route[step'].id
  BY <1>2, <1>3 DEF Request
<1> QED
  BY <1>2, <1>4 DEF RouteInv

LEMMA RouteNext ==
  ASSUME StateInv, session' = session, NextSession,
         NoneAsked("session"), NoneAnswered("session")',
         step > 0 => session = Route[step].id /\ OnlySecurity
  PROVE  RouteInv'
<1>1. step \in 0..Len(Route) /\ Len(Route) \in Nat /\ Len(Route) > 0
  BY RouteLength DEF StateInv, ClientType
<1>2. CASE step < Len(Route)
  <2>1. step + 1 \in 1..Len(Route) /\ AskSession(step + 1)
    BY <1>1, <1>2 DEF NextSession
  <2>2. PICK i \in 1..Len(Route) : i = step + 1
    BY <2>1
  <2> QED
    BY <2>1, <2>2, RouteAsks
<1>3. CASE ~(step < Len(Route))
  <2>1. pc' = "idle" /\ requests' = requests
    BY <1>3 DEF NextSession, Return
  <2>2. session = Target /\ OnlySecurity
    BY <1>1, <1>3 DEF Target
  <2>3. session' = Target /\ OnlySecurity'
    BY <2>1, <2>2 DEF OnlySecurity
  <2> QED
    BY <2>1, <2>3 DEF RouteInv, Target
<1> QED
  BY <1>2, <1>3

LEMMA RouteElevates ==
  ASSUME StateInv, UNCHANGED <<session, step>>, NEW what \in {"seed", "key"}, NEW val \in Nat \cup Sessions,
         Ask(what, val), NoneAsked("session"), NoneAnswered("session")',
         step > 0 => session = Route[step].id /\ OnlySecurity
  PROVE  RouteInv'
<1>1. what \in Asked /\ Sid(what) # "session" /\ pc' = what
  BY DEF Asked, Sid, Ask
<1>2. NoneAsked("session")' /\ (OnlySecurity => OnlySecurity')
  BY <1>1, AskedAdds
<1> QED
  BY <1>1, <1>2 DEF RouteInv

LEMMA RouteFails ==
  ASSUME NEW value \in {"False", "raised"}, Return(value)
  PROVE  RouteInv'
BY DEF RouteInv, Return


LEMMA RouteGoesOn ==
  ASSUME StateInv, RouteInv, op \in {"transit", "recover"}, ~late, ~sawDown, session' = session,
         answers' = answers \/ (answers # <<>> /\ answers' = Tail(answers)),
         pc \in {"seed", "key"}, NEW value, SecurityDone(value)
  PROVE  RouteInv'
<1>1. NextSession
  BY DEF SecurityDone
<1>2. NoneAsked("session") /\ NoneAnswered("session") /\ (step > 0 => session = Route[step].id /\ OnlySecurity)
  BY DEF RouteInv
<1>3. NoneAnswered("session")'
  BY <1>2, TakenInTurn DEF NoneAnswered
<1> QED
  BY <1>1, <1>2, <1>3, RouteNext

LEMMA RouteNoAnswer ==
  ASSUME StateInv, RouteInv, op \in {"transit", "recover"}, ~late, ~sawDown, session' = session,
         answers' = answers \/ (answers # <<>> /\ answers' = Tail(answers)),
         pc # "idle", NEW why, NoAnswer(why)
  PROVE  RouteInv'
<1>1. CASE pc = "session"
  BY <1>1, RouteFails DEF NoAnswer
<1>2. CASE pc \in {"seed", "key"}
  BY <1>2, RouteGoesOn DEF NoAnswer
<1> QED
  BY <1>1, <1>2 DEF StateInv, ClientType, Asked

LEMMA RouteAnswered ==
  ASSUME StateInv, RouteInv, op \in {"transit", "recover"}, ~late, ~sawDown, TakeAnswer
  PROVE  RouteInv'
<1> DEFINE a == Head(answers)
<1>1. /\ pc # "idle" /\ answers # <<>> /\ Sid(a.what) = Sid(pc) /\ Answered(a) /\ answers' = Tail(answers)
      /\ session' = session /\ a \in Answers /\ ~broken
  <2>1. answers \in Seq(Answers)
    BY LinkTypes
  <2> QED
    BY <2>1, LineFacts DEF TakeAnswer, ecu
<1>2. CASE pc = "session"
  <2>0. SessionAnswered(a) /\ Sid(pc) = "session"
    BY <1>1, <1>2 DEF Answered, Sid
  <2>1. CASE ~a.ok
    BY <2>0, <2>1, RouteFails DEF SessionAnswered
  <2>2. CASE a.ok
    <3>1. Served /\ (LastIn(answers).ok => session = Route[step].id)
      BY <1>1, <1>2, TakenInTurn DEF RouteInv
    <3>2. a = LastIn(answers) /\ answers' = <<>> /\ requests = <<>>
      BY <1>1, <3>1, TakenInTurn DEF Served
    <3>3. session = Route[step].id
      BY <2>2, <3>1, <3>2
    <3>4. NoneAsked("session") /\ OnlySecurity /\ NoneAnswered("session")'
      BY <3>2, LineFacts DEF NoneAsked, OnlySecurity, NoneAnswered
    <3>5. CASE Route[step].elevate
      <4>1. Ask("seed", 0) /\ UNCHANGED step
        BY <2>0, <2>2, <3>5 DEF SessionAnswered
      <4> QED
        BY <1>1, <3>3, <3>4, <4>1, RouteElevates
    <3>6. CASE ~Route[step].elevate
      <4>1. NextSession
        BY <2>0, <2>2, <3>6 DEF SessionAnswered
      <4> QED
        BY <1>1, <3>3, <3>4, <4>1, RouteNext
    <3> QED
      BY <3>5, <3>6
  <2> QED
    BY <2>1, <2>2
<1>3. CASE pc = "seed"
  <2>1. SeedAnswered(a)
    BY <1>1, <1>3 DEF Answered
  <2>2. CASE ~(a.ok /\ a.what = "seed" /\ a.val # 0)
    BY <1>1, <1>3, <2>1, <2>2, RouteGoesOn DEF SeedAnswered
  <2>3. CASE a.ok /\ a.what = "seed" /\ a.val # 0
    <3>1. PICK key \in KeysFor(a.val) : Ask("key", key) /\ UNCHANGED step
      BY <2>1, <2>3 DEF SeedAnswered
    <3>2. key \in Nat \cup Sessions
      BY <1>1 DEF KeysFor, Answers
    <3>3. NoneAsked("session") /\ NoneAnswered("session") /\ (step > 0 => session = Route[step].id /\ OnlySecurity)
      BY <1>3 DEF RouteInv
    <3>4. NoneAnswered("session")'
      BY <1>1, <3>3, TakenInTurn
    <3> QED
      BY <1>1, <3>1, <3>2, <3>3, <3>4, RouteElevates
  <2> QED
    BY <2>2, <2>3
<1>4. CASE pc = "key"
  <2>1. KeyAnswered(a)
    BY <1>1, <1>4 DEF Answered
  <2> QED
    BY <1>1, <1>4, <2>1, RouteGoesOn DEF KeyAnswered
<1> QED
  BY <1>1, <1>2, <1>3, <1>4 DEF StateInv, ClientType, Asked


LEMMA RouteReply ==
  ASSUME StateInv, RouteInv, op \in {"transit", "recover"}, ~late, ~sawDown, NEW a \in Answers, Reply(a)
  PROVE  RouteInv'
<1>1. UNCHANGED <<pc, op, step, result, late, sawDown, broken>> /\ (a.what \in {"seed", "key"} => session' = session)
  BY DEF Reply, client
<1>2. CASE pc = "session" /\ ~broken
  <2>1. Asking /\ LastIn(requests).val = Route[step].id
    BY <1>2, ReplyInTurn DEF RouteInv
  <2>2. CASE Asking' /\ LastIn(requests)' = LastIn(requests)
    BY <1>1, <1>2, <2>1, <2>2 DEF RouteInv
  <2>3. CASE Served' /\ LastIn(answers)' = a /\ request = LastIn(requests) /\ a.what = pc
    <3>1. a.ok => session' = Route[step].id
      BY <1>2, <2>1, <2>3 DEF Reply
    <3> QED
      BY <1>1, <1>2, <2>3, <3>1 DEF RouteInv
  <2> QED
    BY <2>1, <2>2, <2>3, ReplyInTurn
<1>3. CASE pc \in {"seed", "key"}
  <2>1. NoneAsked("session")' /\ NoneAnswered("session")'
    BY <1>3, ReplyInTurn DEF RouteInv
  <2>2. step > 0 => session' = Route[step].id /\ OnlySecurity'
    BY <1>1, <1>3, ReplyInTurn DEF RouteInv
  <2> QED
    BY <1>1, <1>3, <2>1, <2>2 DEF RouteInv
<1>4. CASE pc = "idle"
  <2>1. result = "True" => session' = Target /\ OnlySecurity'
    BY <1>1, <1>4, ReplyInTurn DEF RouteInv
  <2> QED
    BY <1>1, <1>4, <2>1 DEF RouteInv, Target
<1>5. CASE pc = "session" /\ broken
  BY <1>1, <1>5 DEF RouteInv
<1> QED
  BY <1>1, <1>2, <1>3, <1>4, <1>5 DEF RouteInv

(* Nothing is late for an operation that starts: there is neither a request *)
(* nor an answer of its services on the line.                               *)
LEMMA NothingLate ==
  ASSUME NEW o, Start(o), ~late', NEW sid \in SidsOf(o)
  PROVE  NoneAsked(sid) /\ NoneAnswered(sid) /\ NoneAnswered(sid)'
<1>1. ~OnTheWay(SidsOf(o)) /\ answers' = answers
  BY DEF Start
<1>2. NoneAsked(sid) /\ NoneAnswered(sid)
  BY <1>1 DEF OnTheWay, NoneAsked, NoneAnswered
<1> QED
  BY <1>1, <1>2 DEF NoneAnswered

LEMMA RouteStarts ==
  ASSUME StateInv, NEW o \in Operations, Start(o)
  PROVE  RouteInv'
<1>1. SUFFICES ASSUME o \in {"transit", "recover"}, ~late' PROVE RouteInv'
  BY DEF Start, RouteInv
<1>2. "session" \in SidsOf(o)
  BY <1>1 DEF SidsOf
<1>3. NoneAsked("session") /\ NoneAnswered("session")'
  BY <1>1, <1>2, NothingLate
<1>4. session' = session
  BY DEF Start, ecu
<1>5. CASE AskSession(1)
  BY <1>3, <1>4, <1>5, RouteAsks, RouteLength
<1>6. CASE Ask("seed", 0) /\ step' = 0
  <2>1. pc' = "seed" /\ Sid("seed") # "session" /\ "seed" \in Asked
    BY <1>6 DEF Ask, Sid, Asked
  <2>2. NoneAsked("session")'
    BY <1>3, <1>6, <2>1, AskedAdds
  <2> QED
    BY <1>3, <1>6, <2>1, <2>2 DEF RouteInv
<1> QED
  BY <1>1, <1>5, <1>6 DEF Start

(* Whether the ECU was seen up or down follows whether it is.              *)
SeenInv == (~sawDown => up) /\ (~sawUp => ~up)

LEMMA SeenKept == StateInv /\ SeenInv /\ [Next]_vars => SeenInv'
<1> SUFFICES ASSUME StateInv, SeenInv, [Next]_vars PROVE SeenInv'
  OBVIOUS
<1>1. ASSUME NEW o \in Operations, Start(o) PROVE SeenInv'
  BY <1>1 DEF Start, SeenInv, ecu
<1>2. CASE ClientStep
  BY <1>2 DEF ClientStep, OtherService, TakeAnswer, Silence, Malformed, LinkFails, LinkRaises, SeenInv, ecu, client
<1>3. CASE EcuServes
  <2>1. PICK a \in Answers : Reply(a)
    BY <1>3, EcuReplies
  <2> QED
    BY <2>1 DEF Reply, client, SeenInv
<1>4. CASE Crash \/ Restart \/ NobodyListens \/ UNCHANGED vars
  BY <1>4 DEF Crash, Restart, NobodyListens, SeenInv, vars, ecu, client
<1> QED
  BY <1>1, <1>2, <1>3, <1>4 DEF Next, AllCallsDone

LEMMA RouteKept ==
  ASSUME StateInv, SeenInv, RouteInv, [Next]_vars
  PROVE  RouteInv'
<1>1. ASSUME NEW o \in Operations, Start(o) PROVE RouteInv'
  BY <1>1, RouteStarts
<1>2. SUFFICES ASSUME op \in {"transit", "recover"}, ~late, ~sawDown,
                      ClientStep \/ EcuServes \/ NobodyListens \/ UNCHANGED vars
               PROVE  RouteInv'
  <2>1. CASE Crash \/ Restart
    BY <2>1 DEF Crash, Restart, SeenInv, RouteInv
  <2>2. CASE ~(op \in {"transit", "recover"} /\ ~late /\ ~sawDown) /\ (ClientStep \/ NobodyListens \/ UNCHANGED vars)
    BY <2>2 DEF ClientStep, OtherService, TakeAnswer, Silence, Malformed, LinkFails, LinkRaises, NobodyListens,
                 RouteInv, client, vars
  <2>3. CASE ~(op \in {"transit", "recover"} /\ ~late /\ ~sawDown) /\ EcuServes
    <3>1. PICK a \in Answers : Reply(a)
      BY <2>3, EcuReplies
    <3> QED
      BY <2>3, <3>1 DEF Reply, client, RouteInv
  <2> QED
    BY <1>1, <2>1, <2>2, <2>3 DEF Next, AllCallsDone
<1>3. CASE OtherService
  <2>1. /\ answers # <<>> /\ answers' = Tail(answers) /\ Sid(Head(answers).what) # Sid(pc)
        /\ UNCHANGED <<client, requests, ecu>>
    BY <1>3 DEF OtherService
  <2>2. /\ NoneAnswered("session") => NoneAnswered("session")'
        /\ Asking => Asking' /\ LastIn(requests)' = LastIn(requests)
        /\ Served => Served' /\ LastIn(answers)' = LastIn(answers)
    BY <2>1, TakenInTurn DEF client
  <2>3. /\ NoneAsked("session") => NoneAsked("session")'
        /\ OnlySecurity => OnlySecurity'
    BY <2>1 DEF NoneAsked, OnlySecurity
  <2> QED
    BY <1>2, <2>1, <2>2, <2>3 DEF client, ecu, RouteInv, Target
<1>4. CASE TakeAnswer
  BY <1>2, <1>4, RouteAnswered
<1>5. CASE Silence \/ Malformed \/ LinkRaises
  <2>1. /\ pc # "idle" /\ session' = session
        /\ NoAnswer("NoResponse") \/ NoAnswer("other") \/ NoAnswer("LinkError")
        /\ answers' = answers \/ (answers # <<>> /\ answers' = Tail(answers))
    BY <1>5 DEF Silence, Malformed, LinkRaises, StateInv, BreakInv, ecu
  <2> QED
    BY <1>2, <2>1, RouteNoAnswer
<1>6. CASE EcuServes
  BY <1>2, <1>6, EcuReplies, RouteReply
<1>7. CASE NobodyListens
  BY <1>2, <1>7 DEF NobodyListens, SeenInv
<1>8. CASE UNCHANGED vars
  <2>1. UNCHANGED <<pc, op, step, result, late, sawDown, broken, requests, answers, session>>
    BY <1>8 DEF vars, client, link, ecu
  <2> QED
    BY <2>1 DEF RouteInv, Asking, Served, NoneAsked, NoneAnswered, OnlySecurity, LastIn, Sid, Target
<1>9. CASE LinkFails
  <2>1. UNCHANGED <<pc, op, step, result, late, sawDown, session>> /\ broken' /\ pc # "idle"
    BY <1>9 DEF LinkFails, ecu
  <2>2. /\ NoneAsked("session") => NoneAsked("session")'
        /\ NoneAnswered("session") => NoneAnswered("session")'
        /\ OnlySecurity => OnlySecurity'
    BY <1>9, LinkTypes, LineBreaks DEF NoneAsked, NoneAnswered, OnlySecurity
  <2> QED
    BY <1>2, <2>1, <2>2 DEF RouteInv
<1> QED
  BY <1>2, <1>3, <1>4, <1>5, <1>6, <1>7, <1>8, <1>9 DEF ClientStep


-----------------------------------------------------------------------------
(* security_access on its own. *)

(* The seed and the key awaited are the last answered, their answer tells  *)
(* the lock, and once one was awaited in vain nothing more is said.        *)
SecurityInv ==
  op = "security" /\ ~late /\ ~sawDown =>
    /\ pc = "seed" /\ ~broken => Asking \/ (Served /\ TellsLock(LastIn(answers)))
    /\ pc = "key" /\ ~broken => \/ Asking /\ Len(requests) = 1 /\ ~unlocked
                                \/ Served /\ (LastIn(answers).ok <=> unlocked)
    /\ pc = "idle" => /\ result = "True" => unlocked /\ requests = <<>>
                      /\ ~cut /\ ~failed => requests = <<>> /\ (unlocked => result = "True")

LEMMA SecurityStarts ==
  ASSUME StateInv, NEW o \in Operations, Start(o)
  PROVE  SecurityInv'
<1>1. SUFFICES ASSUME o = "security", ~late' PROVE SecurityInv'
  BY DEF Start, SecurityInv
<1>2. Ask("seed", 0) /\ pc' = "seed" /\ "seed" \in Asked /\ Sid("seed") = "securityAccess"
  BY <1>1 DEF Start, Ask, Asked, Sid
<1>3. NoneAsked("securityAccess") /\ NoneAnswered("securityAccess")'
  <2>1. "securityAccess" \in SidsOf(o)
    BY <1>1 DEF SidsOf
  <2> QED
    BY <1>1, <2>1, NothingLate
<1>4. Asking'
  BY <1>2, <1>3, AskedIsLast
<1> QED
  BY <1>2, <1>4 DEF SecurityInv

LEMMA SecurityAnswered ==
  ASSUME StateInv, SecurityInv, op = "security", ~late, ~sawDown, TakeAnswer
  PROVE  SecurityInv'
<1> DEFINE a == Head(answers)
<1>1. /\ pc # "idle" /\ answers # <<>> /\ Sid(a.what) = Sid(pc) /\ Answered(a) /\ answers' = Tail(answers)
      /\ UNCHANGED <<op, unlocked, cut>> /\ a \in Answers /\ ~broken /\ failed' = failed
  <2>1. answers \in Seq(Answers)
    BY LinkTypes
  <2> QED
    BY <2>1, LineFacts DEF TakeAnswer, ecu
<1>2. pc \in {"seed", "key"}
  BY <1>1 DEF StateInv, ClientType, Asked
<1>3. ~Asking
  BY <1>1, TakenInTurn
<1>4. /\ Served => a = LastIn(answers) /\ a.what = pc /\ answers' = <<>> /\ requests = <<>>
  BY <1>1, TakenInTurn DEF Served
<1>5. CASE pc = "seed"
  <2>1. SeedAnswered(a)
    BY <1>1, <1>5 DEF Answered
  <2>2. Served /\ TellsLock(LastIn(answers))
    BY <1>1, <1>3, <1>5 DEF SecurityInv
  <2>3. TellsLock(a) /\ a.what = "seed" /\ answers' = <<>> /\ requests = <<>>
    BY <1>4, <1>5, <2>2
  <2>4. CASE ~a.ok
    <3>1. Return("raised") /\ ~unlocked
      BY <2>1, <2>3, <2>4 DEF SeedAnswered, SecurityDone, TellsLock
    <3> QED
      BY <1>1, <2>3, <3>1 DEF Return, SecurityInv
  <2>5. CASE a.ok /\ a.val = 0
    <3>1. Return("True") /\ unlocked
      BY <2>1, <2>3, <2>5 DEF SeedAnswered, SecurityDone, TellsLock
    <3> QED
      BY <1>1, <2>3, <3>1 DEF Return, SecurityInv
  <2>6. CASE a.ok /\ a.val # 0
    <3>1. PICK key \in KeysFor(a.val) : Ask("key", key) /\ UNCHANGED step
      BY <2>1, <2>3, <2>6 DEF SeedAnswered
    <3>2. key \in Nat \cup Sessions /\ "key" \in Asked /\ pc' = "key"
      BY <1>1, <3>1 DEF KeysFor, Answers, Asked, Ask
    <3>3. NoneAsked(Sid("key")) /\ NoneAnswered(Sid("key"))' /\ Len(requests) = 0
      BY <2>3, LineFacts DEF NoneAsked, NoneAnswered
    <3>4. Asking' /\ Len(requests') = 1
      BY <3>1, <3>2, <3>3, AskedIsLast
    <3>5. ~unlocked'
      BY <1>1, <2>3, <2>6 DEF TellsLock
    <3> QED
      BY <3>2, <3>4, <3>5 DEF SecurityInv
  <2> QED
    BY <2>4, <2>5, <2>6
<1>6. CASE pc = "key"
  <2>1. KeyAnswered(a)
    BY <1>1, <1>6 DEF Answered
  <2>2. Served /\ (LastIn(answers).ok <=> unlocked)
    BY <1>1, <1>3, <1>6 DEF SecurityInv
  <2>3. (a.ok <=> unlocked) /\ a.what = "key" /\ requests = <<>>
    BY <1>4, <1>6, <2>2
  <2>4. CASE ~a.ok
    <3>1. Return("raised") /\ ~unlocked
      BY <2>1, <2>3, <2>4 DEF KeyAnswered, SecurityDone
    <3> QED
      BY <1>1, <2>3, <3>1 DEF Return, SecurityInv
  <2>5. CASE a.ok
    <3>1. Return(Truth(TRUE)) /\ unlocked
      BY <2>1, <2>3, <2>5 DEF KeyAnswered, SecurityDone
    <3> QED
      BY <1>1, <2>3, <3>1 DEF Return, Truth, SecurityInv
  <2> QED
    BY <2>4, <2>5
<1> QED
  BY <1>2, <1>5, <1>6

LEMMA SecurityNoAnswer ==
  ASSUME StateInv, op = "security", UNCHANGED op, pc # "idle", NEW why, NoAnswer(why), cut' \/ failed'
  PROVE  SecurityInv'
<1>1. pc \in {"seed", "key"}
  BY DEF StateInv, ClientType, Asked
<1>2. Return("raised")
  BY <1>1 DEF NoAnswer, SecurityDone
<1> QED
  BY <1>2 DEF Return, SecurityInv

LEMMA SecurityReply ==
  ASSUME StateInv, SecurityInv, op = "security", ~late, ~sawDown, NEW a \in Answers, Reply(a)
  PROVE  SecurityInv'
<1>1. UNCHANGED <<pc, op, step, result, cut, late, failed, broken, sawDown>> /\ requests # <<>>
  BY DEF Reply, client
<1>2. ~Served
  BY ReplyInTurn
<1>3. CASE pc = "seed" /\ ~broken
  <2>1. Asking
    BY <1>2, <1>3 DEF SecurityInv
  <2>2. CASE Asking'
    BY <1>1, <1>3, <2>2 DEF SecurityInv
  <2>3. CASE Served' /\ LastIn(answers)' = a /\ a.what = pc
    <3>1. TellsLock(a)'
      BY <1>3, <2>3 DEF Reply
    <3>2. TellsLock(LastIn(answers))'
      BY <2>3, <3>1 DEF TellsLock
    <3> QED
      BY <1>1, <1>3, <2>3, <3>2 DEF SecurityInv
  <2> QED
    BY <2>1, <2>2, <2>3, ReplyInTurn
<1>4. CASE pc = "key" /\ ~broken
  <2>1. Asking /\ Len(requests) = 1 /\ ~unlocked
    BY <1>2, <1>4 DEF SecurityInv
  <2>2. Served' /\ LastIn(answers)' = a /\ a.what = pc
    BY <2>1, ReplyInTurn
  <2>3. a.ok <=> unlocked'
    BY <1>4, <2>1, <2>2 DEF Reply
  <2> QED
    BY <1>1, <1>4, <2>2, <2>3 DEF SecurityInv
<1>5. CASE pc = "idle"
  BY <1>1, <1>5 DEF SecurityInv
<1>6. CASE pc \in {"seed", "key"} /\ broken
  BY <1>1, <1>6 DEF SecurityInv
<1> QED
  BY <1>1, <1>3, <1>4, <1>5, <1>6 DEF SecurityInv


LEMMA SecurityKept ==
  ASSUME StateInv, SeenInv, SecurityInv, [Next]_vars
  PROVE  SecurityInv'
<1>1. ASSUME NEW o \in Operations, Start(o) PROVE SecurityInv'
  BY <1>1, SecurityStarts
<1>2. SUFFICES ASSUME op = "security", ~late, ~sawDown,
                      ClientStep \/ EcuServes \/ NobodyListens \/ UNCHANGED vars
               PROVE  SecurityInv'
  <2>1. CASE Crash \/ Restart
    BY <2>1 DEF Crash, Restart, SeenInv, SecurityInv
  <2>2. CASE ~(op = "security" /\ ~late /\ ~sawDown) /\ (ClientStep \/ NobodyListens \/ UNCHANGED vars)
    BY <2>2 DEF ClientStep, OtherService, TakeAnswer, Silence, Malformed, LinkFails, LinkRaises, NobodyListens,
                 SecurityInv, client, vars
  <2>3. CASE ~(op = "security" /\ ~late /\ ~sawDown) /\ EcuServes
    <3>1. PICK a \in Answers : Reply(a)
      BY <2>3, EcuReplies
    <3> QED
      BY <2>3, <3>1 DEF Reply, client, SecurityInv
  <2> QED
    BY <1>1, <2>1, <2>2, <2>3 DEF Next, AllCallsDone
<1>3. CASE OtherService
  <2>1. /\ answers # <<>> /\ answers' = Tail(answers) /\ Sid(Head(answers).what) # Sid(pc)
        /\ UNCHANGED <<client, requests, ecu>> /\ pc # "idle" /\ ~broken
    BY <1>3 DEF OtherService
  <2>2. /\ Asking => Asking'
        /\ Served => Served' /\ LastIn(answers)' = LastIn(answers)
    BY <2>1, TakenInTurn DEF client
  <2>3. TellsLock(LastIn(answers)) /\ LastIn(answers)' = LastIn(answers) => TellsLock(LastIn(answers))'
    BY <2>1 DEF TellsLock, ecu
  <2> QED
    BY <1>2, <2>1, <2>2, <2>3 DEF client, ecu, SecurityInv
<1>4. CASE TakeAnswer
  BY <1>2, <1>4, SecurityAnswered
<1>5. CASE Silence
  <2>1. pc \in {"seed", "key"} /\ pc # "idle" /\ UNCHANGED op /\ NoAnswer("NoResponse")
    BY <1>2, <1>5 DEF Silence, StateInv, ClientType, Asked
  <2>2. Asking /\ requests # <<>>
    BY <1>2, <1>5, <2>1 DEF Silence, SecurityInv, Asking, Served
  <2>3. cut'
    BY <1>5, <2>2 DEF Silence
  <2> QED
    BY <1>2, <2>1, <2>3, SecurityNoAnswer
<1>6. CASE Malformed
  <2>1. pc # "idle" /\ UNCHANGED op /\ NoAnswer("other") /\ cut'
    BY <1>6 DEF Malformed
  <2> QED
    BY <1>2, <2>1, SecurityNoAnswer
<1>7. CASE EcuServes
  BY <1>2, <1>7, EcuReplies, SecurityReply
<1>8. CASE NobodyListens
  BY <1>2, <1>8 DEF NobodyListens, SeenInv
<1>9. CASE UNCHANGED vars
  <2>1. UNCHANGED <<pc, op, step, result, cut, late, failed, broken, sawDown, requests, answers, session, unlocked,
                    seed>>
    BY <1>9 DEF vars, client, link, ecu
  <2> QED
    BY <2>1 DEF SecurityInv, Asking, Served, NoneAnswered, LastIn, Sid, TellsLock
<1>10. CASE LinkFails
  BY <1>2, <1>10 DEF LinkFails, SecurityInv
<1>11. CASE LinkRaises
  <2>1. pc # "idle" /\ UNCHANGED op /\ NoAnswer("LinkError") /\ failed'
    BY <1>11 DEF LinkRaises, StateInv, BreakInv
  <2> QED
    BY <1>2, <2>1, SecurityNoAnswer
<1> QED
  BY <1>2, <1>3, <1>4, <1>5, <1>6, <1>7, <1>8, <1>9, <1>10, <1>11 DEF ClientStep


-----------------------------------------------------------------------------
(* The crash detectors. *)

(* An ECU that was never up answers nothing.                               *)
DeafInv ==
  ~late /\ op \in {"present", "sessionCheck"} /\ ~sawUp =>
    /\ pc # "idle" => NoneAnswered(Sid(pc))
    /\ pc = "idle" /\ ~cut /\ ~failed => result # "False"

(* One that was up all the time answers what it is asked, with the session *)
(* it is in.                                                               *)
AwakeInv ==
  ~late /\ op \in {"present", "sessionCheck"} /\ ~sawDown =>
    /\ pc # "idle" /\ ~broken =>
         \/ Asking
         \/ Served /\ (pc = "did" => LastIn(answers).ok /\ LastIn(answers).val = session)
    /\ pc = "idle" /\ ~cut /\ ~failed /\ op = "present" => result = "False"
    /\ pc = "idle" /\ ~cut /\ ~failed /\ op = "sessionCheck" =>
         requests = <<>> /\ (result = "True" <=> LooksElsewhere)

(* Once the data link has raised, no crash is reported.                    *)
FailedInv ==
  (op \in {"present", "sessionCheck"} /\ failed) =>
    /\ pc # "idle" => broken
    /\ pc = "idle" => result = "False"

LEMMA FailedKept ==
  ASSUME StateInv, FailedInv, [Next]_vars
  PROVE  FailedInv'
<1>1. ASSUME NEW o \in Operations, Start(o) PROVE FailedInv'
  BY <1>1 DEF Start, FailedInv
<1>2. CASE OtherService \/ TakeAnswer \/ Silence \/ Malformed
  <2>1. UNCHANGED <<op, failed, broken>> /\ ~broken /\ pc # "idle"
    BY <1>2 DEF OtherService, TakeAnswer, Silence, Malformed, client
  <2> QED
    BY <2>1 DEF FailedInv
<1>3. CASE LinkFails
  BY <1>3 DEF LinkFails, FailedInv
<1>4. CASE LinkRaises
  <2>1. UNCHANGED <<op, failed>> /\ NoAnswer("LinkError") /\ pc # "idle"
    BY <1>4 DEF LinkRaises, StateInv, BreakInv
  <2>2. CASE op \in {"present", "sessionCheck"}
    <3>1. pc \in {"present", "did"}
      BY <2>1, <2>2 DEF StateInv, ClientType, Asked
    <3>2. pc' = "idle" /\ result' = "False"
      BY <2>1, <3>1 DEF NoAnswer, Return, Truth
    <3> QED
      BY <3>2 DEF FailedInv
  <2> QED
    BY <2>1, <2>2 DEF FailedInv
<1>5. CASE EcuServes
  <2>1. PICK a \in Answers : Reply(a)
    BY <1>5, EcuReplies
  <2> QED
    BY <2>1 DEF Reply, client, FailedInv
<1>6. CASE Crash \/ Restart \/ NobodyListens \/ UNCHANGED vars
  BY <1>6 DEF Crash, Restart, NobodyListens, FailedInv, vars, client
<1> QED
  BY <1>1, <1>2, <1>3, <1>4, <1>5, <1>6 DEF Next, ClientStep, AllCallsDone

LEMMA DetectorStarts ==
  ASSUME StateInv, NEW o \in Operations, Start(o)
  PROVE  DeafInv' /\ AwakeInv'
<1>1. SUFFICES ASSUME o \in {"present", "sessionCheck"}, ~late' PROVE DeafInv' /\ AwakeInv'
  BY DEF Start, DeafInv, AwakeInv
<1>2. PICK what \in {"present", "did"} : Ask(what, 0) /\ what \in SidsOf(o)
  BY <1>1 DEF Start, SidsOf
<1>3. pc' = what /\ what \in Asked /\ Sid(what) = what
  BY <1>2 DEF Ask, Asked, Sid
<1>4. NoneAsked(Sid(what)) /\ NoneAnswered(Sid(what))'
  BY <1>1, <1>2, <1>3, NothingLate DEF NoneAnswered
<1>5. Asking'
  BY <1>2, <1>3, <1>4, AskedIsLast
<1> QED
  BY <1>3, <1>4, <1>5 DEF DeafInv, AwakeInv, NoneAnswered, Sid

LEMMA DetectorReply ==
  ASSUME StateInv, SeenInv, DeafInv, AwakeInv, ~late, op \in {"present", "sessionCheck"},
         NEW a \in Answers, Reply(a)
  PROVE  DeafInv' /\ AwakeInv'
<1>1. UNCHANGED <<pc, op, result, cut, late, failed, broken, sawUp, sawDown>> /\ requests # <<>> /\ sawUp
  BY DEF Reply, client, SeenInv
<1>2. DeafInv'
  BY <1>1 DEF DeafInv
<1>3. CASE pc = "idle"
  BY <1>1, <1>2, <1>3, ReplyInTurn DEF AwakeInv, Reply
<1>4. CASE pc # "idle" /\ ~broken /\ ~sawDown
  <2>1. Asking
    BY <1>4, ReplyInTurn DEF AwakeInv
  <2>2. CASE Asking'
    BY <1>1, <1>2, <1>4, <2>2 DEF AwakeInv
  <2>3. CASE Served' /\ LastIn(answers)' = a /\ a.what = pc
    <3>1. pc = "did" => a.ok /\ a.val = session'
      BY <2>3 DEF Reply
    <3> QED
      BY <1>1, <1>2, <1>4, <2>3, <3>1 DEF AwakeInv
  <2> QED
    BY <2>1, <2>2, <2>3, ReplyInTurn
<1>5. CASE sawDown \/ (pc # "idle" /\ broken)
  BY <1>1, <1>2, <1>5 DEF AwakeInv
<1> QED
  BY <1>2, <1>3, <1>4, <1>5

LEMMA DetectorAnswered ==
  ASSUME StateInv, DeafInv, AwakeInv, ~late, op \in {"present", "sessionCheck"}, TakeAnswer
  PROVE  DeafInv' /\ AwakeInv'
<1> DEFINE a == Head(answers)
<1>1. /\ pc # "idle" /\ answers # <<>> /\ Sid(a.what) = Sid(pc) /\ Answered(a) /\ answers' = Tail(answers)
      /\ UNCHANGED <<op, session, cut, failed, broken, sawUp, sawDown, late>> /\ ~broken
  BY DEF TakeAnswer, ecu
<1>2. sawUp
  <2>1. answers \in Seq(Answers)
    BY LinkTypes
  <2>2. Head(answers) = answers[1] /\ 1 \in DOMAIN answers
    BY <1>1, <2>1, LineFacts
  <2> QED
    BY <1>1, <2>2 DEF DeafInv, NoneAnswered
<1>3. DeafInv'
  BY <1>1, <1>2 DEF DeafInv
<1>4. CASE ~sawDown
  <2>1. Served /\ (pc = "did" => LastIn(answers).ok /\ LastIn(answers).val = session)
    BY <1>1, <1>4, TakenInTurn DEF AwakeInv
  <2>2. a = LastIn(answers) /\ requests = <<>>
    BY <1>1, <2>1, TakenInTurn DEF Served
  <2>3. CASE pc = "present"
    <3>1. op = "present" /\ Return("False")
      BY <1>1, <2>3 DEF Answered, PresentAnswered, StateInv, ClientType
    <3> QED
      BY <1>1, <1>3, <3>1 DEF Return, AwakeInv
  <2>4. CASE pc = "did"
    <3>1. op = "sessionCheck" /\ DidAnswered(a) /\ a.ok /\ a.val = session /\ session \in Sessions
      BY <1>1, <2>1, <2>2, <2>4 DEF Answered, StateInv, ClientType, TypeOK
    <3>2. pc' = "idle" /\ requests' = requests /\ result' = Truth(LooksElsewhere)
      BY <3>1 DEF DidAnswered, Return, LooksElsewhere, Truth
    <3>3. result' = "True" <=> LooksElsewhere'
      BY <1>1, <3>2 DEF Truth, LooksElsewhere
    <3> QED
      BY <1>1, <1>3, <2>2, <3>1, <3>2, <3>3 DEF AwakeInv
  <2> QED
    BY <1>1, <2>3, <2>4 DEF StateInv, ClientType, Asked
<1>5. CASE sawDown
  BY <1>1, <1>3, <1>5 DEF AwakeInv
<1> QED
  BY <1>3, <1>4, <1>5

LEMMA DetectorsKept ==
  ASSUME StateInv, SeenInv, DeafInv, AwakeInv, [Next]_vars
  PROVE  DeafInv' /\ AwakeInv'
<1>1. ASSUME NEW o \in Operations, Start(o) PROVE DeafInv' /\ AwakeInv'
  BY <1>1, DetectorStarts
<1>2. SUFFICES ASSUME ~late, op \in {"present", "sessionCheck"},
                      ClientStep \/ EcuServes \/ Crash \/ Restart \/ NobodyListens \/ UNCHANGED vars
               PROVE  DeafInv' /\ AwakeInv'
  <2>2. CASE ~(op \in {"present", "sessionCheck"} /\ ~late) /\ ~EcuServes
    BY <1>1, <2>2 DEF Next, AllCallsDone, ClientStep, OtherService, TakeAnswer, Silence, Malformed, LinkFails,
                 LinkRaises, Crash, Restart, NobodyListens, DeafInv, AwakeInv, client, vars
  <2>3. CASE ~(op \in {"present", "sessionCheck"} /\ ~late) /\ EcuServes
    <3>1. PICK a \in Answers : Reply(a)
      BY <2>3, EcuReplies
    <3> QED
      BY <2>3, <3>1 DEF Reply, client, DeafInv, AwakeInv
  <2> QED
    BY <1>1, <2>2, <2>3 DEF Next, AllCallsDone
<1>3. CASE OtherService
  <2>1. /\ answers # <<>> /\ answers' = Tail(answers) /\ Sid(Head(answers).what) # Sid(pc)
        /\ UNCHANGED <<client, requests, ecu>> /\ pc # "idle" /\ ~broken
    BY <1>3 DEF OtherService
  <2>2. /\ Asking => Asking'
        /\ Served => Served' /\ LastIn(answers)' = LastIn(answers)
        /\ NoneAnswered(Sid(pc)) => NoneAnswered(Sid(pc))'
    <3>1. PICK sid : sid = Sid(pc)
      OBVIOUS
    <3>2. NoneAnswered(sid) => NoneAnswered(sid)'
      BY <2>1, TakenInTurn
    <3>3. NoneAnswered(Sid(pc)) => NoneAnswered(Sid(pc))'
      BY <2>1, <3>1, <3>2 DEF NoneAnswered, Sid, client
    <3> QED
      BY <2>1, <3>3, TakenInTurn DEF client
  <2>3. AwakeInv'
    BY <1>2, <2>1, <2>2 DEF client, ecu, AwakeInv, LooksElsewhere
  <2>4. DeafInv'
    BY <1>2, <2>1, <2>2 DEF client, DeafInv
  <2> QED
    BY <2>3, <2>4
<1>4. CASE TakeAnswer
  BY <1>2, <1>4, DetectorAnswered
<1>5. CASE Silence
  <2>1. /\ pc \in {"present", "did"} /\ answers = <<>> /\ UNCHANGED <<late, op, sawUp, sawDown, ecu>> /\ ~broken
        /\ NoAnswer("NoResponse") /\ cut' = (cut \/ requests # <<>>)
    BY <1>2, <1>5 DEF Silence, StateInv, ClientType, Asked
  <2>2. pc' = "idle" /\ result' = "True"
    BY <2>1 DEF NoAnswer, Return, Truth
  <2>3. ~sawDown => cut'
    BY <1>2, <2>1 DEF AwakeInv, Asking, Served
  <2>4. DeafInv'
    BY <2>1, <2>2 DEF DeafInv
  <2>5. AwakeInv'
    BY <2>1, <2>2, <2>3 DEF AwakeInv
  <2> QED
    BY <2>4, <2>5
<1>6. CASE Malformed
  <2>1. pc \in {"present", "did"} /\ NoAnswer("other") /\ cut'
    BY <1>2, <1>6 DEF Malformed, StateInv, ClientType, Asked
  <2>2. pc' = "idle"
    BY <2>1 DEF NoAnswer, Return
  <2> QED
    BY <2>1, <2>2 DEF DeafInv, AwakeInv
<1>7. CASE EcuServes
  BY <1>2, <1>7, EcuReplies, DetectorReply
<1>8. CASE Crash
  BY <1>2, <1>8 DEF Crash, DeafInv, AwakeInv, NoneAnswered, Sid
<1>9. CASE Restart
  <2>1. sawUp' /\ UNCHANGED <<pc, op, result, cut, late, failed, broken, sawDown, requests, answers, session>>
    BY <1>9 DEF Restart, link
  <2> QED
    BY <2>1 DEF DeafInv, AwakeInv, Asking, Served, NoneAnswered, LastIn, Sid, LooksElsewhere
<1>10. CASE NobodyListens
  <2>1. sawDown /\ UNCHANGED <<pc, op, result, cut, late, failed, broken, sawUp, sawDown, answers>>
    BY <1>10 DEF NobodyListens, SeenInv, client
  <2> QED
    BY <2>1 DEF DeafInv, AwakeInv, NoneAnswered, Sid
<1>11. CASE UNCHANGED vars
  <2>1. UNCHANGED <<pc, op, result, cut, late, failed, broken, sawUp, sawDown, requests, answers, session>>
    BY <1>11 DEF vars, client, link, ecu
  <2> QED
    BY <2>1 DEF DeafInv, AwakeInv, Asking, Served, NoneAnswered, LastIn, Sid, LooksElsewhere
<1>12. CASE LinkFails
  <2>1. UNCHANGED <<pc, op, late, sawUp, sawDown>> /\ broken' /\ failed' /\ pc # "idle"
    BY <1>12 DEF LinkFails
  <2>2. PICK sid : sid = Sid(pc)
    OBVIOUS
  <2>3. NoneAnswered(sid) => NoneAnswered(sid)'
    BY <1>12, LinkTypes, LineBreaks DEF NoneAnswered
  <2>4. NoneAnswered(Sid(pc)) => NoneAnswered(Sid(pc))'
    BY <2>1, <2>2, <2>3 DEF NoneAnswered, Sid
  <2> QED
    BY <1>2, <2>1, <2>4 DEF DeafInv, AwakeInv
<1>13. CASE LinkRaises
  <2>1. pc \in {"present", "did"} /\ NoAnswer("LinkError") /\ failed'
    BY <1>2, <1>13 DEF LinkRaises, StateInv, BreakInv, ClientType, Asked
  <2>2. pc' = "idle"
    BY <2>1 DEF NoAnswer, Return
  <2> QED
    BY <2>1, <2>2 DEF DeafInv, AwakeInv
<1> QED
  BY <1>2, <1>3, <1>4, <1>5, <1>6, <1>7, <1>8, <1>9, <1>10, <1>11, <1>12, <1>13 DEF ClientStep


-----------------------------------------------------------------------------
(* The calls and the detectors, in every behaviour. *)

CallsInv == StateInv /\ SeenInv /\ RouteInv /\ SecurityInv

LEMMA CallsStart == Init => CallsInv /\ DeafInv /\ AwakeInv /\ FailedInv
<1> SUFFICES ASSUME Init PROVE CallsInv /\ DeafInv /\ AwakeInv /\ FailedInv
  OBVIOUS
<1>1. requests \in Seq(Requests) /\ answers \in Seq(Answers) /\ DOMAIN answers = {}
  BY EmptySeq, LineFacts DEF Init
<1>2. TypeOK
  <2>1. /\ pc \in {"idle"} \cup Asked /\ op \in {"none"} \cup Operations /\ step \in 0..Len(Route)
        /\ pc \notin {"session", "seed", "key"} /\ result \in {"none", "True", "False", "raised"}
    BY RouteLength DEF Init
  <2>2. /\ late \in BOOLEAN /\ cut \in BOOLEAN /\ sawUp \in BOOLEAN /\ sawDown \in BOOLEAN
        /\ failed \in BOOLEAN /\ broken \in BOOLEAN
    BY DEF Init
  <2>3. up \in BOOLEAN /\ unlocked \in BOOLEAN /\ session \in Sessions
    BY DEF Init
  <2>4. calls \in Nat /\ seed \in 0..seeds /\ seeds \in Nat /\ crashes \in Nat
    BY DEF Init
  <2> QED
    BY <1>1, <2>1, <2>2, <2>3, <2>4 DEF TypeOK, Requests, Answers
<1>3. ClientType
  BY <1>1, RouteLength DEF Init, ClientType
<1>4. LockInv
  BY <1>1 DEF Init, LockInv
<1>5. BreakInv /\ SeenInv /\ RouteInv /\ SecurityInv /\ DeafInv /\ AwakeInv /\ FailedInv
  BY DEF Init, BreakInv, SeenInv, RouteInv, SecurityInv, DeafInv, AwakeInv, FailedInv
<1> QED
  BY <1>2, <1>3, <1>4, <1>5 DEF CallsInv, StateInv

LEMMA CallsKept == CallsInv /\ [Next]_vars => CallsInv'
BY NextStateInv, SeenKept, RouteKept, SecurityKept DEF CallsInv

(* The operations keep their types; transit_to_session and recover return   *)
(* True only with the ECU in the last session of the route, and             *)
(* security_access tells whether it is unlocked, as long as no answer is     *)
(* late and the ECU stays up (uds_utils.py:139-143, 293-305), for every      *)
(* route, every set of sessions and of transitions, and any wrong key.       *)
THEOREM CallsDoWhatTheySay == Spec => []ClientInv
<1>1. Init => CallsInv
  BY CallsStart
<1>2. CallsInv /\ [Next]_vars => CallsInv'
  BY CallsKept
<1>3. CallsInv => ClientInv
  <2> SUFFICES ASSUME CallsInv PROVE ClientInv
    OBVIOUS
  <2>1. RouteIsWalked
    BY DEF CallsInv, RouteInv, RouteIsWalked, Undisturbed, Done
  <2>2. SecurityAccessIsRight
    BY DEF CallsInv, SecurityInv, SecurityAccessIsRight, Undisturbed
  <2> QED
    BY <2>1, <2>2 DEF CallsInv, StateInv, ClientInv
<1> QED
  BY <1>1, <1>2, <1>3, PTL DEF Spec

(* The crash detectors report no crash of an ECU that stayed up, unless int() *)
(* makes another number of its session, and miss one that was down all the   *)
(* time, or stayed in a session that looks like another one, only when the   *)
(* data link raised, and then always, when answers come in time              *)
(* (unresponded_tp_crash_detector.py:10-22, session_change_detector.py:11-30), *)
(* whatever int() makes of each session.                                     *)
THEOREM DetectorsTellCrashes == Spec => []DetectorsAreRight
<1> DEFINE Inv == CallsInv /\ DeafInv /\ AwakeInv /\ FailedInv
<1>1. Init => Inv
  BY CallsStart
<1>2. Inv /\ [Next]_vars => Inv'
  BY CallsKept, DetectorsKept, FailedKept DEF CallsInv
<1>3. Inv => DetectorsAreRight
  <2> SUFFICES ASSUME Inv PROVE DetectorsAreRight
    OBVIOUS
  <2>1. TesterPresentDetects
    BY DEF DeafInv, AwakeInv, FailedInv, TesterPresentDetects, Done
  <2>2. SessionChangeDetects
    BY DEF DeafInv, AwakeInv, FailedInv, SessionChangeDetects, Done
  <2> QED
    BY <2>1, <2>2 DEF DetectorsAreRight
<1> QED
  <2> HIDE DEF Inv
  <2> QED
    BY <1>1, <1>2, <1>3, PTL DEF Spec

=============================================================================
