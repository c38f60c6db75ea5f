------------------------- MODULE UdsExchangeProofs -------------------------
(***************************************************************************)
(* Proofs about UdsExchange, for every number of attempts, every timing of *)
(* the ECU, every set of faults and every bound.                           *)
(***************************************************************************)
EXTENDS UdsExchange, SequenceTheorems, TLAPS

USE AttemptsAssumption, TimeAssumption, BoundAssumption, ServicesAssumption

(* The attempt counter follows the place in the loop. *)
AttemptInv ==
  /\ pc \in {"idle", "send"} => attempt < Attempts
  /\ pc \in {"check", "recv"} => attempt > 0

IInv == TypeOK /\ AttemptInv

-----------------------------------------------------------------------------
(* The types of what the steps put together. *)

LEMMA NothingType == Nothing \in Message
BY DEF Nothing, Message, Kinds

LEMMA FinishType ==
  ASSUME TypeOK, pc # "idle",
         NEW outcome \in Outcomes, NEW m \in Message, Finish(outcome, m)
  PROVE  /\ pc' = "idle" /\ sid' = Unsolicited /\ attempt' = 0
         /\ timeout' = OpTimeout /\ elapsed' = 0 /\ waited' = 0
         /\ raw' \in Message /\ log' \in Seq(Result)
BY NothingType DEF TypeOK, Finish, Result

LEMMA DeliverType ==
  ASSUME TypeOK, pc # "idle", NEW m \in Message, Deliver(m)
  PROVE  /\ pc' = "idle" /\ sid' = Unsolicited /\ attempt' = 0
         /\ timeout' = OpTimeout /\ elapsed' = 0 /\ waited' = 0
         /\ raw' \in Message /\ log' \in Seq(Result)
<1> DEFINE o == IF m.kind = "positive" THEN "positive" ELSE "NegativeResponse"
<1>1. o \in Outcomes
  BY DEF Outcomes
<1>2. Finish(o, m)
  BY DEF Deliver
<1> QED
  BY <1>1, <1>2, FinishType

LEMMA EndAttemptType ==
  ASSUME IInv, pc \in {"check", "recv"}, NEW left \in Message, EndAttempt(left)
  PROVE  /\ pc' \in {"idle", "send"}
         /\ sid' \in IF pc' = "idle" THEN {Unsolicited} ELSE Services
         /\ attempt' \in 0..Attempts /\ attempt' < Attempts
         /\ timeout' \in {OpTimeout, PendTimeout}
         /\ elapsed' \in Nat /\ waited' \in Nat
         /\ raw' \in Message /\ log' \in Seq(Result)
<1>1. CASE attempt < Attempts
  BY <1>1 DEF EndAttempt, Retry, IInv, TypeOK
<1>2. CASE ~(attempt < Attempts) /\ left = Nothing
  <2>1. Finish("NoResponse", Nothing)
    BY <1>2 DEF EndAttempt, EndCall
  <2> QED
    BY <2>1, FinishType, NothingType DEF IInv, Outcomes
<1>3. CASE ~(attempt < Attempts) /\ left # Nothing
  <2>1. Deliver(left)
    BY <1>3 DEF EndAttempt, EndCall
  <2> QED
    BY <2>1, DeliverType DEF IInv
<1> QED
  BY <1>1, <1>2, <1>3

LEMMA ReceivedType ==
  ASSUME TypeOK, toTester # <<>>
  PROVE  /\ received \in Message
         /\ Tail(toTester) \in Seq(Message)
<1>1. toTester \in Seq(Message)
  BY DEF TypeOK
<1> QED
  BY <1>1, HeadTailProperties DEF received

LEMMA PutType ==
  ASSUME TypeOK, NEW m \in Message, Put(m)
  PROVE  toTester' \in Seq(Message)
<1>1. toTester \in Seq(Message)
  BY DEF TypeOK
<1>2. toTester' = Append(toTester, m) \/ toTester' = toTester
  BY DEF Put
<1> QED
  BY <1>1, <1>2, AppendProperties

LEMMA SidType ==
  ASSUME TypeOK, job # 0
  PROVE  Sid(job) \in Services
<1> DEFINE Transmission == [call : Nat \ {0}, sid : Services]
<1>1. sent \in Seq(Transmission) /\ job \in 1..Len(sent)
  BY DEF TypeOK
<1>2. sent[job] \in Transmission
  BY <1>1, ElementOfSeq
<1> QED
  BY <1>2 DEF Sid

(* A transmission extends the history and the way to the ECU. *)
LEMMA NewTransmissionType ==
  ASSUME TypeOK, pc # "idle", NewTransmission
  PROVE  /\ sent' \in Seq([call : Nat \ {0}, sid : Services])
         /\ toEcu' \in Seq(DOMAIN sent')
         /\ DOMAIN sent \subseteq DOMAIN sent'
<1> DEFINE T == [call |-> CurrentCall, sid |-> sid]
<1>1. T \in [call : Nat \ {0}, sid : Services]
  BY DEF TypeOK, CurrentCall
<1>2. sent' = Append(sent, T)
  BY DEF NewTransmission
<1>3. sent' \in Seq([call : Nat \ {0}, sid : Services])
  BY <1>1, <1>2 DEF TypeOK
<1>4. DOMAIN sent' = 1..Len(sent)+1 /\ DOMAIN sent = 1..Len(sent) /\ Len(sent) \in Nat
  BY <1>1, <1>2 DEF TypeOK
<1>5. toEcu \in Seq(DOMAIN sent')
  BY <1>4 DEF TypeOK
<1>6. toEcu' \in Seq(DOMAIN sent')
  BY <1>4, <1>5 DEF NewTransmission
<1> QED
  BY <1>3, <1>4, <1>6

-----------------------------------------------------------------------------
(* Type correctness, with the attempt counter. *)

LEMMA InitIInv == Init => IInv
<1> SUFFICES ASSUME Init PROVE IInv
  OBVIOUS
<1>1. sent = <<>> /\ log = <<>> /\ toEcu = <<>> /\ toTester = <<>>
  BY DEF Init
<1>2. /\ sent \in Seq([call : Nat \ {0}, sid : Services])
      /\ log \in Seq(Result)
      /\ toEcu \in Seq(DOMAIN sent)
      /\ toTester \in Seq(Message)
  BY <1>1, EmptySeq
<1> QED
  BY <1>2, NothingType DEF Init, IInv, TypeOK, AttemptInv

LEMMA NextIInv == IInv /\ [Next]_vars => IInv'
<1> SUFFICES ASSUME IInv, [Next]_vars PROVE IInv'
  OBVIOUS
<1> USE DEF IInv
<1>1. ASSUME NEW s \in Services, StartCall(s) PROVE IInv'
  BY <1>1 DEF StartCall, ecu, TypeOK, AttemptInv
<1>2. CASE Transmit
  <2>1. /\ sent' \in Seq([call : Nat \ {0}, sid : Services])
        /\ toEcu' \in Seq(DOMAIN sent')
        /\ DOMAIN sent \subseteq DOMAIN sent'
    BY <1>2, NewTransmissionType DEF Transmit
  <2> QED
    BY <1>2, <2>1 DEF Transmit, ecu, TypeOK, AttemptInv
<1>3. CASE TransmitFails
  <2>1. /\ sent' \in Seq([call : Nat \ {0}, sid : Services])
        /\ toEcu' \in Seq(DOMAIN sent')
        /\ DOMAIN sent \subseteq DOMAIN sent'
    <3>1. CASE NewTransmission
      BY <1>3, <3>1, NewTransmissionType DEF TransmitFails
    <3>2. CASE UNCHANGED <<sent, toEcu>>
      BY <3>2 DEF TypeOK
    <3> QED
      BY <1>3, <3>1, <3>2 DEF TransmitFails
  <2>2. Finish("RuntimeError", Nothing) /\ pc = "send" /\ "RuntimeError" \in Outcomes
    BY <1>3 DEF TransmitFails, Outcomes
  <2>3. /\ pc' = "idle" /\ sid' = Unsolicited /\ attempt' = 0
        /\ timeout' = OpTimeout /\ elapsed' = 0 /\ waited' = 0
        /\ raw' \in Message /\ log' \in Seq(Result)
    BY <2>2, FinishType, NothingType
  <2> QED
    BY <1>3, <2>1, <2>3 DEF TransmitFails, ecu, TypeOK, AttemptInv
<1>18. CASE LinkRaises
  <2>1. /\ sent' \in Seq([call : Nat \ {0}, sid : Services])
        /\ toEcu' \in Seq(DOMAIN sent')
        /\ DOMAIN sent \subseteq DOMAIN sent'
    <3>1. CASE pc = "send" /\ NewTransmission
      BY <3>1, NewTransmissionType
    <3>2. CASE UNCHANGED <<sent, toEcu>>
      BY <3>2 DEF TypeOK
    <3> QED
      BY <1>18, <3>1, <3>2 DEF LinkRaises
  <2>2. Finish("LinkError", Nothing) /\ pc # "idle" /\ "LinkError" \in Outcomes
    BY <1>18 DEF LinkRaises, Outcomes
  <2>3. /\ pc' = "idle" /\ sid' = Unsolicited /\ attempt' = 0
        /\ timeout' = OpTimeout /\ elapsed' = 0 /\ waited' = 0
        /\ raw' \in Message /\ log' \in Seq(Result)
    BY <2>2, FinishType, NothingType
  <2> QED
    BY <1>18, <2>1, <2>3 DEF LinkRaises, ecu, TypeOK, AttemptInv
<1>4. CASE DeadlinePassed
  <2>1. EndAttempt(raw) /\ pc = "check" /\ raw \in Message
    BY <1>4 DEF DeadlinePassed, TypeOK
  <2> QED
    BY <1>4, <2>1, EndAttemptType DEF DeadlinePassed, ecu, TypeOK, AttemptInv
<1>5. CASE EnterRecv
  BY <1>5 DEF EnterRecv, ecu, TypeOK, AttemptInv
<1>6. CASE RecvEmpty
  <2>1. EndAttempt(Nothing) /\ pc = "recv"
    BY <1>6 DEF RecvEmpty
  <2> QED
    BY <1>6, <2>1, EndAttemptType, NothingType DEF RecvEmpty, ecu, TypeOK, AttemptInv
<1>7. CASE RecvMalformed
  <2>1. Finish("InvalidResponse", received) /\ pc = "recv" /\ "InvalidResponse" \in Outcomes
    BY <1>7 DEF RecvMalformed, Recv, Outcomes
  <2> QED
    BY <1>7, <2>1, FinishType, ReceivedType DEF RecvMalformed, Recv, ecu, TypeOK, AttemptInv
<1>8. CASE RecvOtherService
  BY <1>8, ReceivedType, NothingType
     DEF RecvOtherService, Recv, KeepReceiving, ecu, TypeOK, AttemptInv
<1>9. CASE RecvPending
  BY <1>9, ReceivedType DEF RecvPending, Recv, KeepReceiving, ecu, TypeOK, AttemptInv
<1>10. CASE RecvAnswer
  <2>1. Deliver(received) /\ pc = "recv"
    BY <1>10 DEF RecvAnswer, Recv
  <2> QED
    BY <1>10, <2>1, DeliverType, ReceivedType DEF RecvAnswer, Recv, ecu, TypeOK, AttemptInv
<1>11. CASE LoseRequest
  <2>1. toEcu' \in Seq(DOMAIN sent)
    BY <1>11, HeadTailProperties DEF LoseRequest, TypeOK
  <2> QED
    BY <1>11, <2>1 DEF LoseRequest, tester, ecu, TypeOK, AttemptInv
<1>12. CASE EcuTakes
  <2>1. Head(toEcu) \in DOMAIN sent /\ toEcu' \in Seq(DOMAIN sent)
    BY <1>12, HeadTailProperties DEF EcuTakes, TypeOK
  <2> QED
    BY <1>12, <2>1 DEF EcuTakes, tester, TypeOK, AttemptInv
<1>13. CASE EcuAsksForTime
  <2> DEFINE m == [tx |-> job, sid |-> Sid(job), kind |-> "pending"]
  <2>1. m \in Message
    BY <1>13, SidType DEF EcuAsksForTime, Message, Kinds, TypeOK
  <2>2. Put(m)
    BY <1>13 DEF EcuAsksForTime
  <2>3. toTester' \in Seq(Message)
    BY <2>1, <2>2, PutType
  <2> QED
    BY <1>13, <2>3 DEF EcuAsksForTime, tester, TypeOK, AttemptInv
<1>14. CASE EcuAnswers
  <2>1. PICK k \in Finals : Put([tx |-> job, sid |-> Sid(job), kind |-> k])
    BY <1>14 DEF EcuAnswers
  <2> DEFINE m == [tx |-> job, sid |-> Sid(job), kind |-> k]
  <2>2. m \in Message
    BY <1>14, SidType DEF EcuAnswers, Finals, Message, Kinds, TypeOK
  <2>3. toTester' \in Seq(Message)
    BY <2>1, <2>2, PutType
  <2> QED
    BY <1>14, <2>3 DEF EcuAnswers, tester, TypeOK, AttemptInv
<1>15. CASE EcuEmits
  <2> DEFINE m == [tx |-> 0, sid |-> Unsolicited, kind |-> "positive"]
  <2>1. m \in Message /\ Put(m)
    BY <1>15 DEF EcuEmits, Message, Kinds
  <2>2. toTester' \in Seq(Message)
    BY <2>1, PutType
  <2> QED
    BY <1>15, <2>2 DEF EcuEmits, tester, TypeOK, AttemptInv
<1>16. CASE Tick
  BY <1>16 DEF Tick, TypeOK, AttemptInv
<1>17. CASE UNCHANGED vars
  BY <1>17 DEF vars, tester, ecu, TypeOK, AttemptInv
<1> QED
  BY <1>1, <1>2, <1>3, <1>4, <1>5, <1>6, <1>7, <1>8, <1>9, <1>10, <1>11,
     <1>12, <1>13, <1>14, <1>15, <1>16, <1>17, <1>18
     DEF Next, TesterStep, EcuStep, AllCallsDone

(* Every state of the exchange is well typed: uds_utils.py:585-627. *)
THEOREM TypeCorrect == Spec => []TypeOK
<1>1. IInv => TypeOK
  BY DEF IInv
<1> QED
  BY <1>1, InitIInv, NextIInv, PTL DEF Spec

-----------------------------------------------------------------------------
(* The two clocks, and what raw_response may be left at.                    *)

(* When the deadline is looked at, raw_response holds no answer unless start *)
(* was just set: this is what keeps line 627 from returning a                *)
(* ResponsePending.                                                          *)
RawInv == pc = "check" => raw = Nothing \/ elapsed = 0

TimeInv ==
  /\ pc = "idle" => timeout = OpTimeout
  /\ pc # "recv" => waited = 0
  /\ pc = "recv" => waited <= timeout /\ elapsed <= timeout + waited
  /\ elapsed <= 2 * timeout

LoopInv == RawInv /\ TimeInv

LEMMA FinishLoop ==
  ASSUME IInv, NEW outcome, NEW m, Finish(outcome, m)
  PROVE  LoopInv'
BY DEF Finish, LoopInv, RawInv, TimeInv

LEMMA EndAttemptLoop ==
  ASSUME IInv, LoopInv, pc \in {"check", "recv"}, NEW left, EndAttempt(left)
  PROVE  LoopInv'
<1>1. CASE Retry(left)
  BY <1>1 DEF Retry, LoopInv, RawInv, TimeInv
<1>2. CASE EndCall(left)
  BY <1>2, FinishLoop DEF EndCall, Deliver
<1> QED
  BY <1>1, <1>2 DEF EndAttempt

LEMMA NextLoopInv == IInv /\ LoopInv /\ [Next]_vars => LoopInv'
<1> SUFFICES ASSUME IInv, LoopInv, [Next]_vars PROVE LoopInv'
  OBVIOUS
<1>t. /\ timeout \in Nat /\ elapsed \in Nat /\ waited \in Nat
      /\ OpTimeout \in Nat /\ PendTimeout \in Nat /\ timeout <= PendTimeout
  BY DEF IInv, TypeOK
<1>1. ASSUME NEW s \in Services, StartCall(s) PROVE LoopInv'
  BY <1>1 DEF StartCall, LoopInv, RawInv, TimeInv
<1>2. CASE Transmit
  BY <1>2, <1>t DEF Transmit, LoopInv, RawInv, TimeInv
<1>3. CASE TransmitFails \/ LinkRaises
  BY <1>3, FinishLoop DEF TransmitFails, LinkRaises
<1>4. CASE DeadlinePassed \/ RecvEmpty
  BY <1>4, EndAttemptLoop DEF DeadlinePassed, RecvEmpty
<1>5. CASE EnterRecv
  BY <1>5, <1>t DEF EnterRecv, LoopInv, RawInv, TimeInv
<1>6. CASE RecvMalformed \/ RecvAnswer
  BY <1>6, FinishLoop DEF RecvMalformed, RecvAnswer, Deliver
<1>7. CASE RecvOtherService
  BY <1>7, <1>t DEF RecvOtherService, Recv, KeepReceiving, LoopInv, RawInv, TimeInv
<1>8. CASE RecvPending
  BY <1>8, <1>t DEF RecvPending, Recv, KeepReceiving, LoopInv, RawInv, TimeInv
<1>9. CASE LoseRequest \/ EcuTakes \/ EcuAsksForTime \/ EcuAnswers \/ EcuEmits
  BY <1>9 DEF LoseRequest, EcuTakes, EcuAsksForTime, EcuAnswers, EcuEmits,
              tester, LoopInv, RawInv, TimeInv
<1>10. CASE Tick
  BY <1>10, <1>t DEF Tick, TesterWaits, LoopInv, RawInv, TimeInv
<1>11. CASE UNCHANGED vars
  BY <1>11 DEF vars, tester, LoopInv, RawInv, TimeInv
<1> QED
  BY <1>1, <1>2, <1>3, <1>4, <1>5, <1>6, <1>7, <1>8, <1>9, <1>10, <1>11
     DEF Next, TesterStep, EcuStep, AllCallsDone

LEMMA LoopInvariant == Spec => [](IInv /\ LoopInv)
<1>1. Init => LoopInv
  BY DEF Init, LoopInv, RawInv, TimeInv
<1> QED
  BY <1>1, InitIInv, NextIInv, NextLoopInv, PTL DEF Spec

(* An attempt never outlasts twice its timeout: uds_utils.py:593-600. *)
THEOREM WaitIsBounded == Spec => []WaitBounded
<1>1. LoopInv => WaitBounded
  BY DEF LoopInv, TimeInv, WaitBounded
<1> QED
  BY <1>1, LoopInvariant, PTL

-----------------------------------------------------------------------------
(* What a finished call says of its answer. *)

(* How a step changes the log: not at all, or by the result of one call. *)
Concluded(outcome, m) ==
  \/ outcome = "RuntimeError" /\ m = Nothing
  \/ outcome = "LinkError" /\ m = Nothing
  \/ outcome = "NoResponse" /\ m = Nothing
  \/ outcome = "InvalidResponse" /\ m.kind = "malformed" /\ m = received /\ Recv
  \/ outcome = "positive" /\ m.kind = "positive" /\ m.sid = sid /\ m = received /\ Recv
  \/ outcome = "NegativeResponse" /\ m.kind = "negative" /\ m.sid = sid /\ m = received /\ Recv

LEMMA LogSteps ==
  ASSUME IInv, LoopInv, [Next]_vars
  PROVE  \/ UNCHANGED log
         \/ \E outcome \in Outcomes, m \in Message :
               pc # "idle" /\ Finish(outcome, m) /\ Concluded(outcome, m)
<1> DEFINE Goal == \/ UNCHANGED log
                   \/ \E outcome \in Outcomes, m \in Message :
                         pc # "idle" /\ Finish(outcome, m) /\ Concluded(outcome, m)
<1>1. CASE TransmitFails \/ LinkRaises
  BY <1>1, NothingType DEF TransmitFails, LinkRaises, Concluded, Outcomes
<1>2. CASE DeadlinePassed
  <2>1. raw = Nothing
    BY <1>2 DEF DeadlinePassed, LoopInv, RawInv, TypeOK, IInv
  <2>2. EndAttempt(Nothing) /\ pc = "check"
    BY <1>2, <2>1 DEF DeadlinePassed
  <2> QED
    BY <2>2, NothingType DEF EndAttempt, EndCall, Retry, Concluded, Outcomes
<1>3. CASE RecvEmpty
  BY <1>3, NothingType DEF RecvEmpty, EndAttempt, EndCall, Retry, Concluded, Outcomes
<1>4. CASE RecvMalformed
  BY <1>4, ReceivedType DEF RecvMalformed, Recv, Concluded, Outcomes, IInv
<1>5. CASE RecvAnswer
  <2>1. /\ received \in Message /\ pc = "recv" /\ Recv
        /\ received.sid = sid /\ Deliver(received)
    BY <1>5, ReceivedType DEF RecvAnswer, Recv, IInv
  <2>2. CASE received.kind = "positive"
    <3>1. Finish("positive", received) /\ Concluded("positive", received)
      BY <2>1, <2>2 DEF Deliver, Concluded
    <3> QED
      BY <2>1, <3>1 DEF Outcomes
  <2>3. CASE received.kind = "negative"
    <3>1. Finish("NegativeResponse", received) /\ Concluded("NegativeResponse", received)
      BY <2>1, <2>3 DEF Deliver, Concluded
    <3> QED
      BY <2>1, <3>1 DEF Outcomes
  <2> QED
    BY <1>5, <2>2, <2>3 DEF RecvAnswer
<1>6. ASSUME NEW s \in Services, StartCall(s) PROVE Goal
  BY <1>6 DEF StartCall
<1>7. CASE Transmit \/ EnterRecv \/ RecvOtherService \/ RecvPending
  BY <1>7 DEF Transmit, EnterRecv, RecvOtherService, RecvPending, KeepReceiving
<1>8. CASE LoseRequest \/ EcuTakes \/ EcuAsksForTime \/ EcuAnswers \/ EcuEmits
  BY <1>8 DEF LoseRequest, EcuTakes, EcuAsksForTime, EcuAnswers, EcuEmits, tester
<1>9. CASE Tick \/ UNCHANGED vars
  BY <1>9 DEF Tick, vars, tester
<1> QED
  BY <1>1, <1>2, <1>3, <1>4, <1>5, <1>6, <1>7, <1>8, <1>9
     DEF Next, TesterStep, EcuStep, AllCallsDone

(* The log, its domain and its last entry when a call ends. *)
LEMMA LogGrows ==
  ASSUME IInv, pc # "idle", NEW outcome \in Outcomes, NEW m \in Message, Finish(outcome, m)
  PROVE  /\ Len(log) \in Nat /\ Len(log') = Len(log) + 1
         /\ DOMAIN log = 1..Len(log) /\ DOMAIN log' = 1..Len(log)+1
         /\ \A c \in DOMAIN log : log'[c] = log[c]
         /\ log'[Len(log)+1] = [sid |-> sid, outcome |-> outcome, answer |-> m]
<1> DEFINE r == [sid |-> sid, outcome |-> outcome, answer |-> m]
<1>1. log \in Seq(Result) /\ r \in Result /\ log' = Append(log, r)
  BY DEF IInv, TypeOK, Finish, Result
<1>2. Append(log, r) \in Seq(Result)
  BY <1>1, AppendProperties
<1> HIDE DEF r
<1> QED
  BY <1>1, <1>2, AppendProperties, LenProperties DEF r
LEMMA NextAnswerIsFinal ==
  ASSUME IInv, LoopInv, AnswerIsFinal, [Next]_vars
  PROVE  AnswerIsFinal'
<1>1. CASE UNCHANGED log
  BY <1>1 DEF AnswerIsFinal
<1>2. ASSUME NEW outcome \in Outcomes, NEW m \in Message,
             pc # "idle", Finish(outcome, m), Concluded(outcome, m)
      PROVE  AnswerIsFinal'
  <2>1. SUFFICES ASSUME NEW c \in DOMAIN log',
                        log'[c].outcome \in {"positive", "NegativeResponse"}
                 PROVE  /\ log'[c].answer.sid = log'[c].sid
                        /\ log'[c].answer.kind \in {"positive", "negative"}
    BY DEF AnswerIsFinal
  <2>g. /\ Len(log) \in Nat /\ DOMAIN log = 1..Len(log) /\ DOMAIN log' = 1..Len(log)+1
        /\ \A d \in DOMAIN log : log'[d] = log[d]
        /\ log'[Len(log)+1] = [sid |-> sid, outcome |-> outcome, answer |-> m]
    BY <1>2, LogGrows
  <2>2. CASE c \in DOMAIN log
    BY <2>g, <2>1, <2>2 DEF AnswerIsFinal
  <2>3. CASE c = Len(log) + 1
    BY <1>2, <2>g, <2>1, <2>3 DEF Concluded
  <2> QED
    BY <2>g, <2>2, <2>3
<1> QED
  BY <1>1, <1>2, LogSteps

(* What reaches the caller is an answer of its service, and never a         *)
(* ResponsePending: uds_utils.py:600-627.                                   *)
THEOREM AnswersAreFinal == Spec => []AnswerIsFinal
<1>1. Init => AnswerIsFinal
  BY DEF Init, AnswerIsFinal
<1> QED
  BY <1>1, LoopInvariant, NextAnswerIsFinal, PTL DEF Spec
-----------------------------------------------------------------------------
(* The order of what is under way: transmissions wait for the ECU in the    *)
(* order they were made, behind the one it works on, which is not older     *)
(* than the answers in the queue, which are in order too; and no answer     *)
(* that was used is still ahead of any of them.                             *)

Waiting(t) == t <= Len(sent) /\ \A k \in DOMAIN toEcu : t < toEcu[k]

EcuOrder ==
  /\ \A k, l \in DOMAIN toEcu : k < l => toEcu[k] < toEcu[l]
  /\ job # 0 => Waiting(job)

QueueOrder ==
  /\ \A i \in DOMAIN toTester :
       /\ Waiting(toTester[i].tx) \/ toTester[i].tx = 0
       /\ job # 0 => toTester[i].tx <= job
       /\ job # 0 /\ toTester[i].kind # "pending" => toTester[i].tx < job
  /\ \A i, j \in DOMAIN toTester :
       (i < j /\ toTester[j].tx # 0) =>
         /\ toTester[i].tx <= toTester[j].tx
         /\ toTester[i].kind # "pending" => toTester[i].tx < toTester[j].tx

(* Nothing still under way is as old as transmission t. *)
Behind(t) ==
  /\ Waiting(t)
  /\ job # 0 => t < job
  /\ \A i \in DOMAIN toTester : toTester[i].tx # 0 => t < toTester[i].tx

UsedOrder == \A c \in DOMAIN log : Answered(c) => Behind(log[c].answer.tx)

OrderInv == EcuOrder /\ QueueOrder /\ UsedOrder

(* The seven things a step may do to what is under way. *)
EcuSays(m) ==
  /\ toTester' = Append(toTester, m)
  /\ UNCHANGED <<sent, toEcu>>
  /\ \/ m.tx = 0 /\ job' = job
     \/ job # 0 /\ m.tx = job /\ m.kind = "pending" /\ job' = job
     \/ job # 0 /\ m.tx = job /\ job' = 0

LEMMA FlightSteps ==
  ASSUME IInv, [Next]_vars
  PROVE  \/ UNCHANGED <<sent, toEcu, job, toTester>>
         \/ pc # "idle" /\ NewTransmission /\ UNCHANGED <<job, toTester>>
         \/ Recv
         \/ toEcu # <<>> /\ toEcu' = Tail(toEcu) /\ UNCHANGED <<sent, job, toTester>>
         \/ EcuTakes
         \/ \E m \in Message : EcuSays(m)
         \/ job' = 0 /\ UNCHANGED <<sent, toEcu, toTester>>
<1> DEFINE Goal ==
         \/ UNCHANGED <<sent, toEcu, job, toTester>>
         \/ pc # "idle" /\ NewTransmission /\ UNCHANGED <<job, toTester>>
         \/ Recv
         \/ toEcu # <<>> /\ toEcu' = Tail(toEcu) /\ UNCHANGED <<sent, job, toTester>>
         \/ EcuTakes
         \/ \E m \in Message : EcuSays(m)
         \/ job' = 0 /\ UNCHANGED <<sent, toEcu, toTester>>
<1>1. ASSUME NEW s \in Services, StartCall(s) PROVE Goal
  BY <1>1 DEF StartCall, ecu
<1>2. CASE Transmit \/ TransmitFails \/ LinkRaises
  BY <1>2 DEF Transmit, TransmitFails, LinkRaises, ecu
<1>3. CASE DeadlinePassed \/ EnterRecv \/ RecvEmpty
  BY <1>3 DEF DeadlinePassed, EnterRecv, RecvEmpty, ecu
<1>4. CASE RecvMalformed \/ RecvOtherService \/ RecvPending \/ RecvAnswer
  BY <1>4 DEF RecvMalformed, RecvOtherService, RecvPending, RecvAnswer
<1>5. CASE LoseRequest
  BY <1>5 DEF LoseRequest, ecu
<1>6. CASE EcuAsksForTime
  <2> DEFINE m == [tx |-> job, sid |-> Sid(job), kind |-> "pending"]
  <2>1. m \in Message /\ m.tx = job /\ m.kind = "pending" /\ Put(m)
    BY <1>6, SidType DEF EcuAsksForTime, Message, Kinds, IInv, TypeOK
  <2> HIDE DEF m
  <2> QED
    BY <1>6, <2>1 DEF EcuAsksForTime, Put, EcuSays
<1>7. CASE EcuAnswers
  <2>1. PICK k \in Finals : Put([tx |-> job, sid |-> Sid(job), kind |-> k])
    BY <1>7 DEF EcuAnswers
  <2> DEFINE m == [tx |-> job, sid |-> Sid(job), kind |-> k]
  <2>2. m \in Message /\ m.tx = job /\ Put(m)
    BY <1>7, <2>1, SidType DEF EcuAnswers, Finals, Message, Kinds, IInv, TypeOK
  <2> HIDE DEF m
  <2> QED
    BY <1>7, <2>2 DEF EcuAnswers, Put, EcuSays
<1>8. CASE EcuEmits
  <2> DEFINE m == [tx |-> 0, sid |-> Unsolicited, kind |-> "positive"]
  <2>1. m \in Message /\ m.tx = 0 /\ Put(m)
    BY <1>8 DEF EcuEmits, Message, Kinds
  <2> HIDE DEF m
  <2> QED
    BY <1>8, <2>1 DEF EcuEmits, Put, EcuSays
<1>9. CASE Tick \/ UNCHANGED vars
  BY <1>9 DEF Tick, vars, ecu
<1> QED
  BY <1>1, <1>2, <1>3, <1>4, <1>5, <1>6, <1>7, <1>8, <1>9
     DEF Next, TesterStep, EcuStep, AllCallsDone

(* What the sequences under way are, without the rest of the type invariant. *)
LEMMA FlightTypes ==
  ASSUME IInv
  PROVE  /\ Len(sent) \in Nat /\ DOMAIN sent = 1..Len(sent)
         /\ Len(toEcu) \in Nat /\ DOMAIN toEcu = 1..Len(toEcu)
         /\ \A k \in DOMAIN toEcu : toEcu[k] \in 1..Len(sent)
         /\ Len(toTester) \in Nat /\ DOMAIN toTester = 1..Len(toTester)
         /\ \A i \in DOMAIN toTester : toTester[i] \in Message /\ toTester[i].tx \in Nat
         /\ job \in 0..Len(sent)
<1>1. sent \in Seq([call : Nat \ {0}, sid : Services]) /\ toTester \in Seq(Message)
      /\ toEcu \in Seq(DOMAIN sent) /\ job \in {0} \cup DOMAIN sent
  BY DEF IInv, TypeOK
<1>2. Len(sent) \in Nat /\ DOMAIN sent = 1..Len(sent)
  BY <1>1, LenProperties
<1>3. Len(toEcu) \in Nat /\ DOMAIN toEcu = 1..Len(toEcu)
      /\ \A k \in DOMAIN toEcu : toEcu[k] \in DOMAIN sent
  BY <1>1, LenProperties
<1>4. Len(toTester) \in Nat /\ DOMAIN toTester = 1..Len(toTester)
      /\ \A i \in DOMAIN toTester : toTester[i] \in Message
  BY <1>1, LenProperties
<1>5. \A m \in Message : m.tx \in Nat
  BY DEF Message
<1> QED
  BY <1>1, <1>2, <1>3, <1>4, <1>5

LEMMA EcuTail ==
  ASSUME IInv, toEcu # <<>>, toEcu' = Tail(toEcu)
  PROVE  /\ Len(toEcu) > 0 /\ Head(toEcu) = toEcu[1]
         /\ DOMAIN toEcu' = 1..Len(toEcu)-1
         /\ \A k \in DOMAIN toEcu' : toEcu'[k] = toEcu[k+1]
<1>1. toEcu \in Seq(DOMAIN sent)
  BY DEF IInv, TypeOK
<1>2. Tail(toEcu) \in Seq(DOMAIN sent) /\ Len(toEcu) \in Nat \ {0}
  BY <1>1, HeadTailProperties, EmptySeq
<1> QED
  BY <1>1, <1>2, HeadTailProperties, LenProperties

LEMMA QueueTail ==
  ASSUME IInv, Recv
  PROVE  /\ Len(toTester) > 0 /\ received = toTester[1] /\ received \in Message
         /\ DOMAIN toTester' = 1..Len(toTester)-1
         /\ \A i \in DOMAIN toTester' : toTester'[i] = toTester[i+1]
<1>1. toTester \in Seq(Message) /\ toTester # <<>> /\ toTester' = Tail(toTester)
  BY DEF IInv, TypeOK, Recv
<1>2. Tail(toTester) \in Seq(Message) /\ Len(toTester) \in Nat \ {0}
  BY <1>1, HeadTailProperties, EmptySeq
<1> QED
  BY <1>1, <1>2, HeadTailProperties, LenProperties DEF received

LEMMA QueueAppend ==
  ASSUME IInv, NEW m \in Message, toTester' = Append(toTester, m)
  PROVE  /\ DOMAIN toTester' = 1..Len(toTester)+1
         /\ \A i \in DOMAIN toTester : toTester'[i] = toTester[i]
         /\ toTester'[Len(toTester)+1] = m
<1>1. toTester \in Seq(Message)
  BY DEF IInv, TypeOK
<1>2. Append(toTester, m) \in Seq(Message)
  BY <1>1, AppendProperties
<1> QED
  BY <1>1, <1>2, AppendProperties, LenProperties

LEMMA TransmissionAppend ==
  ASSUME IInv, pc # "idle", NewTransmission
  PROVE  /\ Len(sent') = Len(sent) + 1
         /\ DOMAIN toEcu' = 1..Len(toEcu)+1
         /\ \A k \in DOMAIN toEcu : toEcu'[k] = toEcu[k]
         /\ toEcu'[Len(toEcu)+1] = Len(sent) + 1
         /\ \A n \in DOMAIN sent : sent'[n] = sent[n]
         /\ DOMAIN sent' = 1..Len(sent)+1
         /\ sent'[Len(sent)+1] = [call |-> CurrentCall, sid |-> sid]
<1> DEFINE T == [call |-> CurrentCall, sid |-> sid]
           R == [call : Nat \ {0}, sid : Services]
<1>1. /\ sent \in Seq(R) /\ T \in R /\ sent' = Append(sent, T)
      /\ toEcu' = Append(toEcu, Len(sent) + 1)
  BY DEF IInv, TypeOK, NewTransmission, CurrentCall
<1>2. toEcu \in Seq(Nat) /\ Len(sent) + 1 \in Nat
  <2>1. toEcu \in Seq(DOMAIN sent) /\ DOMAIN sent \subseteq Nat /\ Len(sent) \in Nat
    BY <1>1, LenProperties DEF IInv, TypeOK
  <2> QED
    BY <2>1
<1> HIDE DEF T, R
<1>3. Append(sent, T) \in Seq(R) /\ Append(toEcu, Len(sent) + 1) \in Seq(Nat)
  BY <1>1, <1>2, AppendProperties
<1>4. /\ Len(sent') = Len(sent) + 1 /\ DOMAIN sent' = 1..Len(sent)+1
      /\ \A n \in DOMAIN sent : sent'[n] = sent[n]
      /\ sent'[Len(sent)+1] = T
  BY <1>1, <1>3, AppendProperties, LenProperties
<1>5. /\ DOMAIN toEcu' = 1..Len(toEcu)+1
      /\ \A k \in DOMAIN toEcu : toEcu'[k] = toEcu[k]
      /\ toEcu'[Len(toEcu)+1] = Len(sent) + 1
  BY <1>1, <1>2, <1>3, AppendProperties, LenProperties
<1> QED
  BY <1>4, <1>5 DEF T
(* One step keeps a transmission behind what is under way. *)
LEMMA BehindKept ==
  ASSUME IInv, [Next]_vars, NEW t \in Nat, Behind(t)
  PROVE  Behind(t)'
<1> USE FlightTypes DEF Behind, Waiting
<1>1. CASE UNCHANGED <<sent, toEcu, job, toTester>>
  BY <1>1
<1>2. CASE pc # "idle" /\ NewTransmission /\ UNCHANGED <<job, toTester>>
  BY <1>2, TransmissionAppend
<1>3. CASE Recv
  BY <1>3, QueueTail DEF Recv, ecu
<1>4. CASE toEcu # <<>> /\ toEcu' = Tail(toEcu) /\ UNCHANGED <<sent, job, toTester>>
  BY <1>4, EcuTail
<1>5. CASE EcuTakes
  BY <1>5, EcuTail DEF EcuTakes
<1>6. ASSUME NEW m \in Message, EcuSays(m) PROVE Behind(t)'
  BY <1>6, QueueAppend DEF EcuSays, Message
<1>7. CASE job' = 0 /\ UNCHANGED <<sent, toEcu, toTester>>
  BY <1>7
<1> QED
  BY <1>1, <1>2, <1>3, <1>4, <1>5, <1>6, <1>7, FlightSteps

LEMMA WaitingKept ==
  ASSUME IInv, [Next]_vars, NEW t \in Nat, Waiting(t)
  PROVE  Waiting(t)'
<1> USE FlightTypes DEF Waiting
<1>1. CASE pc # "idle" /\ NewTransmission /\ UNCHANGED <<job, toTester>>
  BY <1>1, TransmissionAppend
<1>2. CASE toEcu # <<>> /\ toEcu' = Tail(toEcu) /\ UNCHANGED <<sent, job, toTester>>
  BY <1>2, EcuTail
<1>3. CASE EcuTakes
  BY <1>3, EcuTail DEF EcuTakes
<1>4. CASE UNCHANGED <<sent, toEcu>>
  BY <1>4
<1> QED
  BY <1>1, <1>2, <1>3, <1>4, FlightSteps DEF EcuSays, Recv

LEMMA WaitingNext ==
  ASSUME IInv, [Next]_vars
  PROVE  \A t \in Nat :
           (t <= Len(sent) /\ \A k \in DOMAIN toEcu : t < toEcu[k])
             => t <= Len(sent') /\ \A k \in DOMAIN toEcu' : t < toEcu'[k]
BY WaitingKept DEF Waiting

LEMMA EcuOrderKept ==
  ASSUME IInv, EcuOrder, [Next]_vars
  PROVE  EcuOrder'
<1> USE FlightTypes
<1>w. job # 0 => job <= Len(sent') /\ \A k \in DOMAIN toEcu' : job < toEcu'[k]
  BY WaitingNext DEF EcuOrder, Waiting
<1>1. ASSUME UNCHANGED toEcu, job' \in {0, job}
      PROVE  EcuOrder'
  BY <1>1, <1>w DEF EcuOrder, Waiting
<1>2. CASE pc # "idle" /\ NewTransmission /\ UNCHANGED <<job, toTester>>
  <2>1. /\ DOMAIN toEcu' = 1..Len(toEcu)+1 /\ job' = job
        /\ \A k \in DOMAIN toEcu : toEcu'[k] = toEcu[k] /\ toEcu[k] < toEcu'[Len(toEcu)+1]
    BY <1>2, TransmissionAppend
  <2>2. ASSUME NEW k \in DOMAIN toEcu', NEW l \in DOMAIN toEcu', k < l
        PROVE  toEcu'[k] < toEcu'[l]
    <3>1. k \in DOMAIN toEcu /\ (l \in DOMAIN toEcu \/ l = Len(toEcu)+1)
      BY <2>1, <2>2
    <3> QED
      BY <2>1, <2>2, <3>1 DEF EcuOrder
  <2> QED
    BY <1>w, <2>1, <2>2 DEF EcuOrder, Waiting
<1>3. CASE toEcu # <<>> /\ toEcu' = Tail(toEcu) /\ UNCHANGED <<sent, job, toTester>>
  <2>1. /\ job' = job
        /\ \A k \in DOMAIN toEcu' : k+1 \in DOMAIN toEcu /\ toEcu'[k] = toEcu[k+1]
        /\ \A k, l \in DOMAIN toEcu' : k < l => k+1 < l+1
    BY <1>3, EcuTail
  <2> QED
    BY <1>w, <2>1 DEF EcuOrder, Waiting
<1>4. CASE EcuTakes
  <2>1. /\ 1 \in DOMAIN toEcu /\ job' = toEcu[1] /\ sent' = sent
        /\ DOMAIN toEcu' = 1..Len(toEcu)-1
        /\ \A k \in DOMAIN toEcu' :
             k+1 \in DOMAIN toEcu /\ 1 < k+1 /\ toEcu'[k] = toEcu[k+1]
    BY <1>4, EcuTail DEF EcuTakes
  <2>2. \A k \in DOMAIN toEcu' : job' < toEcu'[k]
    BY <2>1 DEF EcuOrder
  <2>3. \A k, l \in DOMAIN toEcu' : k < l => toEcu'[k] < toEcu'[l]
    BY <2>1 DEF EcuOrder
  <2> QED
    BY <2>1, <2>2, <2>3 DEF EcuOrder, Waiting
<1>5. ASSUME NEW m \in Message, EcuSays(m) PROVE EcuOrder'
  BY <1>1, <1>5 DEF EcuSays
<1> QED
  BY <1>1, <1>2, <1>3, <1>4, <1>5, FlightSteps DEF Recv, ecu

LEMMA QueueOrderKept ==
  ASSUME IInv, EcuOrder, QueueOrder, [Next]_vars
  PROVE  QueueOrder'
<1> USE FlightTypes
<1>1. CASE UNCHANGED <<sent, toEcu, job, toTester>>
  BY <1>1 DEF QueueOrder, Waiting
<1>2. CASE pc # "idle" /\ NewTransmission /\ UNCHANGED <<job, toTester>>
  BY <1>2, WaitingNext DEF QueueOrder, Waiting
<1>3. CASE Recv
  <2>1. /\ UNCHANGED <<sent, toEcu, job>> /\ DOMAIN toTester' = 1..Len(toTester)-1
        /\ \A i \in DOMAIN toTester' :
             i+1 \in DOMAIN toTester /\ toTester'[i] = toTester[i+1]
    BY <1>3, QueueTail DEF Recv, ecu
  <2>2. \A i, j \in DOMAIN toTester' : i < j => i+1 < j+1
    BY <2>1
  <2>3. \A n \in Nat : Waiting(n)' = Waiting(n)
    BY <2>1 DEF Waiting
  <2>4. ASSUME NEW i \in DOMAIN toTester'
        PROVE  (/\ Waiting(toTester[i].tx) \/ toTester[i].tx = 0
                /\ job # 0 => toTester[i].tx <= job
                /\ job # 0 /\ toTester[i].kind # "pending" => toTester[i].tx < job)'
    <3>1. i+1 \in DOMAIN toTester /\ toTester'[i] = toTester[i+1] /\ job' = job /\ toTester[i+1].tx \in Nat
      BY <2>1
    <3> QED
      BY <2>3, <3>1 DEF QueueOrder
  <2>5. ASSUME NEW i \in DOMAIN toTester', NEW j \in DOMAIN toTester', i < j, toTester'[j].tx # 0
        PROVE  /\ toTester'[i].tx <= toTester'[j].tx
               /\ toTester'[i].kind # "pending" => toTester'[i].tx < toTester'[j].tx
    <3>1. /\ i+1 \in DOMAIN toTester /\ toTester'[i] = toTester[i+1]
          /\ j+1 \in DOMAIN toTester /\ toTester'[j] = toTester[j+1]
          /\ i+1 < j+1
      BY <2>1, <2>2, <2>5
    <3> QED
      BY <2>5, <3>1 DEF QueueOrder
  <2> QED
    BY <2>4, <2>5 DEF QueueOrder
<1>4. CASE toEcu # <<>> /\ toEcu' = Tail(toEcu) /\ UNCHANGED <<sent, job, toTester>>
  BY <1>4, WaitingNext DEF QueueOrder, Waiting
<1>5. CASE EcuTakes
  <2>1. /\ job' = toEcu[1] /\ 1 \in DOMAIN toEcu /\ job' \in Nat \ {0}
        /\ sent' = sent /\ toTester' = toTester
    BY <1>5, EcuTail DEF EcuTakes
  <2>2. ASSUME NEW i \in DOMAIN toTester PROVE toTester[i].tx < job'
    <3>1. Waiting(toTester[i].tx) \/ toTester[i].tx = 0
      BY DEF QueueOrder
    <3>2. Waiting(toTester[i].tx) => toTester[i].tx < toEcu[1]
      BY <2>1 DEF Waiting
    <3> QED
      BY <2>1, <3>1, <3>2
  <2>3. \A i \in DOMAIN toTester : Waiting(toTester[i].tx)' \/ toTester[i].tx = 0
    <3>1. \A i \in DOMAIN toTester : toTester[i].tx \in Nat /\ (Waiting(toTester[i].tx) \/ toTester[i].tx = 0)
      BY DEF QueueOrder
    <3>2. \A n \in Nat : Waiting(n) => Waiting(n)'
      BY WaitingKept
    <3> QED
      BY <2>1, <3>1, <3>2 DEF Waiting
  <2>4. \A i \in DOMAIN toTester : toTester[i].tx <= job'
    BY <2>1, <2>2
  <2> QED
    BY <2>1, <2>2, <2>3, <2>4 DEF QueueOrder, Waiting
<1>6. ASSUME NEW m \in Message, EcuSays(m) PROVE QueueOrder'
  BY <1>6, QueueAppend DEF EcuSays, Message, QueueOrder, EcuOrder, Waiting
<1>7. CASE job' = 0 /\ UNCHANGED <<sent, toEcu, toTester>>
  BY <1>7 DEF QueueOrder, Waiting
<1> QED
  BY <1>1, <1>2, <1>3, <1>4, <1>5, <1>6, <1>7, FlightSteps

(* A final answer leaves everything of its transmission behind it. *)
LEMMA HeadBehind ==
  ASSUME IInv, QueueOrder, Recv, received.tx # 0, received.kind # "pending",
         NEW t, t = received.tx
  PROVE  Behind(t)'
<1>1. /\ 1 \in DOMAIN toTester /\ t = toTester[1].tx /\ t # 0 /\ t \in Nat
      /\ toTester[1].kind # "pending"
      /\ UNCHANGED <<sent, toEcu, job>>
      /\ DOMAIN toTester' = 1..Len(toTester)-1
      /\ \A i \in DOMAIN toTester' : toTester'[i] = toTester[i+1]
  BY FlightTypes, QueueTail DEF Recv, ecu
<1>2. Waiting(t)'
  BY <1>1 DEF QueueOrder, Waiting
<1>3. job' # 0 => t < job'
  BY <1>1 DEF QueueOrder
<1>4. \A i \in DOMAIN toTester' : toTester'[i].tx # 0 => t < toTester'[i].tx
  <2>1. \A i \in DOMAIN toTester' : i+1 \in DOMAIN toTester /\ 1 < i+1
    BY <1>1, FlightTypes
  <2> QED
    BY <1>1, <2>1 DEF QueueOrder
<1> QED
  BY <1>2, <1>3, <1>4 DEF Behind

LEMMA LogTypes ==
  ASSUME IInv
  PROVE  /\ Len(log) \in Nat /\ DOMAIN log = 1..Len(log)
         /\ \A c \in DOMAIN log : log[c].answer.tx \in Nat
<1>1. log \in Seq(Result)
  BY DEF IInv, TypeOK
<1>2. \A c \in DOMAIN log : log[c] \in Result
  BY <1>1, LenProperties
<1> QED
  BY <1>1, <1>2, LenProperties DEF Result, Message

LEMMA UsedOrderKept ==
  ASSUME IInv, LoopInv, OrderInv, [Next]_vars
  PROVE  UsedOrder'
<1>1. SUFFICES ASSUME NEW c \in DOMAIN log', NEW t \in Nat,
                      t = log'[c].answer.tx, t # 0
               PROVE  Behind(t)'
  <2>0. log' \in Seq(Result)
    BY NextIInv DEF IInv, TypeOK
  <2>r. \A r \in Result : r.answer.tx \in Nat
    BY DEF Result, Message
  <2>1. \A c \in DOMAIN log' : log'[c].answer.tx \in Nat
    <3>1. \A c \in DOMAIN log' : log'[c] \in Result
      BY <2>0, LenProperties
    <3> QED
      BY <2>r, <3>1
  <2> QED
    BY <2>1 DEF UsedOrder, Answered, Behind, Waiting
<1>2. ASSUME c \in DOMAIN log, log'[c] = log[c]
      PROVE  Behind(t)'
  <2>1. Behind(t)
    BY <1>1, <1>2 DEF UsedOrder, OrderInv, Answered
  <2> QED
    BY <2>1, BehindKept
<1>3. CASE UNCHANGED log
  BY <1>2, <1>3
<1>4. ASSUME NEW outcome \in Outcomes, NEW m \in Message,
             pc # "idle", Finish(outcome, m), Concluded(outcome, m)
      PROVE  Behind(t)'
  <2>g. /\ Len(log) \in Nat /\ DOMAIN log = 1..Len(log) /\ DOMAIN log' = 1..Len(log)+1
        /\ \A d \in DOMAIN log : log'[d] = log[d]
        /\ log'[Len(log)+1] = [sid |-> sid, outcome |-> outcome, answer |-> m]
    BY <1>4, LogGrows
  <2>1. CASE c \in DOMAIN log
    BY <1>2, <2>g, <2>1
  <2>2. CASE c = Len(log) + 1
    <3>1. t = m.tx
      BY <1>1, <2>g, <2>2
    <3>2. m = received /\ Recv /\ m.kind # "pending"
      BY <1>1, <1>4, <3>1 DEF Concluded, Nothing
    <3> QED
      BY <1>1, <3>1, <3>2, HeadBehind DEF OrderInv
  <2> QED
    BY <2>g, <2>1, <2>2
<1> QED
  BY <1>3, <1>4, LogSteps

LEMMA NextOrderInv == IInv /\ LoopInv /\ OrderInv /\ [Next]_vars => OrderInv'
BY EcuOrderKept, QueueOrderKept, UsedOrderKept DEF OrderInv

(* The answer a call ends with is younger than all that were used before. *)
LEMMA NextAnswersInOrder ==
  ASSUME IInv, LoopInv, OrderInv, AnswersInOrder, [Next]_vars
  PROVE  AnswersInOrder'
<1>1. CASE UNCHANGED log
  BY <1>1 DEF AnswersInOrder, Answered
<1>2. ASSUME NEW outcome \in Outcomes, NEW m \in Message,
             pc # "idle", Finish(outcome, m), Concluded(outcome, m)
      PROVE  AnswersInOrder'
  <2>1. SUFFICES ASSUME NEW c \in DOMAIN log', NEW d \in DOMAIN log', c < d,
                        log'[c].answer.tx # 0, log'[d].answer.tx # 0
                 PROVE  log'[c].answer.tx < log'[d].answer.tx
    BY DEF AnswersInOrder, Answered
  <2>g. /\ Len(log) \in Nat /\ DOMAIN log = 1..Len(log) /\ DOMAIN log' = 1..Len(log)+1
        /\ \A e \in DOMAIN log : log'[e] = log[e]
        /\ log'[Len(log)+1] = [sid |-> sid, outcome |-> outcome, answer |-> m]
    BY <1>2, LogGrows
  <2>2. CASE d \in DOMAIN log
    BY <2>g, <2>1, <2>2 DEF AnswersInOrder, Answered
  <2>3. CASE d = Len(log) + 1
    <3>1. c \in DOMAIN log /\ log'[c] = log[c] /\ log'[d].answer = m
      BY <2>g, <2>1, <2>3
    <3>2. m = received /\ Recv
      BY <1>2, <2>1, <3>1 DEF Concluded, Nothing
    <3>3. \A i \in DOMAIN toTester :
            toTester[i].tx # 0 => log[c].answer.tx < toTester[i].tx
      BY <2>1, <3>1 DEF OrderInv, UsedOrder, Behind, Answered
    <3>4. 1 \in DOMAIN toTester /\ received = toTester[1]
      BY <3>2, QueueTail, FlightTypes
    <3> QED
      BY <2>1, <3>1, <3>2, <3>3, <3>4
  <2> QED
    BY <2>g, <2>2, <2>3
<1> QED
  BY <1>1, <1>2, LogSteps

LEMMA OrderInvariant == Spec => [](IInv /\ LoopInv /\ OrderInv)
<1>1. Init => OrderInv
  BY DEF Init, OrderInv, EcuOrder, QueueOrder, UsedOrder
<1> QED
  BY <1>1, LoopInvariant, NextOrderInv, PTL DEF Spec

(* No answer is used twice, and none after a younger one, however many      *)
(* requests are repeated and answers late: uds_utils.py:600-621.            *)
THEOREM AnswersStayInOrder == Spec => []AnswersInOrder
<1>1. Init => AnswersInOrder
  BY DEF Init, AnswersInOrder
<1> QED
  BY <1>1, OrderInvariant, NextAnswersInOrder, PTL DEF Spec
-----------------------------------------------------------------------------
(* Whose transmissions are answered. *)

CallInv == \A n \in DOMAIN sent : sent[n].call \in 1..Len(log)+1

LEMMA SentSteps ==
  ASSUME IInv, [Next]_vars
  PROVE  /\ DOMAIN sent \subseteq DOMAIN sent'
         /\ \A n \in DOMAIN sent : sent'[n] = sent[n]
         /\ \A n \in DOMAIN sent' : n \in DOMAIN sent \/ sent'[n].call = Len(log)+1
<1>1. CASE pc # "idle" /\ NewTransmission /\ UNCHANGED <<job, toTester>>
  <2>1. /\ DOMAIN sent = 1..Len(sent) /\ DOMAIN sent' = 1..Len(sent)+1 /\ Len(sent) \in Nat
        /\ \A n \in DOMAIN sent : sent'[n] = sent[n]
        /\ sent'[Len(sent)+1].call = Len(log)+1
    BY <1>1, TransmissionAppend, FlightTypes DEF CurrentCall
  <2> QED
    BY <2>1
<1>2. CASE sent' = sent
  BY <1>2
<1> QED
  BY <1>1, <1>2, FlightSteps DEF Recv, EcuTakes, EcuSays

LEMMA LogLength ==
  ASSUME IInv, LoopInv, [Next]_vars
  PROVE  /\ DOMAIN log = 1..Len(log) /\ Len(log) \in Nat
         /\ \/ Len(log') = Len(log) /\ DOMAIN log' = 1..Len(log)
            \/ Len(log') = Len(log)+1 /\ DOMAIN log' = 1..Len(log)+1
         /\ \A c \in DOMAIN log : c \in DOMAIN log' /\ log'[c] = log[c]
<1>1. CASE UNCHANGED log
  BY <1>1, LogTypes
<1>2. ASSUME NEW outcome \in Outcomes, NEW m \in Message,
             pc # "idle", Finish(outcome, m)
      PROVE  /\ DOMAIN log = 1..Len(log) /\ Len(log) \in Nat
             /\ Len(log') = Len(log)+1 /\ DOMAIN log' = 1..Len(log)+1
             /\ \A c \in DOMAIN log : c \in DOMAIN log' /\ log'[c] = log[c]
  <2>1. /\ Len(log) \in Nat /\ Len(log') = Len(log) + 1
        /\ DOMAIN log = 1..Len(log) /\ DOMAIN log' = 1..Len(log)+1
        /\ \A c \in DOMAIN log : log'[c] = log[c]
    BY <1>2, LogGrows
  <2> QED
    BY <2>1
<1> QED
  BY <1>1, <1>2, LogSteps

LEMMA NextCallInv == IInv /\ LoopInv /\ CallInv /\ [Next]_vars => CallInv'
BY SentSteps, LogLength DEF CallInv

LEMMA NextStale ==
  ASSUME IInv, LoopInv, OrderInv, CallInv, AnswersInOrder, StaleOnlyAfterGivingUp, [Next]_vars
  PROVE  StaleOnlyAfterGivingUp'
<1> DEFINE Once(d) == \A m, n \in DOMAIN sent' : sent'[m].call = d /\ sent'[n].call = d => m = n
<1>1. SUFFICES ASSUME NEW c \in DOMAIN log',
                      \A d \in 1..c-1 : log'[d].answer.tx # 0 /\ Once(d),
                      log'[c].answer.tx # 0
               PROVE  sent'[log'[c].answer.tx].call = c
  BY DEF StaleOnlyAfterGivingUp, Clean, Fresh, Answered, TransmissionsOf
<1>g. /\ DOMAIN log = 1..Len(log) /\ Len(log) \in Nat
      /\ \/ Len(log') = Len(log) /\ DOMAIN log' = 1..Len(log)
         \/ Len(log') = Len(log)+1 /\ DOMAIN log' = 1..Len(log)+1
      /\ \A d \in DOMAIN log : d \in DOMAIN log' /\ log'[d] = log[d]
  BY LogLength
<1>n. c \in 1..Len(log)+1 /\ c \in Nat
  BY <1>1, <1>g
<1>s. /\ DOMAIN sent \subseteq DOMAIN sent' /\ DOMAIN sent = 1..Len(sent) /\ Len(sent) \in Nat
      /\ \A n \in DOMAIN sent : sent'[n] = sent[n]
  BY SentSteps, FlightTypes
<1>u. \A d \in DOMAIN log : log[d].answer.tx # 0 => log[d].answer.tx \in DOMAIN sent
  BY <1>s, LogTypes DEF OrderInv, UsedOrder, Behind, Waiting, Answered
<1>f. ASSUME NEW d \in DOMAIN log, d <= c, log[d].answer.tx # 0
      PROVE  sent[log[d].answer.tx].call = d
  <2>1. \A e \in 1..d-1 : Answered(e) /\ \A m, n \in TransmissionsOf(e) : m = n
    <3>1. \A e \in 1..d-1 : e \in 1..c-1 /\ e \in DOMAIN log
      BY <1>f, <1>g, <1>n
    <3> QED
      BY <1>1, <1>g, <1>s, <3>1 DEF Answered, TransmissionsOf
  <2> QED
    BY <1>f, <2>1 DEF StaleOnlyAfterGivingUp, Clean, Fresh, Answered
<1>2. CASE c \in DOMAIN log
  <2>1. log'[c] = log[c] /\ c <= c /\ log[c].answer.tx # 0
    BY <1>1, <1>2, <1>g, <1>n
  <2>2. sent[log[c].answer.tx].call = c /\ log[c].answer.tx \in DOMAIN sent
    BY <1>2, <1>f, <1>u, <2>1
  <2> QED
    BY <1>s, <2>1, <2>2
<1>3. CASE c \notin DOMAIN log
  <2>0. c = Len(log) + 1 /\ log' # log
    BY <1>3, <1>g, <1>n
  <2>1. PICK outcome \in Outcomes, m \in Message :
          pc # "idle" /\ Finish(outcome, m) /\ Concluded(outcome, m)
    BY <2>0, LogSteps
  <2>2. log'[c].answer = m
    <3>1. log'[Len(log)+1] = [sid |-> sid, outcome |-> outcome, answer |-> m]
      BY <2>1, LogGrows
    <3> QED
      BY <2>0, <3>1
  <2>3. m = received /\ Recv /\ m.tx \in Nat /\ m.tx # 0
    BY <1>1, <2>1, <2>2 DEF Concluded, Nothing, Message
  <2>4. m.tx \in DOMAIN sent
    <3>1. 1 \in DOMAIN toTester /\ received = toTester[1]
      BY <2>3, QueueTail, FlightTypes
    <3> QED
      BY <1>s, <2>3, <3>1 DEF OrderInv, QueueOrder, Waiting
  <2>5. sent[m.tx].call \in 1..c
    BY <2>0, <2>4 DEF CallInv
  <2>6. ASSUME sent[m.tx].call # c
        PROVE  FALSE
    <3> DEFINE e == sent[m.tx].call
    <3>1. e \in 1..c-1 /\ e \in DOMAIN log
      BY <1>g, <1>n, <2>0, <2>5, <2>6
    <3>2. log[e].answer.tx # 0 /\ Once(e) /\ log'[e] = log[e]
      BY <1>1, <1>g, <3>1
    <3>3. sent[log[e].answer.tx].call = e /\ log[e].answer.tx \in DOMAIN sent
      <4>1. e <= c
        BY <1>n, <3>1
      <4> HIDE DEF e
      <4> QED
        BY <1>f, <1>u, <3>1, <3>2, <4>1
    <3>4. log[e].answer.tx = m.tx
      <4>1. /\ log[e].answer.tx \in DOMAIN sent' /\ sent'[log[e].answer.tx].call = e
            /\ m.tx \in DOMAIN sent' /\ sent'[m.tx].call = e
        BY <1>s, <2>4, <3>3
      <4> HIDE DEF e
      <4> QED
        BY <3>2, <4>1
    <3>5. log'[e].answer.tx < log'[c].answer.tx
      <4>1. AnswersInOrder'
        BY NextAnswersInOrder
      <4>2. e \in DOMAIN log' /\ e < c /\ log'[e].answer.tx # 0
        BY <1>g, <1>n, <3>1, <3>2
      <4> HIDE DEF e
      <4> QED
        BY <1>1, <4>1, <4>2 DEF AnswersInOrder, Answered
    <3> QED
      BY <2>2, <2>3, <3>2, <3>4, <3>5
  <2> QED
    BY <1>s, <2>2, <2>4, <2>6
<1> QED
  BY <1>2, <1>3

(* As long as each call gets its answer on its first transmission, no call  *)
(* is given the answer to another: uds_utils.py:585-627.                    *)
THEOREM StaleAnswersHaveACause == Spec => []StaleOnlyAfterGivingUp
<1>1. Init => CallInv /\ AnswersInOrder /\ StaleOnlyAfterGivingUp
  BY DEF Init, CallInv, AnswersInOrder, StaleOnlyAfterGivingUp
<1>2. IInv /\ LoopInv /\ OrderInv /\ CallInv /\ AnswersInOrder /\ StaleOnlyAfterGivingUp
        /\ [Next]_vars
      => CallInv' /\ AnswersInOrder' /\ StaleOnlyAfterGivingUp'
  BY NextCallInv, NextAnswersInOrder, NextStale
<1> QED
  BY <1>1, <1>2, OrderInvariant, PTL DEF Spec

-----------------------------------------------------------------------------
(* The exchange implements UdsCall. *)

LEMMA EndKeepsContract ==
  ASSUME IInv, LoopInv, pc # "idle", NEW outcome \in Outcomes, NEW m \in Message,
         Finish(outcome, m), Contract!Promised(outcome, Short(m))
  PROVE  Contract!Return
<1> DEFINE r == [sid |-> sid, outcome |-> outcome, answer |-> m]
<1>1. log' \in Seq(Result) /\ log' = Append(log, r) /\ Len(log') = Len(log)+1
      /\ log'[Len(log')] = r /\ log' # <<>>
  <2>1. log \in Seq(Result) /\ r \in Result /\ log' = Append(log, r)
    BY DEF IInv, TypeOK, Finish, Result
  <2> HIDE DEF r
  <2> QED
    BY <2>1, AppendProperties
<1>2. LastResult' = [sid |-> sid, outcome |-> outcome, answer |-> Short(m)]
  BY <1>1 DEF LastResult, Short
<1>3. Short(m) \in Contract!Answers \/ m.kind = "pending"
  BY DEF Short, Contract!Answers, Message, Kinds, Unsolicited, Contract!Unsolicited
<1>4. m.kind # "pending"
  BY DEF Contract!Promised, Contract!NoAnswer, Short
<1>5. outcome \in Contract!Outcomes
  BY DEF Outcomes, Contract!Outcomes
<1> QED
  BY <1>1, <1>2, <1>3, <1>4, <1>5
     DEF Contract!Return, Finish, Calls, Unsolicited, Contract!Unsolicited
LEMMA StepKeepsContract ==
  ASSUME IInv, LoopInv, [Next]_vars
  PROVE  [Contract!Next]_Contract!vars
<1> USE DEF Contract!Next, Contract!vars
<1> DEFINE Goal == [Contract!Next]_Contract!vars
           Kept == UNCHANGED <<IF pc = "idle" THEN "idle" ELSE "busy", sid, attempt, log>>
<1>a. attempt \in Nat /\ Attempts \in Nat /\ attempt <= Attempts
  BY DEF IInv, TypeOK
<1>0. ASSUME Kept PROVE Goal
  BY <1>0 DEF Calls, LastResult, Contract!vars
<1>1. ASSUME NEW s \in Services, StartCall(s) PROVE Goal
  <2>1. Contract!Begin
    BY <1>1 DEF StartCall, Contract!Begin, Calls, LastResult
  <2> QED
    BY <2>1
<1>2. CASE Transmit
  <2>1. Contract!Try
    BY <1>2 DEF Transmit, Contract!Try, Calls, LastResult, IInv, AttemptInv
  <2> QED
    BY <2>1
<1>3. CASE TransmitFails
  <2>1. Finish("RuntimeError", Nothing) /\ pc = "send" /\ attempt < Attempts
    BY <1>3 DEF TransmitFails, IInv, AttemptInv
  <2>2. Contract!Promised("RuntimeError", Short(Nothing))
    BY <2>1 DEF Contract!Promised, Contract!NoAnswer, Short, Nothing, Unsolicited, Contract!Unsolicited
  <2> QED
    BY <2>1, <2>2, EndKeepsContract, NothingType DEF Outcomes
<1>12. CASE LinkRaises
  <2>1. Finish("LinkError", Nothing) /\ pc # "idle" /\ "linkRaises" \in Faults
    BY <1>12 DEF LinkRaises
  <2>2. Contract!Promised("LinkError", Short(Nothing))
    BY <2>1 DEF Contract!Promised, Contract!NoAnswer, Short, Nothing, Unsolicited, Contract!Unsolicited
  <2> QED
    BY <2>1, <2>2, EndKeepsContract, NothingType DEF Outcomes
<1>4. ASSUME pc \in {"check", "recv"}, EndAttempt(Nothing) PROVE Goal
  <2>1. CASE Retry(Nothing)
    BY <1>0, <1>4, <2>1 DEF Retry
  <2>2. CASE Finish("NoResponse", Nothing) /\ attempt = Attempts
    <3>1. Contract!Promised("NoResponse", Short(Nothing))
      BY <2>2 DEF Contract!Promised, Contract!NoAnswer, Short, Nothing, Unsolicited, Contract!Unsolicited
    <3> QED
      BY <1>4, <2>2, <3>1, EndKeepsContract, NothingType DEF Outcomes
  <2> QED
    BY <1>a, <1>4, <2>1, <2>2 DEF EndAttempt, EndCall
<1>5. CASE DeadlinePassed
  <2>1. raw = Nothing
    BY <1>5 DEF DeadlinePassed, LoopInv, RawInv, TypeOK, IInv
  <2> QED
    BY <1>4, <1>5, <2>1 DEF DeadlinePassed
<1>6. CASE RecvEmpty
  BY <1>4, <1>6 DEF RecvEmpty
<1>7. CASE RecvMalformed
  <2>1. /\ Finish("InvalidResponse", received) /\ pc = "recv" /\ received \in Message
        /\ received.kind = "malformed" /\ attempt > 0
    BY <1>7, ReceivedType DEF RecvMalformed, Recv, IInv, AttemptInv
  <2>2. Contract!Promised("InvalidResponse", Short(received))
    BY <2>1 DEF Contract!Promised, Short
  <2> QED
    BY <2>1, <2>2, EndKeepsContract DEF Outcomes
<1>8. CASE RecvAnswer
  <2>1. /\ Deliver(received) /\ pc = "recv" /\ received \in Message
        /\ received.sid = sid /\ attempt > 0
    BY <1>8, ReceivedType DEF RecvAnswer, Recv, IInv, AttemptInv
  <2>2. CASE received.kind = "positive"
    <3>1. Finish("positive", received) /\ Contract!Promised("positive", Short(received))
      BY <2>1, <2>2 DEF Deliver, Contract!Promised, Short
    <3> QED
      BY <2>1, <3>1, EndKeepsContract DEF Outcomes
  <2>3. CASE received.kind = "negative"
    <3>1. /\ Finish("NegativeResponse", received)
          /\ Contract!Promised("NegativeResponse", Short(received))
      BY <2>1, <2>3 DEF Deliver, Contract!Promised, Short
    <3> QED
      BY <2>1, <3>1, EndKeepsContract DEF Outcomes
  <2> QED
    BY <1>8, <2>2, <2>3 DEF RecvAnswer
<1>9. CASE EnterRecv \/ RecvOtherService \/ RecvPending
  BY <1>0, <1>9 DEF EnterRecv, RecvOtherService, RecvPending, Recv, KeepReceiving
<1>10. CASE LoseRequest \/ EcuTakes \/ EcuAsksForTime \/ EcuAnswers \/ EcuEmits
  BY <1>0, <1>10 DEF LoseRequest, EcuTakes, EcuAsksForTime, EcuAnswers, EcuEmits, tester
<1>11. CASE Tick \/ UNCHANGED vars
  BY <1>0, <1>11 DEF Tick, vars, tester
<1> QED
  BY <1>1, <1>2, <1>3, <1>5, <1>6, <1>7, <1>8, <1>9, <1>10, <1>11, <1>12
     DEF Next, TesterStep, EcuStep, AllCallsDone

(* Whatever the link and the ECU do, a call keeps what UdsCall promises: its *)
(* six endings (uds_utils.py:577-627), each for its own reason, exceptions   *)
(* of the data link among them.                                              *)
THEOREM ExchangeImplementsCall == Spec => Contract!Safety
<1>1. Init => Contract!Init
  BY DEF Init, Contract!Init, LastResult, NoResult, Contract!NoResult, Contract!NoAnswer,
         Calls, Unsolicited, Contract!Unsolicited
<1> QED
  BY <1>1, LoopInvariant, StepKeepsContract, PTL DEF Spec, Contract!Safety

-----------------------------------------------------------------------------
(* An ECU that answers in time, over a link that loses nothing.             *)

(* What the receive queue holds: answers nobody asked for, and answers to   *)
(* the last transmission, of the service the call is about.                 *)
Noise(m) == m.tx = 0 /\ m.sid = Unsolicited /\ m.kind = "positive"
Due(m) == m.tx = Len(sent) /\ m.sid = sid /\ m.kind \in {"pending", "positive", "negative"}
Final(m) == Due(m) /\ m.kind # "pending"
OnlyNoise == \A i \in DOMAIN toTester : Noise(toTester[i])
NoFinal == \A i \in DOMAIN toTester : ~Final(toTester[i])

(* Between the calls, and before a call transmits, there is nothing else.   *)
Settled ==
  /\ timeout = OpTimeout /\ elapsed = 0 /\ waited = 0 /\ attempt = 0
  /\ toEcu = <<>> /\ job = 0 /\ OnlyNoise
  /\ \A k \in DOMAIN sent : sent[k].call <= Len(log)

(* Its one transmission is on its way, being worked on, or answered.        *)
OnItsWay == toEcu = <<Len(sent)>> /\ job = 0 /\ OnlyNoise /\ elapsed = 0
WorkedOn ==
  /\ toEcu = <<>> /\ job = Len(sent) /\ NoFinal
  /\ OnlyNoise => elapsed <= age /\ (pendings > 0 => timeout = PendTimeout)
Answering ==
  /\ toEcu = <<>> /\ job = 0
  /\ \E i \in DOMAIN toTester :
       /\ Final(toTester[i])
       /\ \A j \in DOMAIN toTester : (j < i => ~Final(toTester[j])) /\ (j > i => Noise(toTester[j]))

Serving ==
  /\ Len(sent) > 0 /\ sent[Len(sent)] = [call |-> Len(log) + 1, sid |-> sid]
  /\ \A k \in DOMAIN sent : k < Len(sent) => sent[k].call <= Len(log)
  /\ \A i \in DOMAIN toTester : Noise(toTester[i]) \/ Due(toTester[i])
  /\ OnItsWay \/ WorkedOn \/ Answering
  /\ waited <= elapsed /\ elapsed < timeout

AllFresh == \A c \in DOMAIN log : Answered(c) /\ Fresh(c) /\ log[c].answer.tx \in DOMAIN sent
OnceEach == \A m, n \in DOMAIN sent : sent[m].call = sent[n].call => m = n

ConformantInv ==
  /\ job = 0 => age = 0 /\ pendings = 0
  /\ pc \in {"idle", "send"} => Settled
  /\ pc \in {"check", "recv"} => Serving
  /\ AllFresh
  /\ OnceEach

LEMMA NothingFails ==
  ASSUME Conformant
  PROVE  /\ {"sendFails", "linkRaises", "requestLost", "answerLost", "malformed"} \cap Faults = {}
         /\ Finals = {"positive", "negative"}
         /\ \A m : Put(m) => toTester' = Append(toTester, m)
<1>1. {"sendFails", "linkRaises", "requestLost", "answerLost", "malformed"} \cap Faults = {}
  BY DEF Conformant
<1> QED
  BY <1>1 DEF Finals, Put

(* The last transmission is not number 0, which noise carries, and its      *)
(* service is not the one noise has.                                        *)
LEMMA NoiseIsNotDue ==
  ASSUME IInv, Len(sent) > 0, NEW m, Noise(m)
  PROVE  ~Due(m) /\ ~Final(m)
BY FlightTypes DEF Noise, Due, Final

(* The answers in the queue are read by what the call looks at.             *)
LEMMA SameAnswers ==
  ASSUME UNCHANGED <<sent, sid>>
  PROVE  \A m : Due(m)' = Due(m) /\ Final(m)' = Final(m)
BY DEF Due, Final

LEMMA SentTypes ==
  ASSUME IInv
  PROVE  \A k \in DOMAIN sent : sent[k].call \in Nat /\ sent[k].sid \in Services
<1> DEFINE T == [call : Nat \ {0}, sid : Services]
<1>1. \A k \in DOMAIN sent : sent[k] \in T
  <2>1. sent \in Seq(T)
    BY DEF IInv, TypeOK
  <2> HIDE DEF T
  <2> QED
    BY <2>1, FlightTypes, ElementOfSeq
<1>2. \A t \in T : t.call \in Nat /\ t.sid \in Services
  OBVIOUS
<1> QED
  BY <1>1, <1>2

(* Calls begin and transmit with nothing left from the one before.          *)
LEMMA CallBegins ==
  ASSUME IInv, ConformantInv, NEW s \in Services, StartCall(s)
  PROVE  ConformantInv'
<1>1. /\ pc = "idle" /\ pc' = "send"
      /\ UNCHANGED <<attempt, timeout, elapsed, waited, log, sent, toEcu, job, age, pendings, toTester>>
  BY DEF StartCall, ecu
<1> QED
  BY <1>1 DEF ConformantInv, Settled, OnlyNoise, Noise, AllFresh, OnceEach, Answered, Fresh

LEMMA CallTransmits ==
  ASSUME IInv, ConformantInv, Transmit
  PROVE  ConformantInv'
<1>1. /\ pc = "send" /\ pc' = "check" /\ NewTransmission /\ elapsed' = 0
      /\ UNCHANGED <<sid, timeout, waited, log, job, age, pendings, toTester>>
  BY DEF Transmit, ecu
<1>2. Settled
  BY <1>1 DEF ConformantInv
<1>3. /\ Len(sent) \in Nat /\ DOMAIN sent = 1..Len(sent) /\ Len(toTester) \in Nat
      /\ Len(log) \in Nat /\ \A c \in DOMAIN log : log[c] \in Result
  BY FlightTypes, LenProperties DEF IInv, TypeOK
<1>4. /\ Len(sent') = Len(sent) + 1 /\ DOMAIN sent' = 1..Len(sent)+1
      /\ \A n \in DOMAIN sent : sent'[n] = sent[n]
      /\ sent'[Len(sent)+1] = [call |-> CurrentCall, sid |-> sid]
  BY <1>1, TransmissionAppend
<1>5. toEcu' = <<Len(sent')>>
  BY <1>1, <1>2, <1>4 DEF NewTransmission, Settled
<1>6. sent'[Len(sent')] = [call |-> Len(log') + 1, sid |-> sid']
  BY <1>1, <1>3, <1>4 DEF CurrentCall
<1>7. \A k \in DOMAIN sent' : k < Len(sent') => sent'[k].call <= Len(log')
  BY <1>1, <1>2, <1>3, <1>4 DEF Settled
<1>8. OnlyNoise' /\ \A i \in DOMAIN toTester' : Noise(toTester'[i])
  BY <1>1, <1>2 DEF Settled, OnlyNoise, Noise
<1>9. OnItsWay'
  BY <1>1, <1>2, <1>5, <1>8 DEF OnItsWay, Settled
<1>10. waited' <= elapsed' /\ elapsed' < timeout'
  BY <1>1, <1>2 DEF Settled
<1>11. Serving'
  BY <1>3, <1>4, <1>6, <1>7, <1>8, <1>9, <1>10 DEF Serving, Noise
<1>12. \A c \in DOMAIN log : log'[c].answer.tx \in DOMAIN sent' /\ Answered(c)' /\ Fresh(c)'
  BY <1>1, <1>3, <1>4 DEF ConformantInv, AllFresh, Answered, Fresh
<1>13. \A m, n \in DOMAIN sent' : sent'[m].call = sent'[n].call => m = n
  <2>1. \A k \in DOMAIN sent : k \in DOMAIN sent' /\ sent'[k] = sent[k] /\ sent[k].call <= Len(log)
    BY <1>2, <1>3, <1>4 DEF Settled
  <2>2. sent'[Len(sent)+1].call = Len(log) + 1
    BY <1>4 DEF CurrentCall
  <2>3. \A k \in DOMAIN sent : sent[k].call \in Nat
    BY SentTypes
  <2> SUFFICES ASSUME NEW m \in DOMAIN sent', NEW n \in DOMAIN sent', sent'[m].call = sent'[n].call
               PROVE  m = n
    OBVIOUS
  <2>4. CASE m \in DOMAIN sent /\ n \in DOMAIN sent
    BY <2>1, <2>4 DEF ConformantInv, OnceEach
  <2>5. CASE m = Len(sent)+1 /\ n \in DOMAIN sent
    BY <1>3, <2>1, <2>2, <2>3, <2>5
  <2>6. CASE n = Len(sent)+1 /\ m \in DOMAIN sent
    BY <1>3, <2>1, <2>2, <2>3, <2>6
  <2> QED
    BY <1>3, <1>4, <2>4, <2>5, <2>6
<1> QED
  BY <1>1, <1>11, <1>12, <1>13 DEF ConformantInv, AllFresh, OnceEach

(* What the call has heard, and when each call transmitted, is as before.   *)
LEMMA SamePast ==
  ASSUME ConformantInv, UNCHANGED <<log, sent>>
  PROVE  AllFresh' /\ OnceEach'
BY DEF ConformantInv, AllFresh, OnceEach, Answered, Fresh

(* The steps a call takes when something is late, lost or broken.           *)
LEMMA NeverGivesUp ==
  ASSUME IInv, ConformantInv, Conformant
  PROVE  ~TransmitFails /\ ~LinkRaises /\ ~LoseRequest /\ ~DeadlinePassed /\ ~RecvEmpty /\ ~RecvMalformed
<1>1. ~TransmitFails /\ ~LinkRaises /\ ~LoseRequest
  BY NothingFails DEF TransmitFails, LinkRaises, LoseRequest
<1>2. timeout \in Nat /\ elapsed \in Nat /\ waited \in Nat
  BY DEF IInv, TypeOK
<1>3. ~DeadlinePassed /\ ~RecvEmpty
  BY <1>2 DEF ConformantInv, Serving, DeadlinePassed, RecvEmpty
<1>4. ASSUME RecvMalformed PROVE FALSE
  <2>1. Recv /\ pc = "recv" /\ received.kind = "malformed"
    BY <1>4 DEF RecvMalformed, Recv
  <2>2. 1 \in DOMAIN toTester /\ received = toTester[1]
    BY <2>1, QueueTail, FlightTypes
  <2> QED
    BY <2>1, <2>2 DEF ConformantInv, Serving, Noise, Due
<1> QED
  BY <1>1, <1>3, <1>4

LEMMA WaitBegins ==
  ASSUME IInv, ConformantInv, EnterRecv
  PROVE  ConformantInv'
<1>1. /\ pc = "check" /\ pc' = "recv"
      /\ UNCHANGED <<sid, timeout, elapsed, waited, log, sent, toEcu, job, age, pendings, toTester>>
  BY DEF EnterRecv, ecu
<1>2. Serving'
  BY <1>1 DEF ConformantInv, Serving, OnItsWay, WorkedOn, Answering, OnlyNoise, NoFinal,
              Noise, Final, Due
<1> QED
  BY <1>1, <1>2, SamePast DEF ConformantInv

(* An answer that does not end the call leaves the queue.                   *)
LEMMA QueueAdvances ==
  ASSUME IInv, Recv, sid' = sid
  PROVE  /\ (\A i \in DOMAIN toTester : Noise(toTester[i]) \/ Due(toTester[i]))
            => (\A i \in DOMAIN toTester' : Noise(toTester[i])' \/ Due(toTester[i])')
         /\ OnlyNoise => OnlyNoise'
         /\ NoFinal => NoFinal'
         /\ OnlyNoise' /\ Noise(received) => OnlyNoise
         /\ Answering /\ ~Final(received) => Answering'
<1>1. /\ Len(toTester) \in Nat /\ Len(toTester) > 0 /\ received = toTester[1]
      /\ DOMAIN toTester = 1..Len(toTester) /\ DOMAIN toTester' = 1..Len(toTester)-1
      /\ \A i \in DOMAIN toTester' : toTester'[i] = toTester[i+1]
  BY QueueTail, FlightTypes
<1>2. UNCHANGED <<sent, toEcu, job>>
  BY DEF Recv, ecu
<1>3. UNCHANGED <<sent, sid>>
  BY <1>2
<1>4. \A i \in DOMAIN toTester' : i + 1 \in DOMAIN toTester
  BY <1>1
<1>5. \A i \in DOMAIN toTester : i = 1 \/ (i - 1 \in DOMAIN toTester' /\ toTester'[i-1] = toTester[i])
  BY <1>1
<1>6. (\A i \in DOMAIN toTester : Noise(toTester[i]) \/ Due(toTester[i]))
      => (\A i \in DOMAIN toTester' : Noise(toTester[i])' \/ Due(toTester[i])')
  BY <1>1, <1>3, <1>4 DEF Noise, Due
<1>7. (OnlyNoise => OnlyNoise') /\ (NoFinal => NoFinal')
  BY <1>1, <1>3, <1>4 DEF OnlyNoise, NoFinal, Noise, Final, Due
<1>8. OnlyNoise' /\ Noise(received) => OnlyNoise
  BY <1>1, <1>5 DEF OnlyNoise, Noise
<1>9. ASSUME Answering, ~Final(received) PROVE Answering'
  <2>1. PICK i \in DOMAIN toTester :
          /\ Final(toTester[i])
          /\ \A j \in DOMAIN toTester : (j < i => ~Final(toTester[j])) /\ (j > i => Noise(toTester[j]))
    BY <1>9 DEF Answering
  <2>2. i - 1 \in DOMAIN toTester' /\ Final(toTester[i-1])'
    BY <1>1, <1>3, <1>5, <1>9, <2>1 DEF Final, Due
  <2>3. \A j \in DOMAIN toTester' : /\ j < i - 1 => ~Final(toTester[j])'
                                    /\ j > i - 1 => Noise(toTester[j])'
    BY <1>1, <1>3, <1>4, <2>1 DEF Final, Due, Noise
  <2> QED
    BY <1>2, <1>9, <2>2, <2>3 DEF Answering
<1> QED
  BY <1>6, <1>7, <1>8, <1>9

(* What a call knows before it looks at an answer.                          *)
LEMMA HeadIsNoiseOrDue ==
  ASSUME IInv, ConformantInv, Recv
  PROVE  /\ Serving /\ pc = "recv" /\ sid \in Services
         /\ 1 \in DOMAIN toTester /\ received = toTester[1]
         /\ Noise(received) \/ Due(received)
         /\ Noise(received) => received.sid # sid /\ ~Final(received)
         /\ OnlyNoise => Noise(received)
         /\ NoFinal => ~Final(received)
<1>1. Serving /\ pc = "recv" /\ sid \in Services /\ Len(sent) > 0
  BY DEF Recv, ConformantInv, Serving, IInv, TypeOK
<1>2. 1 \in DOMAIN toTester /\ received = toTester[1]
  BY QueueTail, FlightTypes
<1>3. Noise(received) => received.sid # sid /\ ~Final(received)
  BY <1>1, NoiseIsNotDue DEF Noise
<1> QED
  BY <1>1, <1>2, <1>3 DEF Serving, OnlyNoise, NoFinal

LEMMA NoiseIsDropped ==
  ASSUME IInv, ConformantInv, RecvOtherService
  PROVE  ConformantInv'
<1>1. /\ Recv /\ received.sid # sid /\ pc' = "check" /\ waited' = 0
      /\ UNCHANGED <<sid, timeout, elapsed, log, sent, toEcu, job, age, pendings>>
  BY DEF RecvOtherService, KeepReceiving, Recv, ecu
<1>2. Serving /\ Noise(received) /\ ~Final(received)
  BY <1>1, HeadIsNoiseOrDue DEF Due
<1>3. OnItsWay' \/ WorkedOn' \/ Answering'
  BY <1>1, <1>2, QueueAdvances DEF Serving, OnItsWay, WorkedOn
<1>4. elapsed \in Nat
  BY DEF IInv, TypeOK
<1>5. Serving'
  BY <1>1, <1>2, <1>3, <1>4, QueueAdvances DEF Serving, Noise
<1> QED
  BY <1>1, <1>5, SamePast DEF ConformantInv

LEMMA WorkIsProlonged ==
  ASSUME IInv, ConformantInv, RecvPending
  PROVE  ConformantInv'
<1>1. /\ Recv /\ received.sid = sid /\ received.kind = "pending" /\ pc' = "check"
      /\ waited' = 0 /\ elapsed' = 0 /\ timeout' = PendTimeout
      /\ UNCHANGED <<sid, log, sent, toEcu, job, age, pendings>>
  BY DEF RecvPending, KeepReceiving, Recv, ecu
<1>2. Serving /\ ~Noise(received) /\ ~Final(received)
  BY <1>1, HeadIsNoiseOrDue DEF Final
<1>3. ~OnItsWay
  BY <1>1, <1>2, HeadIsNoiseOrDue DEF OnItsWay
<1>4. age \in Nat /\ OpTimeout \in Nat \ {0} /\ PendTimeout \in Nat /\ PendTimeout >= OpTimeout
  BY DEF IInv, TypeOK
<1>5. WorkedOn' \/ Answering'
  BY <1>1, <1>2, <1>3, <1>4, QueueAdvances DEF Serving, WorkedOn
<1>6. Serving'
  BY <1>1, <1>2, <1>4, <1>5, QueueAdvances DEF Serving, Noise
<1> QED
  BY <1>1, <1>6, SamePast DEF ConformantInv


(* The call is answered: what is left in the queue is noise.                *)
LEMMA CallIsAnswered ==
  ASSUME IInv, LoopInv, ConformantInv, RecvAnswer
  PROVE  ConformantInv'
<1>1. /\ Recv /\ received.sid = sid /\ received.kind \in {"positive", "negative"}
      /\ Deliver(received) /\ pc # "idle"
  BY DEF RecvAnswer, Recv
<1>2. /\ Serving /\ 1 \in DOMAIN toTester /\ received = toTester[1]
      /\ Due(received) /\ Final(received) /\ received \in Message
  BY <1>1, HeadIsNoiseOrDue, QueueTail DEF Final
<1>3. Answering
  BY <1>2, HeadIsNoiseOrDue, <1>1 DEF Serving, OnItsWay, WorkedOn
<1>4. \A j \in DOMAIN toTester : j > 1 => Noise(toTester[j])
  <2>1. PICK i \in DOMAIN toTester :
          /\ Final(toTester[i])
          /\ \A j \in DOMAIN toTester : (j < i => ~Final(toTester[j])) /\ (j > i => Noise(toTester[j]))
    BY <1>3 DEF Answering
  <2>2. i = 1
    BY <1>2, <2>1, FlightTypes
  <2> QED
    BY <2>1, <2>2
<1>5. OnlyNoise'
  BY <1>1, <1>4, QueueTail, FlightTypes DEF OnlyNoise, Noise
<1> DEFINE o == IF received.kind = "positive" THEN "positive" ELSE "NegativeResponse"
<1>6. o \in Outcomes /\ Finish(o, received)
  BY <1>1 DEF Deliver, Outcomes
<1>7. /\ Len(log) \in Nat /\ Len(log') = Len(log) + 1
      /\ DOMAIN log = 1..Len(log) /\ DOMAIN log' = 1..Len(log)+1
      /\ \A c \in DOMAIN log : log'[c] = log[c]
      /\ log'[Len(log)+1] = [sid |-> sid, outcome |-> o, answer |-> received]
  <2> HIDE DEF o
  <2> QED
    BY <1>1, <1>2, <1>6, LogGrows
<1>8. /\ pc' = "idle" /\ attempt' = 0 /\ timeout' = OpTimeout /\ elapsed' = 0 /\ waited' = 0
      /\ UNCHANGED <<sent, toEcu, job, age, pendings>>
  BY <1>1, <1>6 DEF Finish, Recv, ecu
<1>9. received.tx = Len(sent) /\ Len(sent) \in DOMAIN sent /\ Len(sent) # 0
      /\ sent[Len(sent)].call = Len(log) + 1
  BY <1>2, FlightTypes DEF Due, Serving
<1>10. \A k \in DOMAIN sent : sent[k].call <= Len(log')
  <2>1. \A k \in DOMAIN sent : sent[k].call \in Nat /\ (k < Len(sent) => sent[k].call <= Len(log))
    BY <1>2, SentTypes DEF Serving
  <2> QED
    BY <1>7, <1>9, <2>1, FlightTypes
<1>11. Settled'
  BY <1>3, <1>5, <1>8, <1>10 DEF Settled, Answering
<1>12. AllFresh'
  <2>1. log'[Len(log)+1].answer = received
    BY <1>7
  <2>2. \A c \in DOMAIN log : log'[c].answer.tx # 0 /\ log'[c].answer.tx \in DOMAIN sent
                              /\ sent[log'[c].answer.tx].call = c
    BY <1>7 DEF ConformantInv, AllFresh, Answered, Fresh
  <2>3. \A c \in DOMAIN log' : c \in DOMAIN log \/ c = Len(log)+1
    BY <1>7
  <2> QED
    BY <1>8, <1>9, <2>1, <2>2, <2>3 DEF AllFresh, Answered, Fresh
<1>13. OnceEach'
  BY <1>8 DEF ConformantInv, OnceEach
<1> QED
  BY <1>8, <1>11, <1>12, <1>13 DEF ConformantInv

-----------------------------------------------------------------------------
(* The ECU works on a request only while a call waits for it.               *)
LEMMA EcuServes ==
  ASSUME IInv, ConformantInv, job # 0 \/ toEcu # <<>>
  PROVE  pc \in {"check", "recv"} /\ Serving /\ sid \in Services
         /\ (job # 0 => WorkedOn) /\ (toEcu # <<>> => OnItsWay)
BY DEF ConformantInv, Settled, Serving, OnItsWay, WorkedOn, Answering, IInv, TypeOK

LEMMA EcuBegins ==
  ASSUME IInv, ConformantInv, EcuTakes
  PROVE  ConformantInv'
<1>1. /\ job = 0 /\ toEcu # <<>> /\ job' = Head(toEcu) /\ toEcu' = Tail(toEcu)
      /\ UNCHANGED <<pc, sid, timeout, elapsed, waited, log, sent, age, pendings, toTester>>
  BY DEF EcuTakes, tester
<1>2. pc \in {"check", "recv"} /\ Serving /\ OnItsWay /\ pendings = 0 /\ age \in Nat
  BY <1>1, EcuServes DEF ConformantInv, IInv, TypeOK
<1>3. job' = Len(sent) /\ toEcu' = <<>>
  BY <1>1, <1>2 DEF OnItsWay
<1>4. NoFinal'
  <2>1. \A i \in DOMAIN toTester : ~Final(toTester[i])
    BY <1>2, NoiseIsNotDue DEF OnItsWay, OnlyNoise, Serving
  <2> QED
    BY <1>1, <2>1 DEF NoFinal, Final, Due
<1>5. WorkedOn'
  BY <1>1, <1>2, <1>3, <1>4 DEF WorkedOn, OnItsWay
<1>6. Serving'
  BY <1>1, <1>2, <1>5 DEF Serving, Noise, Due
<1>7. job' # 0
  BY <1>2, <1>3 DEF Serving
<1> QED
  BY <1>1, <1>2, <1>6, <1>7, SamePast DEF ConformantInv

(* An answer joins the queue.                                               *)
LEMMA QueueGrows ==
  ASSUME IInv, NEW m \in Message, toTester' = Append(toTester, m), UNCHANGED <<sent, sid>>
  PROVE  /\ (\A i \in DOMAIN toTester : Noise(toTester[i]) \/ Due(toTester[i])) /\ (Noise(m) \/ Due(m))
            => (\A i \in DOMAIN toTester' : Noise(toTester[i])' \/ Due(toTester[i])')
         /\ OnlyNoise' <=> (OnlyNoise /\ Noise(m))
         /\ NoFinal /\ ~Final(m) => NoFinal'
<1>1. /\ Len(toTester) \in Nat /\ DOMAIN toTester = 1..Len(toTester)
      /\ DOMAIN toTester' = 1..Len(toTester)+1
      /\ \A i \in DOMAIN toTester : toTester'[i] = toTester[i]
      /\ toTester'[Len(toTester)+1] = m
  BY QueueAppend, FlightTypes
<1>2. \A i \in DOMAIN toTester' : i \in DOMAIN toTester \/ i = Len(toTester)+1
  BY <1>1
<1>3. \A i \in DOMAIN toTester : i \in DOMAIN toTester'
  BY <1>1
<1>4. Len(toTester)+1 \in DOMAIN toTester'
  BY <1>1
<1>5. (\A i \in DOMAIN toTester : Noise(toTester[i]) \/ Due(toTester[i])) /\ (Noise(m) \/ Due(m))
      => (\A i \in DOMAIN toTester' : Noise(toTester[i])' \/ Due(toTester[i])')
  BY <1>1, <1>2 DEF Noise, Due
<1>6. OnlyNoise' <=> (OnlyNoise /\ Noise(m))
  BY <1>1, <1>2, <1>3, <1>4 DEF OnlyNoise, Noise
<1>7. NoFinal /\ ~Final(m) => NoFinal'
  BY <1>1, <1>2 DEF NoFinal, Final, Due
<1> QED
  BY <1>5, <1>6, <1>7

LEMMA EcuProlongs ==
  ASSUME IInv, ConformantInv, Conformant, EcuAsksForTime
  PROVE  ConformantInv'
<1> DEFINE m == [tx |-> job, sid |-> Sid(job), kind |-> "pending"]
<1>1. /\ job # 0 /\ age' = 0 /\ toTester' = Append(toTester, m)
      /\ UNCHANGED <<pc, sid, timeout, elapsed, waited, log, sent, toEcu, job>>
  BY NothingFails DEF EcuAsksForTime, tester
<1>2. pc \in {"check", "recv"} /\ Serving /\ WorkedOn
  BY <1>1, EcuServes
<1>3. m \in Message /\ Due(m) /\ ~Final(m) /\ ~Noise(m)
  <2>1. m \in Message
    BY <1>1, SidType, FlightTypes DEF Message, Kinds, IInv
  <2>2. m.tx = Len(sent) /\ m.sid = sid /\ m.kind = "pending"
    BY <1>2 DEF WorkedOn, Serving, Sid
  <2> QED
    BY <2>1, <2>2 DEF Due, Final, Noise
<1> HIDE DEF m
<1>4. /\ \A i \in DOMAIN toTester' : Noise(toTester[i])' \/ Due(toTester[i])'
      /\ ~OnlyNoise' /\ NoFinal'
  BY <1>1, <1>2, <1>3, QueueGrows DEF Serving, WorkedOn
<1>5. WorkedOn'
  BY <1>1, <1>2, <1>4 DEF WorkedOn
<1>6. Serving'
  BY <1>1, <1>2, <1>4, <1>5 DEF Serving
<1> QED
  BY <1>1, <1>2, <1>6, SamePast DEF ConformantInv


LEMMA EcuConcludes ==
  ASSUME IInv, ConformantInv, Conformant, EcuAnswers
  PROVE  ConformantInv'
<1>1. PICK k \in Finals : Put([tx |-> job, sid |-> Sid(job), kind |-> k])
  BY DEF EcuAnswers
<1> DEFINE m == [tx |-> job, sid |-> Sid(job), kind |-> k]
<1>2. /\ job # 0 /\ job' = 0 /\ age' = 0 /\ pendings' = 0 /\ toTester' = Append(toTester, m)
      /\ UNCHANGED <<pc, sid, timeout, elapsed, waited, log, sent, toEcu>>
  BY <1>1, NothingFails DEF EcuAnswers, tester
<1>3. pc \in {"check", "recv"} /\ Serving /\ WorkedOn
  BY <1>2, EcuServes
<1>4. m \in Message /\ Due(m) /\ Final(m)
  <2>1. k \in {"positive", "negative"}
    BY <1>1, NothingFails
  <2>2. m \in Message
    BY <1>2, <2>1, SidType, FlightTypes DEF Message, Kinds, IInv
  <2>3. m.tx = Len(sent) /\ m.sid = sid /\ m.kind = k
    BY <1>3 DEF WorkedOn, Serving, Sid
  <2> QED
    BY <2>1, <2>2, <2>3 DEF Due, Final
<1> HIDE DEF m
<1>5. /\ Len(toTester) \in Nat /\ DOMAIN toTester = 1..Len(toTester)
      /\ DOMAIN toTester' = 1..Len(toTester)+1
      /\ \A i \in DOMAIN toTester : toTester'[i] = toTester[i]
      /\ toTester'[Len(toTester)+1] = m
  BY <1>2, <1>4, QueueAppend, FlightTypes
<1>6. Answering'
  <2> PICK i \in Nat : i = Len(toTester) + 1
    BY <1>5
  <2>1. i \in DOMAIN toTester' /\ Final(toTester[i])'
    BY <1>2, <1>4, <1>5 DEF Final, Due
  <2>2. \A j \in DOMAIN toTester' : (j < i => j \in DOMAIN toTester) /\ ~(j > i)
    BY <1>5
  <2>3. \A j \in DOMAIN toTester' : j < i => ~Final(toTester[j])'
    BY <1>2, <1>3, <1>5, <2>2 DEF WorkedOn, NoFinal, Final, Due
  <2>4. toEcu' = <<>> /\ job' = 0
    BY <1>2, <1>3 DEF WorkedOn
  <2> QED
    BY <2>1, <2>2, <2>3, <2>4 DEF Answering
<1>7. \A i \in DOMAIN toTester' : Noise(toTester[i])' \/ Due(toTester[i])'
  BY <1>2, <1>3, <1>4, QueueGrows DEF Serving
<1>8. Serving'
  BY <1>2, <1>3, <1>6, <1>7 DEF Serving
<1> QED
  BY <1>2, <1>3, <1>8, SamePast DEF ConformantInv

LEMMA EcuIsNoisy ==
  ASSUME IInv, ConformantInv, Conformant, EcuEmits
  PROVE  ConformantInv'
<1> DEFINE m == [tx |-> 0, sid |-> Unsolicited, kind |-> "positive"]
<1>1. /\ toTester' = Append(toTester, m)
      /\ UNCHANGED <<pc, sid, attempt, timeout, elapsed, waited, log, sent, toEcu, job, age, pendings>>
  BY NothingFails DEF EcuEmits, tester
<1>2. m \in Message /\ Noise(m)
  BY DEF Message, Kinds, Noise
<1> HIDE DEF m
<1>3. OnlyNoise' <=> OnlyNoise
  BY <1>1, <1>2, QueueGrows
<1>4. CASE pc \in {"idle", "send"}
  <2>1. Settled'
    BY <1>1, <1>3, <1>4 DEF ConformantInv, Settled
  <2> QED
    BY <1>1, <1>4, <2>1, SamePast DEF ConformantInv
<1>5. CASE pc \in {"check", "recv"}
  <2>1. Serving /\ ~Final(m)
    BY <1>2, <1>5, NoiseIsNotDue DEF ConformantInv, Serving
  <2>2. \A i \in DOMAIN toTester' : Noise(toTester[i])' \/ Due(toTester[i])'
    BY <1>1, <1>2, <2>1, QueueGrows DEF Serving
  <2>3. NoFinal => NoFinal'
    BY <1>1, <1>2, <2>1, QueueGrows
  <2>4. Answering => Answering'
    <3>1. /\ Len(toTester) \in Nat /\ DOMAIN toTester = 1..Len(toTester)
          /\ DOMAIN toTester' = 1..Len(toTester)+1
          /\ \A i \in DOMAIN toTester : toTester'[i] = toTester[i]
          /\ toTester'[Len(toTester)+1] = m
      BY <1>1, <1>2, QueueAppend, FlightTypes
    <3> SUFFICES ASSUME Answering PROVE Answering'
      OBVIOUS
    <3>2. PICK i \in DOMAIN toTester :
            /\ Final(toTester[i])
            /\ \A j \in DOMAIN toTester : (j < i => ~Final(toTester[j])) /\ (j > i => Noise(toTester[j]))
      BY DEF Answering
    <3>3. i \in DOMAIN toTester' /\ Final(toTester[i])'
      BY <1>1, <3>1, <3>2 DEF Final, Due
    <3>4. \A j \in DOMAIN toTester' : j \in DOMAIN toTester \/ (toTester'[j] = m /\ ~(j < i))
      BY <3>1
    <3>5. \A j \in DOMAIN toTester' : (j < i => ~Final(toTester[j])') /\ (j > i => Noise(toTester[j])')
      BY <1>1, <1>2, <3>1, <3>2, <3>4 DEF Final, Due, Noise
    <3> QED
      BY <1>1, <3>3, <3>5 DEF Answering
  <2>5. OnItsWay' \/ WorkedOn' \/ Answering'
    BY <1>1, <1>3, <2>1, <2>3, <2>4 DEF Serving, OnItsWay, WorkedOn
  <2>6. Serving'
    BY <1>1, <2>1, <2>2, <2>5 DEF Serving
  <2> QED
    BY <1>1, <1>5, <2>6, SamePast DEF ConformantInv
<1> QED
  BY <1>4, <1>5 DEF IInv, TypeOK

(* Time passes only while the ECU works, and it works less than a timeout.  *)
LEMMA WorkTakesTime ==
  ASSUME IInv, LoopInv, ConformantInv, Conformant, Tick
  PROVE  ConformantInv'
<1>1. UNCHANGED <<pc, sid, attempt, timeout, log, sent, toEcu, job, pendings, toTester>>
  BY DEF Tick
<1>2. pc = "recv" /\ toTester = <<>> /\ Serving
  BY DEF Tick, TesterWaits, ConformantInv, Settled
<1>3. OnlyNoise /\ NoFinal /\ ~Answering
  BY <1>2 DEF OnlyNoise, NoFinal, Answering
<1>4. WorkedOn /\ job # 0
  <2>1. ~OnItsWay
    <3>1. job = 0 => toEcu = <<>>
      BY DEF Tick
    <3> QED
      BY <3>1 DEF OnItsWay
  <2>2. WorkedOn
    BY <1>2, <1>3, <2>1 DEF Serving
  <2> QED
    BY <1>2, <2>2 DEF WorkedOn, Serving
<1>5. /\ elapsed \in Nat /\ waited \in Nat /\ age \in Nat /\ pendings \in Nat
      /\ timeout \in {OpTimeout, PendTimeout}
      /\ OpTimeout \in Nat /\ PendTimeout \in Nat /\ PendTimeout >= OpTimeout
      /\ EcuP2 \in Nat /\ EcuP2Star \in Nat
  BY DEF IInv, TypeOK
<1>6. /\ age < EcuLimit /\ age' = age + 1 /\ elapsed' = elapsed + 1 /\ waited' = waited + 1
      /\ elapsed <= age /\ (pendings > 0 => timeout = PendTimeout) /\ waited <= elapsed
  BY <1>2, <1>3, <1>4 DEF Tick, WorkedOn, Serving
<1>7. EcuLimit < timeout /\ EcuLimit \in Nat
  BY <1>5, <1>6 DEF EcuLimit, Conformant
<1>8. elapsed' <= age' /\ waited' <= elapsed' /\ elapsed' < timeout'
  BY <1>1, <1>5, <1>6, <1>7
<1>9. WorkedOn'
  BY <1>1, <1>4, <1>6, <1>8 DEF WorkedOn, NoFinal, Final, Due
<1>10. Serving'
  BY <1>1, <1>2, <1>8, <1>9 DEF Serving, Noise, Due
<1> QED
  BY <1>1, <1>2, <1>4, <1>10, SamePast DEF ConformantInv

LEMMA NextConformantInv ==
  ASSUME IInv, LoopInv, Conformant, ConformantInv, [Next]_vars
  PROVE  ConformantInv'
<1>1. CASE UNCHANGED vars
  BY <1>1, SamePast DEF vars, tester, ecu, ConformantInv, Settled, Serving, OnItsWay, WorkedOn,
                        Answering, OnlyNoise, NoFinal, Noise, Final, Due
<1> QED
  BY <1>1, NeverGivesUp, CallBegins, CallTransmits, WaitBegins, NoiseIsDropped, WorkIsProlonged,
     CallIsAnswered, EcuBegins, EcuProlongs, EcuConcludes, EcuIsNoisy, WorkTakesTime
     DEF Next, TesterStep, EcuStep, AllCallsDone

(* An ECU that answers in time over a link that loses nothing is given one  *)
(* transmission per call, and its answer ends that call and no other,       *)
(* however long it prolongs its work: uds_utils.py:585-627.                 *)
THEOREM ConformantEcusAreAnswered == Spec => []ConformantEcuIsAnswered
<1> DEFINE CInv == Conformant => ConformantInv
<1>1. Init => CInv
  BY DEF Init, ConformantInv, Settled, OnlyNoise, AllFresh, OnceEach
<1>2. IInv /\ LoopInv /\ CInv /\ [Next]_vars => CInv'
  <2>1. Conformant' <=> Conformant
    BY DEF Conformant
  <2> QED
    BY <2>1, NextConformantInv
<1>3. CInv => ConformantEcuIsAnswered
  BY DEF ConformantEcuIsAnswered, ConformantInv, AllFresh, OnceEach
<1> HIDE DEF CInv
<1> QED
  BY <1>1, <1>2, <1>3, LoopInvariant, PTL DEF Spec


=============================================================================
