----------------------------- MODULE UdsExchange -----------------------------
(***************************************************************************)
(* One tester, one ECU and the two FIFO directions of the data link        *)
(* between them: UdsUtils._send_and_read_raw_response with its retries,    *)
(* its discarding of answers of other services, its ResponsePending        *)
(* handling and its two clocks (the deadline of the attempt and the        *)
(* timeout of one recv), called again and again on the same link.  The     *)
(* link and the ECU are external: they are what the loop is written        *)
(* against.  Time is counted in ticks and passes only while the tester     *)
(* waits in recv or is between two calls.                                  *)
(***************************************************************************)
EXTENDS Integers, Sequences, FiniteSets

CONSTANTS
  Services,     \* service identifiers of the requests the tester makes
  Attempts,     \* UdsUtils.attempts
  OpTimeout,    \* the timeout argument of an operation, in ticks
  PendTimeout,  \* DEFAULT_UDS_PENDING_TIMEOUT, in ticks
  EcuP2,        \* longest time the ECU takes to react to a request
  EcuP2Star,    \* longest time it takes after a ResponsePending
  Faults,       \* what may go wrong on the link and in the ECU
  MaxCalls,     \* bound: operations called
  MaxPendings,  \* bound: ResponsePending answers per request
  MaxNoise      \* bound: answers nobody asked for

FaultKinds == {"sendFails", "linkRaises", "requestLost", "answerLost", "malformed", "noise"}

ASSUME AttemptsAssumption == Attempts \in Nat \ {0}
ASSUME TimeAssumption ==
  /\ OpTimeout \in Nat \ {0}
  /\ PendTimeout \in Nat
  /\ PendTimeout >= OpTimeout
  /\ EcuP2 \in Nat
  /\ EcuP2Star \in Nat
ASSUME BoundAssumption == MaxCalls \in Nat /\ MaxPendings \in Nat /\ MaxNoise \in Nat
ASSUME FaultAssumption == Faults \subseteq FaultKinds

(* The service identifier of an answer to nothing the tester asked. *)
Unsolicited == "unsolicited"
ASSUME ServicesAssumption == Unsolicited \notin Services

VARIABLES
  pc,         \* where the tester is in the loop
  sid,        \* service of the current request
  attempt,    \* transmissions made in the current call
  timeout,    \* local variable timeout
  elapsed,    \* time since the local variable start was set
  waited,     \* time spent in the current recv
  raw,        \* local variable raw_response
  sent,       \* history: every transmission, by number, with its call
  log,        \* history: how each finished call ended
  toEcu,      \* transmissions on their way to the ECU
  job,        \* transmission the ECU is working on, 0 when idle
  age,        \* time since the ECU took it, or last asked for more time
  pendings,   \* ResponsePending answers it has sent for it
  noise,      \* unsolicited answers sent so far
  toTester    \* answers in the receive queue of the link

tester == <<pc, sid, attempt, timeout, elapsed, waited, raw, log>>
ecu == <<job, age, pendings, noise>>
vars == <<tester, sent, toEcu, ecu, toTester>>

Finals == {"positive", "negative"} \cup (IF "malformed" \in Faults THEN {"malformed"} ELSE {})
Kinds == {"positive", "negative", "pending", "malformed"}
Outcomes ==
  {"positive", "NegativeResponse", "NoResponse", "InvalidResponse", "RuntimeError", "LinkError"}

(* An answer carries the number of the transmission it answers, 0 for none: *)
(* the bytes do not, so the tester's code never reads tx.                   *)
Message == [tx : Nat, sid : Services \cup {Unsolicited}, kind : Kinds]
Nothing == [tx |-> 0, sid |-> Unsolicited, kind |-> "malformed"]  \* an empty raw_response

Calls == Len(log)
CurrentCall == Len(log) + 1
Sid(tx) == sent[tx].sid

Init ==
  /\ pc = "idle"
  /\ sid = Unsolicited
  /\ attempt = 0
  /\ timeout = OpTimeout
  /\ elapsed = 0
  /\ waited = 0
  /\ raw = Nothing
  /\ sent = <<>>
  /\ log = <<>>
  /\ toEcu = <<>>
  /\ job = 0
  /\ age = 0
  /\ pendings = 0
  /\ noise = 0
  /\ toTester = <<>>

-----------------------------------------------------------------------------
(* The tester. *)

(* The call returns or raises, and its local variables end with it. *)
Finish(outcome, m) ==
  /\ pc' = "idle"
  /\ log' = Append(log, [sid |-> sid, outcome |-> outcome, answer |-> m])
  /\ sid' = Unsolicited
  /\ attempt' = 0
  /\ timeout' = OpTimeout
  /\ elapsed' = 0
  /\ waited' = 0
  /\ raw' = Nothing

(* _send_and_read_response raises NegativeResponse on what is not positive. *)
Deliver(m) == Finish(IF m.kind = "positive" THEN "positive" ELSE "NegativeResponse", m)

(* An operation makes its request and calls _send_and_read_response. *)
StartCall(s) ==
  /\ pc = "idle"
  /\ Calls < MaxCalls
  /\ pc' = "send"
  /\ sid' = s
  /\ UNCHANGED <<attempt, timeout, elapsed, waited, raw, log, sent, toEcu, ecu, toTester>>

NewTransmission ==
  /\ sent' = Append(sent, [call |-> CurrentCall, sid |-> sid])
  /\ toEcu' = Append(toEcu, Len(sent) + 1)

(* The payload went out: start = time.time(), and into the receive loop. *)
Transmit ==
  /\ pc = "send"
  /\ pc' = "check"
  /\ attempt' = attempt + 1
  /\ elapsed' = 0
  /\ NewTransmission
  /\ UNCHANGED <<sid, timeout, waited, raw, log, ecu, toTester>>

(* send() returned less than the length of the payload: the call raises.    *)
(* The frames may leave all the same, after the link gave up waiting.       *)
TransmitFails ==
  /\ pc = "send"
  /\ "sendFails" \in Faults
  /\ Finish("RuntimeError", Nothing)
  /\ \/ NewTransmission
     \/ UNCHANGED <<sent, toEcu>>
  /\ UNCHANGED <<ecu, toTester>>

(* send() or recv() of the link raises, and nothing here catches it: a       *)
(* DoipCommunicator that cannot make its TCP connection again               *)
(* (doip_communicator.py:98-103), a socket whose recv fails otherwise than   *)
(* by a reset or a timeout, an ISO-TP stack that is not open.                *)
LinkRaises ==
  /\ "linkRaises" \in Faults
  /\ \/ pc = "send" /\ NewTransmission
     \/ pc \in {"send", "recv"} /\ UNCHANGED <<sent, toEcu>>
  /\ Finish("LinkError", Nothing)
  /\ UNCHANGED <<ecu, toTester>>

(* The receive loop is left by a break: the next attempt, or the end of the *)
(* call, whose result depends on what raw_response was left at.             *)
EndCall(left) == IF left = Nothing THEN Finish("NoResponse", Nothing) ELSE Deliver(left)

Retry(left) ==
  /\ pc' = "send"
  /\ raw' = left
  /\ waited' = 0
  /\ UNCHANGED <<sid, attempt, timeout, elapsed, log>>

(* Mutant: one attempt too many. *)
OneAttemptTooMany(left) == IF attempt <= Attempts THEN Retry(left) ELSE EndCall(left)

EndAttempt(left) == IF attempt < Attempts THEN Retry(left) ELSE EndCall(left)

DeadlinePassed ==
  /\ pc = "check"
  /\ elapsed > timeout
  /\ EndAttempt(raw)
  /\ UNCHANGED <<sent, toEcu, ecu, toTester>>

(* Mutant: the deadline of the attempt does not end the loop. *)
EnterRecvLate ==
  /\ pc = "check"
  /\ pc' = "recv"
  /\ UNCHANGED <<sid, attempt, timeout, elapsed, waited, raw, log, sent, toEcu, ecu, toTester>>

EnterRecv ==
  /\ pc = "check"
  /\ elapsed <= timeout
  /\ pc' = "recv"
  /\ UNCHANGED <<sid, attempt, timeout, elapsed, waited, raw, log, sent, toEcu, ecu, toTester>>

(* recv() times out, with its own full timeout, and returns no bytes. *)
RecvEmpty ==
  /\ pc = "recv"
  /\ toTester = <<>>
  /\ waited >= timeout
  /\ EndAttempt(Nothing)
  /\ UNCHANGED <<sent, toEcu, ecu, toTester>>

received == Head(toTester)

(* Mutant: the answer stays in the queue of the link. *)
RecvPeeks == pc = "recv" /\ toTester # <<>> /\ UNCHANGED <<sent, toEcu, ecu, toTester>>

Recv ==
  /\ pc = "recv"
  /\ toTester # <<>>
  /\ toTester' = Tail(toTester)
  /\ UNCHANGED <<sent, toEcu, ecu>>

KeepReceiving ==
  /\ pc' = "check"
  /\ waited' = 0
  /\ UNCHANGED <<sid, attempt, log>>

(* The payload does not parse: InvalidResponse, whatever it answered. *)
RecvMalformed ==
  /\ Recv
  /\ received.kind = "malformed"
  /\ Finish("InvalidResponse", received)

(* Mutant: raw_response keeps the answer that was dropped. *)
RecvOtherServiceKept ==
  /\ Recv
  /\ received.kind # "malformed"
  /\ received.sid # sid
  /\ raw' = received
  /\ KeepReceiving
  /\ UNCHANGED <<timeout, elapsed>>

(* An answer of another service is dropped and the loop goes round. *)
RecvOtherService ==
  /\ Recv
  /\ received.kind # "malformed"
  /\ received.sid # sid
  /\ raw' = Nothing
  /\ KeepReceiving
  /\ UNCHANGED <<timeout, elapsed>>

(* Mutants: ResponsePending does not lengthen the timeout; it is returned   *)
(* like any negative answer.                                                *)
RecvPendingShort ==
  /\ Recv
  /\ received.sid = sid
  /\ received.kind = "pending"
  /\ raw' = received
  /\ elapsed' = 0
  /\ KeepReceiving
  /\ UNCHANGED timeout

RecvPendingReturned == Recv /\ received.sid = sid /\ received.kind = "pending" /\ Deliver(received)

(* ResponsePending: start is set again and timeout becomes the long one,    *)
(* for the rest of the call.                                                *)
RecvPending ==
  /\ Recv
  /\ received.sid = sid
  /\ received.kind = "pending"
  /\ raw' = received
  /\ elapsed' = 0
  /\ timeout' = PendTimeout
  /\ KeepReceiving

(* Mutant: the service of the answer is not looked at. *)
RecvAnyAnswer == Recv /\ received.kind \in {"positive", "negative"} /\ Deliver(received)

RecvAnswer ==
  /\ Recv
  /\ received.sid = sid
  /\ received.kind \in {"positive", "negative"}
  /\ Deliver(received)

TesterStep ==
  \/ Transmit \/ TransmitFails \/ LinkRaises
  \/ DeadlinePassed \/ EnterRecv
  \/ RecvEmpty \/ RecvMalformed \/ RecvOtherService \/ RecvPending \/ RecvAnswer

-----------------------------------------------------------------------------
(* The link and the ECU, which serves one request at a time. *)

LoseRequest ==
  /\ "requestLost" \in Faults
  /\ toEcu # <<>>
  /\ toEcu' = Tail(toEcu)
  /\ UNCHANGED <<tester, sent, ecu, toTester>>

EcuTakes ==
  /\ job = 0
  /\ toEcu # <<>>
  /\ job' = Head(toEcu)
  /\ toEcu' = Tail(toEcu)
  /\ UNCHANGED <<tester, sent, age, pendings, noise, toTester>>

Put(m) == \/ toTester' = Append(toTester, m)
          \/ "answerLost" \in Faults /\ UNCHANGED toTester

EcuAsksForTime ==
  /\ job # 0
  /\ pendings < MaxPendings
  /\ pendings' = pendings + 1
  /\ age' = 0
  /\ Put([tx |-> job, sid |-> Sid(job), kind |-> "pending"])
  /\ UNCHANGED <<tester, sent, toEcu, job, noise>>

EcuAnswers ==
  /\ job # 0
  /\ job' = 0
  /\ \E k \in Finals : Put([tx |-> job, sid |-> Sid(job), kind |-> k])
  /\ age' = 0
  /\ pendings' = 0
  /\ UNCHANGED <<tester, sent, toEcu, noise>>

(* A periodic or event-driven answer that belongs to no request. *)
EcuEmits ==
  /\ "noise" \in Faults
  /\ noise < MaxNoise
  /\ noise' = noise + 1
  /\ Put([tx |-> 0, sid |-> Unsolicited, kind |-> "positive"])
  /\ UNCHANGED <<tester, sent, toEcu, job, age, pendings>>

EcuStep == EcuTakes \/ EcuAsksForTime \/ EcuAnswers

(* Time passes while the tester waits and nobody is due to act. *)
EcuLimit == IF pendings = 0 THEN EcuP2 ELSE EcuP2Star
TesterWaits == pc = "recv" /\ toTester = <<>> /\ waited < timeout

Tick ==
  /\ pc = "idle" \/ TesterWaits
  /\ job = 0 => toEcu = <<>>
  /\ job # 0 => age < EcuLimit
  /\ pc = "idle" => job # 0
  /\ age' = IF job # 0 THEN age + 1 ELSE age
  /\ elapsed' = IF pc = "idle" THEN elapsed ELSE elapsed + 1
  /\ waited' = IF pc = "idle" THEN waited ELSE waited + 1
  /\ UNCHANGED <<pc, sid, attempt, timeout, raw, log, sent, toEcu, job, pendings, noise, toTester>>

AllCallsDone ==
  /\ pc = "idle"
  /\ Calls = MaxCalls
  /\ UNCHANGED vars

Next ==
  \/ \E s \in Services : StartCall(s)
  \/ TesterStep
  \/ EcuStep
  \/ LoseRequest
  \/ EcuEmits
  \/ Tick
  \/ AllCallsDone

(* The tester's thread runs, time passes and the ECU runs. *)
Fairness == WF_vars(TesterStep) /\ WF_vars(EcuStep) /\ WF_vars(Tick)

Spec == Init /\ [][Next]_vars /\ Fairness

-----------------------------------------------------------------------------
(* Properties. *)

Result == [sid : Services, outcome : Outcomes, answer : Message]

(* Every variable of the exchange has the type its code gives it. *)
TypeOK ==
  /\ pc \in {"idle", "send", "check", "recv"}
  /\ sid \in IF pc = "idle" THEN {Unsolicited} ELSE Services
  /\ attempt \in 0..Attempts
  /\ timeout \in {OpTimeout, PendTimeout}
  /\ elapsed \in Nat
  /\ waited \in Nat
  /\ raw \in Message
  /\ sent \in Seq([call : Nat \ {0}, sid : Services])
  /\ log \in Seq(Result)
  /\ toEcu \in Seq(DOMAIN sent)
  /\ job \in {0} \cup DOMAIN sent
  /\ age \in Nat
  /\ pendings \in Nat
  /\ noise \in Nat
  /\ toTester \in Seq(Message)

Answered(c) == log[c].answer.tx # 0
TransmissionsOf(c) == {n \in DOMAIN sent : sent[n].call = c}

(* A call that returns, or raises NegativeResponse, does so on an answer of  *)
(* its own service that is final: the ResponsePending left in raw_response   *)
(* when an attempt ends (uds_utils.py:600-627) never reaches the caller.     *)
AnswerIsFinal ==
  \A c \in DOMAIN log :
    log[c].outcome \in {"positive", "NegativeResponse"} =>
      /\ log[c].answer.sid = log[c].sid
      /\ log[c].answer.kind \in {"positive", "negative"}

(* Late answers stay in the queue of the link and are taken by later calls   *)
(* (uds_utils.py:600 never flushes), but no answer is used twice and none is *)
(* overtaken by an older one.                                                *)
AnswersInOrder ==
  \A c, d \in DOMAIN log :
    (c < d /\ Answered(c) /\ Answered(d)) => log[c].answer.tx < log[d].answer.tx

(* A call is given the answer to an earlier call only after some earlier     *)
(* call gave up: ended without an answer, or sent its request again.         *)
Clean(c) == Answered(c) /\ \A m, n \in TransmissionsOf(c) : m = n
Fresh(c) == Answered(c) => sent[log[c].answer.tx].call = c
StaleOnlyAfterGivingUp ==
  \A c \in DOMAIN log : (\A d \in 1..c-1 : Clean(d)) => Fresh(c)

(* The deadline is only looked at between two recvs, each of which waits for *)
(* the whole timeout: an attempt lasts at most twice the timeout past its    *)
(* transmission or its last ResponsePending.                                 *)
WaitBounded == elapsed <= 2 * timeout

(* An ECU that answers in time over a link that loses nothing is given one   *)
(* transmission per call, and each call returns the answer to it, however    *)
(* long the ECU prolongs its work with ResponsePending.                      *)
Conformant ==
  /\ EcuP2 < OpTimeout
  /\ EcuP2Star < PendTimeout
  /\ Faults \subseteq {"noise"}
ConformantEcuIsAnswered ==
  Conformant =>
    /\ \A m, n \in DOMAIN sent : sent[m].call = sent[n].call => m = n
    /\ \A c \in DOMAIN log : Answered(c) /\ Fresh(c)

(* The exchange keeps what UdsCall promises: at most Attempts transmissions, *)
(* NoResponse only after all of them, six endings each with its answer, an   *)
(* exception of the link among them, and an end to every call, whatever is   *)
(* lost.                                                                     *)
NoResult == [sid |-> Unsolicited, outcome |-> "none", answer |-> [sid |-> Unsolicited, kind |-> "malformed"]]
Short(m) == [sid |-> m.sid, kind |-> m.kind]
LastResult ==
  IF log = <<>> THEN NoResult
  ELSE [sid |-> log[Len(log)].sid, outcome |-> log[Len(log)].outcome,
        answer |-> Short(log[Len(log)].answer)]
Contract == INSTANCE UdsCall WITH
  phase <- IF pc = "idle" THEN "idle" ELSE "busy",
  tries <- attempt,
  done <- Calls,
  last <- LastResult,
  LinkMayRaise <- "linkRaises" \in Faults
KeepsContract == Contract!Spec

=============================================================================
