---------------------------- MODULE UdsServices ----------------------------
(***************************************************************************)
(* The data services of UdsUtils: download (request, blocks, exit),        *)
(* authentication, data identifiers, routines, trouble codes and raw       *)
(* requests.  An exchange is that of UdsExchange: Attempts transmissions,  *)
(* an answer of the service asked, which may be late, or none.  External   *)
(* are the ECU and the caller, who does one job over the link: flashes an  *)
(* image block by block, authenticates, accesses data, or reads            *)
(* identifiers.                                                            *)
(***************************************************************************)
EXTENDS Naturals, Sequences, SequencesExt

CONSTANTS
  Attempts,      \* UdsUtils.attempts
  Blocks,        \* blocks of the image the caller flashes
  Wrap,          \* values of the block counter, 256 in the code
  Targets,       \* data identifiers written, routines started, DTC reports asked for
  DidLists,      \* lists given to read_did: sequences of pairs of bytes
  Values,        \* data of an identifier: sequences of bytes
  Absent,        \* no value: the ECU leaves the identifier out of its answer
  MaxCalls,      \* bound: operations called, for each job
  MaxRestarts    \* bound: restarts of the ECU

Jobs == {"flash", "authenticate", "access", "read"}

ASSUME AttemptsAssumption == Attempts \in Nat \ {0}
ASSUME BlockAssumption == Blocks \in Nat \ {0} /\ Wrap \in Nat /\ Wrap > 2
ASSUME ValueAssumption == Absent \notin Values
ASSUME LimitAssumption == MaxCalls \in [Jobs -> Nat] /\ MaxRestarts \in Nat

VARIABLES
  job,       \* what the caller does
  op,        \* the operation under way, or the last one
  asked,     \* the request whose answer is awaited, or was
  tries,     \* transmissions of it, 0 when idle
  result,    \* of the last operation
  took,      \* history: the answer the last operation ended with
  calls,     \* operations called
  late,      \* history: an answer to an earlier operation could be taken for one to this
  epoch,     \* history: restarts of the ECU before it
  plan,      \* of the caller: the download granted and the block to transfer next
  staleFlash,\* history: blocks of an earlier download were on their way when this one began
  requests,  \* requests on their way to the ECU
  answers,   \* answers in the receive queue of the link
  ecu,       \* state of the ECU, see Ecu
  restarts   \* restarts of the ECU so far

client == <<op, asked, tries, result, took, calls, late, epoch, plan, staleFlash>>
vars == <<job, client, requests, answers, ecu, restarts>>

-----------------------------------------------------------------------------
(* Requests and answers.  val: block counter, challenge, identifier or list *)
(* of identifiers; body: the block itself, the value written, the values.   *)

Authentications == {"verify", "proof", "deAuthenticate", "configuration", "transmit"}
Services == {"download", "block", "exit", "write", "routine", "dtc", "clear", "read"}

(* All tasks of Authentication have one service identifier. *)
Sid(what) == IF what \in Authentications THEN "authentication" ELSE what

Request(what, val, body) == [what |-> what, val |-> val, body |-> body]
Answer(r, ok, val) == [what |-> r.what, ok |-> ok, val |-> val, body |-> r.body]
Nothing == Request("nothing", 0, 0)

Idle == tries = 0

Returned(value) == [kind |-> "returned", val |-> value]
Raised(exception) == [kind |-> "raised", val |-> exception]

Init ==
  /\ job \in Jobs
  /\ op = "none"
  /\ asked = Nothing
  /\ tries = 0
  /\ result = Returned("nothing")
  /\ took = Answer(Nothing, FALSE, 0)
  /\ calls = 0
  /\ late = FALSE
  /\ epoch = 0
  /\ plan = [granted |-> FALSE, next |-> 1]
  /\ staleFlash = FALSE
  /\ requests = <<>>
  /\ answers = <<>>
  /\ ecu = [download |-> FALSE, expects |-> 1, image |-> <<>>, flashed |-> FALSE,
            challenge |-> 0, challenges |-> 0, authenticated |-> FALSE,
            stored |-> [t \in Targets |-> 0], cleared |-> 0]
  /\ restarts = 0

-----------------------------------------------------------------------------
(* _split_dids. *)

(* bytes.find: the first place of the identifier from a position on, 0 for none. *)
Find(bytes, did, from) ==
  LET places == {i \in from..(Len(bytes) - 1) : <<bytes[i], bytes[i + 1]>> = did}
  IN IF places = {} THEN 0 ELSE CHOOSE i \in places : \A j \in places : i <= j

(* Mutant: the identifier is searched for in its own first byte on. *)
SplitDidsShort(list, bytes) ==
  LET Split(acc, i) ==
        LET curr == IF i = 1 THEN Find(bytes, list[1], 1) ELSE acc.next
            more == i < Len(list)
            next == IF curr # 0 /\ more THEN Find(bytes, list[i + 1], curr + 1) ELSE acc.next
            last == IF more /\ next # 0 THEN next - 1 ELSE Len(bytes)
        IN [next |-> next,
            found |-> IF curr = 0 THEN acc.found
                      ELSE Append(acc.found, <<list[i], SubSeq(bytes, curr + 2, last)>>)]
  IN FoldLeft(Split, [next |-> 1, found |-> <<>>], [i \in DOMAIN list |-> i]).found

(* The data of an identifier reaches to the next identifier of the list, or *)
(* to the end when that one is not found; the first is searched for from    *)
(* the start, and the second taken to be there when the first is not found. *)
SplitDids(list, bytes) ==
  LET Split(acc, i) ==
        LET curr == IF i = 1 THEN Find(bytes, list[1], 1) ELSE acc.next
            more == i < Len(list)
            next == IF curr # 0 /\ more THEN Find(bytes, list[i + 1], curr + 2) ELSE acc.next
            last == IF more /\ next # 0 THEN next - 1 ELSE Len(bytes)
        IN [next |-> next,
            found |-> IF curr = 0 THEN acc.found
                      ELSE Append(acc.found, <<list[i], SubSeq(bytes, curr + 2, last)>>)]
  IN FoldLeft(Split, [next |-> 1, found |-> <<>>], [i \in DOMAIN list |-> i]).found

(* What the ECU puts in its answer: identifiers and their values. *)
Piece(list, values, i) == IF values[i] = Absent THEN <<>> ELSE list[i] \o values[i]
Data(list, values) == FlattenSeq([i \in DOMAIN list |-> Piece(list, values, i)])

-----------------------------------------------------------------------------
(* Operations and what they make of an answer. *)

(* The answers an operation takes for one to its last request.  The block    *)
(* counter and the identifier written are compared, the task of an           *)
(* authentication shows in the return value, and nothing else is looked at.  *)
Confusable(r, m) ==
  /\ m.what = IF r.what = "verify" THEN "proof" ELSE r.what
  /\ r.what \in {"write", "block"} => m.val = r.val

OnTheWay(Test(_)) ==
  (\E i \in DOMAIN requests : Test(requests[i])) \/ (\E i \in DOMAIN answers : Test(answers[i]))

(* The counter of a block, eight bits wide in the code. *)
Counter(n) == n % Wrap

(* The first request of each operation. *)
FirstRequests(o) ==
  CASE o = "download" -> {Request("download", 0, 0)}
    [] o = "transfer" -> {Request("block", Counter(plan.next), plan.next)}
    [] o = "exit" -> {Request("exit", 0, 0)}
    [] o = "exchange" -> {Request("verify", 0, 0)}
    [] o = "raw" -> {Request("routine", t, calls + 1) : t \in Targets}
    [] o \in {"write", "routine", "dtc"} -> {Request(o, t, calls + 1) : t \in Targets}
    [] o = "read" -> {Request("read", list, 0) : list \in DidLists}
    [] OTHER -> {Request(o, 0, calls + 1)}

(* What a caller at each job may ask for. *)
Wanted ==
  CASE job = "flash" -> {"download"} \cup
                        (IF ~plan.granted THEN {}
                         ELSE IF plan.next <= Blocks THEN {"transfer"} ELSE {"exit"})
    [] job = "authenticate" -> {"exchange", "deAuthenticate", "configuration", "transmit"}
    [] job = "access" -> {"write", "routine", "dtc", "clear", "raw"}
    [] job = "read" -> {"read"}

Send(r) == requests' = Append(requests, r)

Start(o) ==
  /\ Idle
  /\ calls < MaxCalls[job]
  /\ o \in Wanted
  /\ \E r \in FirstRequests(o) :
       /\ asked' = r
       /\ Send(r)
       /\ late' = OnTheWay(LAMBDA m : Confusable(r, m))
  /\ op' = o
  /\ tries' = 1
  /\ calls' = calls + 1
  /\ epoch' = restarts
  /\ IF o = "download"
     THEN /\ plan' = [granted |-> FALSE, next |-> 1]
          /\ staleFlash' = OnTheWay(LAMBDA m : m.what \in {"block", "exit"})
     ELSE UNCHANGED <<plan, staleFlash>>
  /\ result' = Returned("nothing")
  /\ took' = Answer(Nothing, FALSE, 0)
  /\ UNCHANGED <<job, answers, ecu, restarts>>

(* Bidirectional exchange and challenge response are not implemented. *)
NotImplemented ==
  /\ Idle
  /\ job = "authenticate"
  /\ calls < MaxCalls[job]
  /\ calls' = calls + 1
  /\ op' = "bidirectional"
  /\ result' = Raised("NotImplementedError")
  /\ UNCHANGED <<job, asked, tries, took, late, epoch, plan, staleFlash, requests, answers, ecu, restarts>>

End(r) == tries' = 0 /\ result' = r /\ UNCHANGED <<asked, requests>>

DownloadAnswered(a) == End(Returned("max_length")) /\ plan' = [plan EXCEPT !.granted = TRUE]

(* Mutant: the counter echoed is not compared. *)
BlockAnsweredAnyhow(a) == End(Returned("None")) /\ plan' = [plan EXCEPT !.next = @ + 1]

(* The caller goes on to the next block when this one is acknowledged, and   *)
(* transfers it again, or starts anew, when transfer_data raises.            *)
BlockAnswered(a) ==
  IF a.val = asked.val
  THEN End(Returned("None")) /\ plan' = [plan EXCEPT !.next = @ + 1]
  ELSE End(Raised("InvalidResponse")) /\ UNCHANGED plan

ExitAnswered(a) == End(Returned("parameter_records")) /\ plan' = [plan EXCEPT !.granted = FALSE]

(* val of an answer to verify: the challenge, 0 for none, or the one that    *)
(* comes with a key for a session, which is not supported.                   *)
VerifyAnswered(a) ==
  \/ /\ a.what = "verify" /\ a.val # 0
     /\ LET r == Request("proof", a.val, 0) IN asked' = r /\ Send(r)
     /\ tries' = 1
     /\ UNCHANGED result
  \/ /\ a.what = "verify" /\ a.val # 0
     /\ End(Raised("NotImplementedError"))
  \/ /\ a.what # "verify" \/ a.val = 0
     /\ End(Raised("InvalidResponse"))

(* AuthenticationReturnParameter of a positive answer to each task. *)
ReturnValue ==
  [verify |-> "CertificateVerified_OwnershipVerificationNecessary",
   proof |-> "OwnershipVerified_AuthenticationComplete",
   deAuthenticate |-> "DeAuthentication_successful",
   configuration |-> "AuthenticationConfiguration_APCE",
   transmit |-> "CertificateVerified"]

(* Mutant: the return value is that of the task, whatever the answer says. *)
TaskAnsweredAsAsked(a) == End(Returned(ReturnValue[asked.what]))

(* The return value, which tells the task the answer is for, is handed on. *)
TaskAnswered(a) == End(Returned(ReturnValue[a.what]))

(* Mutant: the identifier echoed is not compared. *)
WriteAnsweredAnyhow(a) == End(Returned("True"))

WriteAnswered(a) == End(Returned(IF a.val = asked.val THEN "True" ELSE "False"))

(* service_data, which has the routine it is about. *)
RoutineAnswered(a) == End(Returned(a.val))

ReportAnswered(a) == End(Returned(a.val))

ClearAnswered(a) == End(Returned("True"))

ReadAnswered(a) == End(Returned(SplitDids(asked.val, Data(a.val, a.body))))

PositiveAnswered(a) ==
  \/ asked.what = "download" /\ DownloadAnswered(a)
  \/ asked.what = "block" /\ BlockAnswered(a)
  \/ asked.what = "exit" /\ ExitAnswered(a)
  \/ /\ \/ asked.what = "verify" /\ VerifyAnswered(a)
        \/ asked.what \in Authentications \ {"verify"} /\ TaskAnswered(a)
        \/ asked.what = "write" /\ WriteAnswered(a)
        \/ asked.what = "routine" /\ RoutineAnswered(a)
        \/ asked.what = "dtc" /\ ReportAnswered(a)
        \/ asked.what = "clear" /\ ClearAnswered(a)
        \/ asked.what = "read" /\ ReadAnswered(a)
     /\ UNCHANGED plan

(* raw_uds_service returns a negative answer, the others raise it. *)
Answered(a) ==
  IF a.ok THEN PositiveAnswered(a)
  ELSE /\ End(IF op = "raw" THEN Returned("negative") ELSE Raised("NegativeResponse"))
       /\ UNCHANGED plan

-----------------------------------------------------------------------------
(* The exchange. *)

NoExchange == UNCHANGED <<job, op, calls, late, epoch, staleFlash, ecu, restarts>>

OtherService ==
  /\ ~Idle
  /\ answers # <<>> /\ Sid(Head(answers).what) # Sid(asked.what)
  /\ answers' = Tail(answers)
  /\ UNCHANGED <<job, client, requests, ecu, restarts>>

TakeAnswer ==
  /\ ~Idle
  /\ answers # <<>> /\ Sid(Head(answers).what) = Sid(asked.what)
  /\ Answered(Head(answers))
  /\ took' = Head(answers)
  /\ answers' = Tail(answers)
  /\ NoExchange

(* The answer does not parse. *)
Malformed ==
  /\ ~Idle
  /\ answers # <<>>
  /\ answers' = Tail(answers)
  /\ End(Raised("InvalidResponse"))
  /\ UNCHANGED <<took, plan>>
  /\ NoExchange

(* Mutant: one transmission too many. *)
SendOnceMore ==
  /\ ~Idle
  /\ answers = <<>>
  /\ tries <= Attempts
  /\ tries' = tries + 1
  /\ Send(asked)
  /\ UNCHANGED <<asked, result, took, plan, answers>>
  /\ NoExchange

(* The timeout passes; requests and answers may still be on their way.      *)
SendAgain ==
  /\ ~Idle
  /\ answers = <<>>
  /\ tries < Attempts
  /\ tries' = tries + 1
  /\ Send(asked)
  /\ UNCHANGED <<asked, result, took, plan, answers>>
  /\ NoExchange

GiveUp ==
  /\ ~Idle
  /\ answers = <<>>
  /\ tries = Attempts
  /\ End(Raised("NoResponse"))
  /\ UNCHANGED <<took, plan, answers>>
  /\ NoExchange

-----------------------------------------------------------------------------
(* The ECU and the link. *)

Serve(r, e, ok, val, body) ==
  /\ ecu' = e
  /\ answers' = Append(answers, [Answer(r, ok, val) EXCEPT !.body = body])

Refuse(r) == Serve(r, ecu, FALSE, 0, r.body)

(* The block after the last one is written, the last one acknowledged again, *)
(* any other refused.                                                        *)
ServeBlock(r) ==
  IF ecu.download /\ r.val = Counter(ecu.expects)
  THEN Serve(r, [ecu EXCEPT !.expects = @ + 1, !.image = Append(@, r.body)], TRUE, r.val, r.body)
  ELSE IF ecu.download /\ ecu.image # <<>> /\ r.val = Counter(ecu.expects - 1)
  THEN Serve(r, ecu, TRUE, r.val, r.body)
  ELSE Refuse(r)

ServeExit(r) ==
  IF ecu.download THEN Serve(r, [ecu EXCEPT !.download = FALSE, !.flashed = TRUE], TRUE, 0, 0)
  ELSE Refuse(r)

ServeProof(r) ==
  IF ecu.challenge # 0 /\ r.val = ecu.challenge
  THEN Serve(r, [ecu EXCEPT !.authenticated = TRUE, !.challenge = 0], TRUE, 0, 0)
  ELSE Serve(r, [ecu EXCEPT !.challenge = 0], FALSE, 0, 0)

Serves(r) ==
  \/ r.what \notin {"block", "exit", "proof"} /\ Refuse(r)
  \/ /\ r.what = "download"
     /\ Serve(r, [ecu EXCEPT !.download = TRUE, !.expects = 1, !.image = <<>>, !.flashed = FALSE], TRUE, 0, 0)
  \/ r.what = "block" /\ ServeBlock(r)
  \/ r.what = "exit" /\ ServeExit(r)
  \/ /\ r.what = "verify"
     /\ LET c == ecu.challenges + 1
        IN Serve(r, [ecu EXCEPT !.challenge = c, !.challenges = c], TRUE, c, 0)
  \/ r.what = "verify" /\ Serve(r, ecu, TRUE, 0, 0)
  \/ r.what = "proof" /\ ServeProof(r)
  \/ r.what = "deAuthenticate" /\ Serve(r, [ecu EXCEPT !.authenticated = FALSE], TRUE, 0, 0)
  \/ r.what = "write" /\ Serve(r, [ecu EXCEPT !.stored[r.val] = r.body], TRUE, r.val, 0)
  \/ r.what = "clear" /\ Serve(r, [ecu EXCEPT !.cleared = r.body], TRUE, 0, 0)
  \/ r.what \in {"configuration", "transmit", "routine", "dtc"} /\ Serve(r, ecu, TRUE, r.val, 0)
  \/ /\ r.what = "read"
     /\ \E values \in [DOMAIN r.val -> Values \cup {Absent}] :
          /\ \E i \in DOMAIN values : values[i] # Absent
          /\ Serve(r, ecu, TRUE, r.val, values)

EcuServes ==
  /\ requests # <<>>
  /\ requests' = Tail(requests)
  /\ Serves(Head(requests))
  /\ UNCHANGED <<job, client, restarts>>

(* What the ECU was flashed with and told to store survives a restart.       *)
Restart ==
  /\ restarts < MaxRestarts
  /\ restarts' = restarts + 1
  /\ requests' = <<>>
  /\ ecu' = [ecu EXCEPT !.download = FALSE, !.challenge = 0, !.authenticated = FALSE]
  /\ UNCHANGED <<job, client, answers>>

LoseRequest ==
  /\ requests # <<>>
  /\ requests' = Tail(requests)
  /\ UNCHANGED <<job, client, answers, ecu, restarts>>

LoseAnswer ==
  /\ answers # <<>>
  /\ answers' = Tail(answers)
  /\ UNCHANGED <<job, client, requests, ecu, restarts>>

AllCallsDone == Idle /\ calls = MaxCalls[job] /\ UNCHANGED vars

Operations ==
  {"download", "transfer", "exit", "exchange", "deAuthenticate", "configuration", "transmit",
   "write", "routine", "dtc", "clear", "raw", "read"}

Next ==
  \/ \E o \in Operations : Start(o)
  \/ NotImplemented
  \/ OtherService \/ TakeAnswer \/ Malformed \/ SendAgain \/ GiveUp
  \/ EcuServes \/ Restart \/ LoseRequest \/ LoseAnswer
  \/ AllCallsDone

Spec == Init /\ [][Next]_vars

-----------------------------------------------------------------------------
(* Properties. *)

Ended(o) == Idle /\ op = o
Succeeds(o) == Ended(o) /\ result.kind = "returned"

(* The types of the variables; an operation is never sent more often than    *)
(* attempts (uds_utils.py:587), and blocks are only transferred in a         *)
(* download that was granted.                                                *)
TypeOK ==
  /\ job \in Jobs
  /\ op \in Operations \cup {"none", "bidirectional"}
  /\ asked.what \in Services \cup Authentications \cup {"nothing"}
  /\ tries \in 0..Attempts
  /\ result.kind \in {"returned", "raised"}
  /\ calls \in 0..MaxCalls[job]
  /\ late \in BOOLEAN /\ staleFlash \in BOOLEAN
  /\ plan \in [granted : BOOLEAN, next : 1..(Blocks + 1)]
  /\ ~Idle /\ op \in {"transfer", "exit"} => plan.granted
  /\ epoch \in 0..restarts /\ restarts \in 0..MaxRestarts
  /\ ecu.challenge \in 0..ecu.challenges

Image(k) == [i \in 1..k |-> i]

(* The image in the ECU is that of the caller as far as it was acknowledged, *)
(* each block once and in order, or one block further (transfer_data,        *)
(* uds_utils.py:342-362), and is whole when transfer_exit returns, although  *)
(* blocks are sent again, their counter wraps, and answers are late: unless  *)
(* blocks of an earlier download were on their way when this one began.      *)
ImageIsWhole ==
  ~staleFlash =>
    /\ plan.granted => ecu.image \in {Image(plan.next - 1), Image(plan.next)}
    /\ Succeeds("exit") => ecu.flashed /\ ecu.image = Image(Blocks)

(* The calls keep their types, and a download its image.                     *)
TransferInv == TypeOK /\ ImageIsWhole

(* An authentication that returns "ownership verified" left the ECU          *)
(* authenticated, one that returns "de-authenticated" left it not            *)
(* (uds_utils.py:478-575): unless that very answer was on its way to an      *)
(* earlier task, or the ECU restarted.                                       *)
AuthenticationIsRight ==
  (~late /\ restarts = epoch) =>
    /\ Succeeds("exchange") /\ result.val = ReturnValue["proof"] => ecu.authenticated
    /\ Succeeds("deAuthenticate") /\ result.val = ReturnValue["deAuthenticate"] => ~ecu.authenticated

(* write_did returns True with the value written in this call, or with a     *)
(* write of the same identifier on its way before it; clear and routine and  *)
(* report data are this call's unless an earlier request of the service was  *)
(* on its way (uds_utils.py:199-269, 385-452).                               *)
DataIsOwn ==
  ~late =>
    /\ Succeeds("write") /\ result.val = "True" => ecu.stored[asked.val] = asked.body
    /\ Succeeds("clear") => ecu.cleared = asked.body
    /\ (Succeeds("routine") \/ Succeeds("dtc")) => result.val = asked.val

(* What the services return is of this call, as said above.                  *)
AnswersAreOwn == AuthenticationIsRight /\ DataIsOwn

Place(list, values, i) == 1 + Len(Data(SubSeq(list, 1, i - 1), values))

(* No identifier shows up before its place, those left out nowhere at all,   *)
(* and only the first one or the last ones are left out.                     *)
Readable(list, values) ==
  LET bytes == Data(list, values)
      Left(i) == values[i] = Absent
  IN \A i \in DOMAIN list :
       /\ Left(i) => Find(bytes, list[i], 1) = 0
       /\ i < Len(list) => IF Left(i) THEN (i = 1 => ~Left(2)) /\ (i > 1 => Left(i + 1))
                           ELSE Left(i + 1) \/ Find(bytes, list[i + 1], Place(list, values, i) + 2)
                                                  = Place(list, values, i + 1)

(* read_did returns the identifiers of the answer, in the order asked for,   *)
(* each with the value the ECU gave it (_split_dids, uds_utils.py:629-652),  *)
(* if the values can be told from identifiers.                               *)
SplitIsRight ==
  Succeeds("read") /\ Readable(took.val, took.body) =>
    result.val = SelectSeq([i \in DOMAIN took.val |-> <<took.val[i], took.body[i]>>],
                           LAMBDA pair : pair[2] # Absent)

=============================================================================
