------------------------------ MODULE UdsClient ------------------------------
(***************************************************************************)
(* The operations of UdsUtils that take several exchanges, or whose result *)
(* speaks of the state of the ECU, and the plugins built on them: session  *)
(* routes, security access, ECU reset, crash detection and recovery.  An   *)
(* exchange is that of UdsExchange with one attempt: an answer of the      *)
(* service asked, which may be late for an earlier exchange, or none, or   *)
(* an exception of the data link.  The ECU is external: a diagnostic       *)
(* session, a security lock, and restarts after which it is in its default *)
(* session and locked.                                                     *)
(***************************************************************************)
EXTENDS Naturals, Sequences

CONSTANTS
  Sessions,      \* session identifiers
  Default,       \* the session an ECU starts in
  Reachable,     \* pairs of sessions the ECU switches between
  Route,         \* route_to_session: records [id, elevate]
  Elevation,     \* whether session_info has an elevation_info
  Current,       \* SessionChangeCrashDetector.current_session
  Decimal,       \* what int() makes of the hexadecimal digits of a session
  Unreadable,    \* no number: the digits have a letter
  Faults,        \* what may go wrong in the ECU and on the link
  MaxCalls,      \* bound: operations called
  MaxCrashes     \* bound: crashes of the ECU

FaultKinds == {"slow", "crashes", "malformed", "wrongKey", "linkRaises"}

ASSUME FaultAssumption == Faults \subseteq FaultKinds
ASSUME SessionAssumption ==
  /\ Default \in Sessions
  /\ Current \in Sessions
  /\ Reachable \subseteq Sessions \X Sessions
  /\ Unreadable \notin Sessions
ASSUME RouteAssumption ==
  Route \in Seq([id : Sessions, elevate : BOOLEAN]) /\ Route # <<>> /\ Elevation \in BOOLEAN
ASSUME BoundAssumption == MaxCalls \in Nat /\ MaxCrashes \in Nat

VARIABLES
  pc,        \* idle, or the request whose answer is awaited
  op,        \* the operation under way
  step,      \* index in Route, 0 before it
  result,    \* what the last operation returned
  calls,     \* operations called
  late,      \* history: answers to earlier operations may meet this one
  cut,       \* history: an answer to it did not parse, or was not awaited
  failed,    \* history: the data link raised in it
  broken,    \* the data link is about to raise
  sawUp,     \* history: the ECU was up at some time of it
  sawDown,   \* history: the ECU was down at some time of it
  requests,  \* requests on their way to the ECU
  answers,   \* answers in the receive queue of the link
  up,        \* the ECU runs
  session,   \* its active session
  unlocked,  \* its security level is unlocked
  seed,      \* number of the seed it waits for a key to, 0 for none
  seeds,     \* seeds given
  crashes    \* crashes so far

client == <<pc, op, step, result, calls, late, cut, failed, broken, sawUp, sawDown>>
link == <<requests, answers>>
ecu == <<up, session, unlocked, seed, seeds, crashes>>
vars == <<client, link, ecu>>

Operations == {"transit", "recover", "security", "reset", "present", "sessionCheck"}
Asked == {"session", "seed", "key", "reset", "present", "did"}

(* Seed and key are asked for with the same service identifier. *)
Sid(what) == IF what \in {"seed", "key"} THEN "securityAccess" ELSE what

(* val: the session, the number of the seed, or nothing of interest (0). *)
Request(what, val) == [what |-> what, val |-> val]
Answer(what, ok, val) == [what |-> what, ok |-> ok, val |-> val]

Init ==
  /\ pc = "idle"
  /\ op = "none"
  /\ step = 0
  /\ result = "none"
  /\ calls = 0
  /\ late = FALSE
  /\ cut = FALSE
  /\ failed = FALSE
  /\ broken = FALSE
  /\ sawUp = TRUE
  /\ sawDown = FALSE
  /\ requests = <<>>
  /\ answers = <<>>
  /\ up = TRUE
  /\ session = Default
  /\ unlocked = FALSE
  /\ seed = 0
  /\ seeds = 0
  /\ crashes = 0

-----------------------------------------------------------------------------
(* What an operation does next. *)

Ask(what, val) ==
  /\ pc' = what
  /\ requests' = Append(requests, Request(what, val))
  /\ UNCHANGED result

(* The operation returns a value or raises; it stays named for the reader.  *)
Return(value) ==
  /\ pc' = "idle"
  /\ result' = value
  /\ UNCHANGED <<requests, step>>

Truth(b) == IF b THEN "True" ELSE "False"

(* Mutant: the index is left at the session before. *)
AskSessionStay(i) == Ask("session", Route[i].id) /\ step' = i - 1

AskSession(i) == Ask("session", Route[i].id) /\ step' = i

(* Mutant: the last session of the route is left out. *)
NextSessionButLast ==
  IF step + 1 < Len(Route) THEN AskSession(step + 1) ELSE Return("True")

(* The next session of the route, or the end of it. *)
NextSession ==
  IF step < Len(Route) THEN AskSession(step + 1) ELSE Return("True")

(* security_access ends: the caller's result, or ignored by transit and recover. *)
SecurityDone(value) ==
  IF op = "security" THEN Return(value) ELSE NextSession

(* An answer, or the lack of one, is late when it meets another exchange. *)
SidsOf(o) ==
  CASE o = "transit" -> {"session", "securityAccess"}
    [] o = "recover" -> {"session", "securityAccess"}
    [] o = "security" -> {"securityAccess"}
    [] o = "reset" -> {"reset"}
    [] o = "present" -> {"present"}
    [] o = "sessionCheck" -> {"did"}

OnTheWay(sids) ==
  \/ \E i \in DOMAIN requests : Sid(requests[i].what) \in sids
  \/ \E i \in DOMAIN answers : Sid(answers[i].what) \in sids

Start(o) ==
  /\ pc = "idle"
  /\ calls < MaxCalls
  /\ calls' = calls + 1
  /\ op' = o
  /\ late' = OnTheWay(SidsOf(o))
  /\ cut' = FALSE
  /\ failed' = FALSE
  /\ sawUp' = up
  /\ sawDown' = ~up
  /\ CASE o = "transit" -> AskSession(1)
       [] o = "recover" -> IF Elevation THEN Ask("seed", 0) /\ step' = 0 ELSE AskSession(1)
       [] o = "security" -> Ask("seed", 0) /\ step' = 0
       [] o = "reset" -> Ask("reset", 0) /\ step' = 0
       [] o = "present" -> Ask("present", 0) /\ step' = 0
       [] o = "sessionCheck" -> Ask("did", 0) /\ step' = 0
  /\ UNCHANGED <<answers, broken, ecu>>

(* What each operation makes of an exchange without an answer: the          *)
(* detectors take NoResponse alone for a crash.                             *)
NoAnswer(why) ==
  CASE pc = "session" -> Return("False")
    [] pc \in {"seed", "key"} -> SecurityDone("raised")
    [] pc = "reset" -> Return("False")
    [] pc \in {"present", "did"} -> Return(Truth(why = "NoResponse"))

(* The echo of the session is compared with the one asked for, and only     *)
(* warned about.                                                            *)
SessionAnswered(a) ==
  IF ~a.ok THEN Return("False")
  ELSE IF Route[step].elevate THEN Ask("seed", 0) /\ UNCHANGED step
  ELSE NextSession

(* The algorithm is the caller's, and may be the wrong one. *)
KeysFor(s) == {s} \cup (IF "wrongKey" \in Faults THEN {0} ELSE {})

(* An answer to a key where a seed is expected is too short to be one.      *)
SeedAnswered(a) ==
  IF ~a.ok \/ a.what # "seed" THEN SecurityDone("raised")
  ELSE IF a.val = 0 THEN SecurityDone("True")
  ELSE \E key \in KeysFor(a.val) : Ask("key", key) /\ UNCHANGED step

(* Mutant: any answer to the key will do. *)
KeyAnsweredAnyhow(a) == SecurityDone("True")

KeyAnswered(a) ==
  IF ~a.ok THEN SecurityDone("raised") ELSE SecurityDone(Truth(a.what = "key"))

ResetAnswered(a) == Return(Truth(a.ok))

PresentAnswered(a) == Return("False")

(* Mutant: the comparison with the expected session is the wrong way round. *)
DidAnsweredInverted(a) == Return(Truth(a.ok /\ Decimal[a.val] = Current))

(* int(res[0].data): a change is a crash, digits with a letter raise.       *)
DidAnswered(a) == Return(Truth(a.ok /\ Decimal[a.val] \notin {Unreadable, Current}))

Answered(a) ==
  CASE pc = "session" -> SessionAnswered(a)
    [] pc = "seed" -> SeedAnswered(a)
    [] pc = "key" -> KeyAnswered(a)
    [] pc = "reset" -> ResetAnswered(a)
    [] pc = "present" -> PresentAnswered(a)
    [] pc = "did" -> DidAnswered(a)

-----------------------------------------------------------------------------
(* The exchange. *)

OtherService ==
  /\ pc # "idle"
  /\ ~broken
  /\ answers # <<>>
  /\ Sid(Head(answers).what) # Sid(pc)
  /\ answers' = Tail(answers)
  /\ UNCHANGED <<client, requests, ecu>>

TakeAnswer ==
  /\ pc # "idle"
  /\ ~broken
  /\ answers # <<>>
  /\ Sid(Head(answers).what) = Sid(pc)
  /\ Answered(Head(answers))
  /\ answers' = Tail(answers)
  /\ UNCHANGED <<op, calls, late, cut, failed, broken, sawUp, sawDown, ecu>>

Silence ==
  /\ pc # "idle"
  /\ ~broken
  /\ answers = <<>>
  /\ requests = <<>> \/ "slow" \in Faults
  /\ NoAnswer("NoResponse")
  /\ cut' = (cut \/ requests # <<>>)
  /\ UNCHANGED <<op, calls, late, failed, broken, sawUp, sawDown, answers, ecu>>

(* The answer does not parse: InvalidResponse. *)
Malformed ==
  /\ "malformed" \in Faults
  /\ pc # "idle"
  /\ ~broken
  /\ answers # <<>>
  /\ answers' = Tail(answers)
  /\ NoAnswer("other")
  /\ cut' = TRUE
  /\ UNCHANGED <<op, calls, late, failed, broken, sawUp, sawDown, ecu>>

(* The data link fails under the exchange: its connection is lost with what *)
(* is on it, the request does not leave, or only the receive fails.         *)
LinkFails ==
  /\ "linkRaises" \in Faults
  /\ pc # "idle"
  /\ ~broken
  /\ broken' = TRUE
  /\ failed' = TRUE
  /\ \/ requests' = <<>> /\ answers' = <<>>
     \/ requests # <<>> /\ requests' = SubSeq(requests, 1, Len(requests) - 1) /\ UNCHANGED answers
     \/ UNCHANGED link
  /\ UNCHANGED <<pc, op, step, result, calls, late, cut, sawUp, sawDown, ecu>>

(* Its exception, or that of a send that was too short, ends the exchange.  *)
LinkRaises ==
  /\ broken
  /\ broken' = FALSE
  /\ NoAnswer("LinkError")
  /\ UNCHANGED <<op, calls, late, cut, failed, sawUp, sawDown, answers, ecu>>

ClientStep == OtherService \/ TakeAnswer \/ Silence \/ Malformed \/ LinkFails \/ LinkRaises

-----------------------------------------------------------------------------
(* The ECU. *)

request == Head(requests)

Serves(what) ==
  /\ up
  /\ requests # <<>>
  /\ request.what = what
  /\ requests' = Tail(requests)
  /\ UNCHANGED <<client, up, crashes>>

Says(a) == answers' = Append(answers, a)

ServesSession ==
  /\ Serves("session")
  /\ IF <<session, request.val>> \in Reachable
     THEN /\ session' = request.val
          /\ unlocked' = FALSE
          /\ seed' = 0
          /\ Says(Answer("session", TRUE, request.val))
     ELSE Says(Answer("session", FALSE, 0)) /\ UNCHANGED <<session, unlocked, seed>>
  /\ UNCHANGED seeds

ServesSeed ==
  /\ Serves("seed")
  /\ IF session = Default
     THEN Says(Answer("seed", FALSE, 0)) /\ UNCHANGED <<seed, seeds>>
     ELSE IF unlocked THEN Says(Answer("seed", TRUE, 0)) /\ UNCHANGED <<seed, seeds>>
     ELSE /\ seeds' = seeds + 1
          /\ seed' = seeds + 1
          /\ Says(Answer("seed", TRUE, seeds + 1))
  /\ UNCHANGED <<session, unlocked>>

ServesKey ==
  /\ Serves("key")
  /\ IF seed # 0 /\ request.val = seed
     THEN unlocked' = TRUE /\ Says(Answer("key", TRUE, 0))
     ELSE Says(Answer("key", FALSE, 0)) /\ UNCHANGED unlocked
  /\ seed' = 0
  /\ UNCHANGED <<session, seeds>>

ServesReset ==
  /\ Serves("reset")
  /\ session' = Default
  /\ unlocked' = FALSE
  /\ seed' = 0
  /\ Says(Answer("reset", TRUE, 0))
  /\ UNCHANGED seeds

ServesPresent ==
  /\ Serves("present")
  /\ Says(Answer("present", TRUE, 0))
  /\ UNCHANGED <<session, unlocked, seed, seeds>>

ServesDid ==
  /\ Serves("did")
  /\ Says(Answer("did", TRUE, session))
  /\ UNCHANGED <<session, unlocked, seed, seeds>>

EcuServes ==
  ServesSession \/ ServesSeed \/ ServesKey \/ ServesReset \/ ServesPresent \/ ServesDid

Crash ==
  /\ "crashes" \in Faults
  /\ crashes < MaxCrashes
  /\ up
  /\ up' = FALSE
  /\ crashes' = crashes + 1
  /\ session' = Default
  /\ unlocked' = FALSE
  /\ seed' = 0
  /\ requests' = <<>>
  /\ sawDown' = TRUE
  /\ UNCHANGED <<pc, op, step, result, calls, late, cut, failed, broken, sawUp, answers, seeds>>

Restart ==
  /\ ~up
  /\ up' = TRUE
  /\ sawUp' = TRUE
  /\ UNCHANGED <<pc, op, step, result, calls, late, cut, failed, broken, sawDown, link, session, unlocked, seed, seeds,
                 crashes>>

NobodyListens ==
  /\ ~up
  /\ requests # <<>>
  /\ requests' = Tail(requests)
  /\ UNCHANGED <<client, answers, ecu>>

AllCallsDone ==
  /\ pc = "idle"
  /\ calls = MaxCalls
  /\ UNCHANGED vars

Next ==
  \/ \E o \in Operations : Start(o)
  \/ ClientStep
  \/ EcuServes \/ Crash \/ Restart \/ NobodyListens
  \/ AllCallsDone

Spec == Init /\ [][Next]_vars

-----------------------------------------------------------------------------
(* Properties. *)

(* Every variable has the type its code gives it: in particular a route is   *)
(* walked from its first session to its last (uds_utils.py:139) and a key is *)
(* only ever awaited after a seed was given.                                 *)
TypeOK ==
  /\ pc \in {"idle"} \cup Asked
  /\ op \in {"none"} \cup Operations
  /\ step \in 0..Len(Route)
  /\ pc = "session" => step > 0
  /\ pc \in {"seed", "key"} => op \in {"transit", "recover", "security"}
  /\ pc = "key" => seeds > 0
  /\ result \in {"none", "True", "False", "raised"}
  /\ calls \in Nat
  /\ late \in BOOLEAN /\ cut \in BOOLEAN /\ sawUp \in BOOLEAN /\ sawDown \in BOOLEAN
  /\ failed \in BOOLEAN /\ broken \in BOOLEAN
  /\ requests \in Seq([what : Asked, val : Nat \cup Sessions])
  /\ answers \in Seq([what : Asked, ok : BOOLEAN, val : Nat \cup Sessions])
  /\ up \in BOOLEAN
  /\ session \in Sessions
  /\ unlocked \in BOOLEAN
  /\ seed \in 0..seeds
  /\ seeds \in Nat
  /\ crashes \in Nat

Done(o, value) == pc = "idle" /\ op = o /\ result = value
Undisturbed == ~late /\ ~sawDown
Target == Route[Len(Route)].id

(* transit_to_session, and recover on top of it, return True with the ECU in *)
(* the last session of the route, although the echo is not checked           *)
(* (uds_utils.py:142-143): as long as the ECU does not crash, only a late    *)
(* answer to an earlier session request can mislead them.                    *)
RouteIsWalked ==
  (Undisturbed /\ (Done("transit", "True") \/ Done("recover", "True"))) => session = Target

(* security_access returns True with the ECU unlocked (uds_utils.py:293-305) *)
(* although it never checks that seed and key belong together; and when all  *)
(* answers come in time over a link that does not fail, it does not return   *)
(* True only if the ECU is locked.                                           *)
SecurityAccessIsRight ==
  (Undisturbed /\ pc = "idle" /\ op = "security") =>
    /\ result = "True" => unlocked
    /\ ~cut /\ ~failed /\ unlocked => result = "True"

(* The calls keep their types, and those that return True did what they say, *)
(* as said above of each.                                                    *)
ClientInv == TypeOK /\ RouteIsWalked /\ SecurityAccessIsRight

(* UnrespondedTesterPresentCrashDetector does not report a crash of an ECU   *)
(* that was up all the time and answers in time; an ECU that was down all    *)
(* the time it misses only when the data link raised, and then always        *)
(* (unresponded_tp_crash_detector.py:10-22).                                 *)
TesterPresentDetects ==
  (~late /\ ~cut) =>
    /\ Done("present", "True") => sawDown /\ ~failed
    /\ Done("present", "False") => sawUp \/ failed

(* int() makes another number of the session than the one expected           *)
(* (session_change_detector.py:16-17): of an ECU still in session 0x10, when *)
(* 16 is expected, but not of one that left it for session 0x1A.             *)
LooksElsewhere == Decimal[session] \notin {Unreadable, Current}

(* SessionChangeCrashDetector reports a crash only when the ECU was down or  *)
(* its session looks like another one; an ECU that was down all the time, or *)
(* stayed up in such a session, it misses only when the data link raised,    *)
(* and then always (session_change_detector.py:11-30).                       *)
SessionChangeDetects ==
  (~late /\ ~cut) =>
    /\ Done("sessionCheck", "True") => (sawDown \/ LooksElsewhere) /\ ~failed
    /\ Done("sessionCheck", "False") => failed \/ (sawUp /\ (sawDown \/ ~LooksElsewhere))

(* Both detectors are right, as said above of each. *)
DetectorsAreRight == TesterPresentDetects /\ SessionChangeDetects

(* The docstring of transit_to_session: "True if succeeded to transit to the *)
(* session, False otherwise" (uds_utils.py:137).                             *)
TransitTellsTheTruth ==
  (Done("transit", "True") /\ ~sawDown /\ requests = <<>>) => session = Target

(* README.md:45 of the SDK: UdsEcuRecoverPlugin recovers the ECU "back to    *)
(* predefined UDS state - session and elevation".                            *)
RecoverRestoresElevation == (Undisturbed /\ Elevation /\ Done("recover", "True")) => unlocked

=============================================================================
