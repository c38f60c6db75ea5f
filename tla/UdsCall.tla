------------------------------- MODULE UdsCall -------------------------------
(***************************************************************************)
(* What one UDS operation promises its caller, whatever the ECU and the    *)
(* link do: it transmits its request at most Attempts times, and it ends   *)
(* in one of six ways.  Four are those the docstrings of UdsUtilsBase      *)
(* name: a positive answer, NegativeResponse, InvalidResponse, NoResponse. *)
(* The two others are not documented: a send that came back short          *)
(* (uds_utils.py:589-591), and whatever send and recv of the data link     *)
(* raise themselves, which the loop passes on (lines 588 and 600).         *)
(***************************************************************************)
EXTENDS Naturals

CONSTANTS
  Services,      \* service identifiers of the requests
  Attempts,      \* transmissions a call may make
  LinkMayRaise   \* TRUE when send and recv of the data link may raise

Unsolicited == "unsolicited"

VARIABLES
  phase,  \* "idle" or "busy"
  sid,    \* service of the request being made
  tries,  \* transmissions made for it
  done,   \* number of finished calls
  last    \* how the last one ended

vars == <<phase, sid, tries, done, last>>

NoAnswer == [sid |-> Unsolicited, kind |-> "malformed"]
NoResult == [sid |-> Unsolicited, outcome |-> "none", answer |-> NoAnswer]

Answers == [sid : Services \cup {Unsolicited},
            kind : {"positive", "negative", "malformed"}]

Init ==
  /\ phase = "idle"
  /\ sid = Unsolicited
  /\ tries = 0
  /\ done = 0
  /\ last = NoResult

Begin ==
  /\ phase = "idle"
  /\ phase' = "busy"
  /\ sid' \in Services
  /\ UNCHANGED <<tries, done, last>>

Try ==
  /\ phase = "busy"
  /\ tries < Attempts
  /\ tries' = tries + 1
  /\ UNCHANGED <<phase, sid, done, last>>

(* The six endings, and the answer that justifies each. *)
Promised(outcome, m) ==
  \/ outcome = "positive" /\ tries > 0 /\ m = [sid |-> sid, kind |-> "positive"]
  \/ outcome = "NegativeResponse" /\ tries > 0 /\ m = [sid |-> sid, kind |-> "negative"]
  \/ outcome = "InvalidResponse" /\ tries > 0 /\ m.kind = "malformed"
  \/ outcome = "NoResponse" /\ tries = Attempts /\ m = NoAnswer
  \/ outcome = "RuntimeError" /\ tries < Attempts /\ m = NoAnswer
  \/ outcome = "LinkError" /\ LinkMayRaise /\ m = NoAnswer

Outcomes ==
  {"positive", "NegativeResponse", "InvalidResponse", "NoResponse", "RuntimeError", "LinkError"}

Return ==
  /\ phase = "busy"
  /\ \E outcome \in Outcomes, m \in Answers :
        /\ Promised(outcome, m)
        /\ last' = [sid |-> sid, outcome |-> outcome, answer |-> m]
  /\ phase' = "idle"
  /\ sid' = Unsolicited
  /\ tries' = 0
  /\ done' = done + 1

Next == Begin \/ Try \/ Return

Safety == Init /\ [][Next]_vars

(* A call that began does end. *)
Spec == Safety /\ WF_vars(Try \/ Return)

=============================================================================
