----------------------------- MODULE WifiProofs -----------------------------
(***************************************************************************)
(* Proofs about WifiMonitor, for any set of objects on the interface: its  *)
(* types, that close puts back what open found, that receive returns       *)
(* frames in their order, each once and of this open, and that their       *)
(* security is told by what they hold.                                     *)
(***************************************************************************)
EXTENDS WifiMonitor, SequenceTheorems, FiniteSetTheorems, TLAPS

USE BoundAssumption

-----------------------------------------------------------------------------
(* The inductive invariants, by object.                                      *)

FlagsOf(interface) == IF interface.up THEN "up" ELSE "down"

(* What the commands of open have reached, once the interface is up.         *)
Monitoring(s) ==
  alone[s] =>
    /\ pc[s] = "verify" => iface.up
    /\ pc[s] \in {"bind", "flush"} => iface = [up |-> TRUE, mode |-> "monitor"]
    /\ pc[s] = "idle" /\ result[s].kind = "True" /\ sock[s] = "bound" => iface = [up |-> TRUE, mode |-> "monitor"]

(* Everything open found is known, to the object or by the interface.        *)
Known(s) ==
  LET b == before[s]
  IN \/ saved[s] = NothingSaved /\ iface = b
     \/ saved[s] = [mode |-> "none", flags |-> FlagsOf(b)] /\ iface.mode = b.mode
     \/ saved[s] = [mode |-> b.mode, flags |-> FlagsOf(b)]

(* ... between the commands of open, up to the one that reads the mode:      *)
OpenKnows(s) ==
  LET b == before[s]
  IN /\ pc[s] = "flags" => iface = b
     /\ pc[s] \in {"down", "mode"} => saved[s].flags = FlagsOf(b)
     /\ pc[s] = "down" => iface = b
     /\ pc[s] = "mode" => iface = [up |-> FALSE, mode |-> b.mode]

(* ... after it, and between the commands of close.                          *)
CloseKnows(s) ==
  LET b == before[s]
  IN /\ pc[s] = "flags" => saved[s] = NothingSaved
     /\ pc[s] = "down" => saved[s].mode = "none"
     /\ pc[s] \in {"setMode", "setFlags", "up", "verify", "bind", "flush", "closeMode"} =>
          saved[s] = [mode |-> b.mode, flags |-> FlagsOf(b)]
     /\ pc[s] = "closeDown" => Known(s) /\ saved[s] # NothingSaved
     /\ pc[s] \in {"idle", "receive"} /\ sock[s] # "none" => Known(s)
     /\ pc[s] \in {"closeMode", "closeFlags"} => ~iface.up
     /\ pc[s] = "closeFlags" => iface.mode = b.mode /\ saved[s].flags = FlagsOf(b)
     /\ pc[s] = "closeUp" => b.up /\ iface.mode = b.mode
     /\ pc[s] = "closeSocket" => iface = b
     /\ pc[s] = "idle" /\ result[s].kind = "closed" => iface = b

Restoring(s) ==
  alone[s] =>
    /\ muddled[s] \in {"no", "leftover"} => OpenKnows(s)
    /\ muddled[s] = "no" => CloseKnows(s)

(* Frames are queued in their order, after those that were handed out, which *)
(* are of the object's own interface.                                        *)
InOrder(s) ==
  /\ \A i, j \in DOMAIN queue[s] : i < j => queue[s][i].n < queue[s][j].n
  /\ \A i, j \in DOMAIN handed[s] : i < j => handed[s][i].n < handed[s][j].n
  /\ \A i \in DOMAIN handed[s], j \in DOMAIN queue[s] : handed[s][i].n < queue[s][j].n
  /\ \A i \in DOMAIN handed[s] : handed[s][i].own

FramesOfThisOpen(s) ==
  /\ pc[s] \in OpenSteps => handed[s] = <<>>
  /\ sock[s] = "bound" /\ pc[s] # "flush" =>
       /\ \A i \in DOMAIN handed[s] : handed[s][i].n > after[s]
       /\ \A j \in DOMAIN queue[s] : queue[s][j].n > after[s]

MonitorIInv == \A s \in Sockets : Monitoring(s)
CloseIInv == \A s \in Sockets : Restoring(s)
FramesIInv == \A s \in Sockets : InOrder(s) /\ FramesOfThisOpen(s)

-----------------------------------------------------------------------------
(* The types.                                                                *)

(* Two settings of the interface are the same when their parts are.          *)
LEMMA InterfaceIsItsParts ==
  ASSUME NEW x \in Interface, NEW y \in Interface, x.up = y.up, x.mode = y.mode
  PROVE  x = y
<1>1. x = [up |-> x.up, mode |-> x.mode] /\ y = [up |-> y.up, mode |-> y.mode]
  BY DEF Interface
<1> QED
  BY <1>1

(* A frame more does not take the types of what there is.                    *)
LEMMA FramesStay ==
  ASSUME NEW m \in Nat
  PROVE  /\ 1..m \subseteq 1..(m + 1) /\ 0..m \subseteq 0..(m + 1)
         /\ Seq([n : 1..m, own : BOOLEAN]) \subseteq Seq([n : 1..(m + 1), own : BOOLEAN])
<1>1. 1..m \subseteq 1..(m + 1) /\ 0..m \subseteq 0..(m + 1)
  OBVIOUS
<1>2. [n : 1..m, own : BOOLEAN] \subseteq [n : 1..(m + 1), own : BOOLEAN]
  BY <1>1
<1> QED
  BY <1>1, <1>2, SeqMonotonic

LEMMA InitIsTyped == Init => TypeOK
<1> SUFFICES ASSUME Init PROVE TypeOK
  OBVIOUS
<1>1. iface \in Interface /\ before \in [Sockets -> Interface]
  BY DEF Init, Interface, Modes
<1>2. opens \in 0..MaxOpens /\ frames \in 0..MaxFrames /\ failures \in 0..MaxFailures /\ others \in 0..MaxOthers
  BY DEF Init
<1>3. \A S : <<>> \in Seq(S)
  BY EmptySeq
<1>4. queue \in [Sockets -> Seq([n : 1..frames, own : BOOLEAN])] /\ handed \in [Sockets -> Seq([n : 1..frames, own : BOOLEAN])]
  BY <1>3 DEF Init
<1>5. after \in [Sockets -> 0..frames]
  BY 0 \in 0..0 DEF Init
<1>6. result \in [Sockets -> [kind : Outcomes, content : Contents \cup {NoContent}]]
  BY DEF Init, Outcomes
<1> QED
  BY <1>1, <1>2, <1>4, <1>5, <1>6 DEF Init, TypeOK, NothingSaved

PcType == {"idle", "receive"} \cup OpenSteps \cup CloseSteps

(* What the parts of an action do to the types. *)
LEMMA GoType ==
  ASSUME TypeOK, NEW s \in Sockets, NEW step \in PcType, Go(s, step)
  PROVE  /\ pc' \in [Sockets -> PcType] /\ pc'[s] = step
         /\ \A t \in Sockets \ {s} : pc'[t] = pc[t]
  BY DEF TypeOK, Go, Set, PcType

LEMMA ResultType ==
  ASSUME TypeOK, NEW s \in Sockets, NEW kind \in Outcomes, NEW content \in Contents \cup {NoContent},
         Result(s, kind, content)
  PROVE  result' \in [Sockets -> [kind : Outcomes, content : Contents \cup {NoContent}]]
  BY DEF TypeOK, Result, Set

LEMMA FailType ==
  ASSUME TypeOK, Fail
  PROVE  failures' \in 0..MaxFailures
  BY DEF TypeOK, Fail

LEMMA SetInterfaceType ==
  ASSUME TypeOK, NEW s \in Sockets, NEW value \in Interface, SetInterface(s, value)
  PROVE  iface' \in Interface /\ alone' \in [Sockets -> BOOLEAN]
  BY DEF TypeOK, SetInterface

(* Every command sets the interface to one of its settings.                  *)
LEMMA SettingType ==
  ASSUME TypeOK
  PROVE  /\ \A up \in BOOLEAN : [iface EXCEPT !.up = up] \in Interface
         /\ \A mode \in Modes : [iface EXCEPT !.mode = mode] \in Interface
  BY DEF TypeOK, Interface

(* ... and every attribute is set to a value of its own.                     *)
LEMMA AttributeType ==
  ASSUME TypeOK, NEW s \in Sockets, NEW r, r \in [mode : Modes \cup {"none"}, flags : {"none", "up", "down"}],
         saved' = [saved EXCEPT ![s] = r]
  PROVE  /\ saved' \in [Sockets -> [mode : Modes \cup {"none"}, flags : {"none", "up", "down"}]]
         /\ \A t \in Sockets \ {s} : saved'[t] = saved[t]
         /\ saved'[s] = r
<1>1. saved \in [Sockets -> [mode : Modes \cup {"none"}, flags : {"none", "up", "down"}]]
  BY DEF TypeOK
<1> QED
  BY <1>1

LEMMA FlagsSavedType ==
  ASSUME TypeOK, NEW s \in Sockets, NEW flags \in {"none", "up", "down"}, saved' = [saved EXCEPT ![s].flags = flags]
  PROVE  /\ saved' \in [Sockets -> [mode : Modes \cup {"none"}, flags : {"none", "up", "down"}]]
         /\ \A t \in Sockets \ {s} : saved'[t] = saved[t]
         /\ saved'[s].flags = flags /\ saved'[s].mode = saved[s].mode
<1> DEFINE r == [mode |-> saved[s].mode, flags |-> flags]
<1>1. saved[s] \in [mode : Modes \cup {"none"}, flags : {"none", "up", "down"}]
  BY DEF TypeOK
<1>2. r \in [mode : Modes \cup {"none"}, flags : {"none", "up", "down"}] /\ [saved[s] EXCEPT !.flags = flags] = r
  BY <1>1
<1>3. saved' = [saved EXCEPT ![s] = r]
  BY <1>2
<1>4. r.flags = flags /\ r.mode = saved[s].mode
  OBVIOUS
<1> HIDE DEF r
<1>5. /\ saved' \in [Sockets -> [mode : Modes \cup {"none"}, flags : {"none", "up", "down"}]]
      /\ \A t \in Sockets \ {s} : saved'[t] = saved[t]
      /\ saved'[s] = r
  BY <1>2, <1>3, AttributeType
<1> QED
  BY <1>4, <1>5

LEMMA ModeSavedType ==
  ASSUME TypeOK, NEW s \in Sockets, NEW mode \in Modes \cup {"none"}, saved' = [saved EXCEPT ![s].mode = mode]
  PROVE  /\ saved' \in [Sockets -> [mode : Modes \cup {"none"}, flags : {"none", "up", "down"}]]
         /\ \A t \in Sockets \ {s} : saved'[t] = saved[t]
         /\ saved'[s].mode = mode /\ saved'[s].flags = saved[s].flags
<1> DEFINE r == [mode |-> mode, flags |-> saved[s].flags]
<1>1. saved[s] \in [mode : Modes \cup {"none"}, flags : {"none", "up", "down"}]
  BY DEF TypeOK
<1>2. r \in [mode : Modes \cup {"none"}, flags : {"none", "up", "down"}] /\ [saved[s] EXCEPT !.mode = mode] = r
  BY <1>1
<1>3. saved' = [saved EXCEPT ![s] = r]
  BY <1>2
<1>4. r.mode = mode /\ r.flags = saved[s].flags
  OBVIOUS
<1> HIDE DEF r
<1>5. /\ saved' \in [Sockets -> [mode : Modes \cup {"none"}, flags : {"none", "up", "down"}]]
      /\ \A t \in Sockets \ {s} : saved'[t] = saved[t]
      /\ saved'[s] = r
  BY <1>2, <1>3, AttributeType
<1> QED
  BY <1>4, <1>5

(* A step that moves on an object with a socket and changes no more than its *)
(* attributes, its result and what is said of them.                          *)
LEMMA MoveKeepsTypes ==
  ASSUME TypeOK, NEW s \in Sockets, NEW next \in PcType \ {"flush", "closeMode"},
         pc' \in [Sockets -> PcType], pc'[s] = next, \A t \in Sockets \ {s} : pc'[t] = pc[t],
         sock[s] # "none",
         saved' \in [Sockets -> [mode : Modes \cup {"none"}, flags : {"none", "up", "down"}]],
         \A t \in Sockets \ {s} : saved'[t] = saved[t],
         muddled' \in [Sockets -> {"no", "reopened", "leftover", "refused"}],
         result' \in [Sockets -> [kind : Outcomes, content : Contents \cup {NoContent}]],
         UNCHANGED <<iface, sock, queue, handed, before, after, alone, opens, frames, failures, others>>
  PROVE  TypeOK'
<1>1. \A t \in Sockets :
        /\ sock'[t] = "none" => queue'[t] = <<>>
        /\ pc'[t] # "idle" => sock'[t] # "none"
        /\ pc'[t] = "flush" => sock'[t] = "bound"
        /\ pc'[t] = "closeMode" => saved'[t].mode # "none"
  BY DEF TypeOK
<1> QED
  BY <1>1 DEF TypeOK, PcType

(* The attributes, what is said of them and the results when none changes.   *)
LEMMA UnchangedTypes ==
  ASSUME TypeOK, UNCHANGED <<saved, muddled>>
  PROVE  /\ saved' \in [Sockets -> [mode : Modes \cup {"none"}, flags : {"none", "up", "down"}]]
         /\ \A t \in Sockets : saved'[t] = saved[t]
         /\ muddled' \in [Sockets -> {"no", "reopened", "leftover", "refused"}]
  BY DEF TypeOK

LEMMA StepKeepsTypes ==
  ASSUME TypeOK, NEW s \in Sockets, NEW step \in PcType \ {"idle"}, NEW next \in PcType \ {"flush"},
         NEW value \in Interface, Step(s, step, value, next),
         next = "closeMode" => saved[s].mode # "none"
  PROVE  TypeOK'
<1>1. /\ pc' \in [Sockets -> PcType] /\ pc'[s] = next
      /\ \A t \in Sockets \ {s} : pc'[t] = pc[t]
  BY GoType DEF Step
<1>2. iface' \in Interface /\ alone' \in [Sockets -> BOOLEAN]
  BY SetInterfaceType DEF Step
<1>3. UNCHANGED <<sock, saved, queue, result, handed, before, after, muddled, opens, frames, failures, others>>
  BY DEF Step, counters
<1>4. sock[s] # "none"
  BY DEF TypeOK, Step
<1> QED
  BY <1>1, <1>2, <1>3, <1>4 DEF TypeOK, PcType

LEMMA RefusedKeepsTypes ==
  ASSUME TypeOK, NEW s \in Sockets, NEW step, NEW kind \in Outcomes, Refused(s, step, kind),
         saved' \in [Sockets -> [mode : Modes \cup {"none"}, flags : {"none", "up", "down"}]],
         \A t \in Sockets \ {s} : saved'[t] = saved[t],
         muddled' \in [Sockets -> {"no", "reopened", "leftover", "refused"}]
  PROVE  TypeOK'
<1>1. /\ pc' \in [Sockets -> PcType] /\ pc'[s] = "idle"
      /\ \A t \in Sockets \ {s} : pc'[t] = pc[t]
  BY GoType DEF Refused, End, PcType
<1>2. result' \in [Sockets -> [kind : Outcomes, content : Contents \cup {NoContent}]]
  BY ResultType DEF Refused, End
<1>3. failures' \in 0..MaxFailures
  BY FailType DEF Refused
<1>4. UNCHANGED <<iface, sock, queue, handed, before, after, alone, opens, frames, others>>
  BY DEF Refused
<1> QED
  BY <1>1, <1>2, <1>3, <1>4 DEF TypeOK, PcType

LEMMA RestoreKeepsTypes ==
  ASSUME TypeOK, NEW s \in Sockets, NEW step \in PcType \ {"idle"}, NEW next \in PcType \ {"flush"},
         NEW value \in Interface, Restore(s, step, value, next),
         next = "closeMode" => saved[s].mode # "none"
  PROVE  TypeOK'
<1>1. CASE Step(s, step, value, next)
  BY <1>1, StepKeepsTypes
<1>2. CASE /\ pc[s] = step /\ Fail /\ Go(s, next)
           /\ muddled' = Set(muddled, s, "refused")
           /\ UNCHANGED <<iface, sock, saved, queue, result, handed, before, after, alone, opens, frames, others>>
  <2>1. /\ pc' \in [Sockets -> PcType] /\ pc'[s] = next
        /\ \A t \in Sockets \ {s} : pc'[t] = pc[t]
    BY <1>2, GoType
  <2>2. failures' \in 0..MaxFailures
    BY <1>2, FailType
  <2>3. muddled' \in [Sockets -> {"no", "reopened", "leftover", "refused"}]
    BY <1>2 DEF TypeOK, Set
  <2>4. sock[s] # "none"
    BY <1>2 DEF TypeOK
  <2> QED
    BY <1>2, <2>1, <2>2, <2>3, <2>4 DEF TypeOK, PcType
<1> QED
  BY <1>1, <1>2 DEF Restore

(* A refused command that leaves the attributes alone. *)
LEMMA PlainRefusalKeepsTypes ==
  ASSUME TypeOK, NEW s \in Sockets, NEW step, NEW kind \in Outcomes, Refused(s, step, kind), UNCHANGED <<saved, muddled>>
  PROVE  TypeOK'
<1>1. /\ saved' \in [Sockets -> [mode : Modes \cup {"none"}, flags : {"none", "up", "down"}]]
      /\ \A t \in Sockets \ {s} : saved'[t] = saved[t]
      /\ muddled' \in [Sockets -> {"no", "reopened", "leftover", "refused"}]
  BY DEF TypeOK
<1> QED
  BY <1>1, RefusedKeepsTypes

(* The commands of open keep the types. *)
LEMMA CommandsKeepTypes ==
  ASSUME TypeOK, NEW s \in Sockets,
         GetFlags(s) \/ Down(s) \/ GetMode(s) \/ SetMode(s) \/ SetFlags(s) \/ Up(s) \/ Verify(s)
  PROVE  TypeOK'
<1> USE DEF PcType, OpenSteps, Outcomes
<1>1. CASE GetFlags(s)
  <2>1. CASE Refused(s, "flags", "False") /\ UNCHANGED <<saved, muddled>>
    BY <2>1, PlainRefusalKeepsTypes
  <2>2. CASE /\ pc[s] = "flags"
             /\ saved' = [saved EXCEPT ![s].flags = IF iface.up THEN "up" ELSE "down"]
             /\ Go(s, "down")
             /\ UNCHANGED <<iface, sock, queue, result, history, counters>>
    <3>1. /\ saved' \in [Sockets -> [mode : Modes \cup {"none"}, flags : {"none", "up", "down"}]]
          /\ \A t \in Sockets \ {s} : saved'[t] = saved[t]
      <4>1. (IF iface.up THEN "up" ELSE "down") \in {"none", "up", "down"}
        OBVIOUS
      <4> QED
        BY <2>2, <4>1, FlagsSavedType
    <3>2. /\ pc' \in [Sockets -> PcType] /\ pc'[s] = "down"
          /\ \A t \in Sockets \ {s} : pc'[t] = pc[t]
      BY <2>2, GoType
    <3>3. /\ sock[s] # "none" /\ muddled' \in [Sockets -> {"no", "reopened", "leftover", "refused"}]
          /\ result' \in [Sockets -> [kind : Outcomes, content : Contents \cup {NoContent}]]
      BY <2>2 DEF TypeOK, history
    <3>4. UNCHANGED <<iface, sock, queue, handed, before, after, alone, opens, frames, failures, others>>
      BY <2>2 DEF history, counters
    <3> QED
      BY <3>1, <3>2, <3>3, <3>4, MoveKeepsTypes
  <2> QED
    BY <1>1, <2>1, <2>2 DEF GetFlags
<1>2. CASE Down(s)
  <2>1. [iface EXCEPT !.up = FALSE] \in Interface
    BY SettingType
  <2> QED
    BY <1>2, <2>1, StepKeepsTypes, PlainRefusalKeepsTypes DEF Down
<1>3. CASE GetMode(s)
  <2>1. muddled' \in [Sockets -> {"no", "reopened", "leftover", "refused"}]
    BY <1>3 DEF GetMode, TypeOK, Set
  <2>2. CASE Refused(s, "mode", "False") /\ saved' = [saved EXCEPT ![s].mode = "none"]
    <3>1. /\ saved' \in [Sockets -> [mode : Modes \cup {"none"}, flags : {"none", "up", "down"}]]
          /\ \A t \in Sockets \ {s} : saved'[t] = saved[t]
      BY <2>2, ModeSavedType
    <3> QED
      BY <2>1, <2>2, <3>1, RefusedKeepsTypes
  <2>3. CASE /\ pc[s] = "mode"
             /\ saved' = [saved EXCEPT ![s].mode = iface.mode]
             /\ Go(s, "setMode")
             /\ UNCHANGED <<iface, sock, queue, result, handed, before, after, alone, counters>>
    <3>1. /\ saved' \in [Sockets -> [mode : Modes \cup {"none"}, flags : {"none", "up", "down"}]]
          /\ \A t \in Sockets \ {s} : saved'[t] = saved[t]
      <4>1. iface.mode \in Modes
        BY DEF TypeOK, Interface
      <4> QED
        BY <2>3, <4>1, ModeSavedType
    <3>2. /\ pc' \in [Sockets -> PcType] /\ pc'[s] = "setMode"
          /\ \A t \in Sockets \ {s} : pc'[t] = pc[t]
      BY <2>3, GoType
    <3>3. sock[s] # "none" /\ result' \in [Sockets -> [kind : Outcomes, content : Contents \cup {NoContent}]]
      BY <2>3 DEF TypeOK
    <3>4. UNCHANGED <<iface, sock, queue, handed, before, after, alone, opens, frames, failures, others>>
      BY <2>3 DEF counters
    <3> QED
      BY <2>1, <3>1, <3>2, <3>3, <3>4, MoveKeepsTypes
  <2> QED
    BY <1>3, <2>2, <2>3 DEF GetMode
<1>4. CASE SetMode(s)
  <2>1. [iface EXCEPT !.mode = "monitor"] \in Interface
    BY SettingType DEF Modes
  <2>2. CASE /\ iface.up /\ pc[s] = "setMode"
             /\ End(s, "False")
             /\ UNCHANGED <<iface, sock, saved, queue, history, counters>>
    <3>1. /\ pc' \in [Sockets -> PcType] /\ pc'[s] = "idle"
          /\ \A t \in Sockets \ {s} : pc'[t] = pc[t]
      BY <2>2, GoType DEF End
    <3>2. result' \in [Sockets -> [kind : Outcomes, content : Contents \cup {NoContent}]]
      BY <2>2, ResultType DEF End
    <3>3. sock[s] # "none"
      BY <2>2 DEF TypeOK
    <3>4. UNCHANGED <<iface, sock, saved, muddled, queue, handed, before, after, alone, opens, frames, failures, others>>
      BY <2>2 DEF history, counters
    <3> QED
      BY <3>1, <3>2, <3>3, <3>4, UnchangedTypes, MoveKeepsTypes
  <2> QED
    BY <1>4, <2>1, <2>2, StepKeepsTypes, PlainRefusalKeepsTypes DEF SetMode
<1>5. CASE SetFlags(s)
  <2>1. [iface EXCEPT !.up = (saved[s].flags = "up")] \in Interface
    BY SettingType, (saved[s].flags = "up") \in BOOLEAN
  <2> QED
    BY <1>5, <2>1, StepKeepsTypes, PlainRefusalKeepsTypes DEF SetFlags
<1>6. CASE Up(s)
  <2>1. [iface EXCEPT !.up = TRUE] \in Interface
    BY SettingType
  <2> QED
    BY <1>6, <2>1, StepKeepsTypes, PlainRefusalKeepsTypes DEF Up
<1>7. CASE Verify(s)
  <2>1. CASE /\ pc[s] = "verify"
             /\ IF iface.mode = "monitor" THEN Go(s, "bind") /\ UNCHANGED result ELSE End(s, "False")
             /\ UNCHANGED <<iface, sock, saved, queue, history, counters>>
    <3>1. \E step \in {"bind", "idle"} : Go(s, step)
      BY <2>1 DEF End
    <3>2. /\ pc' \in [Sockets -> PcType] /\ pc'[s] \in {"bind", "idle"}
          /\ \A t \in Sockets \ {s} : pc'[t] = pc[t]
      BY <3>1, GoType
    <3>3. result' \in [Sockets -> [kind : Outcomes, content : Contents \cup {NoContent}]]
      BY <2>1, ResultType DEF End, TypeOK
    <3>4. sock[s] # "none"
      BY <2>1 DEF TypeOK
    <3>5. UNCHANGED <<iface, sock, saved, muddled, queue, handed, before, after, alone, opens, frames, failures, others>>
      BY <2>1 DEF history, counters
    <3>6. PICK next \in {"bind", "idle"} : pc'[s] = next
      BY <3>2
    <3> QED
      BY <3>2, <3>3, <3>4, <3>5, <3>6, UnchangedTypes, MoveKeepsTypes
  <2> QED
    BY <1>7, <2>1, PlainRefusalKeepsTypes DEF Verify
<1> QED
  BY <1>1, <1>2, <1>3, <1>4, <1>5, <1>6, <1>7

(* open, its last commands, and the operations on an open socket.            *)
LEMMA SocketKeepsTypes ==
  ASSUME TypeOK, NEW s \in Sockets, Open(s) \/ Bind(s) \/ Flush(s) \/ CloseSocket(s) \/ Received(s)
  PROVE  TypeOK'
<1> USE DEF PcType, OpenSteps, CloseSteps, Outcomes
<1>1. /\ <<>> \in Seq(1..frames) /\ <<>> \in Seq([n : 1..frames, own : BOOLEAN])
      /\ frames \in Nat /\ 0 \in 0..frames /\ frames \in 0..frames
  BY EmptySeq DEF TypeOK
<1>2. CASE Open(s)
  <2>1. opens' \in 0..MaxOpens
    BY <1>2 DEF Open, TypeOK
  <2>2. result' \in [Sockets -> [kind : Outcomes, content : Contents \cup {NoContent}]]
    BY <1>2, ResultType DEF Open
  <2>3. CASE Fail
    <3>1. failures' \in 0..MaxFailures
      BY <2>3, FailType
    <3>2. CASE UNCHANGED <<pc, sock, queue, history>>
      BY <1>2, <2>1, <2>2, <3>1, <3>2 DEF Open, TypeOK, history
    <3>3. failures' # failures
      BY <2>3 DEF Fail, TypeOK
    <3> QED
      BY <1>2, <3>2, <3>3 DEF Open
  <2>4. CASE ~Fail
    <3>1. /\ sock' = Set(sock, s, "unbound")
          /\ queue' = Set(queue, s, <<>>)
          /\ handed' = Set(handed, s, <<>>)
          /\ before' = Set(before, s, iface)
          /\ after' = Set(after, s, 0)
          /\ alone' = Set(alone, s, TRUE)
          /\ Go(s, "flags")
          /\ UNCHANGED <<failures, iface, saved, frames, others>>
      BY <1>2, <2>4 DEF Open
    <3>2. muddled' \in [Sockets -> {"no", "reopened", "leftover", "refused"}]
      BY <1>2, <2>4 DEF Open, TypeOK, Set
    <3>3. /\ pc' \in [Sockets -> PcType] /\ pc'[s] = "flags"
          /\ \A t \in Sockets \ {s} : pc'[t] = pc[t]
      BY <3>1, GoType
    <3> QED
      BY <1>1, <2>1, <2>2, <3>1, <3>2, <3>3 DEF TypeOK, Set
  <2> QED
    BY <2>3, <2>4
<1>3. CASE Bind(s)
  <2>1. CASE Refused(s, "bind", "OSError") /\ UNCHANGED <<saved, muddled>>
    BY <2>1, PlainRefusalKeepsTypes
  <2>2. CASE /\ pc[s] = "bind"
             /\ sock' = Set(sock, s, "bound")
             /\ after' = Set(after, s, frames)
             /\ Go(s, "flush")
             /\ UNCHANGED <<iface, saved, queue, result, handed, before, alone, muddled, counters>>
    <3>1. /\ pc' \in [Sockets -> PcType] /\ pc'[s] = "flush"
          /\ \A t \in Sockets \ {s} : pc'[t] = pc[t]
      BY <2>2, GoType
    <3> QED
      BY <1>1, <2>2, <3>1 DEF TypeOK, Set, counters
  <2> QED
    BY <1>3, <2>1, <2>2 DEF Bind
<1>4. CASE Flush(s)
  <2>1. sock[s] = "bound"
    BY <1>4 DEF Flush, TypeOK
  <2>2. /\ queue' \in [Sockets -> Seq([n : 1..frames, own : BOOLEAN])]
        /\ \A t \in Sockets \ {s} : queue'[t] = queue[t]
    <3>1. CASE queue[s] # <<>> /\ queue' = Set(queue, s, Tail(queue[s]))
      <4>1. Tail(queue[s]) \in Seq([n : 1..frames, own : BOOLEAN])
        BY <3>1, HeadTailProperties DEF TypeOK
      <4> QED
        BY <3>1, <4>1 DEF TypeOK, Set
    <3> QED
      BY <1>4, <3>1 DEF Flush, TypeOK
  <2>3. CASE UNCHANGED <<pc, result, after>>
    BY <1>4, <2>1, <2>2, <2>3 DEF Flush, TypeOK, counters
  <2>4. ASSUME NEW kind \in {"True", "OSError"}, End(s, kind) PROVE TypeOK'
    <3>1. /\ pc' \in [Sockets -> PcType] /\ pc'[s] = "idle"
          /\ \A t \in Sockets \ {s} : pc'[t] = pc[t]
      BY <2>4, GoType DEF End
    <3>2. result' \in [Sockets -> [kind : Outcomes, content : Contents \cup {NoContent}]]
      BY <2>4, ResultType DEF End
    <3>3. after' \in [Sockets -> 0..frames]
      BY <1>1, <1>4 DEF Flush, TypeOK, Set
    <3>4. UNCHANGED <<iface, sock, saved, handed, before, alone, muddled, counters>>
      BY <1>4 DEF Flush
    <3> QED
      BY <2>1, <2>2, <3>1, <3>2, <3>3, <3>4 DEF TypeOK, counters
  <2> QED
    BY <1>4, <2>3, <2>4 DEF Flush
<1>5. CASE CloseSocket(s)
  <2>1. /\ pc' \in [Sockets -> PcType] /\ pc'[s] = "idle"
        /\ \A t \in Sockets \ {s} : pc'[t] = pc[t]
    BY <1>5, GoType DEF CloseSocket, End
  <2>2. result' \in [Sockets -> [kind : Outcomes, content : Contents \cup {NoContent}]]
    BY <1>5, ResultType DEF CloseSocket, End
  <2> QED
    BY <1>1, <1>5, <2>1, <2>2 DEF CloseSocket, TypeOK, Set, history, counters
<1>6. CASE Received(s)
  <2>1. /\ Head(queue[s]) \in [n : 1..frames, own : BOOLEAN]
        /\ Tail(queue[s]) \in Seq([n : 1..frames, own : BOOLEAN])
    BY <1>6, HeadTailProperties DEF Received, TypeOK
  <2>2. /\ queue' \in [Sockets -> Seq([n : 1..frames, own : BOOLEAN])]
        /\ \A t \in Sockets \ {s} : queue'[t] = queue[t]
    BY <1>6, <2>1 DEF Received, TypeOK, Set
  <2>3. sock[s] # "none"
    BY <1>6 DEF Received, TypeOK
  <2>4. CASE ~Head(queue[s]).own
    BY <1>6, <2>2, <2>3, <2>4 DEF Received, TypeOK, counters
  <2>5. CASE Head(queue[s]).own
    <3>1. /\ pc' \in [Sockets -> PcType] /\ pc'[s] = "idle"
          /\ \A t \in Sockets \ {s} : pc'[t] = pc[t]
      BY <1>6, <2>5, GoType DEF Received
    <3>2. result' \in [Sockets -> [kind : Outcomes, content : Contents \cup {NoContent}]]
      BY <1>6, <2>5, ResultType DEF Received
    <3>3. Append(handed[s], Head(queue[s])) \in Seq([n : 1..frames, own : BOOLEAN])
      BY <2>1, AppendProperties DEF TypeOK
    <3>4. handed' \in [Sockets -> Seq([n : 1..frames, own : BOOLEAN])]
      BY <1>6, <2>5, <3>3 DEF Received, TypeOK, Set
    <3> QED
      BY <1>6, <2>2, <2>3, <3>1, <3>2, <3>4 DEF Received, TypeOK, counters
  <2> QED
    BY <2>4, <2>5
<1> QED
  BY <1>2, <1>3, <1>4, <1>5, <1>6

(* The commands of close, and what needs none. *)
LEMMA ClosingKeepsTypes ==
  ASSUME TypeOK, NEW s \in Sockets,
         \/ CloseDown(s) \/ CloseMode(s) \/ CloseModeRefused(s) \/ CloseFlags(s) \/ CloseUp(s)
         \/ Close(s) \/ Receive(s) \/ Send(s) \/ SendReceive(s)
  PROVE  TypeOK'
<1> USE DEF PcType, OpenSteps, CloseSteps, Outcomes
<1>1. CASE CloseDown(s)
  <2>1. [iface EXCEPT !.up = FALSE] \in Interface
    BY SettingType
  <2> QED
    BY <1>1, <2>1, RestoreKeepsTypes DEF CloseDown
<1>2. CASE CloseMode(s)
  <2>1. pc[s] = "closeMode"
    BY <1>2 DEF CloseMode, Restore, Step
  <2>2. saved[s].mode \in Modes
    BY <2>1 DEF TypeOK
  <2>3. [iface EXCEPT !.mode = saved[s].mode] \in Interface
    BY <2>2, SettingType
  <2> QED
    BY <1>2, <2>3, RestoreKeepsTypes DEF CloseMode
<1>3. CASE CloseModeRefused(s)
  <2>1. \E next \in {"closeFlags", "closeSocket"} : Go(s, next)
    BY <1>3 DEF CloseModeRefused
  <2>2. /\ pc' \in [Sockets -> PcType] /\ pc'[s] \in {"closeFlags", "closeSocket"}
        /\ \A t \in Sockets \ {s} : pc'[t] = pc[t]
    BY <2>1, GoType
  <2>3. /\ muddled' \in [Sockets -> {"no", "reopened", "leftover", "refused"}] /\ sock[s] # "none"
        /\ result' \in [Sockets -> [kind : Outcomes, content : Contents \cup {NoContent}]]
        /\ saved' \in [Sockets -> [mode : Modes \cup {"none"}, flags : {"none", "up", "down"}]]
    BY <1>3 DEF CloseModeRefused, TypeOK, Set
  <2>4. UNCHANGED <<iface, sock, saved, queue, handed, before, after, alone, opens, frames, failures, others>>
    BY <1>3 DEF CloseModeRefused, counters
  <2>5. PICK next \in {"closeFlags", "closeSocket"} : pc'[s] = next
    BY <2>2
  <2> QED
    BY <2>2, <2>3, <2>4, <2>5, MoveKeepsTypes
<1>4. CASE CloseFlags(s)
  <2>1. [iface EXCEPT !.up = (saved[s].flags = "up")] \in Interface
    BY SettingType, (saved[s].flags = "up") \in BOOLEAN
  <2> QED
    BY <1>4, <2>1, RestoreKeepsTypes DEF CloseFlags
<1>5. CASE CloseUp(s)
  <2>1. [iface EXCEPT !.up = TRUE] \in Interface
    BY SettingType
  <2> QED
    BY <1>5, <2>1, RestoreKeepsTypes DEF CloseUp
<1>6. ASSUME NEW kind \in Outcomes, Result(s, kind, NoContent),
             UNCHANGED <<iface, pc, sock, saved, queue, history, counters>>
      PROVE  TypeOK'
  <2>1. result' \in [Sockets -> [kind : Outcomes, content : Contents \cup {NoContent}]]
    BY <1>6, ResultType
  <2> QED
    BY <1>6, <2>1 DEF TypeOK, history, counters
<1>7. ASSUME NEW step \in {"receive", "closeDown", "closeSocket"}, Go(s, step), sock[s] # "none",
             UNCHANGED result \/ Result(s, "none", NoContent),
             UNCHANGED <<iface, sock, saved, queue, history, counters>>
      PROVE  TypeOK'
  <2>1. result' \in [Sockets -> [kind : Outcomes, content : Contents \cup {NoContent}]]
    BY <1>7, ResultType DEF TypeOK
  <2>2. /\ pc' \in [Sockets -> PcType] /\ pc'[s] = step
        /\ \A t \in Sockets \ {s} : pc'[t] = pc[t]
    BY <1>7, GoType
  <2> QED
    BY <1>7, <2>1, <2>2 DEF TypeOK, history, counters
<1>8. CASE Close(s)
  BY <1>6, <1>7, <1>8 DEF Close
<1>9. CASE Receive(s)
  BY <1>6, <1>7, <1>9 DEF Receive
<1>10. CASE Send(s)
  BY <1>6, <1>10 DEF Send
<1>11. CASE SendReceive(s)
  BY <1>6, <1>11 DEF SendReceive
<1> QED
  BY <1>1, <1>2, <1>3, <1>4, <1>5, <1>8, <1>9, <1>10, <1>11

(* The kernel and the others keep the types. *)
LEMMA CaptureKeepsTypes ==
  ASSUME TypeOK, Capture
  PROVE  TypeOK'
<1>1. frames \in Nat /\ frames' = frames + 1 /\ frames' \in 0..MaxFrames
  BY DEF TypeOK, Capture
<1>2. PICK own \in BOOLEAN :
        queue' = [s \in Sockets |->
            IF sock[s] = "unbound" \/ (sock[s] = "bound" /\ own)
            THEN Append(queue[s], [n |-> frames + 1, own |-> own]) ELSE queue[s]]
  BY DEF Capture
<1>3. [n |-> frames + 1, own |-> own] \in [n : 1..frames', own : BOOLEAN]
  BY <1>1
<1>4. \A s \in Sockets : queue[s] \in Seq([n : 1..frames', own : BOOLEAN])
  BY <1>1, FramesStay DEF TypeOK
<1>5. \A s \in Sockets : Append(queue[s], [n |-> frames + 1, own |-> own]) \in Seq([n : 1..frames', own : BOOLEAN])
  BY <1>3, <1>4, AppendProperties
<1>6. queue' \in [Sockets -> Seq([n : 1..frames', own : BOOLEAN])]
  BY <1>2, <1>4, <1>5
<1>7. handed' \in [Sockets -> Seq([n : 1..frames', own : BOOLEAN])]
  BY <1>1, FramesStay DEF TypeOK, Capture, history
<1>8. after' \in [Sockets -> 0..frames']
  BY <1>1, FramesStay DEF TypeOK, Capture, history
<1>9. \A s \in Sockets : sock[s] = "none" => queue'[s] = queue[s]
  BY <1>2
<1> QED
  BY <1>1, <1>6, <1>7, <1>8, <1>9 DEF TypeOK, Capture, object, history

LEMMA OthersKeepTypes ==
  ASSUME TypeOK, Others
  PROVE  TypeOK'
<1>1. iface' \in Interface /\ alone' \in [Sockets -> BOOLEAN] /\ others' \in 0..MaxOthers
  BY DEF TypeOK, Others
<1> QED
  BY <1>1 DEF TypeOK, Others, object

(* The variables keep their types. *)
THEOREM TypesAreKept == Spec => []TypeOK
<1>1. TypeOK /\ [Next]_vars => TypeOK'
  <2> SUFFICES ASSUME TypeOK, [Next]_vars PROVE TypeOK'
    OBVIOUS
  <2>1. ASSUME NEW s \in Sockets, Thread(s) PROVE TypeOK'
    BY <2>1, CommandsKeepTypes, SocketKeepsTypes, ClosingKeepsTypes DEF Thread
  <2>2. CASE UNCHANGED vars
    BY <2>2 DEF TypeOK, vars, object, history, counters
  <2> QED
    BY <2>1, <2>2, CaptureKeepsTypes, OthersKeepTypes DEF Next, AllWait
<1> QED
  BY <1>1, InitIsTyped, PTL DEF Spec

-----------------------------------------------------------------------------
(* What the parts of an action do to the object whose action it is.          *)

LEMMA StepEffect ==
  ASSUME TypeOK, NEW s \in Sockets, NEW step, NEW next \in PcType, NEW value, Step(s, step, value, next)
  PROVE  /\ pc[s] = step /\ pc'[s] = next /\ iface' = value /\ alone'[s] = alone[s]
         /\ UNCHANGED <<sock, saved, queue, result, handed, before, after, muddled, frames>>
<1>1. pc'[s] = next
  BY GoType DEF Step
<1>2. alone'[s] = alone[s]
  BY DEF Step, SetInterface, TypeOK
<1> QED
  BY <1>1, <1>2 DEF Step, SetInterface, counters

LEMMA ResultEffect ==
  ASSUME TypeOK, NEW s \in Sockets, NEW kind, NEW content, Result(s, kind, content)
  PROVE  result'[s].kind = kind
  BY DEF TypeOK, Result, Set

LEMMA EndEffect ==
  ASSUME TypeOK, NEW s \in Sockets, NEW kind, End(s, kind)
  PROVE  pc'[s] = "idle" /\ result'[s].kind = kind
<1>1. pc'[s] = "idle"
  BY GoType DEF End, PcType
<1> QED
  BY <1>1, ResultEffect DEF End

LEMMA RefusedEffect ==
  ASSUME TypeOK, NEW s \in Sockets, NEW step, NEW kind, Refused(s, step, kind)
  PROVE  /\ pc[s] = step /\ pc'[s] = "idle" /\ result'[s].kind = kind
         /\ UNCHANGED <<iface, sock, queue, handed, before, after, alone, frames>>
  BY EndEffect DEF Refused

LEMMA RestoreEffect ==
  ASSUME TypeOK, NEW s \in Sockets, NEW step, NEW next \in PcType, NEW value, Restore(s, step, value, next)
  PROVE  /\ pc[s] = step /\ pc'[s] = next /\ alone'[s] = alone[s]
         /\ UNCHANGED <<sock, saved, queue, result, handed, before, after, frames>>
         /\ (iface' = value /\ UNCHANGED muddled) \/ (UNCHANGED iface /\ muddled'[s] = "refused")
<1>1. CASE Step(s, step, value, next)
  BY <1>1, StepEffect
<1>2. CASE /\ pc[s] = step /\ Fail /\ Go(s, next)
           /\ muddled' = Set(muddled, s, "refused")
           /\ UNCHANGED <<iface, sock, saved, queue, result, handed, before, after, alone, opens, frames, others>>
  <2>1. pc'[s] = next
    BY <1>2, GoType
  <2>2. muddled'[s] = "refused"
    BY <1>2 DEF TypeOK, Set
  <2> QED
    BY <1>2, <2>1, <2>2
<1> QED
  BY <1>1, <1>2 DEF Restore

LEMMA SettingEffect ==
  ASSUME TypeOK
  PROVE  /\ \A up \in BOOLEAN : [iface EXCEPT !.up = up].up = up /\ [iface EXCEPT !.up = up].mode = iface.mode
         /\ \A mode \in Modes : [iface EXCEPT !.mode = mode].up = iface.up /\ [iface EXCEPT !.mode = mode].mode = mode
  BY DEF TypeOK, Interface

(* ... and to another object: it keeps what is its own, and is no longer     *)
(* alone when the interface is set.                                          *)
LEMMA Bystander ==
  ASSUME TypeOK, NEW s \in Sockets, NEW t \in Sockets, t # s, Thread(s)
  PROVE  /\ pc'[t] = pc[t] /\ sock'[t] = sock[t] /\ saved'[t] = saved[t] /\ queue'[t] = queue[t]
         /\ result'[t] = result[t] /\ handed'[t] = handed[t] /\ before'[t] = before[t]
         /\ after'[t] = after[t] /\ muddled'[t] = muddled[t]
         /\ (UNCHANGED iface /\ alone'[t] = alone[t]) \/ ~alone'[t]
<1> USE DEF Set, Go, Result, End
<1>1. ASSUME NEW step, NEW value, NEW next, Step(s, step, value, next)
      PROVE  /\ pc'[t] = pc[t] /\ ~alone'[t]
             /\ UNCHANGED <<sock, saved, queue, result, handed, before, after, muddled>>
  BY <1>1 DEF Step, SetInterface, TypeOK
<1>2. ASSUME NEW step, NEW kind, Refused(s, step, kind)
      PROVE  /\ pc'[t] = pc[t] /\ result'[t] = result[t]
             /\ UNCHANGED <<iface, sock, queue, handed, before, after, alone>>
  BY <1>2 DEF Refused, TypeOK
<1>3. ASSUME NEW step, NEW value, NEW next, Restore(s, step, value, next)
      PROVE  /\ pc'[t] = pc[t] /\ muddled'[t] = muddled[t]
             /\ UNCHANGED <<sock, saved, queue, result, handed, before, after>>
             /\ (UNCHANGED iface /\ alone'[t] = alone[t]) \/ ~alone'[t]
  BY <1>1, <1>3 DEF Restore, TypeOK
<1>4. CASE Open(s)
  BY <1>4 DEF Open, TypeOK, history
<1>5. CASE Close(s) \/ Receive(s) \/ Send(s) \/ SendReceive(s) \/ CloseSocket(s)
  BY <1>5 DEF Close, Receive, Send, SendReceive, CloseSocket, TypeOK, history
<1>6. CASE GetFlags(s)
  BY <1>2, <1>6 DEF GetFlags, TypeOK, history
<1>7. CASE Down(s) \/ SetFlags(s) \/ Up(s)
  BY <1>1, <1>2, <1>7 DEF Down, SetFlags, Up
<1>8. CASE GetMode(s)
  BY <1>2, <1>8 DEF GetMode, TypeOK
<1>9. CASE SetMode(s)
  BY <1>1, <1>2, <1>9 DEF SetMode, TypeOK, history
<1>10. CASE Verify(s) \/ Bind(s)
  BY <1>2, <1>10 DEF Verify, Bind, TypeOK, history
<1>11. CASE Flush(s) \/ Received(s)
  BY <1>11 DEF Flush, Received, TypeOK
<1>12. CASE CloseDown(s) \/ CloseMode(s) \/ CloseFlags(s) \/ CloseUp(s)
  BY <1>3, <1>12 DEF CloseDown, CloseMode, CloseFlags, CloseUp
<1>13. CASE CloseModeRefused(s)
  BY <1>13 DEF CloseModeRefused, TypeOK
<1> QED
  BY <1>4, <1>5, <1>6, <1>7, <1>8, <1>9, <1>10, <1>11, <1>12, <1>13 DEF Thread

-----------------------------------------------------------------------------
(* open has the interface in monitor mode.                                   *)

LEMMA OwnMonitoring ==
  ASSUME TypeOK, TypeOK', NEW s \in Sockets, Thread(s), Monitoring(s)
  PROVE  Monitoring(s)'
<1> USE DEF PcType, OpenSteps, CloseSteps, Outcomes
<1>1. ASSUME NEW step, NEW kind \in Outcomes \ {"True"}, Refused(s, step, kind) PROVE Monitoring(s)'
  BY <1>1, RefusedEffect DEF Monitoring
<1>2. ASSUME pc'[s] \in PcType \ {"verify", "bind", "flush", "idle"} PROVE Monitoring(s)'
  BY <1>2 DEF Monitoring
<1>3. ASSUME NEW step, NEW value, NEW next \in PcType \ {"verify", "bind", "flush", "idle"}, Step(s, step, value, next)
       PROVE  Monitoring(s)'
  BY <1>2, <1>3, StepEffect
<1>4. ASSUME NEW step, NEW value, NEW next \in PcType \ {"verify", "bind", "flush", "idle"}, Restore(s, step, value, next)
       PROVE  Monitoring(s)'
  BY <1>2, <1>4, RestoreEffect
<1>5. CASE Open(s)
  <2>1. CASE Go(s, "flags")
    BY <1>2, <2>1, GoType
  <2>2. CASE Result(s, "OSError", NoContent) /\ UNCHANGED <<pc, sock, queue, history>>
    <3>1. pc[s] = "idle" /\ result'[s].kind = "OSError"
      BY <1>5, <2>2, ResultEffect DEF Open
    <3> QED
      BY <2>2, <3>1 DEF Monitoring, history
  <2> QED
    BY <1>5, <2>1, <2>2 DEF Open
<1>6. CASE Close(s)
  <2>1. CASE sock[s] = "none"
    BY <1>6, <2>1 DEF Close, Monitoring, history
  <2>2. CASE sock[s] # "none"
    <3>1. \E step \in {"closeSocket", "closeDown"} : Go(s, step)
      BY <1>6, <2>2 DEF Close
    <3> QED
      BY <1>2, <3>1, GoType
  <2> QED
    BY <2>1, <2>2
<1>7. CASE Receive(s)
  <2>1. CASE sock[s] = "none"
    BY <1>7, <2>1 DEF Receive, Monitoring, history
  <2>2. CASE sock[s] # "none"
    BY <1>2, <1>7, <2>2, GoType DEF Receive
  <2> QED
    BY <2>1, <2>2
<1>8. CASE Send(s) \/ SendReceive(s)
  <2>1. \E kind \in {"False", "AttributeError", "Exception", "TypeError"} : Result(s, kind, NoContent)
    BY <1>8 DEF Send, SendReceive
  <2>2. pc'[s] = "idle" /\ result'[s].kind # "True"
    BY <1>8, <2>1, ResultEffect DEF Send, SendReceive
  <2> QED
    BY <2>2 DEF Monitoring
<1>9. CASE GetFlags(s)
  BY <1>1, <1>2, <1>9, GoType DEF GetFlags
<1>10. CASE Down(s)
  BY <1>1, <1>10, <1>3 DEF Down
<1>11. CASE GetMode(s)
  BY <1>1, <1>2, <1>11, GoType DEF GetMode
<1>12. CASE SetMode(s)
  <2>1. CASE End(s, "False")
    BY <2>1, EndEffect DEF Monitoring
  <2> QED
    BY <1>1, <1>12, <1>3, <2>1 DEF SetMode
<1>13. CASE SetFlags(s)
  BY <1>1, <1>13, <1>3 DEF SetFlags
<1>14. CASE Up(s)
  <2>1. CASE Step(s, "up", [iface EXCEPT !.up = TRUE], "verify")
    <3>1. pc'[s] = "verify" /\ iface' = [iface EXCEPT !.up = TRUE]
      BY <2>1, StepEffect
    <3>2. iface'.up
      BY <3>1, SettingEffect
    <3> QED
      BY <3>1, <3>2 DEF Monitoring
  <2> QED
    BY <1>1, <1>14, <2>1 DEF Up
<1>15. CASE Verify(s)
  <2>1. CASE End(s, "False")
    BY <2>1, EndEffect DEF Monitoring
  <2>2. CASE pc[s] = "verify" /\ iface.mode = "monitor" /\ Go(s, "bind") /\ UNCHANGED <<iface, history>>
    <3>1. ASSUME alone[s] PROVE iface = [up |-> TRUE, mode |-> "monitor"]
      <4>1. iface.up = TRUE
        BY <2>2, <3>1 DEF Monitoring, TypeOK, Interface
      <4> QED
        BY <2>2, <4>1 DEF TypeOK, Interface
    <3> QED
      BY <2>2, <3>1, GoType DEF Monitoring, history
  <2> QED
    BY <1>1, <1>15, <2>1, <2>2 DEF Verify
<1>16. CASE Bind(s)
  <2>1. CASE pc[s] = "bind" /\ Go(s, "flush") /\ UNCHANGED <<iface, alone>>
    BY <2>1, GoType DEF Monitoring
  <2> QED
    BY <1>1, <1>16, <2>1 DEF Bind
<1>17. CASE Flush(s)
  <2>1. pc[s] = "flush" /\ UNCHANGED <<iface, alone>>
    BY <1>17 DEF Flush
  <2>2. (pc'[s] = pc[s]) \/ pc'[s] = "idle"
    BY <1>17, EndEffect DEF Flush
  <2> QED
    BY <2>1, <2>2 DEF Monitoring
<1>18. CASE CloseDown(s) \/ CloseMode(s) \/ CloseFlags(s) \/ CloseUp(s)
  BY <1>18, <1>4 DEF CloseDown, CloseMode, CloseFlags, CloseUp
<1>19. CASE CloseModeRefused(s)
  <2>1. \E step \in {"closeFlags", "closeSocket"} : Go(s, step)
    BY <1>19 DEF CloseModeRefused
  <2> QED
    BY <1>2, <2>1, GoType
<1>20. CASE CloseSocket(s)
  BY <1>20, EndEffect DEF CloseSocket, Monitoring
<1>21. CASE Received(s)
  <2>1. CASE UNCHANGED <<pc, result, handed>>
    BY <1>21, <2>1 DEF Received, Monitoring
  <2>2. ASSUME NEW kind \in {"AttributeError", "ValueError", "packet"}, NEW c, Result(s, kind, c), Go(s, "idle")
        PROVE  Monitoring(s)'
    BY <2>2, ResultEffect, GoType DEF Monitoring
  <2> QED
    BY <1>21, <2>1, <2>2 DEF Received
<1> QED
  BY <1>5, <1>6, <1>7, <1>8, <1>9, <1>10, <1>11, <1>12, <1>13, <1>14, <1>15, <1>16, <1>17, <1>18, <1>19, <1>20, <1>21
  DEF Thread

(* An object whose open returned True has the interface up and in monitor    *)
(* mode for as long as nobody else sets it: what is up and monitoring when   *)
(* open verifies it is left alone by what follows.                           *)
THEOREM OpenedIsMonitoring == Spec => []MonitorInv
<1>1. Init => MonitorIInv
  BY DEF Init, MonitorIInv, Monitoring
<1>2. TypeOK /\ TypeOK' /\ MonitorIInv /\ [Next]_vars => MonitorIInv'
  <2> SUFFICES ASSUME TypeOK, TypeOK', MonitorIInv, [Next]_vars, NEW t \in Sockets PROVE Monitoring(t)'
    BY DEF MonitorIInv
  <2>1. Monitoring(t)
    BY DEF MonitorIInv
  <2>2. ASSUME NEW s \in Sockets, Thread(s) PROVE Monitoring(t)'
    <3>1. CASE s = t
      BY <2>1, <2>2, <3>1, OwnMonitoring
    <3>2. CASE s # t
      BY <2>1, <2>2, <3>2, Bystander DEF Monitoring
    <3> QED
      BY <3>1, <3>2
  <2>3. CASE Capture
    BY <2>1, <2>3 DEF Capture, object, history, Monitoring
  <2>4. CASE Others
    BY <2>4 DEF Others, Monitoring
  <2>5. CASE UNCHANGED vars
    BY <2>1, <2>5 DEF vars, object, history, Monitoring
  <2> QED
    BY <2>2, <2>3, <2>4, <2>5 DEF Next, AllWait
<1>3. TypeOK /\ MonitorIInv => MonitorInv
  BY DEF MonitorIInv, Monitoring, MonitorInv, OpenIsMonitoring
<1> QED
  BY <1>1, <1>2, <1>3, TypesAreKept, PTL DEF Spec

-----------------------------------------------------------------------------
(* close puts back what open found.                                          *)

LEMMA SavedIsItsParts ==
  ASSUME TypeOK, NEW s \in Sockets
  PROVE  saved[s] = [mode |-> saved[s].mode, flags |-> saved[s].flags]
  BY DEF TypeOK

LEMMA FlagsOfType ==
  ASSUME NEW x \in Interface
  PROVE  /\ FlagsOf(x) \in {"up", "down"} /\ (x.up = (FlagsOf(x) = "up"))
         /\ x.up \in BOOLEAN /\ x.mode \in Modes /\ x.mode # "none"
  BY DEF FlagsOf, Interface, Modes

(* The commands of open lose nothing. *)
LEMMA OpenRestoring ==
  ASSUME TypeOK, TypeOK', NEW s \in Sockets, Restoring(s),
         \/ GetFlags(s) \/ Down(s) \/ GetMode(s) \/ SetMode(s) \/ SetFlags(s)
         \/ Up(s) \/ Verify(s) \/ Bind(s) \/ Flush(s)
  PROVE  Restoring(s)'
<1> DEFINE b == before[s]
           Full == saved[s] = [mode |-> b.mode, flags |-> FlagsOf(b)]
           Clean == alone[s] /\ muddled[s] = "no"
           Middle == {"setMode", "setFlags", "up", "verify", "bind", "flush"}
<1> USE DEF PcType, OpenSteps, CloseSteps, Outcomes
<1>1. FlagsOf(b) \in {"up", "down"} /\ b \in Interface
  BY FlagsOfType DEF TypeOK
<1>2. ASSUME pc'[s] = "idle", result'[s].kind # "closed", Clean' => Known(s)' PROVE Restoring(s)'
  BY <1>2 DEF Restoring, OpenKnows, CloseKnows
<1>3. ASSUME pc'[s] \in Middle, Clean' => Full' PROVE Restoring(s)'
  BY <1>3 DEF Restoring, OpenKnows, CloseKnows
<1>4. ASSUME pc[s] \in Middle, Clean PROVE Full
  BY <1>4 DEF Restoring, CloseKnows
<1>5. ASSUME Full, UNCHANGED <<saved, before>> PROVE Full' /\ Known(s)'
  BY <1>5 DEF Known
<1>6. ASSUME NEW step \in Middle, NEW kind \in Outcomes \ {"closed"}, Refused(s, step, kind), UNCHANGED <<saved, muddled>>
      PROVE  Restoring(s)'
  <2>1. /\ pc[s] = step /\ pc'[s] = "idle" /\ result'[s].kind = kind /\ UNCHANGED <<before, alone>>
    BY <1>6, RefusedEffect
  <2> QED
    BY <1>2, <1>4, <1>5, <1>6, <2>1
<1>7. ASSUME NEW step \in Middle, NEW next \in Middle, NEW value, Step(s, step, value, next)
      PROVE  Restoring(s)'
  <2>1. pc[s] = step /\ pc'[s] = next /\ alone'[s] = alone[s] /\ UNCHANGED <<saved, before, muddled>>
    BY <1>7, StepEffect
  <2> QED
    BY <1>3, <1>4, <1>5, <2>1
<1>8. CASE GetFlags(s)
  <2>1. pc[s] = "flags" /\ UNCHANGED <<iface, sock, before, alone, muddled>>
    BY <1>8 DEF GetFlags, Refused, history
  <2>2. CASE Refused(s, "flags", "False") /\ UNCHANGED saved
    <3>1. Clean' => Known(s)'
      BY <2>1, <2>2 DEF Restoring, OpenKnows, CloseKnows, Known
    <3> QED
      BY <1>2, <2>2, <3>1, RefusedEffect
  <2>3. CASE saved' = [saved EXCEPT ![s].flags = IF iface.up THEN "up" ELSE "down"] /\ Go(s, "down")
    <3>1. saved'[s].flags = FlagsOf(iface) /\ saved'[s].mode = saved[s].mode
      <4>1. FlagsOf(iface) \in {"none", "up", "down"} /\ saved' = [saved EXCEPT ![s].flags = FlagsOf(iface)]
        BY <2>3 DEF FlagsOf
      <4> QED
        BY <4>1, FlagsSavedType
    <3>2. pc'[s] = "down"
      BY <2>3, GoType
    <3> QED
      BY <2>1, <3>1, <3>2 DEF Restoring, OpenKnows, CloseKnows, NothingSaved
  <2> QED
    BY <1>8, <2>2, <2>3 DEF GetFlags
<1>9. CASE Down(s)
  <2>1. CASE Refused(s, "down", "False") /\ UNCHANGED <<saved, muddled>>
    <3>1. pc[s] = "down" /\ UNCHANGED <<iface, sock, before, alone>>
      BY <2>1, RefusedEffect
    <3>2. Clean' => Known(s)'
      <4> SUFFICES ASSUME Clean PROVE Known(s)
        BY <2>1, <3>1 DEF Known
      <4> QED
        BY <3>1, SavedIsItsParts DEF Restoring, OpenKnows, CloseKnows, Known
    <3> QED
      BY <1>2, <2>1, <3>2, RefusedEffect
  <2>2. CASE Step(s, "down", [iface EXCEPT !.up = FALSE], "mode")
    <3>1. /\ pc[s] = "down" /\ pc'[s] = "mode" /\ iface' = [iface EXCEPT !.up = FALSE]
          /\ alone'[s] = alone[s] /\ UNCHANGED <<saved, before, muddled>>
      BY <2>2, StepEffect
    <3>2. ASSUME alone[s], muddled[s] \in {"no", "leftover"} PROVE iface' = [up |-> FALSE, mode |-> b.mode]
      <4>1. iface = b
        BY <3>1, <3>2 DEF Restoring, OpenKnows
      <4>2. iface'.up = FALSE /\ iface'.mode = b.mode
        BY <3>1, <4>1, SettingEffect
      <4> QED
        BY <4>2 DEF TypeOK, Interface
    <3>3. alone[s] /\ muddled[s] \in {"no", "leftover"} => saved[s].flags = FlagsOf(b)
      BY <3>1 DEF Restoring, OpenKnows
    <3> QED
      BY <3>1, <3>2, <3>3 DEF Restoring, OpenKnows, CloseKnows
  <2> QED
    BY <1>9, <2>1, <2>2 DEF Down
<1>10. CASE GetMode(s)
  <2>1. /\ pc[s] = "mode" /\ UNCHANGED <<iface, sock, before, alone>>
        /\ muddled'[s] = IF muddled[s] = "leftover" THEN "no" ELSE muddled[s]
    BY <1>10 DEF GetMode, Refused, TypeOK, Set
  <2>2. ASSUME Clean' PROVE saved[s].flags = FlagsOf(b) /\ iface = [up |-> FALSE, mode |-> b.mode] /\ b' = b
    BY <2>1, <2>2 DEF Restoring, OpenKnows
  <2>3. saved \in [Sockets -> [mode : Modes \cup {"none"}, flags : {"none", "up", "down"}]]
    BY DEF TypeOK
  <2>4. CASE Refused(s, "mode", "False") /\ saved' = [saved EXCEPT ![s].mode = "none"]
    <3>1. Clean' => Known(s)'
      <4> SUFFICES ASSUME Clean' PROVE Known(s)'
        OBVIOUS
      <4>1. saved'[s] = [mode |-> "none", flags |-> saved[s].flags]
        BY <2>4, <2>3
      <4>2. iface'.mode = b.mode
        BY <2>1, <2>2
      <4> QED
        BY <2>1, <2>2, <4>1, <4>2 DEF Known
    <3> QED
      BY <1>2, <2>4, <3>1, RefusedEffect
  <2>5. CASE saved' = [saved EXCEPT ![s].mode = iface.mode] /\ Go(s, "setMode")
    <3>1. saved'[s] = [mode |-> iface.mode, flags |-> saved[s].flags]
      BY <2>5, <2>3
    <3>2. pc'[s] = "setMode"
      BY <2>5, GoType
    <3>3. Clean' => Full'
      BY <2>2, <3>1
    <3> QED
      BY <1>3, <3>2, <3>3
  <2> QED
    BY <1>10, <2>4, <2>5 DEF GetMode
<1>11. CASE SetMode(s)
  <2>1. CASE pc[s] = "setMode" /\ End(s, "False") /\ UNCHANGED <<saved, history>>
    BY <1>2, <1>4, <1>5, <2>1, EndEffect DEF history
  <2> QED
    BY <1>6, <1>7, <1>11, <2>1 DEF SetMode
<1>12. CASE SetFlags(s)
  BY <1>6, <1>7, <1>12 DEF SetFlags
<1>13. CASE Up(s)
  BY <1>6, <1>7, <1>13 DEF Up
<1>14. CASE Verify(s)
  <2>1. CASE pc[s] = "verify" /\ End(s, "False") /\ UNCHANGED <<saved, history>>
    BY <1>2, <1>4, <1>5, <2>1, EndEffect DEF history
  <2>2. CASE pc[s] = "verify" /\ Go(s, "bind") /\ UNCHANGED <<saved, history>>
    BY <1>3, <1>4, <1>5, <2>2, GoType DEF history
  <2> QED
    BY <1>6, <1>14, <2>1, <2>2 DEF Verify
<1>15. CASE Bind(s)
  <2>1. CASE pc[s] = "bind" /\ Go(s, "flush") /\ UNCHANGED <<saved, before, alone, muddled>>
    BY <1>3, <1>4, <1>5, <2>1, GoType
  <2> QED
    BY <1>6, <1>15, <2>1 DEF Bind
<1>16. CASE Flush(s)
  <2>1. pc[s] = "flush" /\ UNCHANGED <<saved, before, alone, muddled>>
    BY <1>16 DEF Flush
  <2>2. CASE UNCHANGED pc
    BY <1>3, <1>4, <1>5, <2>1, <2>2
  <2>3. ASSUME NEW kind \in {"True", "OSError"}, End(s, kind) PROVE Restoring(s)'
    BY <1>2, <1>4, <1>5, <2>1, <2>3, EndEffect
  <2> QED
    BY <1>16, <2>2, <2>3 DEF Flush
<1> QED
  BY <1>8, <1>9, <1>10, <1>11, <1>12, <1>13, <1>14, <1>15, <1>16

(* The commands of close put it back one after the other. *)
LEMMA CommandsRestore ==
  ASSUME TypeOK, TypeOK', NEW s \in Sockets, Restoring(s),
         CloseDown(s) \/ CloseMode(s) \/ CloseModeRefused(s) \/ CloseFlags(s) \/ CloseUp(s) \/ CloseSocket(s)
  PROVE  Restoring(s)'
<1> DEFINE b == before[s]
           Clean == alone[s] /\ muddled[s] = "no"
<1> USE DEF PcType, OpenSteps, CloseSteps, Outcomes
<1>1. /\ FlagsOf(b) \in {"up", "down"} /\ b \in Interface /\ (b.up = (FlagsOf(b) = "up"))
      /\ b.up \in BOOLEAN /\ b.mode \in Modes /\ b.mode # "none"
  BY FlagsOfType DEF TypeOK
<1>2. ASSUME pc'[s] \in CloseSteps, Clean' => CloseKnows(s)' PROVE Restoring(s)'
  BY <1>2 DEF Restoring, OpenKnows
<1>3. ASSUME muddled'[s] = "refused" PROVE Restoring(s)'
  BY <1>3 DEF Restoring
<1>4. iface \in Interface /\ iface' \in Interface /\ b' \in Interface
  BY DEF TypeOK
<1>5. CASE CloseDown(s)
  <2> DEFINE next == IF saved[s].mode # "none" THEN "closeMode" ELSE "closeFlags"
  <2>1. /\ pc[s] = "closeDown" /\ pc'[s] = next /\ alone'[s] = alone[s] /\ UNCHANGED <<saved, before>>
        /\ (iface' = [iface EXCEPT !.up = FALSE] /\ UNCHANGED muddled) \/ muddled'[s] = "refused"
    BY <1>5, RestoreEffect DEF CloseDown
  <2>2. CASE iface' = [iface EXCEPT !.up = FALSE] /\ UNCHANGED muddled
    <3>1. ~iface'.up /\ iface'.mode = iface.mode
      BY <2>2, SettingEffect
    <3>2. ASSUME Clean PROVE CloseKnows(s)'
      <4>1. Known(s) /\ saved[s] # NothingSaved
        BY <2>1, <3>2 DEF Restoring, CloseKnows
      <4>2. CASE saved[s] = [mode |-> "none", flags |-> FlagsOf(b)] /\ iface.mode = b.mode
        BY <2>1, <3>1, <4>2 DEF CloseKnows
      <4>3. CASE saved[s] = [mode |-> b.mode, flags |-> FlagsOf(b)]
        BY <1>1, <2>1, <3>1, <4>3 DEF CloseKnows
      <4> QED
        BY <4>1, <4>2, <4>3 DEF Known
    <3> QED
      BY <1>2, <2>1, <2>2, <3>2
  <2> QED
    BY <1>3, <2>1, <2>2
<1>6. CASE CloseMode(s)
  <2> DEFINE next == IF saved[s].flags # "none" THEN "closeFlags" ELSE "closeSocket"
  <2>1. /\ pc[s] = "closeMode" /\ pc'[s] = next /\ alone'[s] = alone[s] /\ UNCHANGED <<saved, before>>
        /\ (iface' = [iface EXCEPT !.mode = saved[s].mode] /\ UNCHANGED muddled) \/ muddled'[s] = "refused"
    <3>1. Restore(s, "closeMode", [iface EXCEPT !.mode = saved[s].mode], next) /\ next \in PcType
      BY <1>6 DEF CloseMode
    <3> HIDE DEF next
    <3> QED
      BY <3>1, RestoreEffect
  <2>2. CASE iface' = [iface EXCEPT !.mode = saved[s].mode] /\ UNCHANGED muddled
    <3>1. ASSUME Clean PROVE CloseKnows(s)'
      <4>1. saved[s] = [mode |-> b.mode, flags |-> FlagsOf(b)] /\ ~iface.up
        BY <2>1, <3>1 DEF Restoring, CloseKnows
      <4>2. saved[s].mode = b.mode /\ saved[s].flags = FlagsOf(b) /\ pc'[s] = "closeFlags"
        BY <1>1, <2>1, <4>1
      <4>3. iface'.mode = b.mode /\ ~iface'.up
        BY <1>1, <2>2, <4>1, <4>2, SettingEffect
      <4> QED
        BY <2>1, <4>2, <4>3 DEF CloseKnows
    <3> QED
      BY <1>2, <2>1, <2>2, <3>1
  <2> QED
    BY <1>3, <2>1, <2>2
<1>7. CASE CloseModeRefused(s)
  <2>1. muddled'[s] = "refused"
    BY <1>7 DEF CloseModeRefused, TypeOK, Set
  <2> QED
    BY <1>3, <2>1
<1>8. CASE CloseFlags(s)
  <2> DEFINE next == IF saved[s].flags = "up" THEN "closeUp" ELSE "closeSocket"
             up == saved[s].flags = "up"
  <2>1. /\ pc[s] = "closeFlags" /\ pc'[s] = next /\ alone'[s] = alone[s] /\ UNCHANGED <<saved, before>>
        /\ (iface' = [iface EXCEPT !.up = up] /\ UNCHANGED muddled) \/ muddled'[s] = "refused"
    BY <1>8, RestoreEffect DEF CloseFlags
  <2>2. CASE iface' = [iface EXCEPT !.up = up] /\ UNCHANGED muddled
    <3>1. ASSUME Clean PROVE CloseKnows(s)'
      <4>1. iface.mode = b.mode /\ saved[s].flags = FlagsOf(b)
        BY <2>1, <3>1 DEF Restoring, CloseKnows
      <4>2. iface'.mode = b.mode /\ iface'.up = b.up
        <5>1. up \in BOOLEAN /\ up = b.up
          BY <1>1, <4>1
        <5> HIDE DEF up
        <5> QED
          BY <2>2, <4>1, <5>1, SettingEffect
      <4>3. iface' = b
        BY <1>1, <1>4, <4>2, InterfaceIsItsParts
      <4> QED
        BY <1>1, <2>1, <4>1, <4>2, <4>3 DEF CloseKnows
    <3> QED
      BY <1>2, <2>1, <2>2, <3>1
  <2> QED
    BY <1>3, <2>1, <2>2
<1>9. CASE CloseUp(s)
  <2>1. /\ pc[s] = "closeUp" /\ pc'[s] = "closeSocket" /\ alone'[s] = alone[s] /\ UNCHANGED <<saved, before>>
        /\ (iface' = [iface EXCEPT !.up = TRUE] /\ UNCHANGED muddled) \/ muddled'[s] = "refused"
    BY <1>9, RestoreEffect DEF CloseUp
  <2>2. CASE iface' = [iface EXCEPT !.up = TRUE] /\ UNCHANGED muddled
    <3>1. ASSUME Clean PROVE iface' = b
      <4>1. b.up = TRUE /\ iface.mode = b.mode
        BY <1>1, <2>1, <3>1 DEF Restoring, CloseKnows
      <4>2. iface'.up = b.up /\ iface'.mode = b.mode
        BY <2>2, <4>1, SettingEffect
      <4> QED
        BY <1>1, <1>4, <4>2, InterfaceIsItsParts
    <3> QED
      BY <1>2, <2>1, <2>2, <3>1 DEF CloseKnows
  <2> QED
    BY <1>3, <2>1, <2>2
<1>10. CASE CloseSocket(s)
  <2>1. pc[s] = "closeSocket" /\ sock'[s] = "none" /\ UNCHANGED <<iface, before, alone, muddled>>
    BY <1>10 DEF CloseSocket, TypeOK, Set, history
  <2>2. pc'[s] = "idle"
    BY <1>10, EndEffect DEF CloseSocket
  <2> QED
    BY <2>1, <2>2 DEF Restoring, OpenKnows, CloseKnows
<1> QED
  BY <1>5, <1>6, <1>7, <1>8, <1>9, <1>10

(* What begins with the interface as it is. *)
LEMMA CallsKeepRestoring ==
  ASSUME TypeOK, TypeOK', NEW s \in Sockets, Restoring(s),
         Open(s) \/ Close(s) \/ Receive(s) \/ Send(s) \/ SendReceive(s) \/ Received(s)
  PROVE  Restoring(s)'
<1> USE DEF PcType, OpenSteps, CloseSteps, Outcomes
<1>1. FlagsOf(before[s]) \in {"up", "down"}
  BY FlagsOfType DEF TypeOK
<1>2. ASSUME pc[s] \in {"idle", "receive"}, pc'[s] \in {"idle", "receive"}, result'[s].kind # "closed",
             UNCHANGED <<iface, sock, saved, before, alone, muddled>>
      PROVE  Restoring(s)'
  BY <1>2 DEF Restoring, OpenKnows, CloseKnows, Known
<1>3. CASE Open(s)
  <2>1. CASE Result(s, "OSError", NoContent) /\ UNCHANGED <<pc, sock, queue, history>>
    BY <1>2, <1>3, <2>1, ResultEffect DEF Open, history
  <2>2. CASE /\ before' = Set(before, s, iface)
             /\ muddled' = Set(muddled, s, IF sock[s] # "none" THEN "reopened"
                                             ELSE IF saved[s] # NothingSaved THEN "leftover" ELSE "no")
             /\ Go(s, "flags")
    <3>1. before'[s] = iface /\ pc'[s] = "flags" /\ UNCHANGED <<iface, saved>>
      <4>1. pc'[s] = "flags"
        BY <2>2, GoType
      <4>2. before'[s] = iface
        BY <2>2 DEF TypeOK, Set
      <4> QED
        BY <1>3, <4>1, <4>2 DEF Open
    <3>2. muddled'[s] = "no" => saved[s] = NothingSaved
      BY <2>2 DEF TypeOK, Set
    <3> QED
      BY <3>1, <3>2 DEF Restoring, OpenKnows, CloseKnows
  <2> QED
    BY <1>3, <2>1, <2>2 DEF Open
<1>4. CASE Close(s)
  <2>1. pc[s] = "idle" /\ UNCHANGED <<iface, sock, saved, before, alone, muddled>>
    BY <1>4 DEF Close, history
  <2>2. CASE sock[s] = "none"
    BY <1>2, <1>4, <2>1, <2>2, ResultEffect DEF Close
  <2>3. CASE sock[s] # "none"
    <3>1. pc'[s] = IF saved[s] = NothingSaved THEN "closeSocket" ELSE "closeDown"
      BY <1>4, <2>3, GoType DEF Close
    <3>2. ASSUME alone[s], muddled[s] = "no" PROVE Known(s) /\ (saved[s] = NothingSaved => iface = before[s])
      <4>1. Known(s)
        BY <2>1, <2>3, <3>2 DEF Restoring, CloseKnows
      <4> QED
        BY <1>1, <4>1 DEF Known, NothingSaved
    <3> QED
      BY <2>1, <3>1, <3>2 DEF Restoring, OpenKnows, CloseKnows, Known
  <2> QED
    BY <2>2, <2>3
<1>5. CASE Receive(s)
  <2>1. pc[s] = "idle" /\ UNCHANGED <<iface, sock, saved, before, alone, muddled>>
    BY <1>5 DEF Receive, history
  <2>2. CASE sock[s] = "none"
    BY <1>2, <1>5, <2>1, <2>2, ResultEffect DEF Receive
  <2>3. CASE sock[s] # "none"
    <3>1. pc'[s] = "receive"
      BY <1>5, <2>3, GoType DEF Receive
    <3> QED
      BY <2>1, <2>3, <3>1 DEF Restoring, OpenKnows, CloseKnows, Known
  <2> QED
    BY <2>2, <2>3
<1>6. CASE Send(s) \/ SendReceive(s)
  <2>1. \E kind \in {"False", "AttributeError", "Exception", "TypeError"} : Result(s, kind, NoContent)
    BY <1>6 DEF Send, SendReceive
  <2>2. result'[s].kind # "closed"
    BY <2>1, ResultEffect
  <2> QED
    BY <1>2, <1>6, <2>2 DEF Send, SendReceive, history
<1>7. CASE Received(s)
  <2>1. pc[s] = "receive" /\ UNCHANGED <<iface, sock, saved, before, alone, muddled>>
    BY <1>7 DEF Received
  <2>2. CASE UNCHANGED <<pc, result, handed>>
    BY <2>1, <2>2 DEF Restoring, OpenKnows, CloseKnows, Known
  <2>3. ASSUME NEW kind \in {"AttributeError", "ValueError", "packet"}, NEW c, Result(s, kind, c), Go(s, "idle")
        PROVE  Restoring(s)'
    BY <1>2, <2>1, <2>3, ResultEffect, GoType
  <2> QED
    BY <1>7, <2>2, <2>3 DEF Received
<1> QED
  BY <1>3, <1>4, <1>5, <1>6, <1>7

(* close leaves the interface as open found it, whichever command open       *)
(* failed at: at every step what open found is either still there or saved.  *)
THEOREM CloseRestoresTheInterface == Spec => []CloseRestores
<1>1. Init => CloseIInv
  BY DEF Init, CloseIInv, Restoring
<1>2. TypeOK /\ TypeOK' /\ CloseIInv /\ [Next]_vars => CloseIInv'
  <2> SUFFICES ASSUME TypeOK, TypeOK', CloseIInv, [Next]_vars, NEW t \in Sockets PROVE Restoring(t)'
    BY DEF CloseIInv
  <2>1. Restoring(t)
    BY DEF CloseIInv
  <2>2. ASSUME NEW s \in Sockets, Thread(s) PROVE Restoring(t)'
    <3>1. CASE s = t
      BY <2>1, <2>2, <3>1, OpenRestoring, CommandsRestore, CallsKeepRestoring DEF Thread
    <3>2. CASE s # t
      BY <2>1, <2>2, <3>2, Bystander DEF Restoring, OpenKnows, CloseKnows, Known
    <3> QED
      BY <3>1, <3>2
  <2>3. CASE Capture
    BY <2>1, <2>3 DEF Capture, object, history, Restoring, OpenKnows, CloseKnows, Known
  <2>4. CASE Others
    BY <2>4 DEF Others, Restoring
  <2>5. CASE UNCHANGED vars
    BY <2>1, <2>5 DEF vars, object, history, Restoring, OpenKnows, CloseKnows, Known
  <2> QED
    BY <2>2, <2>3, <2>4, <2>5 DEF Next, AllWait
<1>3. CloseIInv => CloseRestores
  BY DEF CloseIInv, Restoring, CloseKnows, CloseRestores
<1> QED
  BY <1>1, <1>2, <1>3, TypesAreKept, PTL DEF Spec

-----------------------------------------------------------------------------
(* receive returns the frames of this open, in their order.                  *)

LEMMA CommandsKeepFrames ==
  ASSUME TypeOK, TypeOK', NEW s \in Sockets, InOrder(s), FramesOfThisOpen(s),
         \/ GetFlags(s) \/ Down(s) \/ GetMode(s) \/ SetMode(s) \/ SetFlags(s) \/ Up(s) \/ Verify(s)
         \/ CloseDown(s) \/ CloseMode(s) \/ CloseModeRefused(s) \/ CloseFlags(s) \/ CloseUp(s)
         \/ Close(s) \/ Receive(s) \/ Send(s) \/ SendReceive(s)
  PROVE  (InOrder(s) /\ FramesOfThisOpen(s))'
<1> USE DEF PcType, OpenSteps, CloseSteps, Outcomes
<1>1. ASSUME UNCHANGED <<queue, handed, sock, after>>, pc[s] # "flush", pc'[s] \in OpenSteps => pc[s] \in OpenSteps
      PROVE  (InOrder(s) /\ FramesOfThisOpen(s))'
  BY <1>1 DEF InOrder, FramesOfThisOpen
<1>2. ASSUME NEW step \in PcType \ {"flush"}, NEW kind, Refused(s, step, kind)
      PROVE  (InOrder(s) /\ FramesOfThisOpen(s))'
  BY <1>1, <1>2, RefusedEffect
<1>3. ASSUME NEW step \in OpenSteps \ {"flush"}, NEW next \in PcType, NEW value, Step(s, step, value, next)
      PROVE  (InOrder(s) /\ FramesOfThisOpen(s))'
  BY <1>1, <1>3, StepEffect
<1>4. ASSUME NEW step \in CloseSteps, NEW next \in CloseSteps, NEW value, Restore(s, step, value, next)
      PROVE  (InOrder(s) /\ FramesOfThisOpen(s))'
  BY <1>1, <1>4, RestoreEffect
<1>5. CASE GetFlags(s)
  BY <1>1, <1>2, <1>5 DEF GetFlags, history
<1>6. CASE Down(s) \/ SetFlags(s) \/ Up(s)
  BY <1>2, <1>3, <1>6 DEF Down, SetFlags, Up
<1>7. CASE GetMode(s)
  BY <1>1, <1>2, <1>7 DEF GetMode
<1>8. CASE SetMode(s)
  BY <1>1, <1>2, <1>3, <1>8 DEF SetMode, history
<1>9. CASE Verify(s)
  BY <1>1, <1>2, <1>9 DEF Verify, history
<1>10. CASE CloseDown(s) \/ CloseMode(s) \/ CloseFlags(s) \/ CloseUp(s)
  BY <1>4, <1>10 DEF CloseDown, CloseMode, CloseFlags, CloseUp
<1>11. CASE CloseModeRefused(s)
  <2>1. \E next \in {"closeFlags", "closeSocket"} : Go(s, next)
    BY <1>11 DEF CloseModeRefused
  <2>2. pc'[s] \notin OpenSteps
    BY <2>1, GoType
  <2> QED
    BY <1>1, <1>11, <2>2 DEF CloseModeRefused
<1>12. CASE Close(s) \/ Receive(s)
  <2>1. (UNCHANGED pc) \/ \E step \in {"closeSocket", "closeDown", "receive"} : Go(s, step)
    BY <1>12 DEF Close, Receive
  <2>2. pc[s] = "idle" /\ pc'[s] \notin OpenSteps
    BY <1>12, <2>1, GoType DEF Close, Receive
  <2> QED
    BY <1>1, <1>12, <2>2 DEF Close, Receive, history
<1>13. CASE Send(s) \/ SendReceive(s)
  BY <1>1, <1>13 DEF Send, SendReceive, history
<1> QED
  BY <1>5, <1>6, <1>7, <1>8, <1>9, <1>10, <1>11, <1>12, <1>13

(* Frames have numbers of frames there have been. *)
LEMMA FrameTypes ==
  ASSUME TypeOK, NEW s \in Sockets
  PROVE  /\ queue[s] \in Seq([n : 1..frames, own : BOOLEAN]) /\ handed[s] \in Seq([n : 1..frames, own : BOOLEAN])
         /\ \A i \in DOMAIN queue[s] : queue[s][i].n \in 1..frames
         /\ \A i \in DOMAIN handed[s] : handed[s][i].n \in 1..frames
<1> DEFINE S == [n : 1..frames, own : BOOLEAN]
<1>1. queue[s] \in Seq(S) /\ handed[s] \in Seq(S)
  BY DEF TypeOK
<1>2. \A i \in DOMAIN queue[s] : queue[s][i] \in S
  <2> HIDE DEF S
  <2> QED
    BY <1>1, ElementOfSeq, LenProperties
<1>3. \A i \in DOMAIN handed[s] : handed[s][i] \in S
  <2> HIDE DEF S
  <2> QED
    BY <1>1, ElementOfSeq, LenProperties
<1> QED
  BY <1>1, <1>2, <1>3

(* The order of a queue outlives its first frame.                            *)
LEMMA TailStaysInOrder ==
  ASSUME TypeOK, NEW s \in Sockets, InOrder(s), queue[s] # <<>>
  PROVE  LET rest == Tail(queue[s])
         IN /\ \A i, j \in DOMAIN rest : i < j => rest[i].n < rest[j].n
            /\ \A j \in DOMAIN rest : Head(queue[s]).n < rest[j].n
            /\ \A j \in DOMAIN rest : j + 1 \in DOMAIN queue[s] /\ rest[j] = queue[s][j + 1]
            /\ 1 \in DOMAIN queue[s] /\ Head(queue[s]) = queue[s][1]
<1> DEFINE S == [n : 1..frames, own : BOOLEAN]
           rest == Tail(queue[s])
<1>1. queue[s] \in Seq(S)
  BY DEF TypeOK
<1>2. /\ rest \in Seq(S) /\ Len(rest) = Len(queue[s]) - 1
      /\ \A i \in 1..Len(rest) : rest[i] = queue[s][i + 1]
  BY <1>1, HeadTailProperties
<1>3. DOMAIN queue[s] = 1..Len(queue[s]) /\ DOMAIN rest = 1..Len(rest) /\ Len(queue[s]) \in Nat \ {0}
  BY <1>1, <1>2, LenProperties, EmptySeq
<1>4. Head(queue[s]) = queue[s][1] /\ 1 \in DOMAIN queue[s]
  BY <1>1, <1>3
<1>5. \A j \in DOMAIN rest : j + 1 \in DOMAIN queue[s] /\ rest[j] = queue[s][j + 1] /\ j \in Nat /\ 1 < j + 1
  BY <1>2, <1>3
<1>6. \A i, j \in DOMAIN rest : i < j => i + 1 < j + 1
  BY <1>5
<1> QED
  BY <1>4, <1>5, <1>6 DEF InOrder

LEMMA SocketKeepsFrames ==
  ASSUME TypeOK, TypeOK', NEW s \in Sockets, InOrder(s), FramesOfThisOpen(s),
         Open(s) \/ Bind(s) \/ Flush(s) \/ CloseSocket(s) \/ Received(s)
  PROVE  (InOrder(s) /\ FramesOfThisOpen(s))'
<1> USE DEF PcType, OpenSteps, CloseSteps, Outcomes
<1>1. CASE Open(s)
  <2>1. CASE UNCHANGED <<pc, sock, queue, history>>
    BY <2>1 DEF InOrder, FramesOfThisOpen, history
  <2>2. CASE sock' = Set(sock, s, "unbound") /\ queue' = Set(queue, s, <<>>) /\ handed' = Set(handed, s, <<>>)
    <3>1. sock'[s] = "unbound" /\ queue'[s] = <<>> /\ handed'[s] = <<>>
      BY <2>2 DEF TypeOK, Set
    <3> QED
      BY <3>1 DEF InOrder, FramesOfThisOpen
  <2> QED
    BY <1>1, <2>1, <2>2 DEF Open
<1>2. CASE Bind(s)
  <2>1. pc[s] = "bind" /\ UNCHANGED <<queue, handed>>
    BY <1>2 DEF Bind, Refused
  <2>2. CASE Refused(s, "bind", "OSError")
    BY <2>1, <2>2, RefusedEffect DEF InOrder, FramesOfThisOpen
  <2>3. CASE Go(s, "flush")
    BY <2>1, <2>3, GoType DEF InOrder, FramesOfThisOpen
  <2> QED
    BY <1>2, <2>2, <2>3 DEF Bind
<1>3. CASE Flush(s)
  <2>1. pc[s] = "flush" /\ handed[s] = <<>> /\ UNCHANGED handed
    BY <1>3 DEF Flush, FramesOfThisOpen
  <2>2. CASE queue[s] # <<>> /\ queue' = Set(queue, s, Tail(queue[s])) /\ UNCHANGED pc
    <3>1. queue'[s] = Tail(queue[s])
      BY <2>2 DEF TypeOK, Set
    <3>2. \A i, j \in DOMAIN queue'[s] : i < j => queue'[s][i].n < queue'[s][j].n
      BY <2>2, <3>1, TailStaysInOrder
    <3>3. handed'[s] = <<>> /\ pc'[s] = "flush"
      BY <2>1, <2>2
    <3> QED
      BY <3>2, <3>3 DEF InOrder, FramesOfThisOpen
  <2>3. CASE queue[s] = <<>> /\ End(s, "True") /\ UNCHANGED queue
    BY <2>1, <2>3, EndEffect DEF InOrder, FramesOfThisOpen
  <2>4. CASE End(s, "OSError") /\ after' = Set(after, s, 0) /\ UNCHANGED queue
    <3>1. after'[s] = 0 /\ pc'[s] = "idle"
      <4>1. after'[s] = 0
        BY <2>4 DEF TypeOK, Set
      <4> QED
        BY <2>4, <4>1, EndEffect
    <3>2. \A j \in DOMAIN queue[s] : queue[s][j].n > 0
      <4>1. \A j \in DOMAIN queue[s] : queue[s][j].n \in 1..frames
        BY FrameTypes
      <4> QED
        BY <4>1 DEF TypeOK
    <3> QED
      BY <2>1, <2>4, <3>1, <3>2 DEF InOrder, FramesOfThisOpen
  <2> QED
    BY <1>3, <2>2, <2>3, <2>4 DEF Flush
<1>4. CASE CloseSocket(s)
  <2>1. sock'[s] = "none" /\ queue'[s] = <<>> /\ UNCHANGED handed
    BY <1>4 DEF CloseSocket, TypeOK, Set, history
  <2>2. pc'[s] = "idle"
    BY <1>4, EndEffect DEF CloseSocket
  <2> QED
    BY <2>1, <2>2 DEF InOrder, FramesOfThisOpen
<1>5. CASE Received(s)
  <2>1. pc[s] = "receive" /\ queue[s] # <<>> /\ queue'[s] = Tail(queue[s]) /\ UNCHANGED <<sock, after>>
    BY <1>5 DEF Received, TypeOK, Set
  <2>2. pc'[s] \notin OpenSteps
    BY <1>5, <2>1, GoType DEF Received
  <2>3. CASE UNCHANGED handed
    BY <2>1, <2>2, <2>3, TailStaysInOrder DEF InOrder, FramesOfThisOpen
  <2>4. CASE Head(queue[s]).own /\ handed' = Set(handed, s, Append(handed[s], Head(queue[s])))
    <3> DEFINE h == handed[s]
               f == Head(queue[s])
               S == [n : 1..frames, own : BOOLEAN]
    <3>1. handed'[s] = Append(h, f)
      BY <2>4 DEF TypeOK, Set
    <3>2. f \in S /\ h \in Seq(S) /\ f = queue[s][1] /\ 1 \in DOMAIN queue[s]
      <4>1. f = queue[s][1] /\ 1 \in DOMAIN queue[s]
        BY <2>1, TailStaysInOrder
      <4>2. queue[s] \in Seq(S) /\ h \in Seq(S)
        BY DEF TypeOK
      <4> HIDE DEF S
      <4> QED
        BY <4>1, <4>2, ElementOfSeq, LenProperties
    <3>3. /\ Append(h, f) \in Seq(S) /\ Len(Append(h, f)) = Len(h) + 1
          /\ \A i \in 1..Len(h) : Append(h, f)[i] = h[i]
          /\ Append(h, f)[Len(h) + 1] = f
      BY <3>2, AppendProperties
    <3>4. /\ DOMAIN h = 1..Len(h) /\ Len(h) \in Nat
          /\ DOMAIN Append(h, f) = 1..(Len(h) + 1)
      BY <3>2, <3>3, LenProperties
    <3>5. \A i \in DOMAIN h : h[i].n < f.n
      BY <3>2 DEF InOrder
    <3>6. \A i, j \in DOMAIN h : i < j => h[i].n < h[j].n
      BY DEF InOrder
    <3>7. \A i, j \in DOMAIN Append(h, f) : i < j => Append(h, f)[i].n < Append(h, f)[j].n
      <4> SUFFICES ASSUME NEW i \in 1..(Len(h) + 1), NEW j \in 1..(Len(h) + 1), i < j
                   PROVE  Append(h, f)[i].n < Append(h, f)[j].n
        BY <3>4
      <4>1. i \in DOMAIN h /\ Append(h, f)[i] = h[i]
        BY <3>3, <3>4
      <4>2. CASE j = Len(h) + 1
        BY <3>3, <3>5, <4>1, <4>2
      <4>3. CASE j \in DOMAIN h
        BY <3>3, <3>4, <3>6, <4>1, <4>3
      <4> QED
        BY <3>4, <4>2, <4>3
    <3>8. \A i \in DOMAIN Append(h, f) : Append(h, f)[i] = f \/ \E k \in DOMAIN h : Append(h, f)[i] = h[k]
      BY <3>3, <3>4
    <3>9. \A i \in DOMAIN Append(h, f), j \in DOMAIN queue'[s] : Append(h, f)[i].n < queue'[s][j].n
      <4> SUFFICES ASSUME NEW i \in DOMAIN Append(h, f), NEW j \in DOMAIN queue'[s]
                   PROVE  Append(h, f)[i].n < queue'[s][j].n
        OBVIOUS
      <4>1. f.n < queue'[s][j].n /\ \A k \in DOMAIN h : h[k].n < queue'[s][j].n
        BY <2>1, TailStaysInOrder DEF InOrder
      <4> QED
        BY <3>8, <4>1
    <3>10. \A i, j \in DOMAIN queue'[s] : i < j => queue'[s][i].n < queue'[s][j].n
      BY <2>1, TailStaysInOrder
    <3>11. sock[s] = "bound" =>
             /\ \A i \in DOMAIN Append(h, f) : Append(h, f)[i].n > after[s]
             /\ \A j \in DOMAIN queue'[s] : queue'[s][j].n > after[s]
      <4> SUFFICES ASSUME sock[s] = "bound"
                   PROVE  /\ \A i \in DOMAIN Append(h, f) : Append(h, f)[i].n > after[s]
                          /\ \A j \in DOMAIN queue'[s] : queue'[s][j].n > after[s]
        OBVIOUS
      <4>1. f.n > after[s] /\ \A k \in DOMAIN h : h[k].n > after[s]
        BY <2>1, <3>2 DEF FramesOfThisOpen
      <4>2. \A i \in DOMAIN Append(h, f) : Append(h, f)[i].n > after[s]
        BY <3>8, <4>1
      <4>3. \A j \in DOMAIN queue'[s] : queue'[s][j].n > after[s]
        BY <2>1, TailStaysInOrder DEF FramesOfThisOpen
      <4> QED
        BY <4>2, <4>3
    <3>14. \A i \in DOMAIN Append(h, f) : Append(h, f)[i].own
      BY <2>4, <3>8 DEF InOrder
    <3>12. InOrder(s)'
      BY <3>1, <3>7, <3>9, <3>10, <3>14 DEF InOrder
    <3>13. FramesOfThisOpen(s)'
      BY <2>1, <2>2, <3>1, <3>11 DEF FramesOfThisOpen
    <3> QED
      BY <3>12, <3>13
  <2> QED
    BY <1>5, <2>3, <2>4 DEF Received
<1> QED
  BY <1>1, <1>2, <1>3, <1>4, <1>5

(* A frame that arrives is after all there were.                             *)
LEMMA CaptureKeepsFrames ==
  ASSUME TypeOK, TypeOK', NEW s \in Sockets, InOrder(s), FramesOfThisOpen(s), Capture
  PROVE  (InOrder(s) /\ FramesOfThisOpen(s))'
<1> DEFINE S == [n : 1..(frames + 1), own : BOOLEAN]
           q == queue[s]
<1>1. UNCHANGED <<pc, sock, handed, after>> /\ frames \in Nat
  BY DEF Capture, object, history, TypeOK
<1>2. CASE queue'[s] = q
  BY <1>1, <1>2 DEF InOrder, FramesOfThisOpen
<1>3. ASSUME NEW own \in BOOLEAN, queue'[s] = Append(q, [n |-> frames + 1, own |-> own])
      PROVE  (InOrder(s) /\ FramesOfThisOpen(s))'
  <2> DEFINE f == [n |-> frames + 1, own |-> own]
  <2>1. q \in Seq(S) /\ f \in S /\ f.n = frames + 1
    <3>1. q \in Seq([n : 1..frames, own : BOOLEAN])
      BY FrameTypes
    <3>2. q \in Seq(S)
      BY <1>1, <3>1, FramesStay
    <3>3. f \in S /\ f.n = frames + 1
      BY <1>1
    <3> QED
      BY <3>2, <3>3
  <2> HIDE DEF f
  <2>2. /\ Append(q, f) \in Seq(S) /\ Len(Append(q, f)) = Len(q) + 1
        /\ \A i \in 1..Len(q) : Append(q, f)[i] = q[i]
        /\ Append(q, f)[Len(q) + 1] = f
    BY <2>1, AppendProperties
  <2>3. DOMAIN q = 1..Len(q) /\ Len(q) \in Nat /\ DOMAIN Append(q, f) = 1..(Len(q) + 1)
    BY <2>1, <2>2, LenProperties
  <2>4. \A i \in DOMAIN q : q[i].n \in 1..frames
    BY FrameTypes
  <2>5. \A i \in DOMAIN handed[s] : handed[s][i].n \in 1..frames
    BY FrameTypes
  <2>6. after[s] \in 0..frames
    BY DEF TypeOK
  <2>7. queue'[s] = Append(q, f)
    BY <1>3 DEF f
  <2>8. \A j \in DOMAIN queue'[s] : (j \in DOMAIN q /\ queue'[s][j] = q[j]) \/ (j = Len(q) + 1 /\ queue'[s][j] = f)
    BY <2>2, <2>3, <2>7
  <2>9. \A i, j \in DOMAIN queue'[s] : i < j => queue'[s][i].n < queue'[s][j].n
    <3> SUFFICES ASSUME NEW i \in DOMAIN queue'[s], NEW j \in DOMAIN queue'[s], i < j
                 PROVE  queue'[s][i].n < queue'[s][j].n
      OBVIOUS
    <3>1. i \in DOMAIN q /\ queue'[s][i] = q[i]
      BY <2>3, <2>7, <2>8
    <3>2. CASE queue'[s][j] = f
      BY <1>1, <2>1, <2>4, <3>1, <3>2
    <3>3. CASE j \in DOMAIN q /\ queue'[s][j] = q[j]
      BY <3>1, <3>3 DEF InOrder
    <3> QED
      BY <2>8, <3>2, <3>3
  <2>10. \A i \in DOMAIN handed[s], j \in DOMAIN queue'[s] : handed[s][i].n < queue'[s][j].n
    <3> SUFFICES ASSUME NEW i \in DOMAIN handed[s], NEW j \in DOMAIN queue'[s]
                 PROVE  handed[s][i].n < queue'[s][j].n
      OBVIOUS
    <3>1. CASE queue'[s][j] = f
      BY <1>1, <2>1, <2>5, <3>1
    <3>2. CASE j \in DOMAIN q /\ queue'[s][j] = q[j]
      BY <3>2 DEF InOrder
    <3> QED
      BY <2>8, <3>1, <3>2
  <2>11. sock[s] = "bound" /\ pc[s] # "flush" => \A j \in DOMAIN queue'[s] : queue'[s][j].n > after[s]
    <3> SUFFICES ASSUME sock[s] = "bound", pc[s] # "flush", NEW j \in DOMAIN queue'[s]
                 PROVE  queue'[s][j].n > after[s]
      OBVIOUS
    <3>1. CASE queue'[s][j] = f
      BY <1>1, <2>1, <2>6, <3>1
    <3>2. CASE j \in DOMAIN q /\ queue'[s][j] = q[j]
      BY <3>2 DEF FramesOfThisOpen
    <3> QED
      BY <2>8, <3>1, <3>2
  <2> QED
    BY <1>1, <2>9, <2>10, <2>11 DEF InOrder, FramesOfThisOpen
<1> QED
  BY <1>2, <1>3 DEF Capture

(* receive returns frames of its own interface, in the order they were       *)
(* captured and each once, and after an open that returned True none from    *)
(* before the socket was bound: wlan_communicator.py:309-320, 379-404.       *)
THEOREM FramesStayOwn == Spec => []FramesAreOwn
<1>1. Init => FramesIInv
  BY DEF Init, FramesIInv, InOrder, FramesOfThisOpen, OpenSteps
<1>2. TypeOK /\ TypeOK' /\ FramesIInv /\ [Next]_vars => FramesIInv'
  <2> SUFFICES ASSUME TypeOK, TypeOK', FramesIInv, [Next]_vars, NEW t \in Sockets
               PROVE  (InOrder(t) /\ FramesOfThisOpen(t))'
    BY DEF FramesIInv
  <2>1. InOrder(t) /\ FramesOfThisOpen(t)
    BY DEF FramesIInv
  <2>2. ASSUME NEW s \in Sockets, Thread(s) PROVE (InOrder(t) /\ FramesOfThisOpen(t))'
    <3>1. CASE s = t
      BY <2>1, <2>2, <3>1, CommandsKeepFrames, SocketKeepsFrames DEF Thread
    <3>2. CASE s # t
      BY <2>1, <2>2, <3>2, Bystander DEF InOrder, FramesOfThisOpen
    <3> QED
      BY <3>1, <3>2
  <2>3. CASE Others
    BY <2>1, <2>3 DEF Others, object, InOrder, FramesOfThisOpen
  <2>4. CASE UNCHANGED vars
    BY <2>1, <2>4 DEF vars, object, history, InOrder, FramesOfThisOpen
  <2> QED
    BY <2>1, <2>2, <2>3, <2>4, CaptureKeepsFrames DEF Next, AllWait
<1>3. FramesIInv => FramesAreOwn
  BY DEF FramesIInv, InOrder, FramesOfThisOpen, FramesAreOwn
<1> QED
  BY <1>1, <1>2, <1>3, TypesAreKept, PTL DEF Spec

-----------------------------------------------------------------------------
(* What a frame says of the security of its network.                         *)

Protections == {"WPA2", "WPA3", "WPA3_TRAN"}

Classified(c) ==
  LET told == Security(c)
      rsn == First(Elements(c), "rsn")
  IN /\ Cardinality(told \cap Protections) = (IF Has(Elements(c), "rsn") THEN 1 ELSE 0)
     /\ Has(Elements(c), "rsn") /\ ReadsTrue(rsn) =>
          /\ "WPA3" \in told <=> IsWpa3Only(rsn)
          /\ IsWpa3Transition(rsn) => "WPA3_TRAN" \in told
     /\ "WPA3" \in told => /\ "SAE" \in rsn.akms
                           /\ rsn.akms \cap {"PSK", "PSK_SHA256"} = {}
                           /\ rsn.ciphers \cap WeakCiphers = {}
     /\ "WPA3_TRAN" \in told => rsn.akms \cap {"PSK", "SAE"} # {}
     /\ "OPEN" \in told => told = {"OPEN"} /\ (c.kind = "beacon" => ~c.privacy)

(* The bits that are read are those that were sent. *)
LEMMA BitsReadTrue ==
  ASSUME NEW rsn, ReadsTrue(rsn)
  PROVE  (Capability(rsn, "required") <=> 6 \in rsn.bits) /\ (Capability(rsn, "capable") <=> 7 \in rsn.bits)
<1>1. (1 \in rsn.bits <=> 6 \in rsn.bits) /\ (0 \in rsn.bits <=> 7 \in rsn.bits)
  <2>1. 7 - 1 = 6 /\ 7 - 0 = 7
    OBVIOUS
  <2> QED
    BY <2>1 DEF ReadsTrue
<1> QED
  BY <1>1 DEF Capability, BitRead

(* An RSN element is told as one protection, its own. *)
LEMMA RsnIsClassified ==
  ASSUME NEW rsn
  PROVE  /\ OfRsn(rsn) \in Protections
         /\ ReadsTrue(rsn) => /\ OfRsn(rsn) = "WPA3" <=> IsWpa3Only(rsn)
                              /\ IsWpa3Transition(rsn) => OfRsn(rsn) = "WPA3_TRAN"
         /\ OfRsn(rsn) = "WPA3" => /\ "SAE" \in rsn.akms
                                   /\ rsn.akms \cap {"PSK", "PSK_SHA256"} = {}
                                   /\ rsn.ciphers \cap WeakCiphers = {}
         /\ OfRsn(rsn) = "WPA3_TRAN" => rsn.akms \cap {"PSK", "SAE"} # {}
<1>1. OfRsn(rsn) = "WPA3" <=> IsWpa3(rsn)
  BY DEF OfRsn
<1>2. OfRsn(rsn) = "WPA3_TRAN" <=> ~IsWpa3(rsn) /\ IsTransition(rsn)
  BY DEF OfRsn
<1>3. OfRsn(rsn) \in Protections
  BY DEF OfRsn, Protections
<1>4. ASSUME ReadsTrue(rsn) PROVE IsWpa3(rsn) <=> IsWpa3Only(rsn)
  BY <1>4, BitsReadTrue DEF IsWpa3, IsWpa3Only
<1>5. ASSUME ReadsTrue(rsn), IsWpa3Transition(rsn) PROVE ~IsWpa3(rsn) /\ IsTransition(rsn)
  BY <1>5, BitsReadTrue DEF IsWpa3, IsTransition, IsWpa3Transition
<1>6. IsWpa3(rsn) => /\ "SAE" \in rsn.akms
                     /\ rsn.akms \cap {"PSK", "PSK_SHA256"} = {}
                     /\ rsn.ciphers \cap WeakCiphers = {}
  BY DEF IsWpa3
<1>7. IsTransition(rsn) => rsn.akms \cap {"PSK", "SAE"} # {}
  BY DEF IsTransition
<1> QED
  BY <1>1, <1>2, <1>3, <1>4, <1>5, <1>6, <1>7

LEMMA FramesAreClassified ==
  ASSUME NEW c \in Contents, Security(c) # {"AttributeError"}
  PROVE  Classified(c)
<1> DEFINE told == Security(c)
           rsn == First(Elements(c), "rsn")
           wpa == IF Has(Elements(c), "wpa") THEN {"WPA"} ELSE {}
           kind == OfRsn(rsn)
<1>1. c.kind \in FrameKinds
  BY ContentAssumption
<1>2. CASE Has(Elements(c), "rsn")
  <2>1. told = wpa \cup {kind}
    BY <1>2 DEF Security
  <2>2. told \cap Protections = {kind} /\ "OPEN" \notin told /\ kind \in Protections
    BY <2>1, RsnIsClassified DEF Protections
  <2>3. Cardinality(told \cap Protections) = 1
    BY <2>2, FS_Singleton
  <2>4. ("WPA3" \in told <=> kind = "WPA3") /\ ("WPA3_TRAN" \in told <=> kind = "WPA3_TRAN")
    BY <2>1
  <2> QED
    BY <1>2, <2>2, <2>3, <2>4, RsnIsClassified DEF Classified
<1>3. CASE ~Has(Elements(c), "rsn")
  <2>1. CASE Has(Elements(c), "wpa")
    <3>1. told = {"WPA"}
      BY <1>3, <2>1 DEF Security
    <3>2. Cardinality(told \cap Protections) = 0
      <4>1. told \cap Protections = {}
        BY <3>1 DEF Protections
      <4> QED
        BY <4>1, FS_EmptySet
    <3> QED
      BY <1>3, <3>1, <3>2 DEF Classified
  <2>2. CASE ~Has(Elements(c), "wpa")
    <3>1. told = CASE c.kind = "control" -> {"OPEN"}
                   [] c.kind = "beacon" -> {IF c.privacy THEN "WEP" ELSE "OPEN"}
                   [] OTHER -> {"AttributeError"}
      BY <1>3, <2>2 DEF Security
    <3>2. \/ told = {"OPEN"} /\ c.kind = "control"
          \/ told = {"OPEN"} /\ c.kind = "beacon" /\ ~c.privacy
          \/ told = {"WEP"}
      BY <1>1, <3>1 DEF FrameKinds
    <3>3. Cardinality(told \cap Protections) = 0
      <4>1. told \cap Protections = {}
        BY <3>2 DEF Protections
      <4> QED
        BY <4>1, FS_EmptySet
    <3> QED
      BY <1>3, <3>2, <3>3 DEF Classified
  <2> QED
    BY <2>1, <2>2
<1> QED
  BY <1>2, <1>3

(* What was returned as a packet is the content of a frame.                  *)
Returned(s) == result[s].kind = "packet" => result[s].content \in Contents

LEMMA OwnReturned ==
  ASSUME TypeOK, NEW s \in Sockets, Thread(s), Returned(s)
  PROVE  Returned(s)'
<1>1. ASSUME NEW kind, NEW content, Result(s, kind, content), kind # "packet" PROVE Returned(s)'
  BY <1>1, ResultEffect DEF Returned
<1>2. CASE UNCHANGED result
  BY <1>2 DEF Returned
<1>3. ASSUME NEW step, NEW kind, Refused(s, step, kind), kind # "packet" PROVE Returned(s)'
  BY <1>1, <1>3 DEF Refused, End
<1>4. ASSUME NEW step, NEW value, NEW next, Restore(s, step, value, next) \/ Step(s, step, value, next)
      PROVE  Returned(s)'
  BY <1>2, <1>4 DEF Restore, Step
<1>5. CASE Open(s) \/ Close(s) \/ Receive(s) \/ Send(s) \/ SendReceive(s) \/ CloseSocket(s) \/ Flush(s)
  BY <1>1, <1>2, <1>5 DEF Open, Close, Receive, Send, SendReceive, CloseSocket, Flush, End
<1>6. CASE GetFlags(s) \/ GetMode(s) \/ Bind(s) \/ CloseModeRefused(s)
  BY <1>2, <1>3, <1>6 DEF GetFlags, GetMode, Bind, CloseModeRefused
<1>7. CASE Down(s) \/ SetMode(s) \/ SetFlags(s) \/ Up(s) \/ Verify(s)
  BY <1>1, <1>2, <1>3, <1>4, <1>7 DEF Down, SetMode, SetFlags, Up, Verify, End
<1>8. CASE CloseDown(s) \/ CloseMode(s) \/ CloseFlags(s) \/ CloseUp(s)
  BY <1>4, <1>8 DEF CloseDown, CloseMode, CloseFlags, CloseUp
<1>9. CASE Received(s)
  <2>1. ASSUME NEW c \in Contents, Result(s, "packet", c) PROVE Returned(s)'
    BY <2>1 DEF Returned, Result, Set, TypeOK
  <2> QED
    BY <1>1, <1>2, <1>9, <2>1 DEF Received
<1> QED
  BY <1>5, <1>6, <1>7, <1>8, <1>9 DEF Thread

ReturnedIInv == \A s \in Sockets : Returned(s)

(* Of every packet receive returns, security says one protection for an RSN  *)
(* element and none without; where the bits of the capabilities that are     *)
(* read stand as those that were sent, WPA3 of just the networks the comment *)
(* of wlan_communicator.py:136-150 describes, and its transition mode of all *)
(* of them; wherever they stand, neither of a network without the suites;    *)
(* and OPEN only of one without protection.                                  *)
THEOREM SecurityIsOfTheFrame == Spec => []SecurityIsRight
<1>1. Init => ReturnedIInv
  BY DEF Init, ReturnedIInv, Returned
<1>2. TypeOK /\ ReturnedIInv /\ [Next]_vars => ReturnedIInv'
  <2> SUFFICES ASSUME TypeOK, ReturnedIInv, [Next]_vars, NEW t \in Sockets PROVE Returned(t)'
    BY DEF ReturnedIInv
  <2>1. Returned(t)
    BY DEF ReturnedIInv
  <2>2. ASSUME NEW s \in Sockets, Thread(s) PROVE Returned(t)'
    <3>1. CASE s = t
      BY <2>1, <2>2, <3>1, OwnReturned
    <3>2. CASE s # t
      BY <2>1, <2>2, <3>2, Bystander DEF Returned
    <3> QED
      BY <3>1, <3>2
  <2>3. CASE UNCHANGED vars \/ Capture \/ Others
    BY <2>1, <2>3 DEF vars, object, Capture, Others, Returned
  <2> QED
    BY <2>2, <2>3 DEF Next, AllWait
<1>3. ReturnedIInv => SecurityIsRight
  <2> SUFFICES ASSUME ReturnedIInv, NEW s \in Sockets, result[s].kind = "packet",
                      Security(result[s].content) # {"AttributeError"}
               PROVE  Classified(result[s].content)
    BY DEF SecurityIsRight, Classified, Protections
  <2> QED
    BY FramesAreClassified DEF ReturnedIInv, Returned
<1> QED
  BY <1>1, <1>2, <1>3, TypesAreKept, PTL DEF Spec

=============================================================================
