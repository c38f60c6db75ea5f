---------------------------- MODULE WifiMonitor ----------------------------
(***************************************************************************)
(* WiFiRawMonitorSocket objects on one wireless interface: open, which     *)
(* puts the interface into monitor mode command by command and returns at  *)
(* the first that fails, close, which puts back what open saved, and       *)
(* receive with what WiFiPacket makes of a frame.  Objects are used by     *)
(* threads of their own.  External are the kernel, where commands may fail *)
(* and frames arrive, and whoever else sets the interface.                 *)
(***************************************************************************)
EXTENDS Naturals, Sequences, FiniteSets

CONSTANTS
  Sockets,     \* WiFiRawMonitorSocket objects with the same if_name
  Contents,    \* what frames may hold, see Content below
  NoContent,   \* no frame
  MaxOpens,    \* bound: opens called
  MaxFrames,   \* bound: frames that arrive
  MaxFailures, \* bound: commands that fail
  MaxOthers    \* bound: changes others make to the interface

ASSUME BoundAssumption ==
  MaxOpens \in Nat /\ MaxFrames \in Nat /\ MaxFailures \in Nat /\ MaxOthers \in Nat

VARIABLES
  iface,     \* the interface: is it up, and its mode
  pc,        \* of each object: "idle", or the command it does next
  sock,      \* _raw_socket: none, made but not bound, or bound
  saved,     \* _original_mode and _original_flags, of which IFF_UP counts
  queue,     \* frames captured by the socket
  result,    \* of the last operation of each object
  handed,    \* history: the frames receive returned since the last open
  before,    \* history: the interface when open began
  after,     \* history: frames there had been when the socket was bound, 0 when it
             \* was not, or not flushed
  alone,     \* history: nobody else set the interface since open began
  muddled,   \* history: why close would not put back, or did not, what open found
  opens, frames, failures, others

object == <<pc, sock, saved, result>>
history == <<handed, before, after, alone, muddled>>
counters == <<opens, frames, failures, others>>
vars == <<iface, queue, object, history, counters>>

Modes == {"managed", "monitor"}
Interface == [up : BOOLEAN, mode : Modes]
NothingSaved == [mode |-> "none", flags |-> "none"]
OpenSteps == {"flags", "down", "mode", "setMode", "setFlags", "up", "verify", "bind", "flush"}
CloseSteps == {"closeDown", "closeMode", "closeFlags", "closeUp", "closeSocket"}

-----------------------------------------------------------------------------
(* WiFiPacket.  An element that does not parse ends the list; of elements    *)
(* that do not repeat the first counts.  The capabilities of an RSN element  *)
(* are read from the most significant bit of their first byte on: bits is    *)
(* the set of bits set in it, or there are no capabilities.                  *)

WeakCiphers == {"WEP40", "TKIP", "WEP104"}
Ciphers == WeakCiphers \cup {"CCMP", "another"}
Akms == {"SAE", "PSK", "PSK_SHA256", "another"}
Rsn == [id : {"rsn"}, akms : SUBSET Akms, ciphers : SUBSET Ciphers, capabilities : BOOLEAN, bits : SUBSET (0..7)]
ElementIds == {"ssid", "wpa", "rsn", "broken"}

Parsed(elements) ==
  LET broken == {i \in DOMAIN elements : elements[i].id = "broken"}
      end == IF broken = {} THEN Len(elements) ELSE (CHOOSE i \in broken : \A j \in broken : i <= j) - 1
  IN SubSeq(elements, 1, end)

First(elements, id) == SelectSeq(Parsed(elements), LAMBDA e : e.id = id)[1]
Has(elements, id) == \E i \in DOMAIN Parsed(elements) : Parsed(elements)[i].id = id

BitRead(field) == CASE field = "required" -> 1 [] field = "capable" -> 0

Capability(rsn, field) == BitRead(field) \in rsn.bits

(* Mutant: the ciphers are not looked at. *)
IsWpa3WithAnyCipher(rsn) ==
  /\ rsn.capabilities /\ Capability(rsn, "required") /\ Capability(rsn, "capable")
  /\ "SAE" \in rsn.akms
  /\ rsn.akms \cap {"PSK", "PSK_SHA256"} = {}

IsWpa3(rsn) ==
  /\ rsn.capabilities /\ Capability(rsn, "required") /\ Capability(rsn, "capable")
  /\ "SAE" \in rsn.akms
  /\ rsn.akms \cap {"PSK", "PSK_SHA256"} = {}
  /\ rsn.ciphers \cap WeakCiphers = {}

IsTransition(rsn) ==
  /\ rsn.capabilities /\ ~Capability(rsn, "required") /\ Capability(rsn, "capable")
  /\ rsn.akms \cap {"PSK", "SAE"} # {}

OfRsn(rsn) == IF IsWpa3(rsn) THEN "WPA3" ELSE IF IsTransition(rsn) THEN "WPA3_TRAN" ELSE "WPA2"

(* Of frames: beacons and what else has a body with both, requests to probe, *)
(* which have elements only, other bodies, and control frames without one.   *)
FrameKinds == {"beacon", "probe", "data", "control"}
Elements(c) == IF c.kind \in {"beacon", "probe"} THEN c.elements ELSE <<>>

(* Frames other than beacons have a body without capability_info.            *)
Security(c) ==
  LET named == (IF Has(Elements(c), "wpa") THEN {"WPA"} ELSE {})
               \cup (IF Has(Elements(c), "rsn") THEN {OfRsn(First(Elements(c), "rsn"))} ELSE {})
  IN IF named # {} THEN named
     ELSE CASE c.kind = "control" -> {"OPEN"}
            [] c.kind = "beacon" -> {IF c.privacy THEN "WEP" ELSE "OPEN"}
            [] OTHER -> {"AttributeError"}

ASSUME ContentAssumption ==
  \A c \in Contents :
    /\ c.kind \in FrameKinds
    /\ \A i \in DOMAIN Elements(c) :
         LET e == Elements(c)[i] IN e.id \in ElementIds /\ (e.id = "rsn" => e \in Rsn)

-----------------------------------------------------------------------------

Init ==
  /\ iface \in [up : BOOLEAN, mode : {"managed"}]
  /\ pc = [s \in Sockets |-> "idle"]
  /\ sock = [s \in Sockets |-> "none"]
  /\ saved = [s \in Sockets |-> NothingSaved]
  /\ queue = [s \in Sockets |-> <<>>]
  /\ result = [s \in Sockets |-> [kind |-> "none", content |-> NoContent]]
  /\ handed = [s \in Sockets |-> <<>>]
  /\ before = [s \in Sockets |-> iface]
  /\ after = [s \in Sockets |-> 0]
  /\ alone = [s \in Sockets |-> FALSE]
  /\ muddled = [s \in Sockets |-> "no"]
  /\ opens = 0 /\ frames = 0 /\ failures = 0 /\ others = 0

Set(f, s, value) == [f EXCEPT ![s] = value]

Result(s, kind, content) == result' = Set(result, s, [kind |-> kind, content |-> content])
Go(s, step) == pc' = Set(pc, s, step)

(* open or close ends: True, False or an exception. *)
End(s, kind) == Go(s, "idle") /\ Result(s, kind, NoContent)

Fail == failures < MaxFailures /\ failures' = failures + 1

(* The interface is set, by this object, or by anyone. *)
SetInterface(s, value) ==
  /\ iface' = value
  /\ alone' = [t \in Sockets |-> alone[t] /\ t = s]

-----------------------------------------------------------------------------
(* open. *)

(* A new socket, which captures on every interface; what there was before    *)
(* goes, except when none can be made.                                       *)
Open(s) ==
  /\ pc[s] = "idle"
  /\ opens < MaxOpens
  /\ opens' = opens + 1
  /\ \/ /\ sock' = Set(sock, s, "unbound")
        /\ queue' = Set(queue, s, <<>>)
        /\ handed' = Set(handed, s, <<>>)
        /\ before' = Set(before, s, iface)
        /\ after' = Set(after, s, 0)
        /\ alone' = Set(alone, s, TRUE)
        /\ muddled' = Set(muddled, s, IF sock[s] # "none" THEN "reopened"
                                       ELSE IF saved[s] # NothingSaved THEN "leftover" ELSE "no")
        /\ Go(s, "flags")
        /\ Result(s, "none", NoContent)
        /\ UNCHANGED failures
     \/ /\ Fail
        /\ Result(s, "OSError", NoContent)
        /\ UNCHANGED <<pc, sock, queue, history>>
  /\ UNCHANGED <<iface, saved, frames, others>>

(* The failure of a command, after which open returns False or raises, with  *)
(* the socket and what it has set so far, and the attributes as they are.    *)
Refused(s, step, kind) ==
  /\ pc[s] = step
  /\ Fail
  /\ End(s, kind)
  /\ UNCHANGED <<iface, sock, queue, handed, before, after, alone, opens, frames, others>>

GetFlags(s) ==
  \/ /\ pc[s] = "flags"
     /\ saved' = [saved EXCEPT ![s].flags = IF iface.up THEN "up" ELSE "down"]
     /\ Go(s, "down")
     /\ UNCHANGED <<iface, sock, queue, result, history, counters>>
  \/ Refused(s, "flags", "False") /\ UNCHANGED <<saved, muddled>>

Step(s, step, value, next) ==
  /\ pc[s] = step
  /\ SetInterface(s, value)
  /\ Go(s, next)
  /\ UNCHANGED <<sock, saved, queue, result, handed, before, after, muddled, counters>>

Down(s) ==
  \/ Step(s, "down", [iface EXCEPT !.up = FALSE], "mode")
  \/ Refused(s, "down", "False") /\ UNCHANGED <<saved, muddled>>

(* From here on both attributes are of this open, one perhaps None.          *)
GetMode(s) ==
  /\ \/ /\ pc[s] = "mode"
        /\ saved' = [saved EXCEPT ![s].mode = iface.mode]
        /\ Go(s, "setMode")
        /\ UNCHANGED <<iface, sock, queue, result, handed, before, after, alone, counters>>
     \/ Refused(s, "mode", "False") /\ saved' = [saved EXCEPT ![s].mode = "none"]
  /\ muddled' = Set(muddled, s, IF muddled[s] = "leftover" THEN "no" ELSE muddled[s])

(* The mode of an interface that is up cannot be set. *)
SetMode(s) ==
  \/ ~iface.up /\ Step(s, "setMode", [iface EXCEPT !.mode = "monitor"], "setFlags")
  \/ Refused(s, "setMode", "False") /\ UNCHANGED <<saved, muddled>>
  \/ /\ iface.up /\ pc[s] = "setMode"
     /\ End(s, "False")
     /\ UNCHANGED <<iface, sock, saved, queue, history, counters>>

(* The flags to set are lost: the flags written are those that were read.    *)
SetFlags(s) ==
  \/ Step(s, "setFlags", [iface EXCEPT !.up = (saved[s].flags = "up")], "up")
  \/ Refused(s, "setFlags", "False") /\ UNCHANGED <<saved, muddled>>

(* Mutant: a device that could not be set up is not noticed. *)
UpOrNot(s) ==
  \/ Step(s, "up", [iface EXCEPT !.up = TRUE], "verify")
  \/ Fail /\ pc[s] = "up" /\ Go(s, "verify")
     /\ UNCHANGED <<iface, sock, saved, queue, result, history, opens, frames, others>>

Up(s) ==
  \/ Step(s, "up", [iface EXCEPT !.up = TRUE], "verify")
  \/ Refused(s, "up", "False") /\ UNCHANGED <<saved, muddled>>

(* Any of the flags will do, and IFF_BROADCAST is always there; flags that   *)
(* cannot be read raise.                                                     *)
Verify(s) ==
  \/ /\ pc[s] = "verify"
     /\ IF iface.mode = "monitor" THEN Go(s, "bind") /\ UNCHANGED result ELSE End(s, "False")
     /\ UNCHANGED <<iface, sock, saved, queue, history, counters>>
  \/ Refused(s, "verify", "False") /\ UNCHANGED <<saved, muddled>>
  \/ Refused(s, "verify", "TypeError") /\ UNCHANGED <<saved, muddled>>

Bind(s) ==
  \/ /\ pc[s] = "bind"
     /\ sock' = Set(sock, s, "bound")
     /\ after' = Set(after, s, frames)
     /\ Go(s, "flush")
     /\ UNCHANGED <<iface, saved, queue, result, handed, before, alone, muddled, counters>>
  \/ Refused(s, "bind", "OSError") /\ UNCHANGED <<saved, muddled>>

(* Mutant: the buffer is not flushed. *)
FlushNothing(s) ==
  /\ pc[s] = "flush"
  /\ End(s, "True")
  /\ UNCHANGED <<iface, sock, saved, queue, history, counters>>

(* Frames are read until none comes for a while; on an interface that others *)
(* took down the read raises.                                                *)
Flush(s) ==
  /\ pc[s] = "flush"
  /\ \/ /\ queue[s] # <<>>
        /\ queue' = Set(queue, s, Tail(queue[s]))
        /\ UNCHANGED <<pc, result, after>>
     \/ queue[s] = <<>> /\ End(s, "True") /\ UNCHANGED <<queue, after>>
     \/ ~iface.up /\ End(s, "OSError") /\ after' = Set(after, s, 0) /\ UNCHANGED queue
  /\ UNCHANGED <<iface, sock, saved, handed, before, alone, muddled, counters>>

-----------------------------------------------------------------------------
(* close. *)

(* The interface is put back only as far as something was saved.             *)
Close(s) ==
  /\ pc[s] = "idle"
  /\ IF sock[s] = "none"
     THEN Result(s, "True", NoContent) /\ UNCHANGED pc
     ELSE /\ Go(s, IF saved[s] = NothingSaved THEN "closeSocket" ELSE "closeDown")
          /\ Result(s, "none", NoContent)
  /\ UNCHANGED <<iface, sock, saved, queue, history, counters>>

(* A command of close that fails is logged, and close goes on.               *)
Restore(s, step, value, next) ==
  \/ Step(s, step, value, next)
  \/ /\ pc[s] = step
     /\ Fail
     /\ Go(s, next)
     /\ muddled' = Set(muddled, s, "refused")
     /\ UNCHANGED <<iface, sock, saved, queue, result, handed, before, after, alone, opens, frames, others>>

CloseDown(s) ==
  Restore(s, "closeDown", [iface EXCEPT !.up = FALSE],
          IF saved[s].mode # "none" THEN "closeMode" ELSE "closeFlags")

(* Mutant: the flags are put back only when there is no mode to put back. *)
CloseModeOnly(s) ==
  /\ ~iface.up
  /\ Restore(s, "closeMode", [iface EXCEPT !.mode = saved[s].mode], "closeSocket")

CloseMode(s) ==
  /\ ~iface.up
  /\ Restore(s, "closeMode", [iface EXCEPT !.mode = saved[s].mode],
             IF saved[s].flags # "none" THEN "closeFlags" ELSE "closeSocket")

(* Others took the interface up again: its mode cannot be set. *)
CloseModeRefused(s) ==
  /\ iface.up /\ pc[s] = "closeMode"
  /\ Go(s, IF saved[s].flags # "none" THEN "closeFlags" ELSE "closeSocket")
  /\ muddled' = Set(muddled, s, "refused")
  /\ UNCHANGED <<iface, sock, saved, queue, result, handed, before, after, alone, counters>>

CloseFlags(s) ==
  Restore(s, "closeFlags", [iface EXCEPT !.up = (saved[s].flags = "up")],
          IF saved[s].flags = "up" THEN "closeUp" ELSE "closeSocket")

CloseUp(s) == Restore(s, "closeUp", [iface EXCEPT !.up = TRUE], "closeSocket")

(* Mutant: the object keeps its socket. *)
CloseSocketKept(s) ==
  /\ pc[s] = "closeSocket"
  /\ queue' = Set(queue, s, <<>>)
  /\ End(s, "closed")
  /\ UNCHANGED <<iface, sock, saved, history, counters>>

CloseSocket(s) ==
  /\ pc[s] = "closeSocket"
  /\ sock' = Set(sock, s, "none")
  /\ queue' = Set(queue, s, <<>>)
  /\ End(s, "closed")
  /\ UNCHANGED <<iface, saved, history, counters>>

-----------------------------------------------------------------------------
(* The other operations. *)

(* With a socket, whose receive waits as long as it takes. *)
Receive(s) ==
  /\ pc[s] = "idle"
  /\ IF sock[s] = "none"
     THEN Result(s, "Exception", NoContent) /\ UNCHANGED pc
     ELSE Go(s, "receive") /\ UNCHANGED result
  /\ UNCHANGED <<iface, sock, saved, queue, history, counters>>

(* A frame of another interface is left out, one that does not parse raises, *)
(* and so does one whose frequency is not of the 2.4 GHz band.               *)
Received(s) ==
  /\ pc[s] = "receive" /\ queue[s] # <<>>
  /\ queue' = Set(queue, s, Tail(queue[s]))
  /\ IF ~Head(queue[s]).own
     THEN UNCHANGED <<pc, result, handed>>
     ELSE /\ Go(s, "idle")
          /\ \/ \E kind \in {"AttributeError", "ValueError"} : Result(s, kind, NoContent) /\ UNCHANGED handed
             \/ \E c \in Contents : Result(s, "packet", c) /\ handed' = Set(handed, s, Append(handed[s], Head(queue[s])))
  /\ UNCHANGED <<iface, sock, saved, before, after, alone, muddled, counters>>

(* send, and send_receive with a packet, raise for want of the attribute     *)
(* data of the class, and without one for an argument recvfrom does not      *)
(* take; without a socket, send returns False, the others raise.             *)
Send(s) ==
  /\ pc[s] = "idle"
  /\ Result(s, IF sock[s] = "none" THEN "False" ELSE "AttributeError", NoContent)
  /\ UNCHANGED <<iface, pc, sock, saved, queue, history, counters>>

SendReceive(s) ==
  /\ pc[s] = "idle"
  /\ \E kind \in IF sock[s] = "none" THEN {"Exception"} ELSE {"AttributeError", "TypeError"} :
       Result(s, kind, NoContent)
  /\ UNCHANGED <<iface, pc, sock, saved, queue, history, counters>>

-----------------------------------------------------------------------------
(* The kernel and the others. *)

(* A bound socket captures on its interface, one that is not on all.         *)
Capture ==
  /\ frames < MaxFrames
  /\ frames' = frames + 1
  /\ \E own \in BOOLEAN :
       /\ own => iface.up
       /\ queue' = [s \in Sockets |->
            IF sock[s] = "unbound" \/ (sock[s] = "bound" /\ own)
            THEN Append(queue[s], [n |-> frames + 1, own |-> own]) ELSE queue[s]]
  /\ UNCHANGED <<iface, object, history, opens, failures, others>>

Others ==
  /\ others < MaxOthers
  /\ others' = others + 1
  /\ \E value \in Interface \ {iface} :
       /\ value.mode # iface.mode => ~iface.up
       /\ iface' = value
  /\ alone' = [s \in Sockets |-> FALSE]
  /\ UNCHANGED <<object, queue, handed, before, after, muddled, opens, frames, failures>>

(* Every thread waits for a frame. *)
AllWait == (\A s \in Sockets : pc[s] = "receive") /\ UNCHANGED vars

Thread(s) ==
  \/ Open(s) \/ Close(s) \/ Receive(s) \/ Send(s) \/ SendReceive(s)
  \/ GetFlags(s) \/ Down(s) \/ GetMode(s) \/ SetMode(s) \/ SetFlags(s)
  \/ Up(s) \/ Verify(s) \/ Bind(s) \/ Flush(s)
  \/ CloseDown(s) \/ CloseMode(s) \/ CloseModeRefused(s) \/ CloseFlags(s) \/ CloseUp(s) \/ CloseSocket(s)
  \/ Received(s)

Next == (\E s \in Sockets : Thread(s)) \/ Capture \/ Others \/ AllWait

Spec == Init /\ [][Next]_vars

-----------------------------------------------------------------------------

Outcomes == {"none", "True", "False", "closed", "OSError", "TypeError", "AttributeError", "ValueError",
             "Exception", "packet"}

TypeOK ==
  /\ iface \in Interface
  /\ pc \in [Sockets -> {"idle", "receive"} \cup OpenSteps \cup CloseSteps]
  /\ sock \in [Sockets -> {"none", "unbound", "bound"}]
  /\ saved \in [Sockets -> [mode : Modes \cup {"none"}, flags : {"none", "up", "down"}]]
  /\ queue \in [Sockets -> Seq([n : 1..frames, own : BOOLEAN])]
  /\ result \in [Sockets -> [kind : Outcomes, content : Contents \cup {NoContent}]]
  /\ handed \in [Sockets -> Seq([n : 1..frames, own : BOOLEAN])]
  /\ before \in [Sockets -> Interface]
  /\ after \in [Sockets -> 0..frames]
  /\ alone \in [Sockets -> BOOLEAN]
  /\ muddled \in [Sockets -> {"no", "reopened", "leftover", "refused"}]
  /\ \A s \in Sockets :
       /\ sock[s] = "none" => queue[s] = <<>>
       /\ pc[s] # "idle" => sock[s] # "none"
       /\ pc[s] = "flush" => sock[s] = "bound"
       /\ pc[s] = "closeMode" => saved[s].mode # "none"
  /\ opens \in 0..MaxOpens /\ frames \in 0..MaxFrames
  /\ failures \in 0..MaxFailures /\ others \in 0..MaxOthers

(* An object whose open returned True has the interface up and in monitor    *)
(* mode, whatever failed before, for as long as nobody else sets it          *)
(* (wlan_communicator.py:492-526).                                           *)
OpenIsMonitoring ==
  \A s \in Sockets :
    pc[s] = "idle" /\ result[s].kind = "True" /\ sock[s] = "bound" /\ alone[s] =>
      iface = [up |-> TRUE, mode |-> "monitor"]

(* The objects keep their types, and an open one is what it says.            *)
MonitorInv == TypeOK /\ OpenIsMonitoring

(* close leaves the interface as open found it, whichever command open       *)
(* failed at (wlan_communicator.py:528-543): unless somebody else set it in  *)
(* between, another object on it among them, open was called again without a *)
(* close, what an earlier open saved was left over, or a command of close    *)
(* itself failed.                                                            *)
CloseRestores ==
  \A s \in Sockets :
    pc[s] = "idle" /\ result[s].kind = "closed" /\ alone[s] /\ muddled[s] = "no" => iface = before[s]

(* receive returns frames of its own interface, in the order they were       *)
(* captured and each once, and after an open that returned True none from    *)
(* before it was bound; an object whose open failed before may capture on    *)
(* every interface for as long as it is used (lines 309-320, 379-404).       *)
FramesAreOwn ==
  \A s \in Sockets :
    /\ \A i \in DOMAIN handed[s] : handed[s][i].own
    /\ \A i, j \in DOMAIN handed[s] : i < j => handed[s][i].n < handed[s][j].n
    /\ sock[s] = "bound" /\ pc[s] # "flush" =>
         \A i \in DOMAIN handed[s] : handed[s][i].n > after[s]

(* What the comment above the classification asks for (lines 136-150), with  *)
(* the bits of the capabilities as an access point sends them: 6 is          *)
(* management frame protection required, 7 capable.                          *)
IsWpa3Only(rsn) ==
  /\ rsn.capabilities /\ {6, 7} \subseteq rsn.bits
  /\ "SAE" \in rsn.akms /\ rsn.akms \cap {"PSK", "PSK_SHA256"} = {}
  /\ rsn.ciphers \cap WeakCiphers = {}
IsWpa3Transition(rsn) ==
  /\ rsn.capabilities /\ 6 \notin rsn.bits /\ 7 \in rsn.bits
  /\ {"PSK", "SAE"} \subseteq rsn.akms

(* The code reads bits 1 and 0 in their place (mac_parsing.py:390-405).      *)
ReadsTrue(rsn) == \A bit \in {0, 1} : bit \in rsn.bits <=> 7 - bit \in rsn.bits

(* The first RSN element makes one of three protections of a network; where  *)
(* the bits that are read stand as those that should be, WPA3 is told of     *)
(* just the networks that the comment asks it to be, and the transition mode *)
(* of all of them, besides of networks with one of its two suites (line 176).*)
(* Wherever the bits stand, WPA3 is not told of a network with a PSK, with a *)
(* weak cipher or without SAE, nor the transition mode of one with neither   *)
(* suite.  A network is only called open when it says nothing of privacy.    *)
SecurityIsRight ==
  \A s \in Sockets :
    result[s].kind = "packet" /\ Security(result[s].content) # {"AttributeError"} =>
      LET c == result[s].content
          told == Security(c)
          rsn == First(Elements(c), "rsn")
      IN /\ Cardinality(told \cap {"WPA2", "WPA3", "WPA3_TRAN"}) = (IF Has(Elements(c), "rsn") THEN 1 ELSE 0)
         /\ Has(Elements(c), "rsn") /\ ReadsTrue(rsn) =>
              /\ "WPA3" \in told <=> IsWpa3Only(rsn)
              /\ IsWpa3Transition(rsn) => "WPA3_TRAN" \in told
         /\ "WPA3" \in told => /\ "SAE" \in rsn.akms
                               /\ rsn.akms \cap {"PSK", "PSK_SHA256"} = {}
                               /\ rsn.ciphers \cap WeakCiphers = {}
         /\ "WPA3_TRAN" \in told => rsn.akms \cap {"PSK", "SAE"} # {}
         /\ "OPEN" \in told => told = {"OPEN"} /\ (c.kind = "beacon" => ~c.privacy)

(* WPA3 and its transition mode are told of the networks the comment says.   *)
(* The code does not do this: see wifi_protection.cfg.                       *)
CommentIsFollowed ==
  \A s \in Sockets :
    result[s].kind = "packet" /\ Has(Elements(result[s].content), "rsn") =>
      LET rsn == First(Elements(result[s].content), "rsn")
      IN /\ "WPA3" \in Security(result[s].content) <=> IsWpa3Only(rsn)
         /\ "WPA3_TRAN" \in Security(result[s].content) <=> IsWpa3Transition(rsn)
=============================================================================
