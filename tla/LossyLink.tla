------------------------------ MODULE LossyLink ------------------------------
(***************************************************************************)
(* What UdsExchange relies on a communicator for, whatever lies under it:  *)
(* requests go out numbered, and recv returns answers to requests that     *)
(* were made, each at most once and never an older one after a newer one.  *)
(* Requests and answers may be lost.                                       *)
(***************************************************************************)
EXTENDS Naturals, Sequences

VARIABLES
  asked,     \* requests handed to the communicator so far
  answered   \* what each recv returned, in turn: the number of a request, or 0

vars == <<asked, answered>>

Init == asked = 0 /\ answered = <<>>

Send ==
  /\ asked' = asked + 1
  /\ UNCHANGED answered

Recv(n) ==
  /\ \A i \in DOMAIN answered : answered[i] < n
  /\ answered' = Append(answered, n)
  /\ UNCHANGED asked

RecvNothing ==
  /\ answered' = Append(answered, 0)
  /\ UNCHANGED asked

Next == Send \/ RecvNothing \/ \E n \in 1..asked : Recv(n)

Spec == Init /\ [][Next]_vars

=============================================================================
