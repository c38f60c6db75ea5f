-------------------------- MODULE IsoTpCommunicator --------------------------
(***************************************************************************)
(* IsoTpCommunicator objects that share one CanCommunicatorSocketCan: who  *)
(* opens, uses and closes the bus.  A caller may also enter the CAN        *)
(* communicator in a with statement of its own, and close it without       *)
(* having opened it.                                                       *)
(***************************************************************************)
EXTENDS Naturals, FiniteSets

CONSTANTS
  Stacks,      \* the IsoTpCommunicator objects
  MaxBuses     \* bound: SocketcanBus objects made

ASSUME BusesAssumption == MaxBuses \in Nat

VARIABLES
  canBus,   \* _bus of the CAN communicator: number of a SocketcanBus, 0 for None
  made,     \* SocketcanBus objects made so far
  live,     \* those not shut down
  isOpen,   \* _is_open of each stack
  stackBus, \* the bus the CanStack of each was made on, 0 for no CanStack
  within,   \* a with statement over the CAN communicator is entered
  careless, \* history: a caller closed the CAN communicator under a stack
  outcome   \* what the last operation did

stackVars == <<canBus, made, live, isOpen, stackBus, within, careless, outcome>>

Operations == {"none", "enter", "exit", "closeCan", "open", "close", "use"}

StackInit ==
  /\ canBus = 0
  /\ made = 0
  /\ live = {}
  /\ isOpen = [s \in Stacks |-> FALSE]
  /\ stackBus = [s \in Stacks |-> 0]
  /\ within = FALSE
  /\ careless = FALSE
  /\ outcome = [op |-> "none", did |-> "ok"]

Did(op, what) == outcome' = [op |-> op, did |-> what]

-----------------------------------------------------------------------------
(* CanCommunicatorSocketCan. *)

(* Mutant: an open communicator is opened again. *)
CanOpenAgain ==
  /\ made < MaxBuses
  /\ made' = made + 1
  /\ canBus' = made + 1
  /\ live' = live \cup {made + 1}

CanOpen ==
  /\ canBus = 0
  /\ made < MaxBuses
  /\ made' = made + 1
  /\ canBus' = made + 1
  /\ live' = live \cup {made + 1}

(* Already open, or the interface does not exist: open raises. *)
CanOpenRaises == UNCHANGED <<canBus, made, live>>

(* Mutant: the bus is shut down and kept. *)
CanCloseKeeps ==
  /\ live' = live \ {canBus}
  /\ UNCHANGED <<canBus, made>>

CanClose ==
  /\ live' = live \ {canBus}
  /\ canBus' = 0
  /\ UNCHANGED made

(* with can_communicator: ... *)
Enter ==
  /\ ~within
  /\ \/ CanOpen /\ within' = TRUE /\ Did("enter", "ok")
     \/ CanOpenRaises /\ within' = FALSE /\ Did("enter", "raised")
  /\ UNCHANGED <<isOpen, stackBus, careless>>

Exit ==
  /\ within
  /\ CanClose
  /\ within' = FALSE
  /\ Did("exit", "ok")
  /\ UNCHANGED <<isOpen, stackBus, careless>>

CloseUnder ==
  /\ canBus # 0
  /\ CanClose
  /\ careless' = TRUE
  /\ Did("closeCan", "ok")
  /\ UNCHANGED <<isOpen, stackBus, within>>

-----------------------------------------------------------------------------
(* IsoTpCommunicator. *)

OpenStack(s) ==
  /\ CanOpen
  /\ stackBus' = [stackBus EXCEPT ![s] = canBus']
  /\ isOpen' = [isOpen EXCEPT ![s] = TRUE]
  /\ Did("open", "True")
  /\ UNCHANGED <<within, careless>>

OpenRaises(s) ==
  /\ CanOpenRaises
  /\ Did("open", "raised")
  /\ UNCHANGED <<isOpen, stackBus, within, careless>>

(* The bus is open and the CanStack is not made, or not started. *)
StackRaises(s) ==
  /\ CanOpen
  /\ \/ stackBus' = [stackBus EXCEPT ![s] = canBus']
     \/ UNCHANGED stackBus
  /\ Did("open", "raised")
  /\ UNCHANGED <<isOpen, within, careless>>

(* Mutant: a stack that is not open closes the CAN communicator too. *)
CloseAnyhow(s) ==
  /\ CanClose
  /\ isOpen' = [isOpen EXCEPT ![s] = FALSE]
  /\ Did("close", "True")
  /\ UNCHANGED <<stackBus, within, careless>>

CloseStack(s) ==
  /\ IF isOpen[s] THEN CanClose ELSE UNCHANGED <<canBus, made, live>>
  /\ isOpen' = [isOpen EXCEPT ![s] = FALSE]
  /\ Did("close", "True")
  /\ UNCHANGED <<stackBus, within, careless>>

(* send and recv raise unless the stack is open, and go to its own bus. *)
Use(s) ==
  /\ Did("use", IF ~isOpen[s] THEN "raised"
                 ELSE IF stackBus[s] \in live THEN "ok" ELSE "deadBus")
  /\ UNCHANGED <<canBus, made, live, isOpen, stackBus, within, careless>>

StackNext ==
  \/ Enter \/ Exit \/ CloseUnder
  \/ \E s \in Stacks :
       OpenStack(s) \/ OpenRaises(s) \/ StackRaises(s) \/ CloseStack(s) \/ Use(s)

StackSpec == StackInit /\ [][StackNext]_stackVars

-----------------------------------------------------------------------------
(* Properties. *)

Owners == {s \in Stacks : isOpen[s]}

(* The variables keep their types; a stack that is open was made on a bus.   *)
StackTypeOK ==
  /\ made \in 0..MaxBuses
  /\ canBus \in 0..made /\ live \subseteq 1..made
  /\ canBus # 0 => canBus \in live
  /\ isOpen \in [Stacks -> BOOLEAN] /\ stackBus \in [Stacks -> 0..made]
  /\ \A s \in Owners : stackBus[s] # 0
  /\ within \in BOOLEAN /\ careless \in BOOLEAN
  /\ outcome \in [op : Operations, did : {"ok", "True", "raised", "deadBus"}]

(* A stack that says it is open is the only one, on the bus the communicator *)
(* has now, and no with statement will close that bus under it, as long as   *)
(* no caller closed the communicator under a stack (lines 97-115).           *)
OpenStackOwnsTheBus ==
  ~careless => \A s \in Owners : canBus = stackBus[s] /\ canBus \in live /\ Owners = {s} /\ ~within

(* No SocketCAN socket is left that the communicator can no longer shut      *)
(* down, however opens fail and stacks, with statements and closes mix.      *)
NoBusIsLost == live \subseteq {canBus}

=============================================================================
