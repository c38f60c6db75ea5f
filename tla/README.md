# TLA+ model of cyclarity-in-vehicle-sdk

The SDK talks to the electronic control units (ECUs) of a vehicle: diagnostics (UDS) over
ISO-TP/CAN or DoIP/TCP, service discovery (SOME/IP), raw packets, WiFi, consoles of devices,
and plugins that reset, watch and recover an ECU.  This directory holds TLA+ models of the
parts of it where order, time and failure decide what a caller gets, the configurations that
check them with TLC on small instances, and proofs, checked by TLAPS, of what holds for every
value of the constants.

Paths below are relative to `src/cyclarity_in_vehicle_sdk/` unless they start with `src/`.

Contents: 1 the system, 2 the modules, 3 the runs, 4 the proofs, 5 where the code and what is
said of it part, 6 what is not modelled, 7 plan.

## 1. The system

### 1.1 Components, their state and their operations

| Component | State it keeps | Operations |
|---|---|---|
| UDS exchange, `protocol/uds/impl/uds_utils.py:577-627` | none between calls; in a call the attempt, `timeout`, `start`, `raw_response` | one exchange: send, wait, discard, wait longer on ResponsePending, send again |
| UDS sessions, security access, reset, `uds_utils.py:106-177, 271-305` | none; what it changes is in the ECU (session, lock) | `session`, `transit_to_session`, `ecu_reset`, `tester_present`, `security_access` |
| UDS data services, `uds_utils.py:179-269, 307-575` | none | DIDs, routines, DTCs, download (`request_download`, `transfer_data`, `transfer_exit`), `authentication` |
| DoIP communicator, `communication/doip/doip_communicator.py` | the TCP communicator under it | `open`, `close`, `send`, `recv`; makes a lost connection again and activates routing |
| DoIP readers, `protocol/doip/impl/doip_utils.py:114-179, 227-281, 326-348` | a `Parser` for each read | routing activation, diagnostic request and its acknowledgement, diagnostic response |
| DoIP discovery and entity status, `doip_utils.py:58-112, 181-225, 305-324` | none | vehicle identification and entity status over raw sockets |
| DoIP cache of connections, `doip_utils.py:35-56, 283-303` | `_tcp_communicators`, by target and source address | get or make a connection, teardown |
| TCP communicator, `communication/ip/tcp/tcp.py` | `_socket` | `open`, `connect`, `is_open`, `send`, `recv`, `close`, context manager |
| UDP and multicast communicators, `communication/ip/udp/` | one socket; two sockets and a flag | `open`, `close`, `is_open`, `send`, `send_to`, `recv`, `receive_from` |
| Raw sockets, `communication/ip/raw/raw_socket.py`, `ip/base/raw_socket_base.py` | a socket to send by, a socket to receive by, the kernel's capture buffer | `open`, `close`, `send_packet(s)`, `send_receive_packet(s)`, `receive_answers` |
| WiFi communicators, `communication/wlan/` | a socket, the mode and the flags the interface had; what it changes is the interface | `open` and `close` of monitor mode, `receive`, `send`, `switch_channel`; parsing and classification of frames |
| CAN communicator, `communication/can/impl/` | `_bus`, `blacklist_ids` | `open`, `close`, `send`, `send_periodically`, `receive`, `sniff`, blacklist |
| ISO-TP communicator, `communication/isotp/impl/` | `_is_open`, `_canstack`, the address; the CAN communicator is the caller's | `open`, `close`, `send`, `recv`, `set_address` |
| SOME/IP utilities, `protocol/someip/impl/` | none | `find_service`, `subscribe_evtgrp`, `method_invoke` |
| Crash detectors, reset and recovery plugins, `plugin/` | the expected session | `check_crash`, `reset`, `recover` |
| Background plugins and plugin manager, `plugin/base/plugin_base.py`, `plugin/plugin_manager.py` | the thread, its stop event, the notifier; the list of plugins | `start`, `stop`, `add_plugin`, `get_plugin_model` |
| Configuration manager, `configuration_manager/` | the modes turned on for CAN, NDB's copy of the interfaces; what it changes is in the kernel: links, addresses, routes, CAN settings | `configure_actions` and its handlers, getters |
| Serial device shell, `utils/shell_device/impl/serial_device_shell.py` | the port, `_logged_in`, `_last_read` | login, `exec_command`, `teardown` |
| SSH and ADB device shells, `utils/shell_device/impl/` | a connection | the same operations through a library |
| USB device, `utils/usb/usb_device.py` | an ADB interface | open, close, properties |
| Value helpers, `utils/custom_types`, `utils/ip` | none | ranges, IP layers, enums, hex bytes |
| Cryptographic helpers, `utils/crypto`, `communication/wlan/crypto_utils.py` | none | calls into `cryptography` |
| radiotap parser, `external/python_radiotap` | none | third-party, byte layout only |

### 1.2 How they interact

The SDK is synchronous: one thread of the caller runs through the layers by plain calls, and
what runs beside it is the other end of a link, the kernel's buffers and time.  Only the
background plugins and the raw sockets' sniffer start threads of their own.

```
 detectors, reset, recover plugins                  (a call each)
            |
        UdsUtils   sessions, security, data services
            |      _send_and_read_raw_response          <- UdsExchange
            |  send / recv of a communicator            <- LossyLink, what it relies on
     +------+------------------+
 IsoTpCommunicator       DoipCommunicator -- DoipUtils  (readers; raw sockets for discovery)
     |                         |
 CanCommunicatorSocketCan   TcpCommunicator
     |                         |
  SocketCAN                 the kernel's TCP

        SomeipUtils   find_service, subscribe_evtgrp, method_invoke
            |  send / recv, by the caller too
     +------+------------------+
 UdpCommunicator       MulticastCommunicator
```

What is shared between objects is what makes composition hard: several ISO-TP communicators are
given one CAN communicator; WiFi sockets set one interface; the DoIP communicator and its helper share one TCP stream, and split
the reading of it between the call that sends (acknowledgement) and the call that receives
(response); the receive queue of a link outlives the operation that was to read it.

### 1.3 What is hard, and what makes each component correct

* *UDS exchange.*  Answers carry a service identifier and nothing else, the queue of the link is
  never flushed, and three limits of time overlap (deadline of the attempt, timeout of one
  receive, the long timeout of ResponsePending).  Correct: a final answer of the right service,
  one of four exceptions, or what the link raised; no answer used twice or out of order; the answer of another call only
  when some call gave up before; as many transmissions as attempts; a bounded wait; an end.
* *DoIP.*  The acknowledgement and the response are told apart by turn, the stream may deliver
  half a message or two, the connection may be lost anywhere and is made again inside a call.
  Correct: a request reported unsent is never served; a new connection puts requests and answers back in
  step; no diagnostic request before routing activation; every call ends.
* *Sessions, security, plugins.*  A sequence of exchanges with an ECU that restarts, is late or
  garbles an answer, with each failure of a step swallowed or passed on.  Correct: what is
  reported (session reached, access granted, crash or none) is what the ECU went through, but for a crash missed when the link raised.
* *UDS data services.*  Retries of blocks that are not idempotent, two exchanges of an authentication with one service
  identifier, values told from identifiers by searching.  Correct: the image in the ECU is the caller's, what is
  returned is of this call, each value belongs to its identifier.
* *CAN.*  A filter inside a wait inside a sniff.  Correct: bounded time, no frame missed, repeated
  or reordered.
* *ISO-TP.*  Ownership of the shared bus over failing opens and closes.  Correct: no socket is
  lost, an open stack is the only user of the bus.
* *Raw sockets, DoIP discovery and connection cache.*  A capture that starts with the socket, is bounded and
  is never emptied; connections that outlive their use.  Correct: what came in the time of a request is
  returned and a packet is given once; no open connection is out of the cache, teardown closes all of them.
* *SOME/IP and its sockets.*  Sockets that are half open after a failure, replaced by another open, or bound to a port the kernel
  chose; answers told by their place in a message.  Correct: sockets are in a state their operations know; services have the
  end points of their own entry; a subscription is answered for by the servers, an answer is that of the call.
* *WiFi.*  Nine commands to open, any of which may fail, on an interface that others set too; frames from before.  Correct: an
  open that succeeds monitors, close puts back what open found, frames are the interface's own, the security told is what the comment on the classes requires.
* *Configuration.*  Actions of several changes each, any of which may be refused, judged by a database that
  learns late.  Correct: what is reported done is in force and nothing that was never asked for, repeating it changes nothing, no route is left behind.
* *Serial shell.*  A text console, read in pieces that each lose their end, told by patterns that find too much.  Correct: logged in means at a shell, the
  password goes where it is asked for, output comes once and in order, login and commands end.

`PROJECT.json` lists each hazard at the line where it bites, with the properties that would catch
it.

## 2. The modules

| Module | Models | Uses |
|---|---|---|
| `UdsCall` | what one UDS operation promises (abstract) | |
| `UdsExchange` | the exchange loop over a link and an ECU | implements `UdsCall` |
| `UdsExchangeProofs` | its theorems | |
| `LossyLink` | what the exchange relies on a communicator for (abstract) | |
| `DoipLink` | DoIP communicator, readers and TCP communicator over a stream and a gateway | implements `LossyLink` |
| `DoipProofs` | its theorems | |
| `UdsClient` | operations of several exchanges, plugins, over an ECU | |
| `UdsClientProofs` | its theorems | |
| `UdsServices` | download, authentication, identifiers, routines, trouble codes, over an ECU and a caller | |
| `UdsServicesProofs` | its theorems | |
| `CanCommunicator` | `CanCommunicatorSocketCan` on a bus | |
| `IsoTpCommunicator` | several `IsoTpCommunicator`s on one CAN communicator | |
| `CanProofs` | theorems about both | |
| `RawSocket` | raw sockets of layers 2 and 3 with the kernel's capture | |
| `DoipUtils` | a `DoipUtils` object: raw socket, requests over it, cache of connections, activation | extends `RawSocket` |
| `DatagramSockets` | `UdpCommunicator` and `MulticastCommunicator` over a network | |
| `SomeIp` | `SomeipUtils` and its servers | extends `DatagramSockets` |
| `DoipUtilsProofs` | theorems about these four: the requests of DoIP, then the sockets and calls of SOME/IP | |
| `WifiMonitor` | `WiFiRawMonitorSocket` objects on an interface, `WiFiPacket` | |
| `WifiProofs` | its theorems | |
| `ConfigurationManager` | actions on links, addresses, routes and CAN settings of a kernel | |
| `SerialShell` | `SerialDeviceShell` on a console | |
| `ConfigurationProofs` | theorems about both: the configuration manager, then the serial shell | |
| `MC...` | the values the runs give to the constants | one per module above that is run |

`map` in `PROJECT.json` gives the source lines of every definition.  In all modules the other end
(ECU, gateway, kernel, console) is external: it does whatever the code is written to cope with,
within the faults a constant allows.  A definition whose comment begins with *Mutant* is not part
of the specification: it is a variant of the definition below it, the way a bug would change the
code, kept to show that a property notices.

### UdsExchange

`_send_and_read_raw_response`.  `pc` is the place in the two nested loops (`idle`; `send`, the top
of the retry loop; `check`, the test of the deadline; `recv`, inside `data_link_layer.recv`), and
`attempt`, `timeout`, `elapsed`, `raw` are its locals (`elapsed` is `time.time() - start`).
`waited` is the clock of one `recv`.

| Code, `uds_utils.py` | Action |
|---|---|
| an operation builds a request and calls in | `StartCall` |
| `send`, the short-send exception, 588-591 | `Transmit`, `TransmitFails` |
| an exception of `send` or `recv` of the data link, 588, 600 | `LinkRaises` |
| `while True`: deadline, 594-602 | `EnterRecv`, `DeadlinePassed` |
| nothing received, 604-607 | `RecvEmpty` |
| unparsable, 609-612 | `RecvMalformed` |
| another service, 613-616 | `RecvOtherService` |
| ResponsePending, 617-621 | `RecvPending` |
| the answer, 622 | `RecvAnswer` |
| after the loops, 624-627, and `_send_and_read_response` | `EndAttempt`, `EndCall`, `Deliver` |

`toEcu`, `job`, `age`, `pendings`, `toTester` are the link and the ECU.  Each transmission has a
number that its answer carries as a history; the tester's actions never read it.  Time (`Tick`)
passes only while the tester waits or is between calls: computation takes no time against timeouts
of seconds.  `UdsCall` states the promise: at most `Attempts` transmissions and one of six
endings, each with its justification.  Two of them no docstring names: the short send and whatever `send` and `recv` of the data link raise,
an OSError of a reconnection (`doip_communicator.py:98-103`) for one, which the loop passes on.  `KeepsContract` is the refinement.

### DoipLink

`DoipCommunicator.open/close/send/recv`, with `initiate_routing_activation_req`,
`send_uds_request`, `read_uds_response` and `_read_doip`, and `TcpCommunicator` under them.
`sock` is the state of `TcpCommunicator._socket`, `rx` its receive buffer, `net` and `toPeer` the two
directions of the network, `granted` whether the gateway has activated routing.  A message is sent as one or two pieces,
and a `recv` returns what the buffer holds, so that messages are split and coalesced as on a
stream.  `stage`, `parser` and `data` are the reader at work; its `Parser` ends with it, as in the
code, which is why bytes it holds are lost.  `written` is what `send` will report; `unsent` and `served` are histories of what it reported and of what
the gateway passed on to the ECU, `unactivated` says that a call on this connection has returned because its activation failed.  `LossyLink` is what `UdsExchange` asks of any link:
numbered requests go out, and each `recv` returns an answer, at most once and in order, or nothing.  `IsLossyLink` shows that
the communicator is one; that is how the two modules compose.

### UdsClient

One action per exchange of each operation: `session`, `transit_to_session` with the elevation in
mid-route, `security_access` (seed, then key), `ecu_reset`, `tester_present`, and the plugins
`SessionChangeCrashDetector`, `UnrespondedTesterPresentCrashDetector`, `UdsBasedEcuResetPlugin`,
`UdsEcuRecoverPlugin`.  `pc` is the request whose answer is awaited.  The exchange itself is
`UdsExchange`'s with one attempt: the answer taken is the oldest one in the queue with the right
service, none comes, or the link raises (`LinkFails`, then `LinkRaises`, when the request may already be on its way, or lost with all that was on
the connection); the detectors' `except Exception` makes that a False.  `Decimal` is what `int()` makes of the digits of a session, any function.  Several attempts would add repeated requests, whose effect on the result
`UdsExchange` covers.  The ECU has a session, a lock and a seed, and restarts into its default
session.

### UdsServices

The caller does one `job` in a behaviour: flash an image, authenticate, access data, read identifiers.  `op` is the
operation under way, `tries` its transmissions so far; as in `UdsClient` the exchange is that of `UdsExchange`, here with
its repetitions (`SendAgain`), because what is repeated is not idempotent.  `TakeAnswer` takes the oldest answer of the
service, whichever request it is to, and `...Answered` are the checks each operation makes of it.  `plan` is the caller's
view of a download: granted, and the next block; the block counter is the number of the block modulo `Wrap`, 256 in the
protocol.  The ECU keeps an image, an authentication with its challenge, a value for each identifier.  `_split_dids` is an
operator: `SplitDids` is what it computes from a list of identifiers and the bytes of an answer.  `late`
and `staleFlash` are histories of what was on its way when a call began.

### CanCommunicator, IsoTpCommunicator

`CanCommunicator` counts ticks in a call: `limit` is the caller's timeout, `wait` the one `receive`
gives to the bus, `waited` the wait under way.  Frames carry their number and arrival time for the
properties only.  `IsoTpCommunicator` follows the CAN communicator through `SocketcanBus` objects
that are numbered; `live` are those not shut down, so that a lost one can be told.

### RawSocket, DoipUtils

`RawSocket` has a capture (`capture`) that the kernel fills from the opening of the socket on up to
`Capacity` packets, whether a request is under way or not.  A request (`Ask`, or `AskUnsent` when the send failed,
which nobody looks at) starts a sniff that reads the capture packet by packet (`Search`): layer 2 ends at the first
answer if one is wanted (`FindFirst`), layer 3 when the capture is empty and the time is over (`SniffEnds`).  What is
an answer is told by message type and port alone, so that packets carry the request they are for as a history.
`DoipUtils` composes it, on layer 3, with the cache: `cache` in order of insertion, `conns` every connection ever
made, so that one that is lost can be told.  `UseCached`, `MakeNew` and `MakeNewRaises` are `_get_tcp_communicator`;
`SendActivation` to `ReadNothing` the activation over what it returned; `TeardownRaises` a `shutdown` of a socket that
was reset meanwhile.  A message on a connection is whole here: how it is read is in `DoipLink`.

### DatagramSockets, SomeIp

`udp` is what `_socket` of a `UdpCommunicator` is: none, bound, not bound (the `bind` of `open` raised, after the assignment),
with a port of the kernel's choice (it was sent from unbound), or closed and still there.  `group` is the two sockets of the
`MulticastCommunicator` and its flag.  Every operation ends in `got`, which names what was returned or raised.  A datagram is on its way
to a port, which may be gone when it arrives; it may never arrive, or later than others.  A `receive_from` on a socket
that was not made non-blocking blocks (`waits`).
`SomeIp` composes them: `FindOverUdp` or `FindOverGroup` and one `FindReceives` for each turn of the loop are `find_service`,
`Subscribe`, `SubscribeReceives`, `InitialReceives` are `subscribe_evtgrp`, `Invoke`, `InvokeReceives` are `method_invoke`;
`DirectUse` is an operation of a communicator by the caller between two of them, or in place of one.  `Indices`, `Endpoints`
and `Found` are the parser of offers; an offer's minor version is read as an event group
(`IsVerdictOn`), as in the code, so an offer may answer a subscription.  The servers answer, or not, and send offers and events when they please.

### WifiMonitor

`pc` is the command of `open` or `close` that is next, one action per command, each of which may fail
(`Refused`; in `close`, where nobody looks, `Restore`).  `iface` is the kernel's: up or not, and the mode, which cannot be set
while the interface is up.  `saved` is `_original_mode` and `_original_flags`, which outlive a close.  `queue` is what a socket captured, of every
interface until it is bound.  `Others` is whoever else sets the interface, another object among them.  A frame handed to the
caller has a content, and `Security` is what `WiFiPacket.security` makes of it, from the elements that were read
(`Parsed`, `First`) and the two bits of the capabilities it looks at, bits 1 and 0 where 6 and 7 are meant.  `IsWpa3Only` and
`IsWpa3Transition` are the comment's own terms.  The histories `before`, `alone`, `muddled` say
when `close` can be held to what `open` found.

### ConfigurationManager

One action per way in which a handler of `configure_actions` may end: carried out, skipped, raised at each of its
changes.  The kernel is `links`, `ups`, `addrs`, `routes`, `can`; the manager has `known`, the interfaces
NDB knows (behind the kernel for a VLAN, made over IPRoute, until `NdbLearns`), and `options`, the CAN modes that
stay on; the histories `wanted` and `strays` are the modes asked of this manager so far and the routes that a removal does not ask
for (told by the action alone, `Unnamed`) or whose address was refused.  A list is any sequence of actions: an exception ends a list, and the next list goes on with what
is in force.  `NewManager` is a new object on the same kernel.

### SerialShell

`_login` with its counters of empty and unknown reads, `_validate_login`, `_login_with_password`,
`exec_command` and the loop that reads its output, `teardown`.  `pc` is the read, or the line, that
is next.  The console's output is a sequence of pieces: the words the code searches for, and the single characters its
patterns and its cut are about.  A read takes any prefix of what was written (at most `MaxSlow` reads take less than all), or raises
(`Raise`), and loses its last character (`ButLast`): a piece of one character is gone, a longer one is no longer the word it was.  The marker that
ends a command is two pieces, so that a read may end inside it.  `IsCommandPrompt` is the pattern of the code on these pieces: `$` or `#`
at the end, `>` anywhere in the last line, so that a banner before the login prompt may be taken for a prompt (`fooled`).  `torn` is the history of a read of the command's output that ended in
its marker or right behind it.  The device may also be silent.

## 3. The runs

All runs are exhaustive for their constants.

| Run | Instance | Shows |
|---|---|---|
| `uds_faults` | 2 services, 2 attempts, timeouts of 1 and 2 ticks, an ECU as slow as 2 ticks, 2 calls, 1 ResponsePending per request, every fault but unsolicited answers | `TypeOK`, `AnswerIsFinal`, `AnswersInOrder`, `StaleOnlyAfterGivingUp`, `WaitBounded`, `KeepsContract` |
| `uds_conformant` | an ECU that keeps its timing, 3 calls, 2 ResponsePending per request, 2 unsolicited answers, no loss | `ConformantEcuIsAnswered` |
| `doip_faults` | 3 calls after the first open, split, coalesced, late, refused and unsolicited messages, lost connections | `LinkInv` (types, activation first), `UnsentIsNeverServed`, `InStep`, `EveryCallEnds`, `IsLossyLink` |
| `client_faults` | 4 sessions, a route of 2 with an elevation, 4 operations, 1 crash, late and malformed answers, exceptions of the link, wrong keys | `ClientInv` (types, `RouteIsWalked`, `SecurityAccessIsRight`), `DetectorsAreRight` |
| `can_receive` | 2 identifiers, timeouts of 2 and 3 ticks, 4 frames, 3 calls | `ReceiverInv` (types, `FramesOnceInOrder`), `EndsInTime`, `NothingIsMissed` |
| `isotp_faults` | 2 stacks, a `with` statement, 4 sockets | `StackTypeOK`, `NoBusIsLost`, `OpenStackOwnsTheBus` |
| `shell_session` | 2 kinds of output, 2 banners, 2 tries, counters of 1, 2 early reads, 2 commands, reads and lines that raise, a silent device | `SessionInv` (types, `LoggedInMeansShell`, `OnlyBannersFool`, `PasswordOnlyWhereAsked`), `OutputOnceInOrder`, `OperationsEnd` |
| `doip_utils` | both layers, 2 kinds of request, 2 entities that answer, a capture of 2 packets, 2 operations, 3 connections, 1 of them closed or reset by its gateway | `ConnectionsInv` (types, `NoConnectionIsLost`, `TeardownClosesAll`), `AnswersAreTimely` (`InTimeIsReturned`, `StaleOnlyWhenLate`, `PacketsOnceInOrder`), `ActivationIsOwn` |
| `conf_actions` | an Ethernet interface, a VLAN, 2 CAN interfaces of which one has no modes, an address with 2 prefixes, a gateway, 3 actions, 2 refusals | `KernelInv` (types, `NoRouteIsOrphaned`), `DoneIsInForce`, `RepeatChangesNothing` |
| `uds_services` | one of 4 jobs, 2 attempts, 3 blocks and a counter modulo 3, 3 authentication tasks, 2 accesses, a read of up to 3 identifiers, a slow lossy link, an ECU that refuses and restarts once | `TransferInv` (types, `ImageIsWhole`), `AnswersAreOwn` (`AuthenticationIsRight`, `DataIsOwn`), `SplitIsRight` |
| `someip_calls` | 2 services, groups and methods, 5 offers whose entries refer to options in every way the parser tells apart, overlapping runs and the option after the last included, 2 calls, 3 operations on the communicators, queues of 2 | `SocketsInv` (types, `GroupIsWhole`, `QueuesAreOwned`, `OnlyAFailedOpenBlocks`), `FindTellsTheOffers`, `SubscriptionIsAnswered`, `InvokeIsOwn` |
| `wifi_monitor` | 1 object, 3 opens, 2 commands that fail, 2 changes by others, 2 frames, 18 contents | `MonitorInv` (types, `OpenIsMonitoring`), `CloseRestores`, `FramesAreOwn`, `SecurityIsRight` |

Why the bounds are enough.

* `uds_faults`: a stale answer needs an earlier transmission that was given up and a later call
  that meets its answer.  With 2 attempts, 2 calls give up to 4 transmissions, of which 3 may be stale;
  the ECU may be slower than both timeouts, so that each answer can meet every later
  wait.  Unsolicited answers (`noise`) are left to `uds_conformant`, the other faults to this run; the theorems of section 4 are about any set of them together.  Two services let an answer be of the same service or of another.
* `uds_conformant`: `EcuP2 < OpTimeout` and `EcuP2Star < PendTimeout`, the premise of `Conformant`.
  The ECU uses its full time; three calls, so that a call follows one prolonged by
  ResponsePending.
* `doip_faults`: out of step needs a request whose answer is left over, the request after it and
  a receive: three calls.  A reconnection takes place inside any of them, and its activation may fail.
* `client_faults`: an operation, a late answer or a crash, an operation of the same service after
  it; a fourth for the crash between two.  The route has the elevation before its last session.
* `can_receive`: two frames of each kind; both loops of `sniff` turn at least twice.
* `isotp_faults`: an error of ownership takes two stacks, or a stack and a `with`; four sockets allow
  each to be opened twice.
* `shell_session`: `EmptyReads` and `OddReads` are 5 in the code; the loop that counts them
  is the same for smaller limits, and both limits are reached.  One banner has what the pattern of the prompt looks for, the other is empty; two early
  reads let one stop inside a marker and another before it.  A retry
  that meets the answer to the try before needs 2 tries.
* `doip_utils`: an answer that is taken by a later request needs two requests and two entities; a full capture,
  two packets and a third that is dropped; a lost connection, one of a pair, a replacement and one of another pair.
* `conf_actions`: each property relates two actions (the one that leaves something behind and the one that meets
  it) and, for a VLAN or a second CAN interface, one before.  Two refusals let a change and what follows it fail.
* `uds_services`: a stale acknowledgement needs a block sent twice and the one after it, or a download that is given up
  and another: six calls; with a counter modulo 3 the third block wraps it.  Longer instances (four blocks, seven calls)
  were checked too and show nothing else.  Three tasks let the answer to the first meet the third.
* `someip_calls`: an answer that is taken by another call needs two calls; an end point is opened, closed and opened again by three
  operations, or one of each kind of communicator fails to open and is used.  In a behaviour the caller either looks for services or
  uses the one it knows: the two share no message but through the sockets.
* `wifi_monitor`: what an open leaves for the next needs two opens and a failure, and a third shows that it does not go on; an object that
  others on the interface disturb needs one change by them before and one after.  Two objects differ from one and others
  only in that the changes of the second are those of an object, of which the others make every one; the theorems are about any number.

Fairness.  In `UdsExchange` the tester's thread runs (`WF(TesterStep)`), the ECU acts
within its limits (`WF(EcuStep)`; without it time would stand still, since time does not pass the
limit of an ECU that is due) and time passes (`WF(Tick)`).  In `DoipLink` the tester's thread runs (each
`recv` has a timeout), what is on its way arrives and the gateway serves its requests.  In `SerialShell` it is that of the caller's thread (`FairSpec`); a
read always returns, after its timeout with nothing.  No fairness is assumed of losses, crashes,
or arrivals.  The liveness in `KeepsContract` would fail if the ECU could answer ResponsePending for
ever: `MaxPendings` bounds that, and the code itself does not.  `OperationsEnd` excludes what
the code does not end: a login on a silent device, and a command of which a read ended in the marker or right behind it (`torn`).

`UdsServices`, `SomeIp` and `WifiMonitor` are checked for safety only: what they wait for ends by the
timeout of a receive, or, for a `receive` of WiFi and a `receive_from` after a failed open, not at all.

Deadlock is checked except in `can_receive` where a receive without a timeout
on a silent bus does block for ever, in `shell_session`, where a session may just end, and in
`conf_actions`, where no more actions may come.

## 4. The proofs

| Theorem | States, for every value of the constants |
|---|---|
| `UdsExchangeProofs!TypeCorrect` | `Spec => []TypeOK` |
| `WaitIsBounded` | `Spec => []WaitBounded` |
| `AnswersAreFinal` | `Spec => []AnswerIsFinal` |
| `AnswersStayInOrder` | `Spec => []AnswersInOrder` |
| `StaleAnswersHaveACause` | `Spec => []StaleOnlyAfterGivingUp` |
| `ConformantEcusAreAnswered` | `Spec => []ConformantEcuIsAnswered` |
| `ExchangeImplementsCall` | `Spec => Contract!Safety`, the safety part of `KeepsContract` |
| `DoipProofs!ActivationIsFirst` | `Spec => []LinkInv` |
| `UnsentRequestsAreNotServed` | `Spec => []UnsentIsNeverServed` |
| `CommunicatorIsALossyLink` | `Spec => IsLossyLink`, the refinement of `LossyLink` |
| `RequestsAndResponsesAreInStep` | `Spec => []InStep` |
| `CanProofs!FramesAreKeptInOrder` | `Spec => []ReceiverInv` |
| `CallsEndInTime` | `Spec => []EndsInTime` |
| `NoFrameIsMissed` | `Spec => NothingIsMissed`, an action property |
| `StackTypesAreKept` | `StackSpec => []StackTypeOK` |
| `BusesAreNotLost` | `StackSpec => []NoBusIsLost` |
| `OpenStacksOwnTheBus` | `StackSpec => []OpenStackOwnsTheBus` |
| `WifiProofs!TypesAreKept` | `Spec => []TypeOK` |
| `OpenedIsMonitoring` | `Spec => []MonitorInv` |
| `CloseRestoresTheInterface` | `Spec => []CloseRestores` |
| `FramesStayOwn` | `Spec => []FramesAreOwn` |
| `SecurityIsOfTheFrame` | `Spec => []SecurityIsRight` |
| `ConfigurationProofs!KernelIsConsistent` | `Spec => []KernelInv` |
| `DoneStaysInForce` | `Spec => []DoneIsInForce` |
| `RepetitionChangesNothing` | `Spec => RepeatChangesNothing`, an action property |
| `SessionsAreShells` | `ShellSpec => []SessionInv` |
| `OutputIsNeverRepeated` | `ShellSpec => []OutputOnceInOrder` |
| `DoipUtilsProofs!ConnectionsAreKept` | `Spec => []ConnectionsInv` |
| `RequestsAreAnswered` | `Spec => []AnswersAreTimely` |
| `ActivationsAreOwn` | `Spec => []ActivationIsOwn` |
| `SocketsAreKnown` | `SomeIpSpec => []SocketsInv` |
| `SubscriptionsAreAnswered` | `SomeIpSpec => []SubscriptionIsAnswered` |
| `InvocationsAreOwn` | `SomeIpSpec => []InvokeIsOwn` |
| `UdsClientProofs!CallsDoWhatTheySay` | `Spec => []ClientInv` |
| `DetectorsTellCrashes` | `Spec => []DetectorsAreRight` |
| `UdsServicesProofs!TransfersAreWhole` | `Spec => []TransferInv` |
| `AnswersAreOfTheCall` | `Spec => []AnswersAreOwn` |

*Assumptions.*  Those the modules state of their constants: at least one attempt, a positive operation timeout, a pending
timeout not below it (60 s against a default of 2 s in the code), the
number that stands for an unsolicited answer is no service, the block counter has more than two values (256 in the code), a WiFi frame is of one of the four kinds of body `WiFiPacket` tells apart, a route of
`transit_to_session` has a session, the output and the banners of a console are sequences of the pieces the patterns tell apart.  Nothing is assumed of the number of
services, calls, attempts, stacks, WiFi objects, of time, of which faults occur, of what an offer names, or of what `int()` makes of the digits of a
session: the detectors are right about sessions that *look like* another one (`LooksElsewhere`), and which ones do is told in section 5.

*Argument for the exchange.*  None of the properties is inductive alone; five invariants carry them.

* `IInv`: `TypeOK`, and `AttemptInv`, which ties `attempt` to `pc` (below `Attempts` at `send`,
  positive in the receive loop).  Without it the retry could leave the range of `attempt`.
* `LoopInv`: `RawInv`, that `raw_response` is empty whenever the deadline is looked at, unless the
  clock was just set (after a ResponsePending); and `TimeInv`, that a wait is begun before the
  deadline.  `WaitBounded` follows from the second; `AnswerIsFinal` from the first: a deadline
  cannot pass at the moment the clock was set, so the loop is never left with a ResponsePending
  for `_send_and_read_raw_response` to return (line 627).
* `OrderInv`: transmissions pass through `toEcu`, `job`, `toTester` and `log` without
  overtaking (`EcuOrder`, `QueueOrder`, `UsedOrder`): an answer once used is older than all that
  is still on its way.  `AnswersInOrder` is its consequence for `log`.
* `CallInv`: transmissions belong to calls in the order made.  With `OrderInv`: when all earlier
  calls were clean, each used up the answer to its only transmission, so that all that is left on the way belongs
  to the current call.
* `ConformantInv`, where the ECU is in time and nothing is lost: between calls nothing but noise is left (`Settled`); within
  one its only transmission is on its way, worked on, or answered by the last answer in the queue that is not noise (`OnItsWay`, `WorkedOn`,
  `Answering`).  Both clocks stay below the timeout: time passes only in an empty `recv`, hence while the ECU works and after all of its
  ResponsePending have been read, and then neither clock is ahead of the ECU's (`elapsed <= age`) and the timeout is the one that belongs to what the ECU has
  left.  So neither the deadline nor an empty `recv` ever ends an attempt (`NeverGivesUp`).

Each is shown to hold initially and to be kept by every action, with one step per action; lemmas
(`LogSteps`, `FlightSteps`, `SentSteps`) first reduce the actions to the few ways in which they touch the
variables concerned.  The refinement maps each step to a step of `UdsCall` or to a stutter.

*Argument for `UdsClient`.*  Between two exchanges of an operation anything may be on the line, from operations that gave up.  `RouteInv` and `SecurityInv`
therefore speak of the line from its end: while nothing is late, the request of the exchange under way is the last request and no other request or answer
of its service is there (`Asking`), or it was served and its answer is the last one (`Served`).  `EcuReplies` says what the ECU does with any request,
told by the answer it gives, so that one step of the ECU covers all services.  With them, `RouteInv`: the ECU is in the session of the last step of the
route that was answered, which the elevation in between does not change; `SecurityInv`: while a key is awaited it is all that is asked and the ECU is
locked, or its answer tells the lock.  The detectors need `SeenInv` (the histories follow the ECU), `DeafInv` (an ECU that was never up has answered
nothing), `AwakeInv` (one that was always up answers what it is asked, with the session it is in) and `FailedInv` (once the link has raised no crash is reported).

*Argument for DoIP.*  `LinkIInv`: all that can still become an answer (requests in `toPeer`, the
one in `working`, responses in `net`, `rx`, `data` and `parser`) is about a request of the current connection (`Flight`),
since a new connection forgets the rest; until routing is activated, or the call that failed to has told so, the connection is silent and
carries no diagnostic request (`Activation`); and a request reported unsent, or about to be, is nowhere on its way and was not served (`SendInv`).  The refinement needs `OrderIInv` besides.  `Ordered`: read from the Parser
to the network, responses are about later and later requests, but for the two halves of one.  `RequestOrder`: they are about requests before the one
the gateway works on, and that one is before those on their way.  `AnswerOrder`: what `recv` has returned is older than all
that is still to come, the rest of a message apart, which alone is never returned (`Unused`).  `FlightSteps` reduces
all actions to eight ways to touch what is in flight.  An answer is then a step `Recv` of `LossyLink`, an empty
`recv` a `RecvNothing`, a request a `Send`; every other step stutters.
`InStep` needs to know what is in flight exactly, as long as nothing on the connection went out of turn (`Conversation`): during the activation its request or
its answer and nothing else (`Activating`); while an acknowledgement is awaited the request, or the acknowledgement at the head of what comes with at
most the response behind it (`Acknowledging`); at any other time either the response to the last request, in the gateway or on its way (`Owed`, `Promised`), or
nothing at all (`Between`).  `Halved` says that the second half of a message has its first still before it or in the Parser, so that the
Parser never joins the stream in mid-message.  With the order above, a reader that ends leaves nothing behind it (`ResponseIsRead`).  `InTurn`
is about the current connection alone, which is why a reconnection needs nothing of what was before.

*Argument for CAN.*  `CanInv`: the numbers of the frames handed out, then those a sniff holds, then those in the
queue are increasing (`Order`, over the sequence `Given`); and while a call waits, what is in the queue came just now (`QueueIsFresh`), which is why
nothing that came in time is left behind.

*Argument for ISO-TP.*  `OwnerInv` adds to the property that a `with` statement that is entered
has an open bus; without it an open could succeed inside the `with`.

*Argument for WiFi.*  The properties speak of the moment an operation has ended; the invariants say, by object and by
command of `open` and `close`, what holds between.  `Monitoring`: the interface is up when `open` comes to verify it, and in monitor mode from
then on.  `Restoring`: what `open` found (`before`) is at every step either still the setting of the interface or in
the attributes (`Known`), and each command of `close` puts back its part.  `InOrder` and `FramesOfThisOpen`: what is queued comes after all that was
handed out, nothing is handed out before `open` has ended, and what is queued on a bound, flushed socket came after it was
bound.  Of another object's step it is enough that it leaves the object's own variables alone, and
that it ends `alone` when it sets the interface (`Bystander`).  So the theorems hold for any number of objects on the interface, while the run
has one.
`RsnIsClassified` and `FramesAreClassified` say of any content what `security` returns, with the bits that are read in the place of those meant only where they agree (`BitsReadTrue`), so that only `Returned` is left to be invariant: what was returned
as a packet is the content of a frame.

*Argument for the configuration manager.*  The types and `NoRouteIsOrphaned` (`ConfInv`) are inductive: every route is to an address that
is there or to a destination whose address was refused, or removed by an action that does not ask for the route (`strays`).  The modes of a controller are bounded by those asked of the
manager because its `options`, which it keeps over all interfaces, are (`CanTypes`).  That a repetition changes nothing needs
`ModesAgree`: after a CAN action the modes of the controller are the `options` the manager keeps, which is what it will ask for the second
time.  There is one lemma per handler (`AddKept`, `RemoveKept`, `EthKept`, ...), which gives for all the ways in which the
handler may end both the invariant and the action property.

*Argument for `RawSocket` and `DoipUtils`.*  `RawInv`: packets keep their order from the capture over `found_packets` to the result (`RawOrder`);
an answer that came in the time of the request under way is among those found, or is still captured (`NoneIsSkipped`); and one that came in the time of a request that
is over was left by a request for one answer on layer 2 (`Pending`), since the sniff of layer 3 ends with an empty capture.  `ConnInv`: what is
on a connection, in the stream and then on the way to the gateway, are requests over it in order, none of which has had its own answer (`Flow`).  When
the last activation reads another request's answer, that request was given up, or was itself given an older one, and then `ActivationIsOwn` for it
names the one that gave up.  The two halves share no variable; `teardown` alone changes both.

*Argument for SOME/IP.*  `Coming` is what a communicator may still be handed: what is on its way to it and what its socket has queued.  Each action on
the sockets either makes it smaller or adds what it sends (`TakeEffect`, `DropEffect`, `ArriveEffect`, `SentEffect`), and that is all the calls need to know
of the network.  `SocketsIInv` is the types with `SocketsInv`, and that no call runs while a `receive_from` blocks.  `UnderWay`: whatever may be taken for the answer to a
subscription that waits is what the servers said to it, or an offer (`AnswersIt`); a call that waits for the end point has only events of its group to come, or the answers of its method
(`EpAnswers`).  Each of these holds unless something else was to come when the call began, which is what `strays` records; servers that notify or answer keep it,
because the only subscription there is (`EpAnswers`) is the one asked for.

*Argument for the serial shell.*  What login decides, it reads: while a prompt of the shell is still to be read (`Prompted`) the console is at that
shell, so that no read, however late or cut, can make login return elsewhere (`Console`), unless the pattern was fooled, which takes one of its characters out of a banner
(`Fooling`).  A read that lost its last character has at most the words of the stream (`ButLast`), so that a prompt is never made up.  On a silent device login never leaves its loop (`Silence`).  While no read was slow
the stream is the console's answer to the last line typed (`AnswersAreRead`), of which the tests of login (`IsPasswordPrompt` and the others) tell the
state of the console; a slow read ends that, and the property with it.  `Numbered`: the stream is the end of what was written and all that commands
returned is before it.  `TypedAt` reduces a line typed, in any state of the console, to what it makes it write and where it leaves it.

*Argument for the data services.*  `BlocksInOrder`: the blocks on their way, answers before requests, are the one to transfer next and the one
before it, in order, since the caller goes on only when a block is acknowledged.  The ECU has written one of these two last (`EcuFollows`), so its counter and that
of a block it serves are at most two numbers apart; `CountersDiffer` says that a counter of three values tells those apart, which is why it may wrap.  An acknowledgement
of the next block then means that it is written.  Two more parts are needed at the start: a grant after which no block was answered finds the image empty
(`GrantIsFresh`), and a repeated request for the download that is still on its way is ahead of all blocks (`DownloadIsAhead`), or it would erase them.
`TaskIsLast`: what undoes the task of this call was asked before it, so that the ECU does it last.  `DataInv`: each request on
its way that could be taken for this call's is this call's, and each positive answer that could be is backed by what the ECU stores.  `EcuAnswers` reduces
the ECU to what a request does, told by its answer, and `AnswerEnds` the handlers of answers to a new request or an end; all steps by which
lines only get shorter are one lemma each (`LossKeepsImage`, `LossKeepsTask`, `LossKeepsOwn`).

*Only model-checked*: liveness (the fairness part of `KeepsContract`, `EveryCallEnds` of `DoipLink`,
`OperationsEnd`), which is out of the prover's reach, and two properties of what a function computes from a list of any length:
`SplitIsRight` of `UdsServices`, a fold over the identifiers, and `FindTellsTheOffers` of `SomeIp`, which sorts and filters the options of an offer.
Both would take an induction over the data.
## 5. Where the code and what is said of it part

Six docstrings, comments and sentences of the SDK's README are stated as properties that TLC finds violated.  They are not among the runs of
section 3; `tlc -config <name>.cfg <module>.tla` gives the counterexample.

| cfg, module | Property | What happens |
|---|---|---|
| `doip_coalesced`, `MCDoipLink` | `ReceivedResponseIsReturned`, of `doip_utils.py:268` "UDS response in bytes if received a valid response" | acknowledgement and response in one segment: the reader of the first drops the second with its `Parser` (:254, :338-341) |
| `client_echo`, `MCUdsClient` | `TransitTellsTheTruth`, of `uds_utils.py:137` "True if succeeded to transit to the session" | the echo is only warned about (:142-143): a late answer to an earlier session request makes `transit_to_session` return True |
| `conf_modes`, `MCConfigurationManager` | `ModesAreAsAsked`, of `models.py:102-103` "cc-len8-dlc flag value", "Set interface to support CAN-FD" | modes that one CAN action turned on stay on for every later one of the same manager (`configuration_manager.py:202-205`), other interfaces included; a controller without them then refuses its settings, which is only logged |
| `someip_refused`, `MCSomeIp` | `RefusalsAreNone`, of `someip_utils.py:167-168` "if found. None otherwise" | the first entry of an answer is looked at and not its type (:183-193): a refusal is taken for "found" |
| `wifi_protection`, `MCWifiMonitor` | `CommentIsFollowed`, of `wlan_communicator.py:136-150` | `rsn_capabilities` (`mac_parsing.py:390`) is not swapped as the other bit structures are (:209, :692): MFPR and MFPC are read from bits 1 and 0, where they are bits 6 and 7, so that a WPA3 access point is told as WPA2; and one of PSK and SAE is enough for the transition mode (:176), which the comment gives to both |
| `client_recover`, `MCUdsClient` | `RecoverRestoresElevation`, of `src/README.md:45` "back to predefined UDS state - session and elevation" | `recover` (`uds_ecu_recover.py:21-32`) elevates before it changes the session, and returns True with the ECU locked |

Seen while modelling, stated by a property's bound or by a comment, without a run of their own:

* `receive` of the CAN communicator without a timeout returns None at a blacklisted frame
  (`can_communicator_socketcan.py:81-85`), although `None means indefinably` (:72).
* `open` of the ISO-TP communicator may raise after it opened the CAN communicator (`isotp_communicator.py:97-100`);
  its `close` then returns True and leaves it open.
* `receive_answer(s)` and `send_receive_packets` of layer 3 without a packet raise, since `send_packet` looks into the layers
  of None (`raw_socket.py:227-260`), although :268 says that None skips sending.
* `_configure_ip` looks for the address without its prefix (`configuration_manager.py:131`), and `_remove_ip` removes the route and
  then raises when the prefix differs (:155-170).
* A UDS operation may end in what `send` and `recv` of the data link raise (`uds_utils.py:588, 600`; `doip_communicator.py:98-103` raises OSError when
  a reconnection is refused), which none of the docstrings of `uds_utils_base.py` names.
* A `send` of DoIP that returns the length of the request says that the socket took it, acknowledged or not (`doip_utils.py:253-257`); `UnsentIsNeverServed` is
  about the sends that return 0.
* A UDS operation may wait almost twice its timeout: the deadline (`uds_utils.py:600`) is tested before a
  `recv` that takes the whole timeout again.  `uds_utils_base.py:77` and the like call it the timeout of
  the operation.  `WaitBounded` is the bound that does hold.
* `SessionChangeCrashDetector` reads hexadecimal digits as decimal (`session_change_detector.py:16`):
  from 0x0A on a session may look like another one, and 0x10 like the 16 that was expected.  `SessionChangeDetects` says what the detector then reports
  (`Decimal`, `LooksElsewhere`).
* Both detectors return False, no crash, when the data link raises (`except Exception`, `unresponded_tp_crash_detector.py:20-22`,
  `session_change_detector.py:28-30`), which a dead ECU makes it do as well as stay silent: a short send, a reconnection that is refused.
* `receive` and `sniff` may last up to twice their time when blacklisted traffic arrives
  (`can_communicator_socketcan.py:90` against :72); a timeout of 0 is taken for none (:80).
* `exec_command` without a filter returns the first read only (`serial_device_shell.py:161-170` against
  :140), with a filter it returns the whole block, lines that do not match included (:169 against :132); a marker split
  over two reads, or at the end of one, which loses its last character (:188), is never seen (:171 against :131); on a console that echoes, the echoed marker ends the wait before
  the output.
* The pattern of the shell prompt finds a `>` anywhere in the last line and a `#` or `$` at its end (`serial_device_shell.py:110-115`): a banner
  before the login prompt may be taken for a prompt, and the login for done.  On a silent console login goes round for ever (:290 resets the counter).
* `_split_dids` ends at an identifier it does not find (`uds_utils.py:629-652`): one left out in the middle takes those after it with it, and
  when the first two are left out the second is given the value of the third.  `SplitIsRight` holds for what can be read (`Readable`).
* `open` and `send` of `UdpCommunicator` return None, documented as bool and int (`udp.py:18, 54`); `receive_from` with a timeout raises
  AttributeError for `self.socket` (:104), and one after a failed open waits for ever, because `setblocking` comes after `bind` (:33-35).
* `receive_from` of `MulticastCommunicator` raises RuntimeError, not the TimeoutError it documents, when there is a timeout
  (`multicast.py:235`, :253).
* `subscribe_evtgrp` takes an offer of the service for an answer when its minor version equals the event group, since `event_group_id` is read of
  any entry (`someip_utils.py:187`), and returns None for a subscription
  that was accepted when another datagram comes first.  `find_service` reports the services it was not asked for too.  An index equal to
  the number of options raises IndexError (:129-132).
* `_update_if_flags` loses the flags to set (:434), and `_verify_interface` is content with any of them (:477).
* An `open` after a failed one saves what the failed one left, and `close` restores that; so do two objects on one interface that are not
  closed in the reverse order (`CloseRestores` names both).
* `receive` of WiFi has no use for its timeout; `send` and `send_receive` raise on an open socket (:292, :332); a frame that does not parse, and one of
  another band than 2.4 GHz, raise from `receive`; the flush of `open` has no end on a channel that is never silent for 10 ms.
* A background plugin that is started again after a stop finds its stop event set (`plugin/base/plugin_base.py:51`); the plugin manager asks
  `issubclass` of an object, which raises (`plugin/plugin_manager.py:37, 45`).
* `_configure_vlan` skips as existing a VLAN that was made and not set up (`configuration_manager.py:106`).

## 6. What is not modelled

| Part | Why |
|---|---|
| Background plugins, plugin manager, relay reset | planned: start and stop of a thread, whose work is a plugin's own |
| SOME/IP over TCP end points | the reader of TCP is that of `DoipLink`, without its messages |
| WiFi: `WiFiRawSocket` on its own, `switch_channel`, decryption, the layout of most elements | no state of their own; byte layout |
| SSH, ADB shells, USB | each call runs one command through a library |
| Value helpers | planned as operators with reference definitions |
| Cryptographic helpers, radiotap | data only; third party |

In the modelled components left out are: logging and formatting; exceptions of libraries that no code
path handles; the byte layout of messages, beyond what tells them apart; the
context manager of the TCP communicator, `send` and `send_periodically` of CAN, `set_address` of ISO-TP,
`_read_string_blocked_until_result` of the serial shell, which nothing calls; the getters of the configuration
manager, the MTU, sample point and the flags other than IFF_UP it sets.

## 7. Plan

In this order, the most important behaviour first.

1. `UdsExchange`, `DoipLink`, `UdsClient`, with their abstract specifications (done).
2. `CanCommunicator`, `IsoTpCommunicator`, `SerialShell` (done).
3. `RawSocket`, `DoipUtils` (done).
4. `ConfigurationManager` (done).
5. `UdsServices`: download, authentication and data services (done).
6. `DatagramSockets`, `SomeIp`: two communicators and discovery, subscription and methods over them (done).
7. `WifiMonitor` (done).
8. `PluginRunner`: start and stop of a background thread; it would share the run of `WifiMonitor` or take the place of a smaller one, since
   twelve runs are as many as are checked together in a reasonable time.
9. `Values`: `RangeSet` and `build_ip` against reference definitions.

Theorems: every safety property the runs check is proved, but for `SplitIsRight` and `FindTellsTheOffers` (section 4).  `PluginRunner` would
take a theorem that at most one thread of a plugin runs.
