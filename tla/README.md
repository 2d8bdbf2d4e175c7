# Hiwis: a TLA+ model of the Simonstrator runtime on OMNeT++ and INET

The repository ports the Java runtime of the Simonstrator platform to the
OMNeT++ simulator.  Its own code is
`src/Hiwis/src/de/tudarmstadt/maki/simonstrator` (called `J` below);
`src/Hiwis/src/inet` is the INET framework it runs on (`I` below), and
`src/Hiwis/src/include` the OMNeT++ headers.  The project models the Java runtime,
and of INET the parts where the difficult protocol state is: address resolution
under IPv4, DHCP, and TCP connections.

## The system

| part | state | operations | interacts with |
|---|---|---|---|
| realtime scheduler, `J/util/core/RealtimeScheduler.java` | `Handler`: due second -> list of tasks; one self-message per task in the kernel | `scheduleIn`, `handleMessage` (start message, timeout) | calls the `EventHandler` of a task in the middle of its walk over the map; the handler may call back |
| `Event`, `Time`, `Start` | none of their own (a cached component) | `scheduleImmediately`, `scheduleWithDelay`, `getCurrentTime`; one message at start | scheduler |
| message transport, `J/util/transport/AbstractRealTransport.java` | `currentID`, `openCallbacks`, `listener`, a pool of two threads | `send`, `sendAndWait`, `sendReply`, timeout event, jobs `SerializeAndSend`, `UnserializeAndReceive`, `ReceiveEvent` | scheduler (timeouts, `ReceiveEvent`), firewalls, queue service, piggyback services |
| UDP transport, `J/util/transport/RealTransportUDP.java` | socket, receiver thread, static `MAX_DATAGRAM_SIZE` | sending job, receiver loop, `setMaxDatagramSize` | network, pool |
| transport component and `Binder` | serializers by port, services; the list of global components | constructor, `addSerializer`, `registerService`, `getProtocol` | creates transports |
| network component | bound interfaces | `useAs`, `getByNetId` | transport component |
| `UDPAppC` (C++) | an INET UDP socket | bind, connect; send is empty | INET |
| ARP, `I/networklayer/arp/ARP.cc` | `arpCache`: address -> entry (pending, MAC, retries, age), a request timer per pending entry | `startAddressResolution`, `requestTimedOut`, `processARPPacket`, `getMACAddressFor`, start, stop | tells IPv4 by signals, inside the same event, that a resolution is over |
| IPv4 output, `I/networklayer/ipv4/IPv4.cc` | `pendingPackets`: next hop -> queue | `fragmentAndSend`, `sendDatagramToOutput`, the two signal handlers, start, stop | ARP, link layer |
| DHCP client and server, `I/applications/dhcp` | client: state, lease, four timers, xid, configured address and route; server: table of leases | messages, timers, association, start, stop, crash | interface table, routing table |
| TCP connection, `I/transport/tcp` | sequence numbers, queues, timers, state of the FSM | commands of the application, segments, timers | TCPSocket above, IP below |
| the rest of INET | | | see "What is not modelled" |

What is hard about it.  In the runtime: the scheduler's callbacks run inside the
walk over the map they may change; its wake-ups do not say what they are for;
three kinds of threads share an unsynchronised map; requests, replies, timeouts
and duplicates meet in any order; a failing step leaves the earlier ones done;
everything that is registered statically depends on who came first.  In INET the
events are atomic, and the difficulty is in the protocols: two tables kept by two
modules must agree after any order of packets, timeouts, expiries and crashes; a
timer that is left over in the wrong state ends the simulation; late answers
arrive in another state than the one that asked; several things happen in one
segment.

What makes each part correct is said by the properties of its module, and the
list of hazards in PROJECT.json says at which line each one bites.

## The modules

| module | models | notes |
|---|---|---|
| `RealtimeScheduler` | the scheduler, single simulation thread, one action per step of the walk, and its mapping to `EventQueue` | proved about |
| `EventQueue` | what the scheduler promises of the tasks it calls | abstract |
| `RealtimeSchedulerProofs` | theorems about the scheduler | TLAPS |
| `RealTransport` | hosts with event thread, pool, receiver thread, and the network | proved about |
| `RealTransportProofs` | theorems about the transport | TLAPS |
| `RealTransportComponent` | set-up of the process: Binder, serializers, sockets, datagram size | proved about |
| `RealTransportComponentProofs` | theorems about the set-up | TLAPS |
| `PiggybackCodec` | the datagram, writer and reader | proved about |
| `PiggybackCodecProofs` | theorems about the datagram | TLAPS |
| `ARP` | ARP of every node on a LAN: the part of each event that belongs to it | handlers only |
| `IPv4` | the events: IPv4's sending side composed with `ARP` | proved about |
| `IPv4Proofs` | theorems about `IPv4` over `ARP` | TLAPS |
| `DHCP` | clients and a server over a network | proved about |
| `DHCPProofs` | theorems about DHCP | TLAPS |
| `NumberTheorems` | least numbers, induction over an interval, quotients: for several proofs | TLAPS |
| `TCPConnection` | one end of a connection: what the code computes on its record | operators only |
| `TCP` | two ends, their applications and the network | proved about |
| `TCPProofs` | theorems about `TCP` over `TCPConnection` | TLAPS |
| `MC...` | instances for TLC | |

Operators named `X_Something` in front of an operator `X` are mutants: a
plausible slip in the code of `X`, used to see that a property notices it.

### RealtimeScheduler

`Handler` is a function from seconds to sequences of task numbers; `tasks` and
`log` are histories.  Simulation time is a pair of whole seconds and a fraction,
because the code files and compares by whole seconds while the kernel delivers
messages at exact times.  `handleTimeout` makes the iterator (`todo`), `Fire` and
`Skip` are one `it.next()` each, `Return` is what follows `eventOccurred()`, and
`Abort` the `ConcurrentModificationException` of an iterator whose map has
changed (`modified` stands for `modCount`).  The hash table's order is any order.
While `pc = "callback"`, the handler may call `scheduleIn` any number of times up
to `MaxNested`.  The size of the list is recorded when the callback starts,
since the code branches on it before the call and removes after it.
A null handler passed to `scheduleIn` is allowed, as the code checks for it.

### RealTransport

A message is a record `[src, dst, id, re, origin]`, where `re` (the message it answers,
0 for none) and `origin` (the message its identifier was first given to, at the
beginning of the chain of answers) are history; a callback is named by its request.
`sendReply` has no condition in the code.  What is assumed of the application is that
it answers a message its listener was given, to its sender and under its identifier, but any such
message, as often as it likes: a reply that came after the timeout looks like a
request and may be answered like one.  That answer carries an identifier of the
*receiver's* numbering, and can meet a request of the other host under the same number
as well.  The event thread of
a host runs the application's calls, timers and `ReceiveEvent`s; `Workers` run the
jobs of the executor's queue.  `openCallbacks.remove()` is two steps, lookup and
unlink, on both threads, and operations on one bucket that overlap may undo each
other (`Unlink`, `Put`): the outcomes of the data race.  `raced` notes that this
happened, so that properties can be stated with and without races.  `MaxFaults`
bounds how much may go wrong: a socket that cannot be opened, a datagram lost or
duplicated, a refusal by a firewall, a serializer, `create()` or a piggyback
service failing, the receiver thread ending.  `copied`, `refused` and `uncreated`
are histories of three of them.  "No Handler!" ends the event loop (`halted`).

`ReplyOrCollision` says which messages a callback may receive (`Answers`): an answer to
its request; or one that goes back to a message the other host numbered, a collision;
or, where a data race left the callback in the map after its answer, a
later message of the exchange its request began.  What it excludes is a message that belongs
to another request of the same host.

The scheduler below is assumed to call every event once, at any moment after it
was posted.

### RealTransportComponent

All hosts live in one process: one Binder, one static datagram size, one
space of UDP ports.  `getComponent` hands out the component of a class that was
registered first (`Holder`).  `registered` is history: the serializer an overlay
registered last for a port.  A call that throws changes nothing and is not a step.
`setMaxDatagramSize` may come before, between or after the transports, and each
receiver thread keeps the buffer it was made with.

### PiggybackCodec

Bytes are numbers below `Base`, an int has `WordSize` of them, numbers wrap as they
do in Java.  A serialized message is one byte, and its `create()` fails at the
end of the stream.

### ARP and IPv4

A node has one interface and is its own MAC address; `Routed` are the addresses it
answers for as a proxy.  A broadcast is a packet for every other node, so that each
copy arrives, late or never, on its own.  Simulation time is reduced to what ARP
asks of it: an entry is fresh or older than `cacheTimeout`, a timer may fire
whenever it is scheduled.  An action of `IPv4` is one event of the simulation with
everything the code does in it: a packet that completes a resolution also sends
the queue, since `emit()` calls `arpResolutionCompleted()` at once.  A shutdown or
crash stops both modules in one operation.  Failing ASSERTs, and a self-message
that finds ARP down, set `assertFailed`.

### DHCP

The messages the server tells apart are `Kinds`: three of them are DHCPREQUESTs
(with the server's identifier, without it, with `ciaddr`).  Timers are ordered, not
timed: T1 comes before T2, T2 before the end of the lease.  A transmission takes
an xid that is in no message of the client in the network, since the code draws 32
random bits.  The client keeps its lease over a crash, and the server
loses its table (`forgotten`).  START_DHCP is part of the start, as with
`startTime` 0.

### TCPConnection and TCP

One event of TCP changes many variables and may send several segments and
indications, so that the code is translated into operators from connections to
connections, with the fields `out`, `ind` and `event` for what an event has produced;
`TCP` applies them as actions.  Sequence numbers count segments.  The flavour is
TCPReno with the default parameters; at most two segments are in flight, so that a
window is one or two, where two also stands for more.  Duplicate ACKs are counted in
`dupacks` up to one more than `DupThresh`, since Reno tells the third from the later
ones: `ReceivedDuplicateAck` makes the fast retransmit, which puts `snd_nxt` back,
opens the window and leaves the timer running.  Two segments suffice for it: the ACK of
a segment that overtook another one, its copy, and a FIN without data are three
duplicates.  Limited transmit is off, as by default.  With `IW = 2`
(`increasedIWEnabled`) the first two segments are under way together; with `IW = 1`
the second waits for the ACK of the first, or the connection has been idle when
it is sent.  A timer expires
when nothing is in flight, or earlier as one of the faults.  Sockets do not fork.

`Agreement` says nothing of acknowledgements before the SYN is acknowledged.  There
the two ends need not agree: a passive connection that was reset in SYN_RCVD and then
answered another SYN may be closed, and so be in FIN_WAIT_1, while the peer is still
synchronized with the earlier attempt, whose initial sequence number was
`ISSStep` lower.

## The runs

Passing runs:

| run | bounds | shows |
|---|---|---|
| `scheduler` | 4 tasks (1 of them Start's), 2 calls from callbacks, 4 seconds, 2 fractions, delays 0 and 1, null handlers | `NoOvertaking`, `FiredInItsSecond`, `WakeupsCoverTasks`, `LossOnlyByReentry`, refinement of `EventQueue`; `Settles`: in the end a task is called, or blocked, lost or cut off in one of the three known ways |
| `transport` | 2 hosts, 2 pool threads, 3 messages, no faults, one bucket, symmetry | `OneOutcome`, `ReplyOrCollision`, `HandedUpOnce` |
| `transport_live` | 2 hosts, 1 pool thread, 2 messages, a queue service, one fault of any kind | `NoLeak`, `FirewallHolds`, and `Resolved`: every request ends, but for a race, "No Handler!" and a failed `create()` |
| `setup` | 2 hosts, 2 ports, 3 transports, 2 sizes | `FirstComeFirstServed`, `BuffersFit` |
| `codec` | 4 byte values, words of 2 bytes, up to 4 services, of which the receiver has 3; every prefix of a datagram | `RoundTrip`, `RefusedForCause`, `NoMisdelivery` |
| `arp` | 2 nodes, one of them a proxy, 3 fragments one way, 1 the other, 1 broadcast, 2 requests per resolution, 1 stop, any losses and expiries | `QueueMatchesResolution`, `TimerIffPending`, `InOrder`, `RightNeighbour`, `GivesUpAfterRetries`, `NoneWaitsForever` |
| `dhcp` | 2 clients, 2 addresses, 2 xids, 2 faults (losses, late answers, crashes, associations) | `HeldIsRecorded`, `TimersFitState`, `AckConfirmsLease`, `EventuallyBound`, and by its `TypeOK` that route and address go together |
| `tcp` | one connection, 2 data segments, initial window 2, 1 fault (loss, duplicate, early timer or abort) | `StreamIntegrity`, `FinAfterData`, `Agreement`, `TimerIffOutstanding`, `TimersFitState`, `IndicationOrder` |
| `tcp_live` | the same with 1 data segment and initial window 1 | `DataArrives`, `SetupAndCloseEnd`, both unless an assertion of the code fails and ends the simulation |

Why the bounds are enough for the interesting cases:

- scheduler: three scheduled tasks are a list of two and another second, so that
  heads, tails, a sole task, a second entry and a re-entrant call can all meet;
- transport: three messages are a request, its reply and a stranger with the same
  number, or a request, its late reply and the answer to that; two, in the run with a
  fault, are a request and its reply.  The answer to a late reply that meets a request of
  the other host needs four messages, and a duplicated reply needs a fault, which
  `transport` does not have: the theorems `RepliesMatch`, `AtMostOnce` and
  `GivenOnce` are about both;
- set-up: three transports are two of one port and one of the other, or of the
  other host;
- arp: three fragments make a datagram of two behind one that waits, and one after
  the resolution; two requests are a retry and a failure; one stop falls between
  any two steps, with packets on their way to the node that is down;
- dhcp: two faults are a crash and a lost message, or a lost answer and a late one; two
  clients and two addresses are the fewest where a wrong address is another's.  `HeldIsRecorded`,
  and with it that no address is used by two clients, is stated until the server
  forgets its table by a restart: afterwards it offers addresses anew and acknowledges
  renewals by the address alone, so that two clients may share one and neither is told;
- tcp: two data segments can overtake each other and the FIN; the fault can hit each
  segment and each timer; with a duplicated ACK as the fault, the third duplicate ACK and a fourth
  are reached.  The same invariants were also checked with one segment in each direction
  and, without faults, with both ends opening actively (in the form
  with `IW = 1`).

Runs that end in a violation, each of something the repository's own comments
say (the quotations are in PROJECT.json):

| run | what happens |
|---|---|
| `scheduler_abort` | the entry of one second is removed while another is still to be visited: exception, end of simulation |
| `dhcp_lease` | a renewal that goes unanswered leads to SELECTING with the lease timer cancelled and the address still configured |
| `tcp_close` | the CLOSE that was deferred until the FIN could go out overrides the peer's FIN in the same segment, and the connection waits in FIN_WAIT_2 for a FIN it already has |

Other divergences are characterised by properties that pass because they name the
exception: a task lost when a callback schedules for its own second
(`LossOnlyByReentry`), reply and timeout both reaching a callback after a data race
(`OneOutcome`), a stranger's message taken for a reply (`ReplyOrCollision`), a
request without outcome after a failed `create()` (`Resolved`), the second host's
transports without their serializer (`FirstComeFirstServed`).

Some were seen while modelling and have no property.
`scheduleAt(simTime().add(time), ...)` (RealtimeScheduler.java:154) counts
delays in seconds, while `Event` (Event.java:62) asks for Time units, where 1 is a
microsecond.  Due times are compared in whole seconds, so the wake-up of one task
may call another one of the same second up to a second early; `FiredInItsSecond` is
what holds.  `getCurrentTime()` (RealtimeScheduler.java:194) is always 0, and the
default datagram size (RealTransportUDP.java:39) is ten MTUs where the comments
say one.  In TCP a simultaneous open ends with both ends resetting
(TCPConnectionRcvSegment.cc:267; its test, `tests/module/tcp_syn_2.test.off`, is
switched off), a CLOSE in SYN_RCVD followed by a retransmission timeout fails the
assertion at TCPVirtualDataSendQueue.cc:68 (`assertFailed` in the model), and two
ends in TIME_WAIT may answer each other's ACKs without end
(TCPConnectionRcvSegment.cc:435).

### Fairness

- `RealtimeScheduler!FairSpec`: weak fairness of the event loop (`Step`), of
  time going on (`Tick`) and of the delivery of Start's message; the kernel's loop
  takes the next event as long as there is one.  Nothing is assumed of callers.
- `RealTransport!FairSpec`: weak fairness of each host's pool, timers and events;
  pool threads are never blocked by the code, and the event loop goes on until
  `halted`.  Nothing is assumed of the network, the queue service or the
  application.  That timers do fire is what the scheduler is for, and what
  `LossOnlyByReentry` and `scheduler_abort` show it not to guarantee always: the
  result holds for a scheduler without these defects.
- `IPv4!FairSpec`: a scheduled request timer fires.  Packets need never arrive.
- `DHCP!Fairness`: scheduled timers expire, a node that was stopped is started
  again, and a message arrives unless it is lost, which is one of finitely many
  faults.
- `TCP!FairSpec`: a segment that is not lost arrives, and the timers CONN_ESTAB,
  REXMIT and 2MSL expire when they are due.  It is weak fairness with the enabling
  conditions written out (`Due`).

## The proofs

`RealtimeSchedulerProofs` proves, for all handlers, delays, fractions and bounds
that satisfy the assumptions of the module, that `Spec` implies `TypeOK`,
`NoOvertaking`, `FiredInItsSecond`, `WakeupsCoverTasks`, `LossOnlyByReentry` and
`IInv` at all times, and that it implements `EventQueue` (`ImplementsEventQueue`).

The argument has four layers, the first three each with one lemma for what `Schedule` does and
one for the other actions:

1. `TypeOK /\ WalkInv`: entries the iterator still has to return are in the map,
   and the running task is the head of a list at least as long as when it was
   called (callbacks only append).  Hence `Return` never leaves an empty list.
2. `ListInv`: a list holds tasks of its own second in the order of their
   creation, and what was called of that second is older than its head.
   `NoOvertaking` follows for the step that adds to the log.
3. `TimerInv` and `WakeupsCoverTasks`: messages are not in the past; a second that
   has passed is empty or headed by a null handler; otherwise the messages left for
   a second are as many as its tasks, the one in the walk's hand not counted.
   Neither half is inductive alone: that nothing due is left when time moves on
   is known only by counting, and the counting needs that every walk takes
   one task off every due list.  `FiredInItsSecond` follows, since a due list
   headed by a handler can only be the current second's.
4. `LossInv`: every task is in a list, or in the log, or was scheduled by the
   callback of the only task of a second; and while such a callback runs, the tasks behind it are
   those it scheduled itself.  `Return` may then remove the entry with no other loss.
   Refinement maps every step to a step of `EventQueue` or a stutter: `Schedule`
   adds a task, `Fire` calls one that by `NoOvertaking` has not been called, the other
   steps change neither `tasks` nor `log`.

`IPv4Proofs` proves, for every set of nodes and addresses, every assignment of
addresses, every routing, retry count and bound, that `Spec` implies `TypeOK`,
`QueueMatchesResolution`, `TimerIffPending`, `InOrder`, `RightNeighbour` and
`IInv` at all times, and the action property `GivesUpAfterRetries`.  Assumed are
distinct addresses of the nodes, at least one request per resolution, and that the
broadcast address is no other one.  The layers are:

1. `TypeOK`, inductive by itself, with lemmas on what setting, erasing and changing
   an entry make of a cache.
2. `ResolutionInv`: for every node and next hop (`HopInv`) the entry is pending
   exactly when there is a timer, exactly when the queue is not empty, and the number
   of requests sent is that of its retries plus one; a node that is down has no
   entries; every packet on the LAN names an address that its sender recognizes, and so
   does every resolved entry.  Each event changes one next hop (`OneHop`), except
   for a stop, so that it suffices to look at that one.  `QueueMatchesResolution` and
   `TimerIffPending` are not inductive alone: that `Start` finds an empty cache, and
   that a timer finds ARP up, is known only because a node that is down has no
   entries.
3. `OrderInv`, `InOrder` and `RightNeighbour`: the numbers in frames are
   below those in the queue, and those below the next number.  A datagram that is
   sent at once overtakes nobody because, by layer 2, the queue of a resolved next
   hop is empty.
4. `GivesUpAfterRetries`: an entry of a node that stays up leaves the cache only by
   its last timeout (`EntriesLeave`), when the count of layer 2 is `RetryCount`.

`RealTransportProofs` proves, for every finite set of hosts, any number of pool
threads, buckets, messages and faults, that `Spec` implies `TypeOK`, `OneOutcome`,
`ReplyOrCollision`, `NoLeak`, `HandedUpOnce`, `FirewallHolds` and `IInv` at all
times.  Assumed is that `Queueing` is a set of hosts and there is at least one bucket.
The layers are:

1. `Types`, with lemmas on what appending, taking the head and removing an element
   make of the elements of a queue.
2. `NumberInv`, `RouteInv`, `OwnInv`: a host's own messages have distinct
   identifiers below its counter, an answer goes back through `origin` to a numbered
   message with its identifier, and messages and callbacks are only in the hands of
   a host they belong to.  `TypeOK`'s distinct identifiers in `openCallbacks` follow.
   `MatchInv` is `ReplyOrCollision` for what has been matched and not yet handed over, and
   holds because of `AnswerInv`: as long as a request is in the map, without a race,
   nothing that goes back to it has passed by the map, so that its host has not answered an
   answer to it.  A worker matches by identifier; a message that carries the
   identifier of a request in the map goes back to that request, or to one of the other
   host's; in the first case it is a direct answer, since a longer chain would have passed through
   the request's host.
3. `CallbackInv` and `NoLeak`, of hosts without a data race: no two threads are inside one bucket,
   what a thread removes is still in the map, and a callback is in the map,
   in one `ReceiveEvent` or has been called, but only one of these.  `OneOutcome` is
   its last part.  It is not inductive alone: that a worker's second step does not
   meet the timeout's first is known only from where both have got to.
4. `PlaceInv`: a message that the network has not duplicated is in one place at most, with
   the queue service, in a sending job, in the network, in a receiving job, with a worker, in a
   `ReceiveEvent` or handed up, and in none once a firewall has refused it.  Every action is one
   of few moves from place to place (`Transit`).  `HandedUpOnce` and `FirewallHolds`
   are what it says of the last place.

`RealTransportComponentProofs` proves, for every number of hosts, ports and
transports and any sizes, that `Spec` implies `FirstComeFirstServed`,
`BuffersFit` and `IInv` at all times.  `BinderInv` says that the holder's
serializers are all there are, and equal to what was registered: an overlay can
reach no other component.  `SocketInv` says that all buffers have the
size that is set, and that a port in use has a socket, since `PortFree` looks at
sockets and the property at transports.  That the holder never changes is a lemma
on the first component of a list that only grows.

`DHCPProofs` proves, for all sets of clients, sizes of the pool, sets of at least two
xids and bounds, that `Spec` implies `TypeOK`, `HeldIsRecorded`, `TimersFitState`,
`AckConfirmsLease` and `IInv` at all times.  The layers are:

1. `TypeOK`, inductive by itself.
2. `StateInv`: the timers of a client are determined by its state (`TimersOf`), and in
   every state behind SELECTING there is a lease.  `TimersFitState` follows.
3. `XidInv`: what is under way for the current xid of a client is about the
   address the client has recorded.  `AckConfirmsLease` is its part about ACKs and not
   inductive alone, as an ACK depends on the request it answers; that a client
   records another address only together with a new xid is what makes it hold.
4. `RecordInv`: as long as the server has not forgotten, what is offered to a
   client, what it remembers and what it uses is in the table under its MAC
   address.  `HeldIsRecorded` is its part about addresses in use and not inductive
   alone: BOUND is entered with an address that was recorded long before.

`PiggybackCodecProofs` proves, for every even number of bytes above three, every length
of a word, every set of service identifiers and messages, that `Spec` implies
`RoundTrip`, `RefusedForCause`, `NoMisdelivery` and `IInv` at all times.  The properties
themselves say that the count of piggybacked messages fits into its byte (`CountFits`); with
256 services it does not.  The steps are:

1. `WordsRoundTrip`: `getInt` reads back the signed number that `putInt` wrote.  Both
   go through the bytes by recursion (`Weight`, and `value` in `getInt`); that such
   functions exist, and what they are, follows from `NumberTheorems` by induction over
   an interval, a statement about sets.  `ReadBack` says the same of a service identifier.
2. `Layout`: which byte of a datagram is what, from the concatenations of `Serialize`.
3. `ReadInv`: what has not been read yet is the rest of the datagram, or of its
   beginning, from the byte the reader is at, which the number of messages already
   delivered determines.  Neither property is inductive alone: that the next byte
   is an identifier, and not a message, is known only from that position.

`TCPProofs` proves, for any receive window, initial window, retry limits and number
of faults, whichever of the two hosts connect, and whatever data within `MaxData` their
applications send, that `Spec` implies `TypeOK`, `StreamIntegrity`, `FinAfterData`,
`Agreement`, `TimerIffOutstanding`, `TimersFitState`, `IndicationOrder` and `IInv` at all
times.  Assumed are two hosts, an initial window of one or two segments, and that
the initial sequence numbers of two attempts of a host are further apart
(`ISSStep`) than a window reaches.

The parts of `IInv`, for a connection and its peer, are:

- `SendSide`: the order of the sequence numbers, also while `snd_nxt` is put back, and state by state which timers
  run, whether a FIN has been sent or acknowledged, and when a CLOSE still waits.
- `ReceiveSide` and `GotSide`: what has been received is a beginning of what the
  peer has sent (`BeforeFin`), or all of it with the FIN (`PastFin`), or the SYN of an
  earlier attempt, after which nothing can come (`Behind`).  The text in the
  reassembly buffer and `rcv_fin_seq` are the peer's.
- `AckSide`: what is taken as acknowledged was received.
- `AppSide`: the socket's state and the indications so far, by the state.
- `GoodSegment`: what a segment on its way can say, of its sender as it is now and of
  the receiver; a reset says nothing.

None of the properties is inductive alone.  `StreamIntegrity` needs to know what is
in every segment, buffered or on its way, and a segment outlives the attempt that
sent it: what separates attempts is that their sequence numbers are not in one window.
That an ACK is not beyond what was sent, which `Agreement` and
`TimerIffOutstanding` need, depends on the other end's receive side.

The steps are arranged so that an event is looked at once, from the side of the host that
takes it.  `Sound` is what the host may assume and `OutcomeOf` what it must show: its own parts
of `IInv` again, that what it sends is good, and that its send and receive side only
move on (`SendAdvance`, `RecvAdvance`) or begin an attempt that cannot be mistaken for an old
one.  `PerformedWell` concludes `IInv'` from that alone, the peer's parts and all
segments under way included.  There is one lemma `...Well` per handler of the code.
For the segment steps of the synchronized states the work in between is
described by what the steps hand to each other: `Progress` after the ACK field
(`DuplicateTaken` for a duplicate ACK with its fast retransmit), `Ready`
after the state's own answer to it, `Unfinished` and `Finished` around the text and the FIN,
and `Goes` or `Concludes` for the state that follows.

All `IInv` were checked with TLC, as invariants of the runs `scheduler`, `arp`,
`transport`, `transport_live`, `setup`, `dhcp`, `codec` and `tcp`, before they were
proved.

Left to TLC: liveness under fairness (`Settles`, `Resolved`, `NoneWaitsForever`,
`EventuallyBound`, `DataArrives`, `SetupAndCloseEnd`), which is out of the reach of
the prover, and the three violations.

## What is not modelled

- `RealTransportTCP`, `DefaultSerializer` and the monitoring overlays are named
  by the code and not in the repository.
- `UDPAppC` is unfinished (its send case is empty).
- Calls of the scheduler from pool threads: the scheduler's model is of the
  simulation thread.  Calls of `send` from piggyback services on a pool thread,
  where `currentID++` is not atomic.
- Logging, interface names and bandwidths, `toString`, `equals`.
- ARP: several interfaces per node, for which the code itself leaves the key of
  the cache open (ARP.h:50); `globalARP`, which needs no packets; gratuitous
  updates by notifications.
- IPv4: routing, reassembly, multicast, netfilter hooks, ICMP.
- TCP: window scaling, SACK, timestamps, Nagle, delayed ACKs, limited transmit, zero
  windows, forking sockets, sequence number wrap-around, and the flavours other than TCPReno.
- The rest of INET, about 270,000 lines: SCTP, UDP, RTP, the routing protocols
  (OSPF, BGP, RIP, the MANET protocols), MPLS with LDP and RSVP-TE, IPv6 with
  neighbour discovery and mobility, the link layers, radio and mobility models and
  the applications.  Most of it has no connection with the runtime, each protocol
  would be a project of its own, and radio and mobility are about continuous
  quantities.  The OMNeT++ headers are declarations; the kernel appears as
  `AdvanceTime` in the scheduler, and elsewhere as the events themselves.

## Plan

1. (done) scheduler, its abstract queue, its invariants and their proofs;
   transport; set-up; codec.
2. (done) ARP under IPv4 with its proofs, DHCP, TCP connections; the set-up of the
   datagram size; one fault budget for the transport.
3. (done) Proofs about the scheduler with its refinement, the transport, the set-up,
   the datagram format, DHCP and TCP.  All safety and action properties of the passing
   runs are theorems.
4. The scheduler with threads: `scheduleIn` from pool threads against the walk.
5. More of INET in the order of its protocol state: the OSPF neighbour machine,
   LDP sessions, IPv6 neighbour discovery.
