# LIONS in TLA+

LIONS is a set of small services that talk to each other with the LIONS
Middleware Protocol (LMP). This directory models the protocol's codec, the two
libraries that carry it over TCP, the message broker admiral and what its clients
may count on, every program that is such a client, the path a light command takes
through three of them, the port forwarding daemon, and the C arena with its
strings. TLC checks the models on small instances; TLAPS proves all of the
invariants, that a TCP stream becomes whole packets in order, that the broker
keeps its contract with its clients, and that it hands on what they send once and
in order, for every value of the constants.

Paths below are relative to the repository; `broker.go` stands for
`services/admiral/internal/broker/broker.go`.

## Inventory

| Component | State | Operations | Talks to |
|---|---|---|---|
| LMP codec: `lib/go/lmp/lmp.go`, `lib/c/lmp.c` | none: pure functions | serialize, deserialize | used by every service |
| LMP over TCP, Go: `lib/go/liblmp/liblmp.go` | the buffer of a running call | `SendPacket`, `ReadPacket`, `SendHandshake` | admiral, s2, gibson |
| LMP over TCP, C: `lib/c/liblmp.c` | the buffer of a running call | `lmp_net_send_packet`, `lmp_net_recv_packet`, `lmp_admiral_service_handshake` | laitt, lights |
| admiral's broker: `broker.go` | `b.Connections`, the channel `b.events`, the sockets | `Start`, `handshake`, `handleEvents`, `serveConnection`, `getServiceConnection` | every service |
| admiral's application: `internal/admiral/admiral.go`, `cmd/admiral/main.go` | the channels `done` and `errchan` | start, wait for a signal or an error, exit | the broker |
| admiral's configuration and logger | `config.json`, read once | read, print | the application |
| lights: `services/lights/lights.c` | one connection, one command | connect, handshake, send, exit | admiral |
| laitt: `services/laitt/laitt.c` | one connection at a time | accept, read, publish to MQTT | admiral dials it; Mosquitto |
| s2: `services/s2` | a map from times to packets, one connection, the channel `done` | handshake, wait for a signal, look at the clock, send | admiral |
| gibson: `services/gibson/gibson.go` | an unbuffered channel, one connection | HTTP handlers, one sender | admiral |
| archimedes: `services/archimedes/archimedes` | the flag `ALIVE`, an ssh process per thread | start again, stop on SIGINT | ssh |
| C base library: `lib/c/lt_arena.c`, `lt_string.c` | an arena's position | push, clear, mark, pop, temporary scopes | the C services |
| legacy: `legacy/admiral`, `legacy/s2` | superseded programs | | |

What is hard in each, and what makes it correct:

- **Codec.** The same checks are written twice, in another form and order, and
  a payload of one byte is a special case. Correct means: both languages accept
  and refuse the same, a packet survives the trip, and what is read can be
  forwarded unchanged.
- **Over TCP.** There is no length field and no escaping: a frame ends at the
  first 0x7F. TCP cuts the stream anywhere and the sender can die anywhere.
  Correct means that packets arrive whole, once and in order.
- **Broker.** Three kinds of goroutines share a table without a lock, and a
  bounded channel between them. Clients connect, leave and are reset at any
  moment, a service can be connected twice, and admiral can dial itself.
  Correct means: the handshake answer comes first, packets go to the service
  they name, once and in order, no connection leaks, departed clients disappear
  from the table, nobody waits for ever, and the process survives.
- **Light path.** lights ignores what its handshake returns and exits at once;
  admiral dials laitt for each packet and never closes; laitt reads one
  connection at a time without a deadline. Correct means that a command reaches
  the lights, once, only from a program admiral accepted, and in the order in
  which that program sent it.
- **Arena and strings.** One position moves up and down for everybody. Correct
  means that blocks never share a byte, whichever scopes began and ended in
  between, that a string keeps its text as long as somebody holds it, and that no
  space is lost: nobody looks whether a push has failed.
- **admiral's application.** Two goroutines put into one channel, and the error is
  looked at without waiting. Correct means that a signal ends admiral and that a
  listener that failed is reported.
- **s2 and gibson.** Both go on whatever their handshake returns. Correct means
  that a handshake fails only for a client admiral does not serve, that a signal
  ends s2, that gibson answers every request admiral does not hold up, and that
  s2 sends what it has scheduled.
- **archimedes.** The signal handler clears a flag and kills every ssh while the
  threads look at the flag and start ssh. Correct means that no ssh is left when
  archimedes exits, that it does exit, and that lost connections are made again.

## Modules

| Module | Models |
|---|---|
| `Lmp` | constants, packets, frames and the checks of both codecs, as operators |
| `LmpCodec` | one packet through a writer (Go, C, or a peer that checks nothing) and both readers |
| `PacketFifo` | abstract: what a program expects of one connection |
| `LmpLink` | the sender and the TCP byte stream |
| `LmpGoStream` | `ReadPacket` in a loop, one byte at a time |
| `LmpCStream` | `lmp_net_recv_packet` in a loop, one chunk at a time, for senders that wait |
| `LmpStreams` | a connection with either reader; implements `PacketFifo` |
| `Broker` | acceptor, event handler, servers and clients |
| `BrokerProperties` | what the broker keeps, and what its documents promise |
| `AdmiralClient` | abstract: what one client of admiral sees; `Broker` implements it |
| `LightPath` | lights, `Broker` and laitt together |
| `GoHandshake` | `net.Dial` and `SendHandshake` against `AdmiralClient` |
| `S2`, `Gibson` | the two clients written in Go |
| `AdmiralApp` | the admiral process around its broker, from start to exit |
| `GoServices` | `AdmiralApp`, `S2` and `Gibson` together |
| `Archimedes` | listener threads, signal handler, ssh, restarts |
| `Arena` | `lt_arena.c`, with callers that end their scopes in order |
| `Strings` | `lt_string.c` and the service string of `liblmp.c`, byte by byte on `Arena` |
| `LmpProofs` | lemmas about the codec's operators |
| `LmpCodecProofs`, `LmpStreamsProofs`, `BrokerProofs`, `LightPathProofs`, `GoServicesProofs`, `ArchimedesProofs`, `StringsProofs` | theorems |
| `MC...` | the small sets TLC runs with |

`Broker` EXTENDS `Lmp`: its packets are the codec's, and what a server forwards
must pass `Serializable` before it is written. It moves whole packets; that a
connection does that is what `LmpStreams` shows. `LightPath` EXTENDS
`BrokerProperties` and replaces some of the clients by runs of lights and the
far end of admiral's dialled connections by laitt.

`AdmiralClient` stands between the two halves of the system. `BrokerProperties`
gives the mapping from the broker's state to it (`Links`), with
`Contract == INSTANCE AdmiralClient WITH link <- Links, down <- crashed`:
`ContractIsKept` is checked by TLC and proved. `GoServices` runs the Go programs
against `AdmiralClient` alone, so what it shows of them holds next to `Broker` with
all its other clients. The client's own steps are part of the contract: it may
send anything at any time, so S2 and gibson only restrict it. The one thing
`GoServices` adds is the end of the process: `LinkDown` is a panic in `Broker` and
the return of `Start` as well in `AdmiralApp`.

### How the broker's state corresponds to the code

- `slots` and `len` are `b.Connections`: the backing array and the length.
  A server loads the length once when its `range` loop starts, and then reads
  the fields of the elements one by one (`ServeScan`, `ServeTake`). The handler
  writes them one by one: `append` stores the length first (`ReceiveConnected`,
  `PutId`, `PutConn`), `slices.Delete` moves the elements, clears the last and
  stores the length (`MoveId`, `MoveConn`, `ClearId`, `ClearConn`,
  `StoreTable`). The code takes no lock, so every interleaving of these is a
  behaviour.
- `acceptor` is `Start`'s loop with the handshake it runs inline; `handler` is
  `handleEvents`; `server[c]` is the goroutine that serves connection `c`.
- `events` is the channel, with the capacity `EventCap`; a goroutine that finds
  it full waits (`PublishConnected`, `PublishDisconnected`).
- `peer`, `inbox` and `outbox` are the client's end of a TCP connection and the
  packets in each direction; `sock` is admiral's end. `outbox` keeps everything
  that was written, so that a property can speak of the order.
- `dialled` records what each connection admiral dialled carried. Nothing in the
  code closes such a connection: the finalizer of `net.Conn` does (`Finalize`).
- `crashed` is a panic in some goroutine: nothing takes a step any more.

Clients are external and do whatever TCP allows: they send the packets of their
menu at any time, leave, or are reset. Whether they read is their choice as well:
`WaitsForReader(c)` says that the server of `c` is in a `conn.Write` to a client
that has not left and need not read.

### The other programs

- `GoHandshake`: `shake` is the position in `net.Dial` and `SendHandshake`. A send on
  a broken connection may fail or seem to succeed; the first packet read is taken
  for the answer.
- `S2`: `s2` is the main goroutine, `notified` and `sigchan` the signal goroutine,
  `done` the channel, `now` the clock. `Schedule` is the map: of the entries with
  one time the last stays. `S2Turn` begins with the receive from `done`.
- `Gibson`: `request` is the position of each HTTP handler. `Hand` is the rendezvous on
  the channel without a buffer, with what the goroutine then does: it serializes,
  and does not write (the call is commented out, `gibson.go:77`). What gibson
  answers, "Sent request to reception", is therefore not so. README.md:27
  calls gibson the HTTP bridge for LMP; that it forwards nothing is stated here and in the
  module, and no property claims more than that requests are answered.
- `AdmiralApp`: `main` is `Start` and then the exit status, `broker` what `Broker.Start`
  has come to, `sends` what its goroutine has left to put into the channels.
  `Close` closes nothing: the kernel does, when the process exits.
- `Archimedes`: `listener` is the position of each thread, `ssh` the process it waits
  for, `orphan` one that an earlier archimedes has left, `late` counts what was started
  after the signal. Python runs a signal handler in the main thread, so the main
  thread takes no step between `HandleSignal` and `KillAll`; `os.system` returns when
  `killall` has. An ssh whose port is taken stays connected and forwards nothing,
  because it is not told to exit then.
- `Strings`: `mem` is every byte of the arena. A string in `held` keeps, next to its
  address and length, the text it was made of. `laittOnly` marks behaviours in which an
  arena was cleared under a string that is still used, as laitt does with its
  service string. `MayPush` says that laitt pushes nothing afterwards, and that is why it
  works: with one more push in the loop `StringsKeepTheirText` fails.

## Runs

| Run | Shows | Bounds |
|---|---|---|
| `lmp_codec` | `LibrariesAgree`, `RoundTrip`, `Canonical` over more than a quarter of a million packets and all their truncations | `MaxSize` 7 for 1500: payloads of 0, 1, 2 (the most) and 3 bytes, so that every comparison of a length is met on both sides; header bytes one beyond the valid ones; payload bytes empty, other, terminator |
| `lmp_streams` | either reader turns a stream into a `PacketFifo`; the Go reader never gives up on a legal packet, the C reader only on one that fills its buffer | `MaxSize` and `BufferSize` 12, three sends of eight packets for Go, one of exactly `MaxSize` bytes, one one byte over, two with a terminator inside, one of whose tails is a packet itself; the packets sent to the C reader reach its `BufferSize`, and the stream is cut into chunks in every way; the connection may close or be lost at every byte |
| `broker_table` | `TableMatchesServers`, and that what admiral writes to clients and dials on is what accepted clients sent, once and in order (`HandedOnInOrder`) | three clients in strict mode, two of which may claim the same service; the table then grows, shifts and shrinks at the first, middle and last element; one client sends two packets to a service that is connected once, twice or not at all, so that they go by a connection of the table, by one that is removed meanwhile or by a dial |
| `broker_flow` | `ContractIsKept`, `AcceptFirst`, `OpenConnectionsAreOwned`, and the liveness of departures and of the acceptor | two clients that forward to each other, a connection admiral dials to itself; the channel has one slot for 8, so that it is full after one event and all waiting happens |
| `broker_crash`, `broker_reconnect`, `broker_race` | findings, see below | two clients are enough |
| `light_path` | a command is published, once and in the order of its sender, and a refused run's never; every run ends | strict mode; two (`MaxClients`) of three clients connect: a run of lights, one that strict mode refuses after the ACCEPT, and a reception that sends laitt a message and then another one, or a TERM, for which admiral opens a silent connection |
| `go_services` | `NoFalseRefusal`, `AllPacketsSerialize`, `ListenFailureIsReported`, and that signals end admiral and S2 and requests are answered | S2 or gibson, at most two (`MaxHeard`) packets from admiral, two HTTP requests of three kinds of body (on the list, empty, too long), two times of day |
| `s2_schedule` | finding, see below | two entries for one time |
| `archimedes` | `ExitLeavesNoSsh`, `AtMostOneLateSsh`, and that interrupts end it and connections are made again | two services, two starts (`MaxStarts`), so that orphans of the first meet the second |
| `strings` | `StringsKeepTheirText`, `FindsWhatIsThere`, `SpaceIsNotLost`, and `BlocksAreApart` | capacity 32 with a header of 16, so two words of strings fill it; three strings (`MaxStrings`) of up to 3 bytes (`MaxLength`), slices of each other and of a literal; two scopes (`MaxScopes`) |

More clients add no new kind of interference in the broker: the handler is one
process, an event concerns one entry, and a server reads one entry at a time
while at most one is being written; with three clients an entry can move over
another that is in use. Two packets of one client are enough for an order or a
repetition to go wrong; that each destination hears of many senders is what the
theorems add. `Services` are the few ids of `config.json` that take
part in a run. The bounds are `MaxSize`, `MaxSends` (packets of one behaviour),
`Conns`, `EventCap`, the length of each `Menu`, `MaxClients`, `MaxHeard`, `MaxStarts`,
`MaxStrings`, `MaxLength` and `MaxScopes`. In `GoServices` S2 and gibson do not run
together, which is a bound as well (`GoInit`): they meet only in admiral, whose
contract is with each of them alone.

`CHECK_DEADLOCK FALSE` everywhere: a sender may have sent all it may, a client
may have left, an arena may be full, a program may have exited, and after a panic
nothing runs.

### Fairness

The readers and every goroutine get weak fairness: the Go scheduler runs a
goroutine that can run, and a process that reads a socket only waits for bytes.
`Finalize` has weak fairness because the runtime forces a garbage collection
every two minutes. Nothing is asked of the clients: they may stay silent for
ever, which is why `EveryoneIsAccepted` and `LightsEnds` are stated for
behaviours in which no silent client holds the acceptor for good; and they may
not read, so a server gets fairness only where it is not in a write to such a
client (`WaitsForReader`), and `DepartedAreRemoved` excepts the client whose own
server is stuck there. In `LightPath` a run of lights that was started goes on,
laitt's loop goes on, and a dial to laitt succeeds, because laitt listens as long
as it runs.

In `GoServices` the goroutines of the programs run, and the broker owes nothing: it
may never accept a client. In `Archimedes` the threads and the handler run; the main
thread has strong fairness, because a signal may interrupt it again and again and it
still gets on between two signals. ssh may live for ever or die at once.

## Findings

- `broker_crash`: a packet with a one-byte payload, such as the PING admiral
  itself sends, makes `Payload[2:]` panic (`broker.go:124`; `Payload[1]` at 205)
  and ends admiral for everyone. The run reaches the same panic of the process a second
  way: the handler has stored the id of a new entry and not yet its connection, and a
  server that finds the id writes to a nil connection (`broker.go:92`, `157`). TLC stops at
  the shorter trace; take `PingPacket` out of `MCCrashMenu` to see the other.
- `broker_reconnect`: the handler deletes the first entry of a service and not the
  entry of the connection that left (`broker.go:97`). If a service has connected
  twice, the table can keep the closed connection, and packets for the connected
  service are lost.
- `broker_race`: a server can compare the id of one entry and use the connection of
  another, because the table is read without a lock (`broker.go:248`).

- `s2_schedule`: S2's loop begins with `if <-done` (`services/s2/cmd/s2/main.go:70`), a
  receive that waits for the signal, so it exits at the first signal and never looks
  at the schedule before; README.md:26 says s2 sends packets.

Seen while modelling, and stated in the modules rather than as findings:

- `lmp_net_recv_packet` looks whether the buffer is full before it looks for the
  terminator (`lib/c/liblmp.c:70`), so a packet of exactly `LMP_PACKET_MAX_SIZE` bytes
  (`lib/c/lmp.h:64`), which both serializers write and the Go reader reads, cannot be
  received. `OnlyFullPacketsAreTooLarge` says so.
- admiral sends ACCEPT before it has checked who the client is, so a handshake that
  succeeds at the client does not mean that admiral serves it. Only the converse
  holds (`NoFalseRefusal`).
- archimedes handles SIGINT only. `kill` leaves every ssh
  (`services/archimedes/README.md:34` says it shuts them down when it exits), and an
  archimedes started next to such an orphan gets an ssh that is connected and forwards
  nothing, without noticing when the orphan dies. After a single SIGINT it may stay,
  waiting for the ssh a thread has started late; `InterruptsEnd` asks for more than one.

## Proofs

All theorems hold for every value of the constants, from the assumptions stated
next to them (`MaxSizeAssumption`, `CandidatesAssumption`, `PacketsAssumption`,
`MaxSendsAssumption`; `BufferSizeAssumption`: every buffer of a caller has the maximum
size at least; `CPacketsAssumption`: no packet sent to a C program has a terminator
inside, because it is admiral's own or was read up to a terminator before;
`PiecesAssumption`: a packet with terminators inside does not fall into other packets
of the program, which nothing on the wire would tell from real ones; `ConnsAssumption`, `ServicesAssumption`, `EventCapAssumption`,
`StrictModeAssumption`, `MenuAssumption`: a client's packet is one `ReadPacket`
returns, so it has no terminator inside; `LightsAssumption`, `LaittAssumption`,
`CommandsAssumption`, `LightsMenuAssumption`: laitt is configured and is not admiral,
lights sends the handshake and then its command, which is bytes it can serialize; `MaxStartsAssumption`; `S2Assumption`, `GibsonAssumption`, `BodiesAssumption`,
`GuestListAssumption`: a name on the guest list fits in a packet).

- `LmpProofs`: what `Frame` and `Unframe` do to each other, and that the two
  deserializers, written in a different order, give the same verdict (`SameVerdict`).
- `LmpCodecProofs`: `LibrariesAgreeTheorem`, `RoundTripTheorem`, `CanonicalTheorem`, from
  those lemmas: the state of `LmpCodec` is one packet and what became of it.
- `LmpStreamsProofs`: `TypeCorrect`, `NeverOversizeTheorem`, `IndexInRange`,
  `OnlyFullPacketsAreTooLargeTheorem`, and `FifoTheorem`, that a connection with either
  reader implements the safety part of `PacketFifo`. None of it is inductive: the bytes
  on the wire do not say where a frame starts. `StreamInv` keeps what the behaviour knows
  and the reader does not: the wire is the rest of the frames that were sent, up to where
  it was lost (`Laid`); the reader is in the frame of one packet, which with C is the last
  one sent (`Reading`); it has taken what was read of it since the last terminator
  (`Taken`); and what it has received is what had to be received of the packets before
  (`Passed`). A return at a terminator is then `Receive` or a stutter (`PieceOfFrame`).
  The packets that have to arrive are picked out of `sent` and `received` with `Kept`, whose
  lemmas (`KeptAtRank`, `KeptOfAppend`, `NextKept`) number the places by counting.
- `BrokerProofs`: `TypeInvariant`, `TypeCorrect`. Types are not inductive either:
  handler and servers index the table with numbers they loaded earlier.
  `TypeInv` adds that these indices stay inside the array, which never shrinks,
  and that whatever the channel, the handler or a server refers to was accepted.
- `BrokerProofs` also: `AcceptFirstTheorem`, `TargetsWereAcceptedTheorem`. However
  torn a read of the table is, each connection in any of its fields is one the
  acceptor has answered (`TableInv`, `TargetInv`, `AnsweredInv`), and the acceptor
  answers a connection once because it is queued once (`BacklogInv`, `FreshInv`,
  `GreetingInv`).
- `BrokerProofs` also: `OwnersTheorem`. An open connection is handed from the
  acceptor to the channel, the handler, its server, the channel and the handler;
  `IdleInv` says that whoever takes the next has let go of the last.
- `BrokerProofs` also: `ContractTheorem`, that `Broker` implements `AdmiralClient`:
  every step of the broker is, for each client, a step of the contract or none
  (`StepAnswered`, from one lemma per process: `ClientAnswered`, `AcceptorAnswered`,
  `HandlerAnswered`, `ServerAnswered`). The mapping needs to know what a client's
  state says of the broker's: `LinkInv` adds to the types and the greeting invariant that
  admiral has read no more than the client has sent (`ReadInv`), that admiral
  is its own client on the connections it dialled to itself and on no other (`SelfInv`),
  that a connection in hand is open (`OpenInv`), that whatever servers find in the table,
  however torn, is served (`StartedInv`), and that what the handler removes has left
  (`LeavingInv`). `LinkInvariant` is its proof.
- `BrokerProofs` also: `HandedOnInOrderTheorem` and `RelayInvariant`, its inductive
  invariant. The property asks for a map from every place admiral has put a packet at,
  in an `outbox` or in `dialled`, to a packet a client sent, and such a map cannot be read
  off a state: `HandInv` says that there is one and that it is an injection which keeps the
  order at each destination. For a client every step of the broker is one of three
  (`Moves`): nothing happens to its packets, it sends one, or admiral reads one. So its
  packets are numbered by counting (`Consumed`), each that waits is in its place, and a
  busy server holds what came out of the last one read (`PlacesInv`). A step hands on one
  packet at most, at the end of one destination, and only a server that is then done with
  its packet does so (`StepHands`); the map grows by that pair (`NewOrigin`), whose number is
  past every number of the same client. Nothing comes out of a connection of admiral to
  itself, which the handshake refuses because admiral never forwards an INIT
  (`RefusedInv`). `PlacesInv` and `HandInv` take as a parameter what packet `i` of a client
  can have been: its menu here, and less in `LightPathProofs`.
- `LightPathProofs`: `PathTypeCorrect`, `PublishedOnceTheorem`, and `PathInvariant`, the
  inductive invariant of both. `PublishedOnce` relates what laitt published to what
  clients sent, with a table, a server and a dialled connection between them. The way
  through admiral is that of `BrokerProofs`, with the command of its user as the third
  packet of a run of lights (`SentSets`). laitt publishes at most the payload of each
  connection to it, in the order in which it takes them (`PubInv`), and each was dialled for
  a packet of its own, later ones of a client for later packets (`DialsHaveOrigins`). A packet that
  admiral builds from one without a terminator has none, so laitt reads it whole
  (`ReceivedIsFrame`). An accepted run of lights has claimed to be lights and nothing else
  (`ClaimInv`). The order rests on one thing outside the code: a listener hands out
  connections in the order in which they were established, and `net.Dial` returns only
  when one is, so a server's next dial comes behind its last (`LaittAccept`).
- `GoServicesProofs`: `TypeCorrect`, `NoFalseRefusalTheorem`,
  `ListenFailureIsReportedTheorem`, `AllPacketsSerializeTheorem`. `LinkStep` shows once, for
  every step the contract allows, that ACCEPT is what a client hears first and before it is
  served (`HeardInv`) and that a connection that is over stays so, from which
  `FailedInv` follows. `FailureInv` lists the five stages between a listener that fails
  and the exit, in which either the error or `done` is still on its way but never `done`
  alone; `SignalInv` says that nothing else but a signal ends the program. `GuestInv` says that
  nothing has panicked and ties a waiting request to the guest list.
- `ArchimedesProofs`: `TypeCorrect`, `ExitLeavesNoSshTheorem`, `AtMostOneLateSshTheorem`.
  That no ssh is left at the exit is not inductive: nobody exits before its threads
  have ended (`ThreadsOfMain`), a thread that has started an ssh waits for it
  (`SshIsWaitedFor`), orphans are gone once the flag is down and the handler has run
  (`OrphansAreKilled`), and a thread that was late is past its last look at the flag
  (`LateOnce`).
- `StringsProofs`: `TypeCorrect`, `BlocksAreApartTheorem`. After the end of a scope the
  next push starts where the scope began, so disjointness needs that no block lies
  across a mark somebody holds: `Scoped` says that the blocks pushed before a mark
  end below it and those pushed after start above it, `Marks` that marks grow.
  Alignment is `AlignForwardRoundsUp`, by arithmetic.
- `StringsProofs` also: `BlocksUnderStrings`, `StringsTypeCorrect`,
  `StringsKeepTheirTextTheorem`, `FindsWhatIsThereTheorem`. A string is held exactly as
  long as the block it was copied into (`HeldInv`: same address, same scope), so what is
  written next, above every block, is never one of its bytes; a slice is not held and may
  be of anything that can be read. `str8_contains` reads only the strings it is given and
  finds what is there, because a place too near the end has a shorter substring.
- `StringsProofs` also: `SpaceIsNotLostTheorem`. The end of a scope lets go of blocks, and
  those that stay must fill the arena up to the mark the position goes back to:
  `FilledInv` says so of every mark, and `PaddingIsFilled` that the padding of a push
  belongs to the block below it.

Only model-checked:

- All liveness properties, and with them the liveness half of `PacketsAreFifo`: liveness
  under fairness and `ENABLED` are out of the prover's reach.

No module of this directory declares a `RECURSIVE` operator.

## Not modelled

- Null pointers and negative lengths passed to the codec: no caller does.
- Go `append` moving the table to a new array: a reader then goes on in the old
  one, which nobody writes any more; every value it can read there it can read
  from `slots` before the later writes.
- Partial writes: a `conn.Write` that is interrupted by a reset leaves a torn frame,
  which is `LmpStreams`' subject and not `Broker`'s. How much a client that does not read
  can be sent before it blocks is not counted: a write to it may block at any time.
- The configuration and the logger: a file that is read once before anything runs, and
  lines that are printed. `config.json` enters as constants.
- Names, payloads and times of S2's schedule beyond which time they are for; the texts
  of lights' commands.
- What becomes of `lib/c/liblmp`: README.md:31 says that it is going through a rewrite and
  is not functional at the moment. It is modelled as it stands in the repository, because
  lights and laitt are written against it.
- A packet with a lone byte other than the empty one, which admiral makes of a SEND with three
  bytes of payload (`broker.go:144`): `RoundTrip` leaves it out, its receiver refuses it, and
  nothing promises that it arrives. Two packets in one chunk of a C receiver
  (`lib/c/liblmp.c:75`): `MaySend` keeps them apart, because lights and laitt read one packet
  of a connection. How long a silent connection holds laitt up (`laitt.c:112`): it is assumed
  that admiral's runtime finalizes it at some time.
- `legacy/`: README.md:31 says these programs do not work with the current libraries;
  `services/admiral` and `services/s2` have replaced them.
- An arena whose callers end scopes out of order or go back to a mark after a
  clear: no caller does. Sizes near 2^64.
- The texts of log lines, colours and terminal output.
- HTTP, MQTT, ssh and JSON are libraries or programs of others.
- `config.json` and `lib/c/liblmp.h` disagree on laitt's address, and lights
  connects to an address that is in neither; the models take one address per
  service.

## Plan

Done: the codec, both streams, the broker with its contract and its order, every
program that talks to it, archimedes, the arena and its strings, and a theorem for
every invariant a run checks. Nothing of the plan is left but what the prover does not
reach: liveness.
