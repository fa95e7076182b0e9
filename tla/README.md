# Verification of PyWebTransport

TLA+ models of PyWebTransport, from the protocol core to the Python API, the TLC
runs that check them on small instances, and proofs that TLAPS checks for every
value of the constants. `PROJECT.json` lists components, runs, hazards, theorems
and, for every definition that models code, the lines it stands for.

## The system

PyWebTransport is a Rust core under a Python API. The protocol is a state
machine without I/O; each method returns effects, which a driver carries out.

| Part | Source | State | What is hard about it |
| --- | --- | --- | --- |
| Stream | `protocol/stream.rs` | two half states, write buffer, the write in progress, pending reads | a write is in the buffer and in progress at once; resets, stops, aborts and completions race |
| Session, data credit | `protocol/session.rs` | bytes sent, received, consumed, two limits, queue of blocked streams | data and capsules are not ordered with each other; wake-ups of blocked writers |
| Session, stream credit | `protocol/session.rs` | streams opened and closed, two limits, queue of requests | a second limit, QUIC's, refuses streams the session has already counted |
| Session, life | `protocol/session.rs` | state, three buffers filled before confirmation, waiting requests | replay runs many handlers in one call, and any of them may end the session |
| Connection, engine | `protocol/connection.rs`, `engine.rs` | sessions, session requests, early events, GOAWAY flags | events for sessions that do not exist yet, limits, termination |
| HTTP/3 | `protocol/h3.rs`, `utils.rs` | control and request streams, parsers | reads cut anywhere, frame order, critical streams |
| Driver, endpoint | `transport/` | send buffers, armed receives, an event queue, connections | effects cause events that are handled before the next command |
| Reactor, channels | `runtime/`, `ffi/` | bounded queues, waker flag and socket | two threads and a socket; shutdown; a full queue |
| Controller | `_controller/` | pending requests, the waker loop | cancellation, late answers, a close that times out |
| Python API | `client.py`, `connection.py`, `session.py`, `stream.py` | asyncio objects | tasks interleave at every await |

A request of the application travels through controller, channel and reactor to
the connection's driver, which calls the engine; the engine calls connection,
session and stream. Effects come back: some answer requests or announce events to
the application, the others are carried out by the driver on QUIC. The driver
empties its queue of resulting events before it takes the next command or QUIC
event, which is why a call and the events it causes are one action in the models
of the core. In the models of Python a step is what a task does between two
awaits.

## The modules

| Module | Models |
| --- | --- |
| `StreamOps` | the operations of a stream, as operators from a stream record to an outcome: the new stream, the bytes charged to the session, the requests answered and the effects |
| `Stream` | one stream with its application, its driver, QUIC and the peer |
| `Credit` | abstract: what session flow control promises, for bytes and streams alike |
| `SessionData` | flow control of data between two endpoints; the streams of a session share the credit; uses `StreamOps`; implements `Credit` |
| `SessionStreams` | flow control of streams between two endpoints, with QUIC's own limit; implements `Credit` |
| `Session` | one session at one endpoint from Connecting to Closed |
| `SessionPair` | both ends of a session and the CONNECT stream between them: establishing, refusing, draining, closing |
| `Connection` | one connection at one endpoint with its engine: session requests, early events, GOAWAY, limits, termination |
| `H3RequestStream` | one bidirectional stream in HTTP/3: recognising it, frames and capsules out of reads of any size, asking for the next read |
| `H3ControlStreams` | the peer's unidirectional streams: control, QPACK, WebTransport and refused types |
| `ErrorCodes` | application error codes to HTTP/3 codes and back |
| `Waker` | abstract: how the reactor's thread wakes the event loop |
| `Runtime` | controller, channels, reactor and endpoint, from start to close; implements `Waker` |
| `Handles` | the Python objects of a connection: tables of handles, iterators, outcomes, graceful close |
| `ReceiveStream` | concurrent and cancelled reads of one stream in Python |
| `Client` | concurrent `connect()` calls, the race of addresses, and `close()` |
| `MCStream`, `MCReceiveStream`, `MCHandles`, `MCH3RequestStream` | instances for TLC |
| `StreamOps_proofs`, `Stream_proofs`, `StreamBytes_proofs`, `SessionStreams_proofs`, `Session_proofs`, `Reactor_proofs`, `Runtime_proofs`, `Client_proofs` | the proofs |

State and actions keep the names of the code: `blocked_streams_queue`,
`last_data_blocked_sent` and `peer_max_data` are the fields of `Session`,
`WriteStream` is `write_stream`, `MaxDataReceived` is the MAX_DATA arm of
`recv_capsule`, and so on. Other variables are the environment (bytes in flight,
capsules on their way, resets and stops) or histories that properties need
(`issued`, `done`, `accepted`, `wire`).

Data is abstracted. A payload is its length, or in `Stream` the requests whose
bytes it carries; a request id is a model value. In `Session` the flow-control
capsules are represented by MAX_STREAMS, which is the one that releases requests;
any capsule that fails validation is `MALFORMED`; headers and status codes that
`accept` and `reject` refuse are one Boolean. In the HTTP/3 modules the wire
carries units (a frame type, a length, a body, a capsule header), and reads are
cut anywhere between them. Log messages, diagnostics and timestamps are left out.
Names that end in `Bug` are deliberate faults; a run with the fault in place must
violate the property it is listed with.

The components meet at their interfaces. `SessionData` uses the operations of
`StreamOps` itself; the sessions in `Connection`, the connections in `Runtime` and
the core in `Handles` are reduced to the requests and streams they hold, and the
module of the part says how it answers them.

## What the runs check

| Run | Question | States |
| --- | --- | --- |
| `stream` | Is every request answered once, and in the end; are bytes in order in both directions; is credit conserved; does nothing wait in vain? | 115,668 |
| `session_data` | Two streams from a limit of zero: does neither endpoint abort; is a blocked stream registered, reported and resumed; is it `Credit`? | 133,873 |
| `session_streams` | Is no request lost between queue, QUIC and defer; does each wait have a reason and an end; is it `Credit`? | 17,939 |
| `session` | Whatever ends the session: are requests answered once, events paired and emitted once, buffers empty? | 378,950 |
| `session_pair` | Does the code of a close reach the other application; does each end learn of the end and the draining of the other; does a session closed with a code go away at both? | 7,279 |
| `connection` | Is every session request answered once and, if the peer answers, in the end; are early events counted and replayed; do tables and limits hold? | 249,054 |
| `runtime` | Is no future forgotten and no wake-up lost; does `close()` complete and leave nothing behind; is it `Waker`? | 140,427 |
| `receive_stream` | Are bytes kept; are they in order with `read()` alone, and for a task alone; does every reader return? | 204,262 |
| `client` | Has every open connection and runtime an owner that will close it; do the calls share one runtime; are losers of the race closed? | 771,183 |
| `handles` | Do the tables follow the core; does each item go to one consumer; does nothing wait for an event that is over? | 587,785 |
| `h3_request` | Are headers and capsules handled once, in order and completely however the stream is cut; is what is in the table read? | 746,052 |
| `h3_control` | One stream per role, read until the connection ends; SETTINGS first and once; no complete frame waits? | 500,544 |

Deadlock is not checked: requests, bytes, capsules and calls are bounded, and a
system whose requests are all answered may stop.

### What the properties leave out, and why

Several properties carry a condition because the code does not give more. The
hazards of `PROJECT.json` say the same beside each of these properties. In three
places the code differs from what its tests or its changelog say.

- A DRAIN_SESSION capsule buffered before acceptance ends the replay
  (`session.rs:2147` goes on only while the state is Connected), so that streams
  buffered before acceptance stay unannounced in a session that goes on.
  `BuffersEmptied` therefore speaks of Connected sessions and of ended ones, and
  says nothing of the draining ones.
- Bytes on a stream that is reset or stopped before they are read never count as
  consumed (`session.rs:1589`); another stream's writer can then wait for ever.
  `BlockedWriterResumes` excepts exactly the sessions in which bytes were
  discarded.
- A stream that is reset before its header is delivered is counted by the opener
  and never by the peer. `EveryRequestServed` excepts such sessions.
- A session that is closed without a code stays in Closing until the peer ends
  the CONNECT stream, and Closing ignores a reset (`session.rs:1471`, `:181`).
  `EndsReachBoth` promises that a session goes away only for one closed with a
  code whose CONNECT stream the peer did not reset.
- A CONNECT stream that ends before the response leaves its request without an
  answer until the connection ends (`connection.rs:1402`). `RequestsAnswered`
  excepts it; `ExactlyOneAnswer` does not.
- A server may create a session before SETTINGS arrive; the session is then
  without flow control for good (`connection.rs:1274`). `SessionsAccounted`
  states the agreement for clients, which wait for SETTINGS.
- An answer that does not fit into the event queue is dropped (`channel.rs:19`)
  and its request is failed only by `close()`. When the shutdown times out,
  `close()` releases the sockets while the reactor may still run, and polls no
  longer (`controller.py:262`); a request made after that stays pending.
  `NothingForgotten` and `EverythingServed` name both cases.
- Three kinds of runtime stay open in a client that cannot close them any more.
  `Leaked` names them, and `EverythingOwned` excepts them and no others: one whose
  `connect()` was cancelled while it started, once or twice (`controller.py:127`);
  one put in place when `close()` was over (`client.py:194`), where
  `tests/unit/test_client.py:109-112` has no controller after `close()`; and the
  controller of a client whose `close()` was cancelled, which sets `_closed` first
  (`client.py:123`) and is not repeated.
- Two kinds of connection have lost the task that would close them. `Stranded`
  names them, and `EverythingOwned` and `LosersClosed` except them: those that the
  core refused to close, which `WebTransportConnection.close` logs and forgets
  (`connection.py:170`) and which only a `close()` of the client ends; and those
  that a `close()` took from their tasks before it was itself cancelled
  (`client.py:126`), which nothing in the client ends.
- `readexactly` and `readuntil` drop what they have collected when they are
  cancelled or time out (`stream.py:360`), and of several tasks each may collect
  bytes between those of another. `BytesKept` accounts for dropped bytes as lost.
- `readuntil` appends what follows the separator to the buffer (`stream.py:411`).
  That is behind later bytes if the chunk it took was the front of a longer
  outcome, the rest of which is in the buffer (`stream.py:338`): a task alone that
  calls `read()`, is cancelled and calls `readuntil()` can get bytes out of order,
  where `tests/unit/test_stream.py:769-770` has what follows the separator as what
  is read next. `AloneInOrder`, a part of `BytesKept`, claims the order for one task
  until this happens (`behind`); TLC refutes it without the exception.
- A request that QUIC refused is queued again without a look at the GOAWAY flag
  (`connection.rs:502`). This matters for a request held back until SETTINGS that
  are read together with a GOAWAY: it is passed on first, is not among the requests
  that the GOAWAY fails, and is sent by `recv_max_streams` (`connection.rs:1317`),
  where `CHANGELOG.md:101` says that unsent requests are failed. The model has this
  behaviour, and no property excludes it; `RequestsAccounted` holds of the request
  all the same.
- A frame without a body ends the parsing of a read (`h3.rs:1032`): what follows it
  waits for the next read. `EventsComplete` excepts streams with such a frame from
  completeness, and from nothing else.
- A CONNECT stream may end inside a frame. If that is a DATA frame whose body is
  used up, the test of `h3.rs:1032` does not leave the loop, since the stream has
  ended: `parse_stream_data` never returns, and the reactor's thread with it. The
  model has this as the outcome `loop`. Inside any other frame the loop is left
  with a buffer that is not empty, the end is not reported (`h3.rs:1169`), and the
  session is kept. `Truncated` names both, and `StreamsServed` excepts them.

Three hazards have no property. A request for a stream may wait while the streams
below the threshold stay open (`session.rs:2254`), and a session whose CONNECT
stream is reset for an error of its frames goes on until the peer answers
(`h3.rs:418`): no document promises more. The arithmetic of error codes
(`utils.rs:78`) is proved instead.

A mutant accompanies every property: a fault of the kind a change could introduce,
such as a dropped guard or a missing reset, with which the run must fail.

### Bounds

- `stream`: two requests of every kind, so that one can be in progress and the
  other buffered, and streams of all three directions; lengths 0 to 2 against a
  buffer of 3; credit that arrives in units up to 4, so that a write is split at
  every place; reads smaller and larger than what arrives.
- `session_data`: two streams and two requests of 1 or 3 bytes, initial limit 0,
  where only DATA_BLOCKED makes the receiver act, and window 2: a write spans
  several limits, and a stale queue entry meets a live one.
- `session_streams`: five requests, both limits 2, so that either can be the one
  that is reached.
- `session`: three requests, two peer streams, three capsules, two datagrams; the
  buffers hold 2, 1 and 1, so that each can overflow; the initial stream limit is
  0, so that requests wait for a capsule.
- `session_pair`: two codes, so that a wrong one can arrive, and one flow-control
  capsule from each end, which may meet an end that is closed.
- `connection`: two requests at a client, one at a server, two CONNECT streams and
  none allowed by QUIC at first, so that requests block; a peer stream beyond a
  session's limit; early events limited to one for a session and two in all, so
  that a session's limit refuses one while the connection has room. The limit of the
  connection is reached, and would need a third event to refuse one.
- `runtime`: one handle and one request, an event queue of 2 and a command channel
  of 1, so that both overflow; two events that answer nothing.
- `receive_stream`: three bytes against chunks of 2, three tasks that use `read()`,
  two that use all operations or one that does, three requests to the core.
- `client`: two callers, two addresses, two runtimes; any caller may be cancelled at
  every await, at the start of a runtime twice.
- `handles`: a client with two sessions, or a server with one session and three
  streams; three consumers, of which two share a queue; two effects may wait.
- `h3_request`: up to three frames with lengths 0 to 2, at and beyond the limit.
- `h3_control`: two streams, seven units in all, three of them unread at a time:
  two streams of one role, and SETTINGS behind another frame.

Requests and streams that are interchangeable gain nothing from a third copy in
these interleavings; for the modules with proofs the theorems remove the
question.

### Fairness

Only of what the code or the network does by itself: the reactor and the event
loop handle what is there, QUIC delivers, capsules arrive. It is weak fairness,
written with the guards of the actions (`[]<>~guard` or the action happens
infinitely often) and, where several events are handled by one loop, of the group
rather than of each, which assumes less. What goes beyond that:

- In `ReceiveStream` each reader is strongly fair: asyncio runs ready tasks in the
  order they became ready, so that a task that is ready again and again runs.
- In `SessionData` the receiver reads the streams it keeps open, since consumption
  is counted on delivery. In `SessionStreams` an accepted stream ends some time.
- In `Stream` the session grants credit and the peer ends its half some time.
- In `Connection` the peer answers CONNECT requests, sends SETTINGS and grants
  streams.
- In `Runtime` the shutdown's timeout is forced only when the event it waits for
  was dropped.

Nothing else is assumed of applications: no fairness of new requests, resets,
stops, cancellations or calls of `close()`.

## What is proved

Proved for every value of the constants that satisfies the assumptions named in
the modules: sizes, limits, lengths and capacities are natural numbers, capacities
of queues are positive, the set of `create_stream` requests of `SessionStreams` is
finite, and the values that stand for "nobody" or "no request" are not callers or
requests. `Credit` and `Waker` are only instantiated, and their assumptions are
hypotheses of their theorems. None of the properties below is inductive as it
stands; each item names what had to be added.

- **Streams** (`StreamOps_proofs`, `Stream_proofs`). `TypeCorrect`,
  `EveryRequestOnce`, `CreditIsConserved`, `NoRequestWaitsInVain`. The invariant
  adds, for the stream (`StreamInv`), that the requests in the two queues are
  distinct, that the buffer size is the sum of the buffered lengths and that a
  terminal half is empty; for the driver (`SendInv`, `RecvInv`), how its send
  buffer and its armed receive agree with the half states. `StreamOps_proofs`
  shows that each operation preserves `StreamInv` and answers exactly the requests
  it lets go; `Stream_proofs` has one lemma per action.
- **Bytes of a stream** (`StreamBytes_proofs`). `WritesLeaveInOrder`: what left is
  a prefix of what was accepted, the write buffer spells the rest, and a write that
  is answered has left. "The buffer spells the rest" is stated by the ends of the
  chunks, a strictly increasing sequence, instead of a fold; `StreamOps_proofs`
  shows that appending, taking whole chunks from the front, splitting one and
  clearing keep it. `OrderInv` adds that a reset fails every write with bytes that
  did not leave. `EveryByteIsDelivered` is the receiving half: until a reset, what
  the peer sent is delivered, on its way to a read or still in QUIC, and the end is
  reported after it; `BytesInv` adds that an armed receive and an undelivered event
  exclude each other and both have a read that waits for them.
- **Error codes** (`StreamBytes_proofs`). `CodesArrive`, `NoReservedCodeSent` and
  `CodesAreTold`, from the one fact that the first code of the range follows a
  reserved one, which holds of 0x52E4A40FA8DB. They are formulas of constants,
  which no step can change, and therefore theorems only.
- **Credit** (`SessionStreams_proofs`, last part). `NeverOverspent`, `EveryLimitIncreases`,
  `ReceiverIsBounded`. The invariant says that the limits on their way increase
  from the spender's up to the one advertised last, which is the initial one or at
  most a window above what was consumed.
- **Stream flow control** (`SessionStreams_proofs`). `StreamLimitsRespected`,
  `EveryWaitHasAReason`, `RequestsKept`, and the refinement
  `StreamsImplementCredit`. The invariant relates the limits on their way to those
  at both ends (`LimitsInv`), the counts of streams opened, arriving, accepted and
  closed (`CountsInv`), and the queue to the limit it waits for and to the report
  of it (`QueueInv`). For the requests, `RInv` says that queue and created requests
  are disjoint, that the queue has no duplicates and that the counter is the number
  of requests with a stream: this is what keeps the subtraction of `defer_stream`
  from underflowing. The refinement proves initial states and one step per action.
- **Life of a session** (`Session_proofs`). `EachRequestAnsweredOnce`,
  `BuffersAlwaysEmptied`, `EventsAlwaysPaired`. The methods are operators on the
  session's record, so the invariant `Good` is a predicate of the record, the
  requests made and the streams arrived, and one lemma per method says that it is
  kept. `Good` says where a request can be while it is not
  answered and that no queue has it twice (`Answered`), which streams were announced
  (`Paired`), that buffers are within their limits (`Within`), and which events the
  state implies (`Lifecycle`). A replay runs
  a handler for each buffered item in one call. Its lemma is an induction over the
  number of items left: the set of lengths up to which the replay keeps `Good` is
  inductive. `Replayed` says that a session that leaves the call Connected has
  nothing left to replay.
- **Wake-ups** (`Reactor_proofs`). `WakeUpNeverLost` and `AtMostOneWakeUp` hold of
  the protocol `Waker` by itself. The first is not inductive: that a wake-up
  suppressed by the flag is harmless needs the second, which says where the wake-up
  that set the flag is.
- **Runtime** (`Reactor_proofs` for the invariant and the reactor's handlers,
  `Runtime_proofs` for the rest). `NoRequestForgotten`, `RuntimeImplementsWaker`
  and, from it, `NoEventLeftAsleep`. Beside the wake-up protocol's invariant there
  are five parts: what the channels contain (`SeqInv`); how far `start()` and
  `close()` have come decides who has the lock, whether the endpoint and its thread
  exist, and that a joined thread is over (`LifeInv`); a connection that is not open
  holds no request, and none is open once the reactor has left its loop
  (`CoreInv`); the shutdown event is the last of the queue (`LastInv`); and the last
  event of a connection that is no longer open is its close, unless an event was
  dropped (`KnownInv`). The last two give that a release without timeout finds no
  connection it must close itself. The refinement maps the event queue to its
  length and proves initial states and one step per action.
- **Client** (`Client_proofs`). `NothingUnowned`: whatever is open has an owner that
  will close it, outside `Stranded` and `Leaked`. `RuntimeShared`: beside runtimes
  that cancelled calls left, at most one is starting or open. Neither is inductive.
  `StartInv` says that the holder of the lock is the one caller that waits for a
  start, that a start is waited for or abandoned, that one which is waited for
  excludes a controller, and that an abandoned runtime never becomes the controller;
  without it a second cancellation, which frees the lock in the middle of a start,
  could lead to two. `CloseInv` says that a controller in a client that has closed
  came late, and that a close that is closing the controller has one. `RaceInv`
  says, per connection attempt, how the state of the connection, of its task and of
  its caller go together, and where the attempt is accounted for.

The properties that a run checks were checked by TLC before they were proved.

## What is only model-checked

- Liveness under fairness, in every module: the provers have no rules for it here.
- `SessionData`: its properties sum over functions from streams to bytes, and its
  actions flush any number of streams in one call by a fold. What a fold computes
  for every input needs an induction over an operator parameter.
- `Connection`: the counter of early events is a sum over the buffers, and
  termination and replay are folds over the sessions and the buffered events.
- `SessionPair`: a read handles any number of frames by a fold, and the main
  property is liveness.
- `Handles`, `ReceiveStream`: a poll is a fold over the effects that wait, and
  every byte in one place is a sum over the readers.
- `H3RequestStream`, `H3ControlStreams`: the parsers are recursive operators over
  what was read.

## What is not modelled

- QPACK: a wrapper of a C library with both dynamic table capacities 0, so that no
  header block waits. TLS, byte encodings and type conversions at the FFI: no
  protocol state; unit tests reach them.
- Configuration, constants and errors: declarations.
- Methods of the API that only pass a request on (writes, datagrams,
  diagnostics), and `listen` and `close` of the server.
- In the modelled parts: sessions without negotiated flow control (credit is then
  unlimited and the code idle), saturation of 64-bit counters, `send_datagram`,
  reads of size zero in Python, encoding and validation of HTTP/3 headers, routing
  of UDP datagrams and reuse of connection handles in QUIC's implementation.
