------------------------------- MODULE Runtime -------------------------------
(****************************************************************************)
(* The path of a request from Python to the protocol core and back, and the *)
(* life of the runtime that carries it.  Three threads run: the asyncio     *)
(* thread (controller, pending requests, waker loop), the reactor's thread  *)
(* (commands, connections, events) and, during close, a thread of the       *)
(* executor that joins the reactor.  The asyncio thread is sequential: its  *)
(* other tasks only run while the waker loop awaits.                        *)
(*                                                                          *)
(* A connection is abstracted to the requests that wait in it; Connection   *)
(* and Session say how it answers them.                                     *)
(*                                                                          *)
(* Sources: _controller/controller.py, _controller/pending.py,              *)
(* ffi/endpoint.rs, ffi/waker.rs, runtime/reactor.rs, runtime/channel.rs,   *)
(* transport/endpoint.rs.                                                   *)
(****************************************************************************)
EXTENDS Naturals, Sequences, FiniteSets, Functions

CONSTANTS
    Requests,         \* request ids
    Handles,          \* connection handles; as many as max_connections
    Capacity,         \* of the event queue
    CommandCapacity,  \* of the command channel
    MaxNews           \* bound on events that answer nothing

ASSUME RuntimeAssumption ==
    /\ Capacity \in Nat \ {0}
    /\ CommandCapacity \in Nat \ {0}
    /\ MaxNews \in Nat

NoHandle == "connect"        \* the target of a connect request

VARIABLES
    \* the controller
    is_closed,       \* EndpointController._is_closed
    lock,            \* _runtime_lock: who holds it
    starter,         \* start(): idle, creating, done, failed
    closer,          \* close(): idle, lock, joining, event, stopping, released
    endpoint,        \* _endpoint is set
    sockets,         \* the socket pair: none, open, closed
    known,           \* _connections
    seen,            \* handles whose connection object the application may hold
    shutdown_event,  \* _runtime_shutdown_event
    \* pending requests
    future,          \* state of each request's future
    requests,        \* keys of PendingRequestManager._requests
    \* executor, command channel, reactor, connections
    is_client,       \* the endpoint has a client configuration
    executor,        \* Endpoint.close(): idle, send, join, returned
    thread,          \* the reactor's thread was started
    commands,        \* the command channel
    conns,           \* TransportEndpoint.connections: none, open, closed
    waiting,         \* requests a connection has yet to answer
    news,            \* events so far that answer nothing
    \* events and waker
    events, emitted, phase, wake, signaled, bytes, loop,
    \* histories
    lost,            \* requests whose answer a full queue dropped
    overflow,        \* some event was dropped
    timed_out,       \* the shutdown timeout fired
    orphans          \* connections that the release itself had to close

controllerVars == << is_closed, lock, starter, closer, endpoint, sockets >>
requestVars == << future, requests >>
coreVars == << is_client, conns, waiting, news >>
wakerVars == << phase, wake, signaled, bytes, loop >>
histories == << timed_out, orphans >>
vars == << controllerVars, known, seen, shutdown_event, requestVars, executor,
           thread, commands, coreVars, events, emitted, wakerVars, lost,
           overflow, histories >>

(* The wake-up protocol, with the number of queued events as its queue.     *)
W == INSTANCE Waker WITH queue <- Len(events)

------------------------------------------------------------------------------
(* Events carry the requests they answer.                                   *)
Failed(r)         == [kind |-> "failed", handle |-> NoHandle, answers |-> {r}, closed |-> FALSE]
Effects(h, rs, c) == [kind |-> "effects", handle |-> h, answers |-> rs, closed |-> c]
Spawned(h)        == [kind |-> "spawned", handle |-> h, answers |-> {}, closed |-> FALSE]
ReactorShutdown   == [kind |-> "shutdown", handle |-> NoHandle, answers |-> {}, closed |-> FALSE]

Command(r, h) == [kind |-> "request", request |-> r, handle |-> h]
ShutdownReactor == [kind |-> "shutdown"]

InCommands == {c.request : c \in {d \in Range(commands) : d.kind = "request"}}
InEvents == UNION {e.answers : e \in Range(events)}
InCore == UNION {waiting[h] : h \in Handles}

Futures == {"none", "pending", "answered", "failed", "cancelled"}
EventSet == [kind : {"failed", "effects", "spawned", "shutdown"},
             handle : Handles \cup {NoHandle}, answers : SUBSET Requests,
             closed : BOOLEAN]

(* Type invariant: controller, executor, channels, reactor and endpoint keep *)
(* their types, and the command channel its capacity.                        *)
TypeOK ==
    /\ is_closed \in BOOLEAN
    /\ lock \in {"free", "start", "close"}
    /\ starter \in {"idle", "creating", "done", "failed"}
    /\ closer \in {"idle", "lock", "joining", "event", "stopping", "released"}
    /\ endpoint \in BOOLEAN
    /\ sockets \in {"none", "open", "closed"}
    /\ known \subseteq Handles /\ seen \subseteq Handles
    /\ shutdown_event \in BOOLEAN
    /\ future \in [Requests -> Futures]
    /\ requests \subseteq Requests
    /\ executor \in {"idle", "send", "join", "returned"}
    /\ thread \in BOOLEAN /\ is_client \in BOOLEAN
    /\ Len(commands) <= CommandCapacity
    /\ conns \in [Handles -> {"none", "open", "closed"}]
    /\ waiting \in [Handles -> SUBSET Requests]
    /\ news \in 0 .. MaxNews
    /\ Range(events) \subseteq EventSet
    /\ lost \subseteq Requests /\ overflow \in BOOLEAN
    /\ timed_out \in BOOLEAN /\ orphans \subseteq Handles
    /\ W!TypeOK

Init ==
    /\ is_closed = FALSE /\ lock = "free" /\ starter = "idle" /\ closer = "idle"
    /\ endpoint = FALSE /\ sockets = "none"
    /\ known = {} /\ seen = {} /\ shutdown_event = FALSE
    /\ future = [r \in Requests |-> "none"] /\ requests = {}
    /\ executor = "idle" /\ thread = FALSE /\ commands = << >>
    /\ is_client \in BOOLEAN
    /\ conns = [h \in Handles |-> "none"] /\ waiting = [h \in Handles |-> {}]
    /\ news = 0 /\ events = << >>
    /\ lost = {} /\ overflow = FALSE /\ timed_out = FALSE /\ orphans = {}
    /\ W!Init

------------------------------------------------------------------------------
(* The asyncio thread: start and close.                                     *)

(* Other tasks run only while the waker loop awaits.                        *)
LoopAwaits == loop \in {"waiting", "stopped"}

(* _acquire_runtime, under the lock: refuse after close, return if started, *)
(* otherwise create the sockets and let the executor build the endpoint.    *)
StartLock ==
    /\ LoopAwaits
    /\ starter = "idle"
    /\ lock = "free"
    /\ \/ /\ is_closed
          /\ starter' = "failed"
          /\ UNCHANGED << lock, sockets >>
       \/ /\ ~is_closed
          /\ starter' = "creating"
          /\ lock' = "start"
          /\ sockets' = "open"
    /\ UNCHANGED << is_closed, closer, endpoint, known, seen, shutdown_event, requestVars,
                    executor, thread, commands, coreVars, events, emitted, wakerVars,
                    lost, overflow, histories >>

(* Endpoint.__new__ on the executor: the reactor's thread runs.             *)
ThreadStarted ==
    /\ starter = "creating"
    /\ ~thread
    /\ thread' = TRUE
    /\ UNCHANGED << controllerVars, known, seen, shutdown_event, requestVars, executor,
                    commands, coreVars, events, emitted, wakerVars, lost, overflow, histories >>

(* The constructor returned: the waker loop is created, the lock released.  *)
StartDone ==
    /\ starter = "creating"
    /\ thread
    /\ starter' = "done"
    /\ endpoint' = TRUE
    /\ lock' = "free"
    /\ UNCHANGED << is_closed, closer, sockets, known, seen, shutdown_event, requestVars,
                    executor, thread, commands, coreVars, events, emitted, wakerVars,
                    lost, overflow, histories >>

(* The constructor raised: the sockets are closed, start() may be retried.  *)
StartFails ==
    /\ starter = "creating"
    /\ ~thread
    /\ starter' = "idle"
    /\ sockets' = "none"
    /\ lock' = "free"
    /\ UNCHANGED << is_closed, closer, endpoint, known, seen, shutdown_event, requestVars,
                    executor, thread, commands, coreVars, events, emitted, wakerVars,
                    lost, overflow, histories >>

(* close()                                                                  *)
CloseCall ==
    /\ LoopAwaits
    /\ ~is_closed
    /\ is_closed' = TRUE
    /\ closer' = "lock"
    /\ UNCHANGED << lock, starter, endpoint, sockets, known, seen, shutdown_event,
                    requestVars, executor, thread, commands, coreVars, events, emitted,
                    wakerVars, lost, overflow, histories >>

(* _release_runtime with the lock and an endpoint: Endpoint.close() goes to *)
(* the executor.                                                            *)
CloseLock ==
    /\ LoopAwaits
    /\ closer = "lock"
    /\ lock = "free"
    /\ endpoint
    /\ lock' = "close"
    /\ closer' = "joining"
    /\ executor' = "send"
    /\ UNCHANGED << is_closed, starter, endpoint, sockets, known, seen, shutdown_event,
                    requestVars, thread, commands, coreVars, events, emitted, wakerVars,
                    lost, overflow, histories >>

(* Endpoint.close(): blocking_send waits for room in the command channel.   *)
SendShutdown ==
    /\ executor = "send"
    /\ Len(commands) < CommandCapacity
    /\ commands' = Append(commands, ShutdownReactor)
    /\ executor' = "join"
    /\ UNCHANGED << controllerVars, known, seen, shutdown_event, requestVars, thread,
                    coreVars, events, emitted, wakerVars, lost, overflow, histories >>

(* Endpoint.close(): the reactor's thread is joined.                        *)
Join ==
    /\ executor = "join"
    /\ phase = "done"
    /\ wake = "no"
    /\ executor' = "returned"
    /\ UNCHANGED << controllerVars, known, seen, shutdown_event, requestVars, thread,
                    commands, coreVars, events, emitted, wakerVars, lost, overflow, histories >>

(* _release_runtime resumes after the join and awaits the shutdown event.   *)
Joined ==
    /\ LoopAwaits
    /\ closer = "joining"
    /\ executor = "returned"
    /\ closer' = "event"
    /\ UNCHANGED << is_closed, lock, starter, endpoint, sockets, known, seen,
                    shutdown_event, requestVars, executor, thread, commands, coreVars,
                    events, emitted, wakerVars, lost, overflow, histories >>

(* PendingRequestManager.fail_all                                           *)
FailAll ==
    /\ future' = [r \in Requests |-> IF r \in requests /\ future[r] = "pending"
                                     THEN "failed" ELSE future[r]]
    /\ requests' = {}

(* _release_runtime after the wait, up to the cancellation of the loop.     *)
ReleaseAll ==
    /\ LoopAwaits
    /\ orphans' = known
    /\ known' = {}
    /\ FailAll
    /\ lock' = "close"
    /\ closer' = "stopping"
    /\ loop' = "stopped"
    /\ UNCHANGED << is_closed, starter, endpoint, sockets, seen, shutdown_event, executor,
                    thread, commands, coreVars, events, emitted, phase, wake, signaled,
                    bytes, lost, overflow >>

ReleaseUnstarted ==
    /\ closer = "lock"
    /\ lock = "free"
    /\ ~endpoint
    /\ ReleaseAll
    /\ UNCHANGED timed_out

ReleaseAfterEvent ==
    /\ closer = "event"
    /\ shutdown_event
    /\ ReleaseAll
    /\ UNCHANGED timed_out

(* Nothing is left that could set the shutdown event: a full queue dropped  *)
(* ReactorShutdown, and only the timeout ends the wait.                     *)
EventDropped ==
    /\ phase = "done"
    /\ wake = "no"
    /\ bytes = 0
    /\ loop = "waiting"
    /\ ~shutdown_event

(* asyncio.timeout fires, also while the reactor still runs: the executor   *)
(* has no free thread, or a send to a socket takes long.                    *)
ReleaseAfterTimeout ==
    /\ closer \in {"joining", "event"}
    /\ ~shutdown_event
    /\ ReleaseAll
    /\ timed_out' = TRUE

(* The loop's task has ended: close the sockets, release the lock.          *)
CloseSockets ==
    /\ closer = "stopping"
    /\ closer' = "released"
    /\ lock' = "free"
    /\ sockets' = IF sockets = "none" THEN "none" ELSE "closed"
    /\ UNCHANGED << is_closed, starter, endpoint, known, seen, shutdown_event, requestVars,
                    executor, thread, commands, coreVars, events, emitted, wakerVars,
                    lost, overflow, histories >>

------------------------------------------------------------------------------
(* The asyncio thread: requests.                                            *)

(* Endpoint.connect and handle_protocol_event: refuse while the event queue *)
(* is nearly full or the channel is full or closed.                         *)
Refused ==
    \/ ~endpoint
    \/ Len(events) > (Capacity * 9) \div 10
    \/ Len(commands) = CommandCapacity
    \/ phase = "done" /\ wake = "no"

(* execute_request up to its await.  A dispatcher that raises evicts the    *)
(* request at once.                                                         *)
Request(r, h) ==
    /\ LoopAwaits
    /\ future[r] = "none"
    /\ h \in seen \cup {NoHandle}
    /\ \/ /\ Refused
          /\ future' = [future EXCEPT ![r] = "failed"]
          /\ UNCHANGED << requests, commands >>
       \/ /\ ~Refused
          /\ future' = [future EXCEPT ![r] = "pending"]
          /\ requests' = requests \cup {r}
          /\ commands' = Append(commands, Command(r, h))
    /\ UNCHANGED << controllerVars, known, seen, shutdown_event, executor, thread, coreVars,
                    events, emitted, wakerVars, lost, overflow, histories >>

(* The task that awaits the future is cancelled.                            *)
Cancel(r) ==
    /\ LoopAwaits
    /\ future[r] = "pending"
    /\ future' = [future EXCEPT ![r] = "cancelled"]
    /\ UNCHANGED << controllerVars, known, seen, shutdown_event, requests, executor, thread,
                    commands, coreVars, events, emitted, wakerVars, lost, overflow, histories >>

(* It runs again, later, and evicts the request.                            *)
Evict(r) ==
    /\ LoopAwaits
    /\ r \in requests
    /\ future[r] = "cancelled"
    /\ requests' = requests \ {r}
    /\ UNCHANGED << controllerVars, known, seen, shutdown_event, future, executor, thread,
                    commands, coreVars, events, emitted, wakerVars, lost, overflow, histories >>

------------------------------------------------------------------------------
(* The reactor's thread.                                                    *)

Running == thread /\ phase = "running" /\ wake = "no"

EmitBug(es) ==
    LET room == Capacity - Len(events)
        kept == SubSeq(es, 1, IF room < Len(es) THEN room ELSE Len(es))
        dropped == Range(SubSeq(es, Len(kept) + 1, Len(es)))
    IN /\ events' = events \o kept
       /\ emitted' = (es # << >>)
       /\ lost' = lost \cup UNION {e.answers : e \in dropped}
       /\ overflow' = (overflow \/ dropped # {})

(* event_tx.push for each event in turn; a full queue drops it.             *)
Emit(es) ==
    LET room == Capacity - Len(events)
        kept == SubSeq(es, 1, IF room < Len(es) THEN room ELSE Len(es))
        dropped == Range(SubSeq(es, Len(kept) + 1, Len(es)))
    IN /\ events' = events \o kept
       /\ emitted' = (emitted \/ kept # << >>)
       /\ lost' = lost \cup UNION {e.answers : e \in dropped}
       /\ overflow' = (overflow \/ dropped # {})

NotTheCore == << controllerVars, known, seen, shutdown_event, requestVars, executor,
                 thread, is_client, wake, signaled, bytes, loop, histories >>

(* handle_command takes the next command.  Events of the last iteration     *)
(* have been announced before.                                              *)
TakeCommand(kind) ==
    /\ Running
    /\ ~emitted
    /\ commands # << >>
    /\ Head(commands).kind = kind
    /\ commands' = Tail(commands)

(* CreateConnection: TransportEndpoint.connect fails (no client             *)
(* configuration, connection limit, QUIC) or spawns a connection.           *)
CreateConnection ==
    /\ TakeCommand("request")
    /\ Head(commands).handle = NoHandle
    /\ LET r == Head(commands).request IN
       \/ /\ Emit(<< Failed(r) >>)
          /\ UNCHANGED << conns, waiting, news >>
       \/ \E h \in {g \in Handles : conns[g] = "none"} :
             /\ is_client
             /\ conns' = [conns EXCEPT ![h] = "open"]
             /\ waiting' = [waiting EXCEPT ![h] = {r}]
             /\ Emit(<< Spawned(h) >>)
             /\ UNCHANGED news
    /\ UNCHANGED << NotTheCore, phase >>

AnswerBug(h, rs) ==
    \/ \E a \in SUBSET rs :
          /\ waiting' = [waiting EXCEPT ![h] = rs \ a]
          /\ conns' = conns
          /\ Emit(IF a = {} THEN << >> ELSE << Effects(h, a, FALSE) >>)
    \/ /\ waiting' = [waiting EXCEPT ![h] = {}]
       /\ conns' = [conns EXCEPT ![h] = "closed"]
       /\ Emit(<< Effects(h, {}, TRUE) >>)

(* A handler of an open connection answers some of its requests, or ends    *)
(* the connection and answers them all.                                     *)
Answer(h, rs) ==
    \/ \E a \in SUBSET rs :
          /\ waiting' = [waiting EXCEPT ![h] = rs \ a]
          /\ conns' = conns
          /\ Emit(IF a = {} THEN << >> ELSE << Effects(h, a, FALSE) >>)
    \/ /\ waiting' = [waiting EXCEPT ![h] = {}]
       /\ conns' = [conns EXCEPT ![h] = "closed"]
       /\ Emit(<< Effects(h, rs, TRUE) >>)

(* ProtocolEvent: TransportEndpoint.handle_protocol_event.  An unknown      *)
(* handle fails the request; a closed connection answers it at once.        *)
HandleProtocolEvent ==
    /\ TakeCommand("request")
    /\ Head(commands).handle # NoHandle
    /\ LET r == Head(commands).request
           h == Head(commands).handle
       IN \/ /\ conns[h] = "none"
             /\ Emit(<< Failed(r) >>)
             /\ UNCHANGED << conns, waiting >>
          \/ /\ conns[h] = "closed"
             /\ Emit(<< Effects(h, {r}, FALSE) >>)
             /\ UNCHANGED << conns, waiting >>
          \/ /\ conns[h] = "open"
             /\ Answer(h, waiting[h] \cup {r})
    /\ UNCHANGED << NotTheCore, phase, news >>

(* The orders in which the elements of a set can be listed.                 *)
Orders(S) == UNION {Bijection(1 .. n, S) : n \in 0 .. Cardinality(S)}

(* ShutdownReactor: TransportEndpoint.shutdown closes every connection      *)
(* through the protocol core, in the order of the handles, which is any     *)
(* order here; the loop of run() is left.                                   *)
Shutdown ==
    /\ TakeCommand("shutdown")
    /\ LET open == {h \in Handles : conns[h] = "open"} IN
       \E order \in Orders(open) :
          Emit([i \in DOMAIN order |-> Effects(order[i], waiting[order[i]], TRUE)])
    /\ conns' = [h \in Handles |-> IF conns[h] = "open" THEN "closed" ELSE conns[h]]
    /\ waiting' = [h \in Handles |-> {}]
    /\ phase' = "closing"
    /\ UNCHANGED << NotTheCore, news >>

(* handle_datagram or handle_timeout on a connection: QUIC brings answers,  *)
(* news, or the end; several datagrams may be handled in one iteration.     *)
Quic(h) ==
    /\ Running
    /\ conns[h] = "open"
    /\ \/ /\ news < MaxNews
          /\ news' = news + 1
          /\ Emit(<< Effects(h, {}, FALSE) >>)
          /\ UNCHANGED << conns, waiting >>
       \/ /\ Answer(h, waiting[h])
          /\ << waiting, conns >>' # << waiting, conns >>
          /\ UNCHANGED news
    /\ UNCHANGED << NotTheCore, commands, phase >>

(* QUIC has drained a closed connection; its handle is free again.          *)
Drained(h) ==
    /\ Running
    /\ conns[h] = "closed"
    /\ conns' = [conns EXCEPT ![h] = "none"]
    /\ UNCHANGED << NotTheCore, commands, phase, waiting, news, events, emitted, lost, overflow >>

(* A server accepts a connection.                                           *)
Accept(h) ==
    /\ Running
    /\ ~is_client
    /\ news < MaxNews
    /\ news' = news + 1
    /\ conns[h] = "none"
    /\ conns' = [conns EXCEPT ![h] = "open"]
    /\ Emit(<< Spawned(h) >>)
    /\ UNCHANGED << NotTheCore, commands, phase, waiting >>

NotTheWaker == << controllerVars, known, seen, shutdown_event, requestVars, executor,
                  thread, commands, coreVars, lost, overflow, histories >>

(* The end of an iteration and of run(), the swap and the write.            *)
CallWaker == UNCHANGED << NotTheWaker, events >> /\ W!CallWaker
Swap == UNCHANGED << NotTheWaker, events >> /\ W!Swap
Write == UNCHANGED << NotTheWaker, events >> /\ W!Write

(* notify_shutdown: push the last event and wake in any case.               *)
NotifyShutdown ==
    /\ phase = "closing"
    /\ wake = "no"
    /\ ~emitted
    /\ IF Len(events) < Capacity
       THEN events' = Append(events, ReactorShutdown) /\ UNCHANGED overflow
       ELSE overflow' = TRUE /\ UNCHANGED events
    /\ phase' = "done"
    /\ wake' = "swap"
    /\ UNCHANGED << controllerVars, known, seen, shutdown_event, requestVars, executor,
                    thread, commands, coreVars, lost, emitted, signaled, bytes, loop, histories >>

------------------------------------------------------------------------------
(* The asyncio thread: the waker loop.                                      *)

Recv == endpoint /\ UNCHANGED << NotTheWaker, events >> /\ W!Recv
Drain == UNCHANGED << NotTheWaker, events >> /\ W!Drain
Clear == UNCHANGED << NotTheWaker, events >> /\ W!Clear
PollEnd == UNCHANGED << NotTheWaker, events >> /\ W!PollEnd

(* complete_request and fail_request, for each answered request.            *)
Complete(rs) ==
    /\ future' = [r \in Requests |->
                    IF r \in rs \cap requests /\ future[r] = "pending"
                    THEN "answered" ELSE future[r]]
    /\ requests' = requests \ rs

PollBug ==
    /\ loop = "poll"
    /\ events # << >>
    /\ LET e == Head(events) IN
       /\ Complete(e.answers)
       /\ known' = CASE e.kind = "spawned" -> known \cup {e.handle}
                     [] e.closed -> known \ {e.handle}
                     [] OTHER -> known
       /\ seen' = IF e.kind = "spawned" THEN seen \cup {e.handle} ELSE seen
       /\ shutdown_event' = (shutdown_event \/ e.kind = "shutdown")
    /\ events' = Tail(events)
    /\ loop' = "waiting"
    /\ UNCHANGED << controllerVars, executor, thread, commands, coreVars, emitted,
                    phase, wake, signaled, bytes, lost, overflow, histories >>

(* poll_runtime_events pops an event and _process_runtime_event handles it. *)
Poll ==
    /\ loop = "poll"
    /\ events # << >>
    /\ LET e == Head(events) IN
       /\ Complete(e.answers)
       /\ known' = CASE e.kind = "spawned" -> known \cup {e.handle}
                     [] e.closed -> known \ {e.handle}
                     [] OTHER -> known
       /\ seen' = IF e.kind = "spawned" THEN seen \cup {e.handle} ELSE seen
       /\ shutdown_event' = (shutdown_event \/ e.kind = "shutdown")
    /\ events' = Tail(events)
    /\ UNCHANGED << controllerVars, executor, thread, commands, coreVars, emitted,
                    wakerVars, lost, overflow, histories >>

------------------------------------------------------------------------------
Controller ==
    \/ StartLock \/ ThreadStarted \/ StartDone \/ StartFails
    \/ CloseCall \/ CloseLock \/ SendShutdown \/ Join \/ Joined
    \/ ReleaseUnstarted \/ ReleaseAfterEvent \/ ReleaseAfterTimeout \/ CloseSockets

Reactor ==
    \/ CreateConnection \/ HandleProtocolEvent \/ Shutdown
    \/ \E h \in Handles : Quic(h) \/ Drained(h) \/ Accept(h)
    \/ CallWaker \/ Swap \/ Write \/ NotifyShutdown

WakerLoop == Recv \/ Drain \/ Clear \/ Poll \/ PollEnd

Application ==
    \E r \in Requests :
        \/ \E h \in Handles \cup {NoHandle} : Request(r, h)
        \/ Cancel(r)
        \/ Evict(r)

Next == Controller \/ Reactor \/ WakerLoop \/ Application

Spec == Init /\ [][Next]_vars

(* The threads run and the constructor of the endpoint returns.  The        *)
(* timeout need only fire when nothing else can end the wait.  Nothing is   *)
(* assumed of the application, of QUIC or of the peers.  This is weak       *)
(* fairness, with the guards of the actions in place of ENABLED.            *)
CanClose == \/ /\ LoopAwaits
               /\ \/ closer = "lock" /\ lock = "free" /\ endpoint
                  \/ closer = "joining" /\ executor = "returned"
            \/ closer = "stopping"

CanRelease == /\ LoopAwaits
              /\ \/ closer = "lock" /\ lock = "free" /\ ~endpoint
                 \/ closer = "event" /\ shutdown_event
                 \/ closer \in {"joining", "event"} /\ EventDropped

CanExecute == \/ executor = "send" /\ Len(commands) < CommandCapacity
              \/ executor = "join" /\ phase = "done" /\ wake = "no"

CanWake == wake # "no" \/ (emitted /\ phase # "done") \/ phase = "closing"

CanPoll == loop \in {"drain", "clear", "poll"}
           \/ (loop = "waiting" /\ endpoint /\ bytes > 0)

CanTake == Running /\ ~emitted /\ commands # << >>

Start == ThreadStarted \/ StartDone \/ StartFails
Close == CloseLock \/ Joined \/ CloseSockets
Release == \/ ReleaseUnstarted \/ ReleaseAfterEvent
           \/ EventDropped /\ ReleaseAfterTimeout
HandleCommand == CreateConnection \/ HandleProtocolEvent \/ Shutdown
WakeUp == CallWaker \/ Swap \/ Write \/ NotifyShutdown

LiveSpec ==
    /\ Spec
    /\ []<>(starter # "creating") \/ []<><< Start >>_vars
    /\ []<>(~CanClose) \/ []<><< Close >>_vars
    /\ []<>(~CanRelease) \/ []<><< Release >>_vars
    /\ []<>(~CanExecute) \/ []<><< SendShutdown \/ Join >>_vars
    /\ []<>(~CanTake) \/ []<><< HandleCommand >>_vars
    /\ []<>(~CanWake) \/ []<><< WakeUp >>_vars
    /\ []<>(~CanPoll) \/ []<><< WakerLoop >>_vars

------------------------------------------------------------------------------
(* No future is forgotten: a pending request is registered and is in the    *)
(* command channel, in a connection, or in the event queue, unless a full   *)
(* queue dropped its answer (channel.rs, process_transport_event).          *)
PendingIsSomewhere ==
    \A r \in Requests : future[r] = "pending" =>
        /\ r \in requests
        /\ r \in InCommands \cup InCore \cup InEvents \cup lost

(* Once the runtime is released no connection is known and, unless the      *)
(* shutdown timed out, no future is pending, requests made later fail at    *)
(* once, and the reactor's thread is over, so that no thread writes to the  *)
(* sockets that are closed (controller.py, _release_runtime).               *)
ReleasedHoldsNothing ==
    closer \in {"stopping", "released"} =>
        /\ known = {}
        /\ \/ timed_out
           \/ /\ \A r \in Requests : future[r] # "pending"
              /\ requests = {}
              /\ thread => phase = "done" /\ wake = "no"

(* The final close events reach Python: unless an event was dropped or the  *)
(* shutdown timed out, the release finds no connection that it must close   *)
(* itself, because the shutdown event is the last in the queue and is       *)
(* awaited.                                                                 *)
FinalCloseEvents == orphans = {} \/ overflow \/ timed_out

(* Nothing is forgotten: a pending request can be found in one of the       *)
(* queues, the release of the runtime leaves none behind, and it comes      *)
(* after the last close event (controller.py, pending.py, channel.rs).      *)
NothingForgotten == TypeOK /\ PendingIsSomewhere /\ ReleasedHoldsNothing /\ FinalCloseEvents

(* Reactor, socket and loop follow the wake-up protocol of module Waker, in *)
(* which no event is left without a wake-up (reactor.rs, run; waker.rs,     *)
(* wake; controller.py, _run_waker_loop).                                   *)
ImplementsWaker == W!Spec

(* A close() always completes, also when ReactorShutdown was dropped, when  *)
(* the command channel is full, or when start() is in progress.             *)
CloseCompletes == is_closed ~> closer = "released"

(* An answer that is in the queue reaches its future, unless the shutdown   *)
(* timed out: the waker loop is cancelled and the queue no longer polled.   *)
AnswersDelivered ==
    \A r \in Requests : (r \in InEvents) ~> (future[r] # "pending" \/ timed_out)

(* Everything asked for happens: a close() completes and queued answers     *)
(* reach their futures (controller.py, close and _run_waker_loop).          *)
EverythingServed == CloseCompletes /\ AnswersDelivered

==============================================================================
