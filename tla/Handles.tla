------------------------------ MODULE Handles ------------------------------
(***************************************************************************)
(* The Python objects of one connection: the tables of session and stream  *)
(* handles (connection.py, session.py), the queues behind the incoming     *)
(* iterators, the outcome that ensure_ready() waits for, the requests that *)
(* resolve to handles (pending.py), the last event of an emitter           *)
(* (events.py) and close_gracefully().                                     *)
(*                                                                         *)
(* The protocol core appends effects to "inbox".  The waker loop handles   *)
(* all that are there in one go, without an await: Poll is one action.     *)
(* Tasks of the application run between two polls and therefore act on     *)
(* tables that may be behind the core.  Ids are not reused, so a handle is *)
(* named by its id and goes from "none" to "open" (in the table) to        *)
(* "closed" (out of it).                                                   *)
(***************************************************************************)
EXTENDS Naturals, SequencesExt, FiniteSetsExt

CONSTANTS
    Sessions,        \* session ids; on a client also their create_session requests
    LocalStreams,    \* streams created here, named by their create_stream requests
    PeerStreams,
    SessionOf,       \* the session of a stream
    DirectionOf,     \* "bidi" or "uni", of a peer stream
    Consumers,       \* tasks in "async for"
    QueueOf,         \* the queue a consumer iterates over
    Drain, Close,    \* the two requests of close_gracefully
    Uses,            \* what a connection may be used for, see below
    MaxInbox,        \* bound: effects that may wait for a poll before the core acts
    None

Streams == LocalStreams \cup PeerStreams
Requests == Sessions \cup LocalStreams \cup {Drain, Close}
ConnectionQueue == <<None, "session">>
StreamQueues(s) == {s} \X {"bidi", "uni"}
Queues == {ConnectionQueue} \cup UNION {StreamQueues(s) : s \in Sessions}

ASSUME HandlesAssumption ==
    /\ SessionOf \in [Streams -> Sessions]
    /\ DirectionOf \in [PeerStreams -> {"bidi", "uni"}]
    /\ QueueOf \in [Consumers -> Queues]
    /\ Uses \subseteq [is_client : BOOLEAN, sessions : SUBSET Sessions, streams : SUBSET Streams,
                      consumers : SUBSET Consumers, graceful : BOOLEAN]
    /\ MaxInbox \in Nat \ {0}

VARIABLES
    use,        \* the role, the sessions and streams there may be, who iterates over
                \* them, and whether the application calls close_gracefully
    core,       \* what the core has announced: sessions, streams, the connection
    inbox,      \* effects on their way to the waker loop
    h,          \* the Python state
    consumer,   \* [Consumers -> {"iterating", "ended"}]
    graceful,   \* the task in close_gracefully
    announced,  \* history: what the core announced for each queue, in order
    delivered   \* history: what consumers took from each queue, in order

vars == <<use, core, inbox, h, consumer, graceful, announced, delivered>>

Effect(type, id) == [type |-> type, id |-> id]
Effects(type, S) == [i \in 1..Cardinality(S) |-> Effect(type, SetToSeq(S)[i])]

Init ==
    /\ use \in Uses
    /\ core = [session |-> [s \in Sessions |-> "none"],
               stream |-> [x \in Streams |-> "none"],
               asked |-> {}, confirmed |-> {}, closed |-> FALSE]
    /\ inbox = <<>>
    /\ h = [closed |-> FALSE, released |-> FALSE,
            session |-> [s \in Sessions |-> "none"],
            ready |-> [s \in Sessions |-> "unset"],
            stream |-> [x \in Streams |-> "none"],
            queue |-> [q \in Queues |-> <<>>],
            request |-> [r \in Requests |-> "idle"],
            final |-> {}, raised |-> FALSE]
    /\ consumer = [c \in Consumers |-> "iterating"]
    /\ graceful = [at |-> "idle", left |-> {}, on |-> None, woken |-> FALSE]
    /\ announced = [q \in Queues |-> <<>>]
    /\ delivered = [q \in Queues |-> <<>>]

(***************************************************************************)
(* The handlers of one effect, as operators on the Python state.           *)
(***************************************************************************)
\* session._handle_closed: both iterators get their sentinel, and an outcome
\* that is not there yet is a failure.
SessionsClosed(g, S) ==
    [g EXCEPT !.session = [s \in Sessions |-> IF s \in S THEN "closed" ELSE @[s]],
              !.ready = [s \in Sessions |-> IF s \in S /\ @[s] = "unset" THEN "failed" ELSE @[s]],
              !.queue = [q \in Queues |-> IF q[1] \in S THEN Append(@[q], None) ELSE @[q]]]

OpenSessions(g) == {s \in Sessions : g.session[s] = "open"}
OpenStreams(g) == {x \in Streams : g.stream[x] = "open"}

\* connection._handle_closed
ConnectionClosed(g) ==
    [SessionsClosed(g, OpenSessions(g)) EXCEPT
        !.closed = TRUE,
        !.stream = [x \in Streams |-> IF @[x] = "open" THEN "closed" ELSE @[x]],
        !.queue[ConnectionQueue] = Append(@, None)]

\* _handle_session_event: a new handle, which is also queued when a peer asked
\* for the session.
NewSession(g, type, s) ==
    [g EXCEPT !.session[s] = "open",
              !.ready[s] = "unset",
              !.queue[ConnectionQueue] =
                  IF type = "SESSION_REQUEST_RECEIVED" THEN Append(@, s) ELSE @]

CreatesHandle(g, type, s) ==
    /\ g.session[s] # "open"
    /\ type \in IF use.is_client THEN {"SESSION_PENDING", "SESSION_READY"}
                            ELSE {"SESSION_REQUEST_RECEIVED"}

\* Fault: the outcome is not recorded.
HandleReadyBug(g, s) == g

\* session._handle_ready: setting a future twice raises, and the rest of the
\* handler is skipped.
HandleReady(g, s) ==
    IF g.ready[s] = "unset" THEN [g EXCEPT !.ready[s] = "ok"] ELSE [g EXCEPT !.raised = TRUE]

\* Fault: the terminal event is not dispatched to the session's own emitter.
RouteSessionEventBug(g, type, s) ==
    CASE g.session[s] # "open" -> g
      [] g.session[s] = "open" /\ type = "SESSION_READY" -> HandleReady(g, s)
      [] g.session[s] = "open" /\ type = "SESSION_CLOSED" -> SessionsClosed(g, {s})
      [] OTHER -> g

\* _route_session_event
RouteSessionEvent(g, type, s) ==
    CASE g.session[s] # "open" -> g
      [] g.session[s] = "open" /\ type = "SESSION_READY" -> HandleReady(g, s)
      [] g.session[s] = "open" /\ type = "SESSION_CLOSED" ->
             [SessionsClosed(g, {s}) EXCEPT !.final = @ \cup {s}]
      [] OTHER -> g

HandleSessionEvent(g, type, s) ==
    RouteSessionEvent(IF CreatesHandle(g, type, s) THEN NewSession(g, type, s) ELSE g, type, s)

\* Fault: a stream that arrives is put in front of those that wait.
HandleStreamOpenedBug(g, x) ==
    IF g.stream[x] = "open" \/ g.session[SessionOf[x]] # "open" THEN g
    ELSE [g EXCEPT !.stream[x] = "open",
                   !.queue = IF x \in PeerStreams
                             THEN [@ EXCEPT ![<<SessionOf[x], DirectionOf[x]>>] = <<x>> \o @]
                             ELSE @]

\* _handle_stream_event and session._handle_stream_opened: a stream of a session
\* that has no handle gets none either.
HandleStreamOpened(g, x) ==
    IF g.stream[x] = "open" \/ g.session[SessionOf[x]] # "open" THEN g
    ELSE [g EXCEPT !.stream[x] = "open",
                   !.queue = IF x \in PeerStreams
                             THEN [@ EXCEPT ![<<SessionOf[x], DirectionOf[x]>>] = Append(@, x)]
                             ELSE @]

\* _route_stream_event
HandleStreamClosed(g, x) ==
    [g EXCEPT !.stream[x] = IF @ = "open" THEN "closed" ELSE @]

\* complete_request with the resolvers _resolve_session_handle and
\* _resolve_stream_handle, which look the handle up in the tables.
CompleteRequest(g, r) ==
    LET missing == \/ r \in Sessions /\ g.session[r] # "open"
                   \/ r \in LocalStreams /\ g.stream[r] # "open"
    IN  [g EXCEPT !.request[r] = IF @ # "waiting" THEN @
                                 ELSE IF missing THEN "unresolved" ELSE "done"]

FailRequest(g, r) == [g EXCEPT !.request[r] = IF @ = "waiting" THEN "failed" ELSE @]

\* _process_effects: once CONNECTION_CLOSED has taken the connection out of the
\* controller's table only answers are handled.
ProcessEffect(g, e) ==
    CASE e.type = "RequestDone" -> CompleteRequest(g, e.id)
      [] e.type = "RequestFailed" -> FailRequest(g, e.id)
      [] e.type = "CONNECTION_CLOSED" /\ ~g.closed -> ConnectionClosed(g)
      [] e.type = "STREAM_OPENED" /\ ~g.closed -> HandleStreamOpened(g, e.id)
      [] e.type = "STREAM_CLOSED" /\ ~g.closed -> HandleStreamClosed(g, e.id)
      [] e.id \in Sessions /\ e.type \notin {"RequestDone", "RequestFailed"} /\ ~g.closed ->
             HandleSessionEvent(g, e.type, e.id)
      [] OTHER -> g

\* Fault: answers are handled before the events of the same poll.
PollBug ==
    /\ inbox # <<>>
    /\ ~h.released
    /\ LET IsAnswer(e) == e.type \in {"RequestDone", "RequestFailed"}
           IsEvent(e) == ~IsAnswer(e)
       IN  h' = FoldLeft(ProcessEffect, h, SelectSeq(inbox, IsAnswer) \o SelectSeq(inbox, IsEvent))
    /\ inbox' = <<>>
    /\ UNCHANGED <<core, consumer, graceful, announced, delivered>>

Poll ==
    /\ inbox # <<>>
    /\ ~h.released
    /\ h' = FoldLeft(ProcessEffect, h, inbox)
    /\ inbox' = <<>>
    /\ UNCHANGED <<core, consumer, graceful, announced, delivered>>

(***************************************************************************)
(* The protocol core.  Which effects come in which order is what Session   *)
(* and Connection show; a peer's streams are announced to a confirmed      *)
(* session only, and an ending session or connection ends what it holds    *)
(* first.                                                                  *)
(***************************************************************************)
Send(effects) == inbox' = inbox \o effects

CoreMay == ~core.closed /\ Len(inbox) < MaxInbox

LiveSession(s) == core.session[s] \in {"pending", "ready"}

PythonUnchanged == UNCHANGED <<h, consumer, graceful, delivered>>

\* A peer asks a server for a session.
CoreSessionRequest(s) ==
    /\ CoreMay
    /\ ~use.is_client /\ s \in use.sessions
    /\ core.session[s] = "none"
    /\ core' = [core EXCEPT !.session[s] = "pending"]
    /\ announced' = [announced EXCEPT ![ConnectionQueue] = Append(@, s)]
    /\ Send(<<Effect("SESSION_REQUEST_RECEIVED", s)>>)
    /\ PythonUnchanged

\* bind_session of an optimistic request.
CoreSessionPending(s) ==
    /\ CoreMay
    /\ s \in core.asked
    /\ core.session[s] = "none"
    /\ core' = [core EXCEPT !.session[s] = "pending", !.asked = @ \ {s}]
    /\ Send(<<Effect("SESSION_PENDING", s), Effect("RequestDone", s)>>)
    /\ UNCHANGED announced
    /\ PythonUnchanged

\* confirm and accept: of a session that is there, or of a client's request.
CoreSessionReady(s) ==
    /\ CoreMay
    /\ \/ core.session[s] = "pending" /\ Send(<<Effect("SESSION_READY", s)>>)
       \/ /\ core.session[s] = "none"
          /\ s \in core.asked
          /\ Send(<<Effect("SESSION_READY", s), Effect("RequestDone", s)>>)
    /\ core' = [core EXCEPT !.session[s] = "ready", !.asked = @ \ {s},
                            !.confirmed = @ \cup {s}]
    /\ UNCHANGED announced
    /\ PythonUnchanged

\* bind_stream
CoreOpenLocal(x) ==
    /\ CoreMay
    /\ x \in core.asked
    /\ LiveSession(SessionOf[x])
    /\ core' = [core EXCEPT !.stream[x] = "open", !.asked = @ \ {x}]
    /\ Send(<<Effect("STREAM_OPENED", x), Effect("RequestDone", x)>>)
    /\ UNCHANGED announced
    /\ PythonUnchanged

\* recv_stream_opened, or its replay on confirmation.
CoreOpenPeer(x) ==
    /\ CoreMay
    /\ x \in use.streams
    /\ core.session[SessionOf[x]] = "ready"
    /\ core.stream[x] = "none"
    /\ core' = [core EXCEPT !.stream[x] = "open"]
    /\ announced' = [announced EXCEPT ![<<SessionOf[x], DirectionOf[x]>>] = Append(@, x)]
    /\ Send(<<Effect("STREAM_OPENED", x)>>)
    /\ PythonUnchanged

CoreCloseStream(x) ==
    /\ CoreMay
    /\ core.stream[x] = "open"
    /\ core' = [core EXCEPT !.stream[x] = "closed"]
    /\ Send(<<Effect("STREAM_CLOSED", x)>>)
    /\ UNCHANGED announced
    /\ PythonUnchanged

\* What the sessions S hold: open streams, and requests for streams.
Held(S) == {x \in Streams : SessionOf[x] \in S /\ core.stream[x] = "open"}
Blocked(S) == {x \in LocalStreams : SessionOf[x] \in S /\ x \in core.asked}

\* Any of the ways a session ends.
CoreCloseSession(s) ==
    /\ CoreMay
    /\ LiveSession(s)
    /\ core' = [core EXCEPT !.session[s] = "closed",
                            !.stream = [x \in Streams |-> IF x \in Held({s}) THEN "closed" ELSE @[x]],
                            !.asked = @ \ Blocked({s})]
    /\ Send(Effects("STREAM_CLOSED", Held({s})) \o Effects("RequestFailed", Blocked({s}))
            \o <<Effect("SESSION_CLOSED", s)>>)
    /\ UNCHANGED announced
    /\ PythonUnchanged

\* handle_terminated: every session ends, every request is answered, and the last
\* event is CONNECTION_CLOSED.
CoreCloseConnection ==
    LET live == {s \in Sessions : LiveSession(s)}
    IN  /\ CoreMay
        /\ core' = [core EXCEPT !.session = [s \in Sessions |-> IF s \in live THEN "closed" ELSE @[s]],
                                !.stream = [x \in Streams |-> IF @[x] = "open" THEN "closed" ELSE @[x]],
                                !.asked = {}, !.closed = TRUE]
        /\ Send(Effects("STREAM_CLOSED", Held(live)) \o Effects("RequestFailed", Blocked(live))
                \o Effects("SESSION_CLOSED", live) \o <<Effect("CONNECTION_CLOSED", None)>>
                \o Effects("RequestFailed", core.asked \ Blocked(live)))
        /\ UNCHANGED announced
        /\ PythonUnchanged

\* close and close_gracefully are answered at once; the connection ends later.
CoreAnswer(r) ==
    /\ r \in core.asked \cap {Drain, Close}
    /\ core' = [core EXCEPT !.asked = @ \ {r}]
    /\ Send(<<Effect("RequestDone", r)>>)
    /\ UNCHANGED announced
    /\ PythonUnchanged

\* A request is refused, by the core, or by the driver once the connection is gone.
CoreFail(r) ==
    /\ r \in core.asked
    /\ core' = [core EXCEPT !.asked = @ \ {r}]
    /\ Send(<<Effect("RequestFailed", r)>>)
    /\ UNCHANGED announced
    /\ PythonUnchanged

(***************************************************************************)
(* Tasks of the application.                                               *)
(***************************************************************************)
\* _execute_request
Execute(r) ==
    /\ h.request[r] = "idle"
    /\ h' = [h EXCEPT !.request[r] = "waiting"]
    /\ core' = [core EXCEPT !.asked = @ \cup {r}]

CreateSession(s) ==
    /\ use.is_client /\ s \in use.sessions
    /\ ~h.closed
    /\ Execute(s)
    /\ UNCHANGED <<inbox, consumer, graceful, announced, delivered>>

CreateStream(x) ==
    /\ x \in use.streams
    /\ h.session[SessionOf[x]] = "open"
    /\ Execute(x)
    /\ UNCHANGED <<inbox, consumer, graceful, announced, delivered>>

\* The caller is cancelled or its timeout expires: the request is evicted, and
\* the core still has it.
GiveUp(r) ==
    /\ r \in Sessions \cup LocalStreams
    /\ h.request[r] = "waiting"
    /\ h' = [h EXCEPT !.request[r] = "left"]
    /\ UNCHANGED <<core, inbox, consumer, graceful, announced, delivered>>

\* incoming_sessions, incoming_bidirectional_streams, incoming_unidirectional_streams:
\* the sentinel goes back into the queue, for the other consumers.  A consumer
\* that leaves its loop, or is cancelled in queue.get(), takes nothing more.
TakeNext(c) ==
    LET q == QueueOf[c]
        item == Head(h.queue[q])
    IN  /\ c \in use.consumers /\ consumer[c] = "iterating"
        /\ h.queue[q] # <<>>
        /\ \/ /\ item = None
              /\ h' = [h EXCEPT !.queue[q] = Append(Tail(@), None)]
              /\ consumer' = [consumer EXCEPT ![c] = "ended"]
              /\ UNCHANGED delivered
           \/ /\ item # None
              /\ h' = [h EXCEPT !.queue[q] = Tail(@)]
              /\ delivered' = [delivered EXCEPT ![q] = Append(@, item)]
              /\ UNCHANGED consumer
        /\ UNCHANGED <<core, inbox, graceful, announced>>

\* _dispatch_final_event: handlers run, wait_for's among them; then the emitter
\* closes.
DispatchFinal(s) ==
    /\ s \in h.final
    /\ h' = [h EXCEPT !.final = @ \ {s}]
    /\ graceful' = [graceful EXCEPT !.woken = @ \/ graceful.on = s]
    /\ UNCHANGED <<core, inbox, consumer, announced, delivered>>

GracefulCall ==
    /\ use.graceful /\ graceful.at = "idle"
    /\ ~h.closed
    /\ Execute(Drain)
    /\ graceful' = [graceful EXCEPT !.at = "asked"]
    /\ UNCHANGED <<inbox, consumer, announced, delivered>>

\* The loop over the sessions, up to the next await: sessions that are closed
\* are passed over, and wait_for registers its handler with the next one.
WaitForNext(left) ==
    LET open == left \cap OpenSessions(h)
    IN  \/ /\ open = {}
           /\ graceful' = [at |-> "drained", left |-> {}, on |-> None, woken |-> FALSE]
        \/ \E s \in open :
             graceful' = [at |-> "waiting", left |-> open \ {s}, on |-> s, woken |-> FALSE]

GracefulResume ==
    /\ \/ /\ graceful.at = "asked"
          /\ h.request[Drain] = "done"
          /\ WaitForNext(OpenSessions(h))
       \/ /\ graceful.at = "asked"
          /\ h.request[Drain] = "failed"
          /\ graceful' = [graceful EXCEPT !.at = "drained"]
       \/ /\ graceful.at = "waiting"
          /\ graceful.woken
          /\ WaitForNext(graceful.left)
    /\ UNCHANGED <<core, inbox, h, consumer, announced, delivered>>

\* close_timeout expires while the task waits, in close_gracefully or in close.
GracefulTimeout ==
    /\ graceful.at \in {"asked", "waiting", "closing"}
    /\ graceful' = [at |-> IF graceful.at = "closing" THEN "returned" ELSE "drained",
                    left |-> {}, on |-> None, woken |-> FALSE]
    /\ h' = [h EXCEPT !.request = [r \in Requests |-> IF r \in {Drain, Close} /\ @[r] = "waiting"
                                                      THEN "left" ELSE @[r]]]
    /\ UNCHANGED <<core, inbox, consumer, announced, delivered>>

\* The "finally" of close_gracefully: close().
GracefulClose ==
    /\ graceful.at = "drained"
    /\ \/ h.closed /\ graceful' = [graceful EXCEPT !.at = "returned"] /\ UNCHANGED <<core, h>>
       \/ ~h.closed /\ Execute(Close) /\ graceful' = [graceful EXCEPT !.at = "closing"]
    /\ UNCHANGED <<inbox, consumer, announced, delivered>>

GracefulReturn ==
    /\ graceful.at = "closing"
    /\ h.request[Close] \in {"done", "failed"}
    /\ graceful' = [graceful EXCEPT !.at = "returned"]
    /\ UNCHANGED <<core, inbox, h, consumer, announced, delivered>>

\* _release_runtime, of a connection whose end has not been announced when the
\* wait for the reactor times out; requests fail and nothing is polled again.
Release ==
    /\ ~h.closed
    /\ ~h.released
    /\ h' = [ConnectionClosed(h) EXCEPT
                !.released = TRUE,
                !.request = [r \in Requests |-> IF @[r] = "waiting" THEN "failed" ELSE @[r]]]
    /\ UNCHANGED <<core, inbox, consumer, graceful, announced, delivered>>

Core ==
    \/ \E s \in Sessions :
         CoreSessionRequest(s) \/ CoreSessionPending(s) \/ CoreSessionReady(s) \/ CoreCloseSession(s)
    \/ \E x \in LocalStreams : CoreOpenLocal(x)
    \/ \E x \in PeerStreams : CoreOpenPeer(x)
    \/ \E x \in Streams : CoreCloseStream(x)
    \/ \E r \in Requests : CoreAnswer(r) \/ CoreFail(r)
    \/ CoreCloseConnection

Application ==
    \/ \E s \in Sessions : CreateSession(s)
    \/ \E x \in LocalStreams : CreateStream(x)
    \/ \E r \in Requests : GiveUp(r)
    \/ \E c \in Consumers : TakeNext(c)
    \/ \E s \in Sessions : DispatchFinal(s)
    \/ GracefulCall \/ GracefulResume \/ GracefulTimeout \/ GracefulClose \/ GracefulReturn

Next == (Core \/ Poll \/ Application \/ Release) /\ UNCHANGED use

Spec == Init /\ [][Next]_vars

(***************************************************************************)
(* The event loop runs what is ready: the waker loop, tasks whose queue    *)
(* holds something, dispatch tasks, and a graceful close that was woken.   *)
(* Weak fairness of these steps together, which is less than of each of    *)
(* them, written with their guards.  None is assumed of the core, of new   *)
(* requests or of timeouts.                                                *)
(***************************************************************************)
EventLoop ==
    Poll \/ (\E c \in Consumers : TakeNext(c)) \/ (\E s \in Sessions : DispatchFinal(s)) \/ GracefulResume

EventLoopReady ==
    \/ inbox # <<>> /\ ~h.released
    \/ \E c \in use.consumers : consumer[c] = "iterating" /\ h.queue[QueueOf[c]] # <<>>
    \/ h.final # {}
    \/ graceful.at = "asked" /\ h.request[Drain] \in {"done", "failed"}
    \/ graceful.at = "waiting" /\ graceful.woken

LiveSpec == Spec /\ ([]<>(~EventLoopReady) \/ []<><<EventLoop>>_vars)

(***************************************************************************)
(* Properties                                                              *)
(***************************************************************************)
\* The state has its shape, and no handler of an event raises: a future is
\* never set twice (session.py:463, without a check).
TypeOK ==
    /\ h.session \in [Sessions -> {"none", "open", "closed"}]
    /\ h.ready \in [Sessions -> {"unset", "ok", "failed"}]
    /\ h.stream \in [Streams -> {"none", "open", "closed"}]
    /\ h.request \in [Requests -> {"idle", "waiting", "done", "failed", "unresolved", "left"}]
    /\ h.final \subseteq Sessions
    /\ ~h.raised
    /\ consumer \in [Consumers -> {"iterating", "ended"}]
    /\ graceful.at \in {"idle", "asked", "waiting", "drained", "closing", "returned"}
    /\ graceful.on \in Sessions \cup {None}

\* After a poll the tables hold exactly the sessions and streams that live in
\* the core: no event finds its handle missing, and no handle outlives what it
\* stands for (connection.py:310-488).
TablesAgree ==
    inbox = <<>> /\ ~h.released =>
        /\ h.closed = core.closed
        /\ OpenSessions(h) = {s \in Sessions : LiveSession(s)}
        /\ OpenStreams(h) = {x \in Streams : core.stream[x] = "open"}

\* A request that the core completed resolves to its handle, whatever ends the
\* session or the stream in the same poll (connection.py:435-445, pending.py:36).
CompletedResolves == \A r \in Requests : h.request[r] # "unresolved"

Waiting(q) == SelectSeq(h.queue[q], LAMBDA item : item # None)

\* Each session and stream that a peer opens is handed to exactly one consumer,
\* in the order of arrival, and no iterator ends while one is left
\* (connection.py:262-269, session.py:303-319).
EachToOneConsumer ==
    \A q \in Queues :
        /\ IsPrefix(delivered[q] \o Waiting(q), announced[q])
        /\ (\E c \in Consumers : QueueOf[c] = q /\ consumer[c] = "ended") /\ ~h.released =>
               delivered[q] = announced[q]

\* What ensure_ready() reports about a closed session is whether it was ever
\* established, however late the question comes (session.py:272-276, 449-465).
OutcomeRecorded ==
    ~h.released =>
        \A s \in Sessions :
            h.session[s] = "closed" => h.ready[s] = (IF s \in core.confirmed THEN "ok" ELSE "failed")

\* close_gracefully waits for a session only while its SESSION_CLOSED is still to
\* be dispatched (connection.py:189-191, 459-464).
WaitsForAnEvent ==
    graceful.at = "waiting" /\ ~graceful.woken =>
        h.session[graceful.on] = "open" \/ graceful.on \in h.final \/ h.released

\* The Python objects follow the core: no handler raises, the tables hold what
\* lives, requests resolve to handles, outcomes are recorded, and close_gracefully
\* waits only for what is still to come.
HandlesFollowCore ==
    TypeOK /\ TablesAgree /\ CompletedResolves /\ OutcomeRecorded /\ WaitsForAnEvent

QueueClosed(q) == IF q = ConnectionQueue THEN h.closed ELSE h.session[q[1]] = "closed"

\* Once a session is closed each task that iterates over its streams ends, and so
\* do those that iterate over the sessions of a closed connection; neither is
\* ever undone (connection.py:262-269, session.py:303-319).
IteratorsEnd ==
    <>[](\A c \in use.consumers : QueueClosed(QueueOf[c]) => consumer[c] = "ended")

\* A graceful close that waits for a session goes on when the core has closed
\* it, without its timeout.
GracefulServed ==
    graceful.on # None /\ core.session[graceful.on] = "closed"
        ~> graceful.on = None \/ core.session[graceful.on] # "closed" \/ h.released

\* No task waits in vain: iterators end and a graceful close goes on
\* (connection.py:176-200, session.py:303-319).
WaitersServed == IteratorsEnd /\ GracefulServed

=============================================================================
