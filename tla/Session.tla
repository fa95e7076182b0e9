------------------------------- MODULE Session -------------------------------
(***************************************************************************)
(* The life of one session at one endpoint (protocol/session.rs): from     *)
(* Connecting, while capsules, datagrams and peer streams are buffered,    *)
(* through confirmation and the replay of the buffers, to its end, and the *)
(* requests that wait in it.  The session object and the effects it has    *)
(* produced are one record, on which every method is an operator, since    *)
(* replay applies recv_capsule repeatedly within one call.  Flow control   *)
(* of data and of streams between two endpoints is in SessionData and      *)
(* SessionStreams; here MAX_STREAMS stands for the capsules that release   *)
(* requests.                                                               *)
(***************************************************************************)
EXTENDS Naturals, Sequences, FiniteSets, Functions

CONSTANTS Requests,             \* requests of the application
          PeerStreams,          \* streams the peer opens
          MaxPendingCapsules, MaxPendingDatagrams, MaxPendingStreams,
          InitialMaxStreams,    \* streams the peer allows at first
          CapsuleLimit,         \* bound: capsules the peer sends
          DatagramLimit         \* bound: datagrams the peer sends

ASSUME SessionAssumption ==
    /\ {MaxPendingCapsules, MaxPendingDatagrams, MaxPendingStreams,
        InitialMaxStreams, CapsuleLimit, DatagramLimit} \subseteq Nat
    /\ Requests \cap PeerStreams = {}

VARIABLES s,           \* the Session object and its effects
          is_client,
          issued,      \* requests made
          arrived,     \* peer streams handed to the session
          capsules,    \* number of capsules received
          datagrams    \* number of datagrams received, which numbers them

vars == << s, is_client, issued, arrived, capsules, datagrams >>

Capsules == {"DRAIN_SESSION", "CLOSE_SESSION", "MALFORMED", "MAX_STREAMS"}
Live == {"Connecting", "Connected", "Draining"}
States == Live \cup {"Closing", "Closed"}

NewSession ==
    [state |-> "Connecting",
     pending_capsules |-> << >>, pending_datagrams |-> << >>,
     pending_datagram_requests |-> << >>, pending_streams |-> << >>,
     streams |-> {},                    \* open streams; a request names its own
     blocked_stream_requests |-> << >>,
     opened |-> 0, max_streams |-> InitialMaxStreams,
     \* effects
     creating |-> << >>,                \* CreateQuicStream, not yet carried out
     done |-> [r \in Requests |-> 0], failed |-> [r \in Requests |-> 0],
     delivered |-> << >>,               \* datagrams answered to reads
     announced |-> {}, ended |-> {},    \* StreamOpened, StreamClosed
     ready |-> 0, draining |-> 0, closed |-> 0]  \* session events

Init == /\ s = NewSession /\ is_client \in BOOLEAN
        /\ issued = {} /\ arrived = {} /\ capsules = 0 /\ datagrams = 0

------------------------------------------------------------------------------
(* Helpers of the session. *)

Done(w, r) == [w EXCEPT !.done[r] = @ + 1]
Failed(w, r) == [w EXCEPT !.failed[r] = @ + 1]
FailAll(w, rs) == [w EXCEPT !.failed =
                      [r \in Requests |-> @[r] + Cardinality({k \in DOMAIN rs :
                                                                rs[k] = r})]]

ForgetBlockedRequestsBug(w) ==
    [w EXCEPT !.streams = {},
              !.ended = @ \cup (w.streams \ Range(w.pending_streams)),
              !.pending_streams = << >>]

AnnounceEndOfPendingBug(w) ==
    [FailAll(w, w.blocked_stream_requests) EXCEPT
        !.streams = {},
        !.ended = @ \cup w.streams,
        !.pending_streams = << >>,
        !.blocked_stream_requests = << >>]

(* Every stream is aborted, and its end is announced unless its beginning  *)
(* has not been; requests for streams fail.                                *)
AbortStreams(w) ==
    [FailAll(w, w.blocked_stream_requests) EXCEPT
        !.streams = {},
        !.ended = @ \cup (w.streams \ Range(w.pending_streams)),
        !.pending_streams = << >>,
        !.blocked_stream_requests = << >>]

(* What close, reject, abort, a CLOSE_SESSION capsule and the end of the   *)
(* CONNECT stream have in common.                                          *)
Terminate(w, state) ==
    [FailAll(AbortStreams(w), w.pending_datagram_requests) EXCEPT
        !.state = state,
        !.pending_capsules = << >>,
        !.pending_datagrams = << >>,
        !.pending_datagram_requests = << >>,
        !.closed = @ + 1]

Abort(w) == IF w.state \in {"Closing", "Closed"} THEN w
            ELSE Terminate(w, "Closed")

FlushBlockedStreamRequests(w) ==
    LET queue == w.blocked_stream_requests
        room == w.max_streams - w.opened
        n == IF Len(queue) < room THEN Len(queue) ELSE room
    IN  [w EXCEPT !.opened = @ + n,
                  !.creating = @ \o SubSeq(queue, 1, n),
                  !.blocked_stream_requests = SubSeq(queue, n + 1, Len(queue))]

RecvCapsule(w, c) ==
    IF w.state = "Connecting"
    THEN IF Len(w.pending_capsules) >= MaxPendingCapsules THEN Abort(w)
         ELSE [w EXCEPT !.pending_capsules = Append(@, c)]
    ELSE IF w.state \in {"Closing", "Closed"} THEN w
    ELSE CASE c = "MALFORMED" -> Abort(w)
           [] c = "CLOSE_SESSION" -> Terminate(w, "Closed")
           [] c = "DRAIN_SESSION" ->
                IF w.state = "Connected"
                THEN [w EXCEPT !.state = "Draining", !.draining = @ + 1] ELSE w
           [] c = "MAX_STREAMS" ->
                FlushBlockedStreamRequests([w EXCEPT !.max_streams = @ + 1])

DropReleasedBug(w) ==
    LET rs == Range(w.creating)
    IN  IF w.state \in Live
        THEN [w EXCEPT !.creating = << >>,
                       !.streams = @ \cup rs, !.announced = @ \cup rs,
                       !.done = [r \in Requests |->
                                    @[r] + (IF r \in rs THEN 1 ELSE 0)]]
        ELSE [w EXCEPT !.creating = << >>]

(* The driver carries out CreateQuicStream once the call is over, and      *)
(* bind_stream finds the session in the state the call left it in.         *)
BindStreams(w) ==
    LET rs == Range(w.creating)
    IN  IF w.state \in Live
        THEN [w EXCEPT !.creating = << >>,
                       !.streams = @ \cup rs, !.announced = @ \cup rs,
                       !.done = [r \in Requests |->
                                    @[r] + (IF r \in rs THEN 1 ELSE 0)]]
        ELSE [FailAll(w, w.creating) EXCEPT !.creating = << >>]

(* A read waits only if no datagram is buffered, and a datagram is         *)
(* buffered, if there is room, only if no read waits.                      *)
RecvDatagram(w, d) ==
    IF w.state \notin Live
    THEN w
    ELSE IF w.state # "Connecting" /\ w.pending_datagram_requests # << >>
    THEN Done([w EXCEPT !.pending_datagram_requests = Tail(@),
                        !.delivered = Append(@, d)],
              Head(w.pending_datagram_requests))
    ELSE IF Len(w.pending_datagrams) >= MaxPendingDatagrams
    THEN w
    ELSE [w EXCEPT !.pending_datagrams = Append(@, d)]

(* One turn of the loops of replay_pending_queues: the next capsule, while *)
(* the session is connected, and then the next datagram for a waiting read.*)
ReplayOne(w) ==
    IF w.state # "Connected" THEN w
    ELSE IF w.pending_capsules # << >>
    THEN RecvCapsule([w EXCEPT !.pending_capsules = Tail(@)],
                     Head(w.pending_capsules))
    ELSE IF w.pending_datagram_requests # << >> /\ w.pending_datagrams # << >>
    THEN RecvDatagram([w EXCEPT !.pending_datagrams = Tail(@)],
                      Head(w.pending_datagrams))
    ELSE w

Replay(w, turns) ==
    LET after[n \in 0 .. turns] == IF n = 0 THEN w ELSE ReplayOne(after[n - 1])
    IN  after[turns]

(* Replay after confirmation: the capsules in order, until one of them     *)
(* takes the session out of Connected; then the datagrams for the waiting  *)
(* reads; then the streams that are still there are announced.             *)
ReplayPendingQueues(w) ==
    LET replayed == Replay(w, Len(w.pending_capsules) + Len(w.pending_datagrams))
    IN  IF replayed.state # "Connected" THEN replayed
        ELSE [replayed EXCEPT
                !.pending_streams = << >>,
                !.announced = @ \cup (Range(replayed.pending_streams)
                                          \cap replayed.streams)]

Connect(w) ==
    BindStreams(ReplayPendingQueues([w EXCEPT !.state = "Connected",
                                              !.ready = @ + 1]))

------------------------------------------------------------------------------
Issue(r) == /\ r \notin issued /\ issued' = issued \cup {r}
            /\ UNCHANGED << is_client, arrived, capsules, datagrams >>

(* Requests of the application.  Headers and status codes that accept and  *)
(* reject refuse make the request fail, as a wrong state does.             *)
Accept(r, valid) ==
    /\ Issue(r)
    /\ s' = IF is_client \/ s.state # "Connecting" \/ ~valid THEN Failed(s, r)
            ELSE Connect(Done(s, r))

Reject(r, valid) ==
    /\ Issue(r)
    /\ s' = IF is_client \/ s.state # "Connecting" \/ ~valid THEN Failed(s, r)
            ELSE Done(Terminate(s, "Closed"), r)

Close(r) ==
    /\ Issue(r)
    /\ s' = IF s.state \in {"Closing", "Closed"} THEN Done(s, r)
            ELSE Done(Terminate(s, "Closing"), r)

CreateStream(r) ==
    /\ Issue(r)
    /\ s' = IF s.state \notin Live THEN Failed(s, r)
            ELSE IF s.opened >= s.max_streams
            THEN [s EXCEPT !.blocked_stream_requests = Append(@, r)]
            ELSE BindStreams([s EXCEPT !.opened = @ + 1, !.creating = << r >>])

ReadDatagram(r) ==
    /\ Issue(r)
    /\ s' = IF s.state \notin Live THEN Failed(s, r)
            ELSE IF s.state # "Connecting" /\ s.pending_datagrams # << >>
            THEN Done([s EXCEPT !.pending_datagrams = Tail(@),
                                !.delivered = Append(@, Head(s.pending_datagrams))],
                      r)
            ELSE [s EXCEPT !.pending_datagram_requests = Append(@, r)]

------------------------------------------------------------------------------
(* Events from the connection. *)

(* The response of the server arrives (client only). *)
Confirm ==
    /\ is_client /\ s.state = "Connecting"
    /\ s' = Connect(s)
    /\ UNCHANGED << is_client, issued, arrived, capsules, datagrams >>

(* The connection goes away gracefully. *)
Drain ==
    /\ s' = IF s.state # "Connected" THEN s
            ELSE [s EXCEPT !.state = "Draining", !.draining = @ + 1]
    /\ UNCHANGED << is_client, issued, arrived, capsules, datagrams >>

(* A protocol error elsewhere in the session. *)
AbortSession ==
    /\ s' = Abort(s)
    /\ UNCHANGED << is_client, issued, arrived, capsules, datagrams >>

RecvConnectClose ==
    /\ s' = CASE s.state = "Closed" -> s
              [] s.state = "Closing" -> [s EXCEPT !.state = "Closed"]
              [] OTHER -> Terminate(s, "Closed")
    /\ UNCHANGED << is_client, issued, arrived, capsules, datagrams >>

(* A client reads capsules only after the response, which confirms the     *)
(* session.                                                                *)
CapsuleReceived(c) ==
    /\ is_client => s.state # "Connecting"
    /\ capsules < CapsuleLimit /\ capsules' = capsules + 1
    /\ s' = BindStreams(RecvCapsule(s, c))
    /\ UNCHANGED << is_client, issued, arrived, datagrams >>

DatagramReceived ==
    /\ datagrams < DatagramLimit /\ datagrams' = datagrams + 1
    /\ s' = RecvDatagram(s, datagrams')
    /\ UNCHANGED << is_client, issued, arrived, capsules >>

(* A stream of the peer: refused when the session is over or when too many *)
(* are pending, held back while Connecting, else announced.                *)
HandleStreamOpened(i) ==
    /\ i \notin arrived /\ arrived' = arrived \cup {i}
    /\ s' = CASE s.state \notin Live -> s
              [] s.state = "Connecting" ->
                   IF Len(s.pending_streams) >= MaxPendingStreams THEN s
                   ELSE [s EXCEPT !.pending_streams = Append(@, i),
                                  !.streams = @ \cup {i}]
              [] OTHER -> [s EXCEPT !.streams = @ \cup {i},
                                    !.announced = @ \cup {i}]
    /\ UNCHANGED << is_client, issued, capsules, datagrams >>

(* Both halves of a stream have ended; of a pending one nothing is said. *)
HandleClosed(i) ==
    /\ i \in s.streams
    /\ s' = [s EXCEPT !.streams = @ \ {i},
                      !.ended = IF i \in Range(s.pending_streams) THEN @
                                ELSE @ \cup {i}]
    /\ UNCHANGED << is_client, issued, arrived, capsules, datagrams >>

------------------------------------------------------------------------------
User == \E r \in Requests :
            \/ \E valid \in BOOLEAN : Accept(r, valid) \/ Reject(r, valid)
            \/ Close(r) \/ CreateStream(r) \/ ReadDatagram(r)

Connection == \/ Confirm \/ Drain \/ AbortSession \/ RecvConnectClose
              \/ DatagramReceived
              \/ \E c \in Capsules : CapsuleReceived(c)
              \/ \E i \in PeerStreams : HandleStreamOpened(i)
              \/ \E i \in PeerStreams \cup Requests : HandleClosed(i)

Next == User \/ Connection

Spec == Init /\ [][Next]_vars

------------------------------------------------------------------------------
Queued == << s.pending_datagram_requests, s.blocked_stream_requests >>

(* Type invariant: the three buffers of a session stay within the limits     *)
(* that the buffering handlers test, streams are opened within max_streams,  *)
(* and every stream the driver was asked to create has been dealt with.      *)
TypeOK ==
    /\ s.state \in States
    /\ Len(s.pending_capsules) <= MaxPendingCapsules
    /\ Len(s.pending_datagrams) <= MaxPendingDatagrams
    /\ Len(s.pending_streams) <= MaxPendingStreams
    /\ s.streams \subseteq PeerStreams \cup Requests
    /\ s.opened <= s.max_streams /\ s.creating = << >>
    /\ s.delivered \in Seq(1 .. DatagramLimit)
    /\ issued \subseteq Requests /\ arrived \subseteq PeerStreams

(* Every request is answered exactly once, or waits in exactly one place,  *)
(* whatever ends the session; also a create_stream request that is         *)
(* released and overtaken by the end of the session within one call.       *)
ExactlyOneAnswer ==
    \A r \in Requests :
        s.done[r] + s.failed[r]
            + Cardinality({k \in DOMAIN Queued[1] : Queued[1][k] = r})
            + Cardinality({k \in DOMAIN Queued[2] : Queued[2][k] = r})
        = IF r \in issued THEN 1 ELSE 0

(* A session that has ended holds no stream and no request, and nothing is *)
(* buffered in it: it answered them all when it ended, and takes no more.  *)
EndedHoldsNothing ==
    s.state \in {"Closing", "Closed"} =>
        /\ s.streams = {}
        /\ s.pending_capsules = << >> /\ s.pending_datagrams = << >>
        /\ s.pending_datagram_requests = << >> /\ s.pending_streams = << >>
        /\ s.blocked_stream_requests = << >>

(* The application is told of the end of those streams only whose opening  *)
(* it was told of, and of the end of every one of them.                    *)
StreamEventsPaired ==
    /\ s.ended \subseteq s.announced
    /\ s.announced \subseteq s.ended \cup s.streams

(* SessionClosed is emitted once, when the session ends, and SessionReady  *)
(* and SessionDraining at most once before it.                             *)
SessionEventsOnce ==
    /\ s.closed = IF s.state \in {"Closing", "Closed"} THEN 1 ELSE 0
    /\ s.ready <= 1 /\ s.draining <= s.ready

(* In a connected session the replay is complete: no capsule is held back, *)
(* every stream has been announced, and no read waits while a datagram is  *)
(* buffered.                                                               *)
ReplayComplete ==
    s.state = "Connected" =>
        /\ s.pending_capsules = << >> /\ s.pending_streams = << >>
        /\ s.pending_datagrams = << >> \/ s.pending_datagram_requests = << >>

(* The buffers stay within their limits; they are empty once the session   *)
(* is connected and their contents replayed, and again when it has ended   *)
(* (recv_capsule, replay_pending_queues, abort_streams).                   *)
BuffersEmptied == TypeOK /\ ReplayComplete /\ EndedHoldsNothing

(* The application's view is consistent: the end of a stream is announced  *)
(* if its opening was, and SessionReady, SessionDraining and SessionClosed *)
(* come in order and at most once, whatever ends the session.              *)
EventsPaired == StreamEventsPaired /\ SessionEventsOnce

==============================================================================
