---------------------------- MODULE SessionStreams ----------------------------
(***************************************************************************)
(* Session flow control of streams (protocol/session.rs), for one kind of  *)
(* stream: uni- and bidirectional streams have separate counters and the   *)
(* same code.  One connected endpoint opens streams, within the limit of   *)
(* its peer's MAX_STREAMS capsules and within QUIC's own limit, and keeps  *)
(* the create_stream requests it cannot serve in a queue; the other        *)
(* accepts and closes them.  The driver opens the QUIC streams and handles *)
(* the resulting bind and defer events before it takes any other event.    *)
(***************************************************************************)
EXTENDS Integers, Sequences, FiniteSets

CONSTANTS Requests,           \* create_stream requests
          InitialMaxStreams,  \* initial_max_streams of the accepting endpoint
          QuicStreams         \* streams QUIC allows to be open at a time

ASSUME SessionStreamsAssumption ==
    /\ IsFiniteSet(Requests)
    /\ InitialMaxStreams \in Nat /\ QuicStreams \in Nat

VARIABLES
    issued,                    \* requests made
    created,                   \* requests that were given a stream
    local_streams_opened,
    peer_max_streams,
    blocked_stream_requests,
    last_streams_blocked_sent, \* -1: None
    quic_credit,               \* streams QUIC can still open
    quic_freed,                \* streams QUIC has given back
    arriving,                  \* opened streams the peer has not seen
    vanished,                  \* opened streams the peer never sees
    max_streams,               \* MAX_STREAMS capsules on their way
    streams_blocked,           \* STREAMS_BLOCKED capsules on their way
    peer_streams_opened,
    peer_streams_closed,
    local_max_streams,
    errors                     \* endpoints that aborted the session

opener == << issued, created, local_streams_opened, peer_max_streams,
             blocked_stream_requests, last_streams_blocked_sent, quic_credit >>
acceptor == << peer_streams_opened, peer_streams_closed, local_max_streams >>
vars == << opener, acceptor, quic_freed, arriving, vanished, max_streams,
           streams_blocked, errors >>

Init ==
    /\ issued = {} /\ created = {}
    /\ local_streams_opened = 0 /\ peer_max_streams = InitialMaxStreams
    /\ blocked_stream_requests = << >> /\ last_streams_blocked_sent = -1
    /\ quic_credit = QuicStreams /\ quic_freed = 0
    /\ arriving = 0 /\ vanished = 0
    /\ max_streams = << >> /\ streams_blocked = << >>
    /\ peer_streams_opened = 0 /\ peer_streams_closed = 0
    /\ local_max_streams = InitialMaxStreams
    /\ errors = {}

Least(m, n) == IF m < n THEN m ELSE n

------------------------------------------------------------------------------
(* The opening endpoint. *)

(* STREAMS_BLOCKED is sent once per limit, while requests wait for it. *)
EmitStreamsBlocked(opened, limit, queue) ==
    IF queue # << >> /\ opened >= limit /\ limit > last_streams_blocked_sent
    THEN /\ last_streams_blocked_sent' = limit
         /\ streams_blocked' = Append(streams_blocked, limit)
    ELSE UNCHANGED << last_streams_blocked_sent, streams_blocked >>

DropDeferredBug(requests, opened, queue, credit) ==
    LET n == Least(Len(requests), credit)
    IN  /\ created' = created \cup {requests[k] : k \in 1 .. n}
        /\ arriving' = arriving + n
        /\ quic_credit' = credit - n
        /\ local_streams_opened' = opened - (Len(requests) - n)
        /\ blocked_stream_requests' = queue

(* The driver opens a QUIC stream for each request as long as QUIC allows  *)
(* it; bind_stream answers these requests.  defer_stream returns the other *)
(* requests to the end of the queue, uncounted.                            *)
CreateQuicStreams(requests, opened, queue, credit) ==
    LET n == Least(Len(requests), credit)
    IN  /\ created' = created \cup {requests[k] : k \in 1 .. n}
        /\ arriving' = arriving + n
        /\ quic_credit' = credit - n
        /\ local_streams_opened' = opened - (Len(requests) - n)
        /\ blocked_stream_requests' =
               queue \o SubSeq(requests, n + 1, Len(requests))

CreateStream(r) ==
    /\ r \notin issued /\ issued' = issued \cup {r}
    /\ IF local_streams_opened >= peer_max_streams
       THEN LET queue == Append(blocked_stream_requests, r)
            IN  /\ blocked_stream_requests' = queue
                /\ EmitStreamsBlocked(local_streams_opened, peer_max_streams, queue)
                /\ UNCHANGED << created, local_streams_opened, quic_credit,
                                arriving >>
       ELSE /\ CreateQuicStreams(<< r >>, local_streams_opened + 1,
                                 blocked_stream_requests, quic_credit)
            /\ UNCHANGED << last_streams_blocked_sent, streams_blocked >>
    /\ UNCHANGED << peer_max_streams, acceptor, quic_freed, vanished,
                    max_streams, errors >>

OneTooManyBug(limit, credit) ==
    LET queue == blocked_stream_requests
        n == Least(Len(queue), limit + 1 - local_streams_opened)
        rest == SubSeq(queue, n + 1, Len(queue))
    IN  /\ EmitStreamsBlocked(local_streams_opened + n, limit, rest)
        /\ CreateQuicStreams(SubSeq(queue, 1, n), local_streams_opened + n, rest,
                             credit)

(* Requests are released from the front, up to the limit. *)
FlushBlockedStreamRequests(limit, credit) ==
    LET queue == blocked_stream_requests
        n == Least(Len(queue), limit - local_streams_opened)
        rest == SubSeq(queue, n + 1, Len(queue))
    IN  /\ EmitStreamsBlocked(local_streams_opened + n, limit, rest)
        /\ CreateQuicStreams(SubSeq(queue, 1, n), local_streams_opened + n, rest,
                             credit)

MaxStreamsReceived ==
    /\ max_streams # << >>
    /\ max_streams' = Tail(max_streams)
    /\ IF Head(max_streams) > peer_max_streams
       THEN /\ peer_max_streams' = Head(max_streams)
            /\ FlushBlockedStreamRequests(Head(max_streams), quic_credit)
            /\ UNCHANGED errors
       ELSE /\ errors' = errors \cup {"opener"}
            /\ UNCHANGED << created, local_streams_opened, peer_max_streams,
                            blocked_stream_requests, last_streams_blocked_sent,
                            quic_credit, arriving, streams_blocked >>
    /\ UNCHANGED << issued, acceptor, quic_freed, vanished >>

NoRetryBug ==
    /\ quic_freed < peer_streams_closed + vanished
    /\ quic_freed' = quic_freed + 1
    /\ quic_credit' = quic_credit + 1
    /\ UNCHANGED << issued, created, local_streams_opened, peer_max_streams,
                    blocked_stream_requests, last_streams_blocked_sent, acceptor,
                    arriving, vanished, max_streams, streams_blocked, errors >>

(* QUIC gives a stream back once it is closed, and the driver reports it   *)
(* as TransportMaxStreamsReceived (recv_max_streams).                      *)
QuicStreamAvailable ==
    /\ quic_freed < peer_streams_closed + vanished
    /\ quic_freed' = quic_freed + 1
    /\ FlushBlockedStreamRequests(peer_max_streams, quic_credit + 1)
    /\ UNCHANGED << issued, peer_max_streams, acceptor, vanished, max_streams,
                    errors >>

(* A stream is reset before its header is through: QUIC does not deliver   *)
(* the header any more and the peer's session never sees the stream.       *)
ResetBeforeArrival ==
    /\ arriving > 0
    /\ arriving' = arriving - 1
    /\ vanished' = vanished + 1
    /\ UNCHANGED << opener, acceptor, quic_freed, max_streams, streams_blocked,
                    errors >>

------------------------------------------------------------------------------
(* The accepting endpoint. *)

SameLimitBug(closed, force) ==
    LET new_limit == closed + InitialMaxStreams
        threshold == IF force THEN 0 ELSE InitialMaxStreams \div 2
    IN  IF new_limit >= local_max_streams + threshold
        THEN /\ local_max_streams' = new_limit
             /\ max_streams' = Append(max_streams, new_limit)
        ELSE UNCHANGED << local_max_streams, max_streams >>

FullWindowBug(closed, force) ==
    LET new_limit == closed + InitialMaxStreams
        threshold == IF force THEN 0 ELSE InitialMaxStreams
    IN  IF new_limit > local_max_streams + threshold
        THEN /\ local_max_streams' = new_limit
             /\ max_streams' = Append(max_streams, new_limit)
        ELSE UNCHANGED << local_max_streams, max_streams >>

(* MAX_STREAMS is sent when half of the initial number of streams has been *)
(* closed, or for any that was closed when the peer asks.                  *)
ReplenishStreamsCredit(closed, force) ==
    LET new_limit == closed + InitialMaxStreams
        threshold == IF force THEN 0 ELSE InitialMaxStreams \div 2
    IN  IF new_limit > local_max_streams /\ new_limit >= local_max_streams + threshold
        THEN /\ local_max_streams' = new_limit
             /\ max_streams' = Append(max_streams, new_limit)
        ELSE UNCHANGED << local_max_streams, max_streams >>

HandleStreamOpened ==
    /\ arriving > 0 /\ arriving' = arriving - 1
    /\ IF peer_streams_opened >= local_max_streams
       THEN errors' = errors \cup {"acceptor"} /\ UNCHANGED peer_streams_opened
       ELSE peer_streams_opened' = peer_streams_opened + 1 /\ UNCHANGED errors
    /\ UNCHANGED << opener, peer_streams_closed, local_max_streams, quic_freed,
                    vanished, max_streams, streams_blocked >>

(* Both halves of an accepted stream have ended (handle_closed). *)
HandleClosed ==
    /\ peer_streams_closed < peer_streams_opened
    /\ peer_streams_closed' = peer_streams_closed + 1
    /\ ReplenishStreamsCredit(peer_streams_closed', FALSE)
    /\ UNCHANGED << opener, peer_streams_opened, quic_freed, arriving, vanished,
                    streams_blocked, errors >>

StreamsBlockedReceived ==
    /\ streams_blocked # << >>
    /\ streams_blocked' = Tail(streams_blocked)
    /\ ReplenishStreamsCredit(peer_streams_closed, TRUE)
    /\ UNCHANGED << opener, peer_streams_opened, peer_streams_closed, quic_freed,
                    arriving, vanished, errors >>

------------------------------------------------------------------------------
Opener == (\E r \in Requests : CreateStream(r)) \/ ResetBeforeArrival
OpenerEvents == MaxStreamsReceived \/ QuicStreamAvailable
AcceptorEvents == HandleStreamOpened \/ StreamsBlockedReceived

(* An aborted session is over. *)
Next == errors = {} /\ (Opener \/ OpenerEvents \/ AcceptorEvents \/ HandleClosed)

Spec == Init /\ [][Next]_vars

(* The reactors keep running, the network delivers, and every stream the   *)
(* peer has accepted comes to an end.                                      *)
FairSpec == /\ Spec
            /\ WF_vars(MaxStreamsReceived) /\ WF_vars(QuicStreamAvailable)
            /\ WF_vars(HandleStreamOpened) /\ WF_vars(StreamsBlockedReceived)
            /\ WF_vars(HandleClosed)

------------------------------------------------------------------------------
(* Counters are natural numbers and queues hold requests or limits, also    *)
(* where the code subtracts (defer_stream).                                 *)
TypeOK ==
    /\ issued \subseteq Requests /\ created \subseteq Requests
    /\ local_streams_opened \in Nat /\ peer_max_streams \in Nat
    /\ blocked_stream_requests \in Seq(Requests)
    /\ last_streams_blocked_sent \in Nat \cup {-1}
    /\ quic_credit \in Nat /\ quic_freed \in Nat
    /\ arriving \in Nat /\ vanished \in Nat
    /\ max_streams \in Seq(Nat) /\ streams_blocked \in Seq(Nat)
    /\ peer_streams_opened \in Nat /\ peer_streams_closed \in Nat
    /\ local_max_streams \in Nat
    /\ errors \subseteq {"opener", "acceptor"}

(* Two endpoints that run this code never end the session over stream      *)
(* limits, although the opener also uncounts streams that QUIC refused.    *)
NoFlowControlError == errors = {}

Waiting == {blocked_stream_requests[k] : k \in DOMAIN blocked_stream_requests}

(* A create_stream request is given one stream or waits, once, in the      *)
(* queue, however often it is released and deferred again.                 *)
NoRequestLost ==
    /\ issued = created \cup Waiting /\ created \cap Waiting = {}
    /\ Len(blocked_stream_requests) = Cardinality(Waiting)
    /\ local_streams_opened = Cardinality(created)

(* A request waits only while the session's limit or QUIC's is reached.    *)
WaitsForALimit ==
    blocked_stream_requests # << >> =>
        local_streams_opened >= peer_max_streams \/ quic_credit = 0

(* While the session's limit holds requests back the peer has been told of *)
(* this limit.                                                             *)
BlockedIsReported ==
    blocked_stream_requests # << >> /\ local_streams_opened >= peer_max_streams
        => last_streams_blocked_sent = peer_max_streams

(* A request waits for a reason, and the peer knows of it: one of the two  *)
(* limits is reached, and the session's limit has been reported            *)
(* (create_stream, flush_blocked_stream_requests, defer_stream).           *)
WaitHasAReason == WaitsForALimit /\ BlockedIsReported

(* The session's flow control of streams is what module Credit promises. *)
Promise == INSTANCE Credit WITH
    Initial <- InitialMaxStreams, Window <- InitialMaxStreams,
    SpendLimit <- Cardinality(Requests),
    sent <- local_streams_opened, limit <- peer_max_streams,
    grants <- max_streams, received <- peer_streams_opened,
    consumed <- peer_streams_closed, granted <- local_max_streams
ImplementsCredit == Promise!Spec

(* Every create_stream request is given a stream in the end: MAX_STREAMS,   *)
(* STREAMS_BLOCKED and the retry after QUIC's limit see to it.  The         *)
(* exception is a session in which a stream was reset before its header was *)
(* delivered: the peer never counts it, and its credit is never returned.   *)
EveryRequestServed ==
    \A r \in Requests : r \in issued ~> (r \in created \/ vanished > 0)
==============================================================================
