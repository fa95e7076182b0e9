----------------------------- MODULE Connection -----------------------------
(***************************************************************************)
(* One connection at one endpoint: the Connection object                   *)
(* (protocol/connection.rs), the engine that dispatches events to it and   *)
(* holds back user events until it is connected (protocol/engine.rs), and  *)
(* the driver's part in creating CONNECT streams (transport/connection.rs).*)
(* The object, the effects it has produced and the driver's state are one  *)
(* record, on which every method is an operator: the driver carries out    *)
(* the effects of a call and handles the events they cause before it takes *)
(* the next event, so a call and its consequences are one action.          *)
(*                                                                         *)
(* A session is its state, whether flow control was negotiated, its        *)
(* streams and the requests waiting in it; module Session has the rest.    *)
(* CONNECT streams are numbered in the order they are opened.  A stream    *)
(* the application creates is named by its request.                        *)
(***************************************************************************)
EXTENDS Naturals, FiniteSetsExt, SequencesExt, Functions

CONSTANTS Requests,          \* requests of the application
          ServerRequests,    \* bound: those that a server's makes
          PeerStreams,       \* WebTransport streams the peer opens
          ConnectLimit,      \* bound: CONNECT streams
          DatagramLimit,     \* bound: datagrams for sessions that do not exist
          QuicStreams,       \* CONNECT streams QUIC allows at first
          MaxSessions, MaxConnectionPendingEvents, MaxSessionPendingEvents,
          MaxPendingStreams, \* streams a session holds before it is confirmed
          OverLimit          \* peer streams beyond a session's limit

ASSUME ConnectionAssumption ==
    /\ {ConnectLimit, DatagramLimit, QuicStreams, MaxSessions,
        MaxConnectionPendingEvents, MaxSessionPendingEvents,
        MaxPendingStreams} \subseteq Nat
    /\ OverLimit \subseteq PeerStreams /\ ServerRequests \subseteq Requests

VARIABLES c,          \* the connection, its effects and its driver
          issued,     \* requests made
          arrived,    \* peer and CONNECT streams that have arrived
          datagrams   \* datagrams received for sessions that do not exist

vars == << c, issued, arrived, datagrams >>

ConnectIds == 1 .. ConnectLimit
Live == {"Connecting", "Connected", "Draining"}
Ids == Requests \cup {"connect"}
Capsules == {"DRAIN_SESSION", "CLOSE_SESSION", "MALFORMED", "MAX_STREAMS"}
Empty == [x \in {} |-> {}]

NewConnection(is_client) ==
    [is_client |-> is_client,
     state |-> "Idle",
     handshake_completed |-> FALSE,
     peer_settings_received |-> FALSE,
     flow_control |-> FALSE,            \* both endpoints announced limits
     peer_goaway_received |-> FALSE, local_goaway_sent |-> FALSE,
     request_id |-> is_client,          \* the connect request is unanswered
     sessions |-> Empty,                \* CONNECT stream -> session
     session_requests |-> Empty,        \* request -> what was asked for
     pending_session_requests |-> Empty,      \* CONNECT stream -> request
     blocked_session_requests |-> << >>,
     early_event_buffer |-> [s \in ConnectIds |-> << >>],
     early_event_count |-> 0,
     stream_map |-> Empty,              \* stream -> CONNECT stream
     pending_user_events |-> << >>,     \* of the engine
     h3 |-> {},                         \* CONNECT streams that are being read
     quic |-> QuicStreams, next |-> 1,  \* CONNECT streams allowed, next one
     \* effects
     creating |-> << >>,                \* CreateH3ConnectStream, not carried out
     done |-> [r \in Ids |-> 0], failed |-> [r \in Ids |-> 0],
     optimistic |-> {},                 \* requests answered by bind_session
     accepted |-> {}, refused |-> {}]   \* what became of peer streams

Init == /\ \E is_client \in BOOLEAN : c = NewConnection(is_client)
        /\ issued = {} /\ arrived = {} /\ datagrams = 0

------------------------------------------------------------------------------
(* Answers *)

Done(w, r) == [w EXCEPT !.done[r] = @ + 1]
Failed(w, r) == [w EXCEPT !.failed[r] = @ + 1]
FailAll(w, R) == [w EXCEPT !.failed = [r \in Ids |-> @[r] + (IF r \in R THEN 1 ELSE 0)]]

------------------------------------------------------------------------------
(* Sessions, as far as the connection depends on them *)

NewSession(w) == [state |-> "Connecting", fc |-> w.flow_control,
                  replay |-> "Connected",  \* what the buffered capsules lead to
                  streams |-> {}, pending |-> 0, waiting |-> {}]

AddSession(w, s) == [w EXCEPT !.sessions = @ @@ (s :> NewSession(w))]

(* The session is over: its streams are aborted, what waits in it fails. *)
End(w, s, state) ==
    [FailAll(w, w.sessions[s].waiting) EXCEPT
        !.sessions[s].state = state,
        !.sessions[s].streams = {}, !.sessions[s].waiting = {}]

Abort(w, s) == IF s \in DOMAIN w.sessions /\ w.sessions[s].state \in Live
               THEN End(w, s, "Closed") ELSE w

ConnectClose(w, s) ==
    IF s \notin DOMAIN w.sessions \/ w.sessions[s].state = "Closed" THEN w
    ELSE End(w, s, "Closed")

(* accept and confirm: the buffered capsules are replayed. *)
Open(w, s) ==
    IF w.sessions[s].state # "Connecting" THEN w
    ELSE IF w.sessions[s].replay = "Closed" THEN End(w, s, "Closed")
    ELSE [w EXCEPT !.sessions[s].state = w.sessions[s].replay]

DrainAll(w) ==
    [w EXCEPT !.sessions =
        [s \in DOMAIN @ |-> IF @[s].state = "Connected"
                            THEN [@[s] EXCEPT !.state = "Draining"] ELSE @[s]]]

(* Requests waiting for a stream are given one. *)
Release(w, s, R) ==
    [w EXCEPT !.sessions[s].waiting = @ \ R,
              !.sessions[s].streams = @ \cup R,
              !.stream_map = [r \in R |-> s] @@ @,
              !.done = [r \in Ids |-> @[r] + (IF r \in R THEN 1 ELSE 0)]]

Refuse(w, I) == [w EXCEPT !.refused = @ \cup I]

(* A peer stream for a session that exists. *)
OpenStream(w, s, i) ==
    LET session == w.sessions[s]
        connecting == session.state = "Connecting"
    IN  CASE session.state \notin Live -> Refuse(w, {i})
          [] session.fc /\ i \in OverLimit -> Abort(Refuse(w, {i}), s)
          [] connecting /\ session.pending >= MaxPendingStreams -> Refuse(w, {i})
          [] OTHER -> [w EXCEPT !.accepted = @ \cup {i},
                                !.sessions[s].pending =
                                    IF connecting THEN @ + 1 ELSE @,
                                !.sessions[s].streams = @ \cup {i},
                                !.stream_map = (i :> s) @@ @]

------------------------------------------------------------------------------
(* Events for sessions that do not exist yet *)

BufferEarlyEvent(w, s, event) ==
    [w EXCEPT !.early_event_buffer[s] = Append(@, event),
              !.early_event_count = @ + 1]

HasRoom(w, s) == /\ w.early_event_count < MaxConnectionPendingEvents
                 /\ Len(w.early_event_buffer[s]) < MaxSessionPendingEvents

StreamsIn(events) == {e.stream : e \in ToSet(events)} \ {"datagram"}

DropUnwantedBug(w, s) ==
    LET events == w.early_event_buffer[s]
        emptied == [w EXCEPT !.early_event_buffer[s] = << >>,
                             !.early_event_count = @ - Len(events)]
    IN  IF s \notin DOMAIN w.sessions THEN emptied
        ELSE FoldLeft(LAMBDA acc, e : IF e.stream = "datagram" THEN acc
                                      ELSE OpenStream(acc, s, e.stream),
                      emptied, events)

(* The session's events are delivered, or its streams refused if there is  *)
(* no session.  Datagrams are the session's own affair.                    *)
ReplayEarlyEvents(w, s) ==
    LET events == w.early_event_buffer[s]
        emptied == [w EXCEPT !.early_event_buffer[s] = << >>,
                             !.early_event_count = @ - Len(events)]
    IN  IF s \notin DOMAIN w.sessions THEN Refuse(emptied, StreamsIn(events))
        ELSE FoldLeft(LAMBDA acc, e : IF e.stream = "datagram" THEN acc
                                      ELSE OpenStream(acc, s, e.stream),
                      emptied, events)

------------------------------------------------------------------------------
(* Session requests *)

(* The driver has opened CONNECT stream s; an optimistic request is        *)
(* answered now and its session exists before the response.                *)
BindSession(w, s, r) ==
    LET bound == [w EXCEPT !.pending_session_requests = (s :> r) @@ @,
                           !.h3 = @ \cup {s}]
    IN  IF r \in DOMAIN w.session_requests /\ w.session_requests[r].optimistic
        THEN Done(AddSession([bound EXCEPT
                                 !.session_requests = Restrict(@, DOMAIN @ \ {r}),
                                 !.optimistic = @ \cup {r}], s), r)
        ELSE bound

DeferSession(w, r) == [w EXCEPT !.blocked_session_requests = Append(@, r)]

FailSession(w, r) ==
    Failed([w EXCEPT !.session_requests = Restrict(@, DOMAIN @ \ {r})], r)

DeferLostBug(w, r) ==
    LET opened == [w EXCEPT !.quic = @ - 1, !.next = @ + 1]
    IN  IF w.quic = 0 THEN w
        ELSE IF w.session_requests[r].headers = "unencodable"
        THEN FailSession(opened, r)
        ELSE BindSession(opened, w.next, r)

(* The driver carries out one CreateH3ConnectStream: no stream, no         *)
(* encoding, or a CONNECT request on a new stream.                         *)
CreateConnectStream(w, r) ==
    LET opened == [w EXCEPT !.quic = @ - 1, !.next = @ + 1]
    IN  IF w.quic = 0 THEN DeferSession(w, r)
        ELSE IF w.session_requests[r].headers = "unencodable"
        THEN FailSession(opened, r)
        ELSE BindSession(opened, w.next, r)

Drive(w) == FoldLeft(CreateConnectStream, [w EXCEPT !.creating = << >>], w.creating)

ActiveLimit(w) == IF w.flow_control THEN MaxSessions ELSE 1

(* What a client counts towards the limit. *)
CurrentTotal(w) ==
    Cardinality(DOMAIN w.sessions) + Cardinality(DOMAIN w.session_requests)

CreateSession(w, q) ==
    LET limit == ActiveLimit(w)
    IN  IF \/ ~w.is_client \/ w.state # "Connected" \/ w.peer_goaway_received
           \/ limit > 0 /\ CurrentTotal(w) >= limit
           \/ q.headers = "invalid"
        THEN Failed(w, q.id)
        ELSE [w EXCEPT !.session_requests = (q.id :> q) @@ @,
                       !.creating = Append(@, q.id)]

CreateStream(w, s, r, credit) ==
    IF s \notin DOMAIN w.sessions \/ w.sessions[s].state \notin Live
    THEN Failed(w, r)
    ELSE IF credit THEN Release(w, s, {r})
    ELSE [w EXCEPT !.sessions[s].waiting = @ \cup {r}]

------------------------------------------------------------------------------
(* Life of the connection *)

(* User events held back are handled once the client is connected. *)
ReplayUserEvents(w) ==
    IF ~w.is_client \/ w.state # "Connected" THEN w
    ELSE FoldLeft(LAMBDA acc, q : IF q.kind = "session" THEN CreateSession(acc, q)
                                  ELSE CreateStream(acc, q.session, q.id, FALSE),
                  [w EXCEPT !.pending_user_events = << >>],
                  w.pending_user_events)

FailPendingUserEvents(w) ==
    FailAll([w EXCEPT !.pending_user_events = << >>],
            {q.id : q \in ToSet(w.pending_user_events)})

Establish(w) ==
    [w EXCEPT !.state = "Connected", !.request_id = FALSE,
              !.done["connect"] = IF w.request_id THEN @ + 1 ELSE @]

KeepUserEventsBug(w) ==
    LET unanswered == DOMAIN w.session_requests
                          \cup (IF w.request_id THEN {"connect"} ELSE {})
        ended == FoldSet(LAMBDA s, acc : ConnectClose(acc, s), w,
                         DOMAIN w.sessions)
    IN  IF w.state = "Closed" THEN w
        ELSE [FailAll(ended, unanswered) EXCEPT
                !.state = "Closed", !.request_id = FALSE,
                !.session_requests = Empty,
                !.blocked_session_requests = << >>,
                !.pending_session_requests = Empty]

(* handle_terminated, and the engine after it. *)
Terminate(w) ==
    LET unanswered == DOMAIN w.session_requests
                          \cup (IF w.request_id THEN {"connect"} ELSE {})
        ended == FoldSet(LAMBDA s, acc : ConnectClose(acc, s), w,
                         DOMAIN w.sessions)
    IN  FailPendingUserEvents(
            IF w.state = "Closed" THEN w
            ELSE [FailAll(ended, unanswered) EXCEPT
                    !.state = "Closed", !.request_id = FALSE,
                    !.session_requests = Empty,
                    !.blocked_session_requests = << >>,
                    !.pending_session_requests = Empty])

KeepBlockedBug(w) ==
    DrainAll([FailAll(w, ToSet(w.blocked_session_requests)) EXCEPT
                !.peer_goaway_received = TRUE,
                !.blocked_session_requests = << >>])

Goaway(w) ==
    LET blocked == ToSet(w.blocked_session_requests)
    IN  DrainAll([FailAll(w, blocked) EXCEPT
                    !.peer_goaway_received = TRUE,
                    !.blocked_session_requests = << >>,
                    !.session_requests = Restrict(@, DOMAIN @ \ blocked)])

------------------------------------------------------------------------------
(* Requests of the application *)

Issue(r) == /\ r \notin issued /\ issued' = issued \cup {r}
            /\ c.is_client \/ r \in ServerRequests
            /\ UNCHANGED << arrived, datagrams >>

PreConnected == c.is_client /\ c.state \in {"Idle", "Connecting"}
HoldBack(q) == [c EXCEPT !.pending_user_events = Append(@, q)]

UserCreateSession(r, optimistic, headers) ==
    LET q == [kind |-> "session", id |-> r, optimistic |-> optimistic,
              headers |-> headers]
    IN  /\ Issue(r)
        /\ c' = IF PreConnected THEN HoldBack(q) ELSE Drive(CreateSession(c, q))

UserCreateStream(r, s, credit) ==
    /\ Issue(r)
    /\ c' = IF PreConnected
            THEN HoldBack([kind |-> "stream", id |-> r, session |-> s])
            ELSE CreateStream(c, s, r, credit)

(* Headers and status codes that the session refuses make the request      *)
(* fail.  A server accepts and rejects; no client does.                    *)
AcceptSession(r, s, valid) ==
    /\ Issue(r)
    /\ c' = IF \/ s \notin DOMAIN c.sessions \/ c.is_client
               \/ c.sessions[s].state # "Connecting" \/ ~valid
            THEN Failed(c, r) ELSE Done(Open(c, s), r)

RejectSession(r, s, valid) ==
    /\ Issue(r)
    /\ c' = IF \/ s \notin DOMAIN c.sessions \/ c.is_client
               \/ c.sessions[s].state # "Connecting" \/ ~valid
            THEN Failed(c, r) ELSE Done(End(c, s, "Closed"), r)

CloseSession(r, s) ==
    /\ Issue(r)
    /\ c' = IF s \in DOMAIN c.sessions /\ c.sessions[s].state \in Live
            THEN Done(End(c, s, "Closing"), r) ELSE Done(c, r)

(* The driver reports the local close to the engine at once. *)
CloseConnection(r) ==
    /\ Issue(r)
    /\ c' = IF c.state = "Closed" THEN FailPendingUserEvents(Done(c, r))
            ELSE Terminate(FailPendingUserEvents(
                     Done([c EXCEPT !.state = "Closing"], r)))

CloseGracefully(r) ==
    /\ Issue(r)
    /\ c' = Done(IF c.state # "Connected" THEN c
                 ELSE DrainAll([c EXCEPT !.local_goaway_sent = TRUE]), r)

------------------------------------------------------------------------------
(* Events of the transport and of HTTP/3 *)

Environment == UNCHANGED << issued, arrived, datagrams >>

(* What can happen next. *)
Handshaking == c.state = "Idle"
AwaitingSettings == ~c.peer_settings_received /\ c.state # "Closed"
Unanswered(s) == /\ c.is_client /\ c.state # "Closed"
                 /\ s \in c.h3 /\ s \in DOMAIN c.pending_session_requests
StreamsWanted == UNION {c.sessions[s].waiting : s \in DOMAIN c.sessions}
Grantable(n, R) == /\ c.state # "Closed" /\ c.handshake_completed
                   /\ c.next + c.quic + n <= ConnectLimit + 1
                   /\ c.is_client \/ n = 0
                   /\ R \subseteq StreamsWanted

(* The HTTP/3 streams of this endpoint may not be available. *)
HandshakeCompleted(streams) ==
    LET shaken == [c EXCEPT !.state = "Connecting", !.handshake_completed = TRUE]
        opened == IF ~c.is_client \/ c.peer_settings_received
                  THEN ReplayUserEvents(Establish(shaken)) ELSE shaken
    IN  /\ Handshaking
        /\ c' = IF streams THEN Drive(opened) ELSE Terminate(Drive(opened))
        /\ Environment

(* SETTINGS, and GOAWAY if it is read together with them: the user events  *)
(* are replayed before GOAWAY is handled, their effects carried out after. *)
SettingsReceived(limits, goaway) ==
    LET received == [c EXCEPT !.peer_settings_received = TRUE,
                              !.flow_control = limits]
        opened == IF c.state = "Connecting" /\ c.handshake_completed
                  THEN Establish(received) ELSE received
        replayed == ReplayUserEvents(opened)
    IN  /\ AwaitingSettings
        /\ c' = Drive(IF goaway THEN Goaway(replayed) ELSE replayed)
        /\ Environment

GoawayReceived ==
    /\ c.peer_settings_received /\ c.state # "Closed"
    /\ c' = Goaway(c)
    /\ Environment

(* QUIC allows n more CONNECT streams, which only a client opens; R are    *)
(* the requests for streams that can be served.                            *)
MaxStreamsReceived(n, R) ==
    LET w == [c EXCEPT !.quic = @ + n,
                       !.blocked_session_requests = << >>,
                       !.creating = SelectSeq(c.blocked_session_requests,
                                       LAMBDA r : r \in DOMAIN c.session_requests)]
        released == FoldSet(LAMBDA s, acc :
                                Release(acc, s, c.sessions[s].waiting \cap R),
                            w, DOMAIN c.sessions)
    IN  /\ Grantable(n, R)
        /\ c' = Drive(released)
        /\ Environment

Terminated ==
    /\ c.state # "Closed"
    /\ c' = Terminate(c)
    /\ Environment

(* The response to a CONNECT request arrives at the client: success,       *)
(* success with a protocol that was not offered, or another status.  The   *)
(* engine reads on if there is a session, and else drops the stream.       *)
Response(s, status) ==
    LET r == c.pending_session_requests[s]
        w == [c EXCEPT !.pending_session_requests = Restrict(@, DOMAIN @ \ {s})]
        known == s \in DOMAIN c.sessions
        forgotten == [w EXCEPT !.session_requests = Restrict(@, DOMAIN @ \ {r})]
        result ==
            CASE ~known /\ r \notin DOMAIN c.session_requests -> Failed(w, r)
              [] status = "ok" /\ known -> ReplayEarlyEvents(Open(w, s), s)
              [] status = "ok" /\ ~known ->
                   ReplayEarlyEvents(Done(Open(AddSession(forgotten, s), s), r), s)
              [] status = "protocol" /\ known -> Abort(w, s)
              [] status = "protocol" /\ ~known -> Failed(forgotten, r)
              [] status = "refused" /\ known -> ReplayEarlyEvents(Abort(w, s), s)
              [] status = "refused" /\ ~known ->
                   ReplayEarlyEvents(Failed(forgotten, r), s)
    IN  /\ Unanswered(s)
        /\ c' = IF s \in DOMAIN result.sessions THEN result
                ELSE [result EXCEPT !.h3 = @ \ {s}]
        /\ Environment

(* A server answers 429 or 400 without creating a session. *)
Rejected(w, connect) ==
    \/ w.state # "Connected" \/ w.local_goaway_sent
    \/ ActiveLimit(w) > 0 /\ Cardinality(DOMAIN w.sessions) >= ActiveLimit(w)
    \/ ~connect

(* A request on stream s arrives at the server. *)
RequestReceived(s, connect) ==
    /\ ~c.is_client /\ c.handshake_completed /\ c.state # "Closed"
    /\ s \notin arrived /\ arrived' = arrived \cup {s}
    /\ c' = IF Rejected(c, connect) THEN c
            ELSE ReplayEarlyEvents(AddSession([c EXCEPT !.h3 = @ \cup {s}], s), s)
    /\ UNCHANGED << issued, datagrams >>

(* A CONNECT stream ends: the peer ends or resets it, or HTTP/3 gives it   *)
(* up for an error on it, of which the connection is not told.             *)
ConnectStreamEnds(s, how) ==
    LET w == [c EXCEPT !.h3 = @ \ {s}]
    IN  /\ s \in c.h3 /\ c.state # "Closed"
        /\ c' = CASE how = "fin" -> ConnectClose(w, s)
                  [] how = "reset" -> Abort(w, s)
                  [] how = "error" -> w
        /\ Environment

(* STOP_SENDING on a CONNECT stream. *)
ConnectStreamStopped(s) ==
    /\ s \in DOMAIN c.sessions /\ c.state # "Closed"
    /\ c' = Abort(c, s)
    /\ Environment

(* A capsule: buffered until the session is confirmed, where the replay    *)
(* stops at the first one that takes the session out of Connected.  The    *)
(* engine stops reading for a session that is closed.                      *)
CapsuleReceived(s, capsule, R) ==
    LET session == c.sessions[s]
        becomes == CASE capsule = "DRAIN_SESSION" -> "Draining"
                     [] capsule = "MAX_STREAMS" -> "Connected"
                     [] OTHER -> "Closed"
        result ==
            CASE session.state = "Connecting" ->
                   IF session.replay = "Connected"
                   THEN [c EXCEPT !.sessions[s].replay = becomes] ELSE c
              [] session.state \notin Live -> c
              [] becomes = "Closed" -> End(c, s, "Closed")
              [] capsule = "MAX_STREAMS" -> Release(c, s, R)
              [] capsule = "DRAIN_SESSION" -> [c EXCEPT !.sessions[s].state = "Draining"]
    IN  /\ s \in c.h3 \cap DOMAIN c.sessions /\ c.state # "Closed"
        /\ s \notin DOMAIN c.pending_session_requests
        /\ R \subseteq session.waiting /\ (capsule # "MAX_STREAMS" => R = {})
        /\ c' = IF result.sessions[s].state = "Closed"
                THEN [result EXCEPT !.h3 = @ \ {s}] ELSE result
        /\ Environment

(* Streams and datagrams of the peer may overtake the request or response  *)
(* that creates their session.  A server names CONNECT streams it has      *)
(* seen.                                                                   *)
Named(s) == /\ c.handshake_completed /\ c.state # "Closed"
            /\ c.is_client => s < c.next

StreamOpened(i, s) ==
    /\ Named(s) /\ i \notin arrived /\ arrived' = arrived \cup {i}
    /\ c' = CASE s \in DOMAIN c.sessions -> OpenStream(c, s, i)
              [] s \notin DOMAIN c.sessions /\ HasRoom(c, s) ->
                   BufferEarlyEvent(c, s, [stream |-> i, old |-> FALSE])
              [] OTHER -> Refuse(c, {i})
    /\ UNCHANGED << issued, datagrams >>

DatagramReceived(s) ==
    /\ Named(s) /\ s \notin DOMAIN c.sessions
    /\ datagrams < DatagramLimit /\ datagrams' = datagrams + 1
    /\ c' = IF HasRoom(c, s)
            THEN BufferEarlyEvent(c, s, [stream |-> "datagram", old |-> FALSE])
            ELSE c
    /\ UNCHANGED << issued, arrived >>

(* Any operation of the application or event of the transport on a stream  *)
(* that the connection routes; some end it.                                *)
StreamOperation(i, ends) ==
    LET s == c.stream_map[i]
        w == IF ends THEN [c EXCEPT !.sessions[s].streams = @ \ {i}] ELSE c
    IN  /\ i \in DOMAIN c.stream_map
        /\ c' = IF i \in w.sessions[s].streams THEN w
                ELSE [w EXCEPT !.stream_map = Restrict(@, DOMAIN @ \ {i})]
        /\ Environment

------------------------------------------------------------------------------
(* Timers *)

Old(e) == e.old
Fresh == \E s \in ConnectIds : \E e \in ToSet(c.early_event_buffer[s]) : ~Old(e)

(* The time to live of everything buffered so far runs out. *)
TimePasses ==
    /\ Fresh
    /\ c' = [c EXCEPT !.early_event_buffer =
                [s \in ConnectIds |-> [k \in DOMAIN @[s] |->
                                          [@[s][k] EXCEPT !.old = TRUE]]]]
    /\ Environment

(* Events whose time to live is over are dropped and their streams refused. *)
CleanupEarlyEvents ==
    LET expired(s) == SelectSeq(c.early_event_buffer[s], Old)
        kept(s) == SelectSeq(c.early_event_buffer[s], LAMBDA e : ~Old(e))
    IN  /\ \E s \in ConnectIds : expired(s) # << >>
        /\ c' = [Refuse(c, UNION {StreamsIn(expired(s)) : s \in ConnectIds}) EXCEPT
                    !.early_event_buffer = [s \in ConnectIds |-> kept(s)],
                    !.early_event_count =
                        @ - MapThenSumSet(LAMBDA s : Len(expired(s)), ConnectIds)]
        /\ Environment

(* Closed sessions are forgotten, and the routes to them. *)
CleanupResources ==
    LET closed == {s \in DOMAIN c.sessions : c.sessions[s].state = "Closed"}
    IN  /\ closed # {}
        /\ c' = [c EXCEPT
                    !.sessions = Restrict(@, DOMAIN @ \ closed),
                    !.stream_map = RestrictValues(@, LAMBDA s : s \notin closed)]
        /\ Environment

------------------------------------------------------------------------------
User ==
    \E r \in Requests :
        \/ \E optimistic \in BOOLEAN, headers \in {"ok", "invalid", "unencodable"} :
               UserCreateSession(r, optimistic, headers)
        \/ \E s \in ConnectIds, b \in BOOLEAN :
               \/ UserCreateStream(r, s, b)
               \/ AcceptSession(r, s, b) \/ RejectSession(r, s, b)
        \/ \E s \in ConnectIds : CloseSession(r, s)
        \/ CloseConnection(r) \/ CloseGracefully(r)

Transport ==
    \/ \E streams \in BOOLEAN : HandshakeCompleted(streams)
    \/ \E limits, goaway \in BOOLEAN : SettingsReceived(limits, goaway)
    \/ GoawayReceived \/ Terminated
    \/ \E n \in 0 .. 1, R \in SUBSET Requests : MaxStreamsReceived(n, R)
    \/ \E s \in ConnectIds :
           \/ \E status \in {"ok", "protocol", "refused"} : Response(s, status)
           \/ \E connect \in BOOLEAN : RequestReceived(s, connect)
           \/ \E how \in {"fin", "reset", "error"} : ConnectStreamEnds(s, how)
           \/ ConnectStreamStopped(s)
           \/ \E capsule \in Capsules, R \in SUBSET Requests :
                  CapsuleReceived(s, capsule, R)
           \/ \E i \in PeerStreams : StreamOpened(i, s)
           \/ DatagramReceived(s)
    \/ \E i \in PeerStreams \cup Requests, ends \in BOOLEAN : StreamOperation(i, ends)

Timers == TimePasses \/ CleanupEarlyEvents \/ CleanupResources

Next == User \/ Transport \/ Timers

Spec == Init /\ [][Next]_vars

(* The handshake completes, SETTINGS arrive, the peer answers requests and *)
(* grants streams; timers need not fire.  Weak fairness, with the guards   *)
(* in place of ENABLED, which TLC evaluates far too slowly.                *)
Shake == \E streams \in BOOLEAN : HandshakeCompleted(streams)
Settle == \E limits, goaway \in BOOLEAN : SettingsReceived(limits, goaway)
Answer(s) == \E status \in {"ok", "protocol", "refused"} : Response(s, status)

Fairness ==
    /\ []<>(~Handshaking) \/ []<><< Shake >>_vars
    /\ []<>(~AwaitingSettings) \/ []<><< Settle >>_vars
    /\ \/ []<>(~Grantable(1, StreamsWanted))
       \/ []<><< MaxStreamsReceived(1, StreamsWanted) >>_vars
    /\ \/ []<>(StreamsWanted = {} \/ ~Grantable(0, StreamsWanted))
       \/ []<><< MaxStreamsReceived(0, StreamsWanted) >>_vars
    /\ \A s \in ConnectIds : []<>(~Unanswered(s)) \/ []<><< Answer(s) >>_vars

LiveSpec == Spec /\ Fairness

------------------------------------------------------------------------------
(* Type invariant: the maps of the Connection are indexed by streams and     *)
(* requests of this connection, every stream the driver was asked to create  *)
(* has been dealt with, and ids are drawn within the bound.                  *)
TypeOK ==
    /\ c.state \in {"Idle", "Connecting", "Connected", "Closing", "Closed"}
    /\ DOMAIN c.sessions \cup DOMAIN c.pending_session_requests \subseteq ConnectIds
    /\ DOMAIN c.session_requests \subseteq issued
    /\ DOMAIN c.stream_map \subseteq PeerStreams \cup Requests
    /\ c.h3 \subseteq ConnectIds /\ c.creating = << >>
    /\ c.next <= ConnectLimit + 1
    /\ issued \subseteq Requests /\ arrived \subseteq PeerStreams \cup ConnectIds

Waiting(r) ==
    \/ r \in {q.id : q \in ToSet(c.pending_user_events)}
    \/ r \in DOMAIN c.session_requests
    \/ \E s \in DOMAIN c.sessions : r \in c.sessions[s].waiting
    \/ r = "connect" /\ c.request_id

Asked == issued \cup (IF c.is_client THEN {"connect"} ELSE {})

(* Every request is answered exactly once, or waits; the connect request   *)
(* too.  One exception: an optimistic request is answered when its stream  *)
(* is bound, and if its session is aborted and pruned before the response  *)
(* arrives, recv_headers fails it once more.                               *)
ExactlyOneAnswer ==
    \A r \in Ids :
        \/ c.done[r] + c.failed[r] + (IF Waiting(r) THEN 1 ELSE 0)
               = IF r \in Asked THEN 1 ELSE 0
        \/ r \in c.optimistic /\ c.done[r] = 1 /\ c.failed[r] = 1 /\ ~Waiting(r)

(* A session request that waits is where something will find it: held      *)
(* back by the engine, in the queue for CONNECT streams, or on one CONNECT *)
(* stream.                                                                 *)
RequestIsSomewhere ==
    \A r \in DOMAIN c.session_requests :
        Cardinality({k \in DOMAIN c.blocked_session_requests :
                         c.blocked_session_requests[k] = r})
            + Cardinality({s \in DOMAIN c.pending_session_requests :
                               c.pending_session_requests[s] = r}) = 1

(* No request is lost and none is answered twice: each has its answer, or  *)
(* waits in one place where something will find it (create_session,        *)
(* bind_session, defer_session, fail_session, handle_terminated).          *)
RequestsAccounted == ExactlyOneAnswer /\ RequestIsSomewhere

(* The counter of early events is the number of events in the buffers, and *)
(* the limits hold; it is unsigned, and decreased in two places.           *)
EarlyEventCount ==
    /\ c.early_event_count = MapThenSumSet(LAMBDA s : Len(c.early_event_buffer[s]),
                                           ConnectIds)
    /\ c.early_event_count <= MaxConnectionPendingEvents
    /\ \A s \in ConnectIds :
           Len(c.early_event_buffer[s]) <= MaxSessionPendingEvents

(* Once a session exists nothing is buffered for it: its creation replays  *)
(* what came before, and what comes after goes to the session.             *)
EarlyEventsReplayed ==
    \A s \in DOMAIN c.sessions : c.early_event_buffer[s] = << >>

(* Every stream of the peer is in exactly one place: given to a session,   *)
(* refused, or buffered for a session to come.                             *)
PeerStreamsAccounted ==
    \A i \in arrived \cap PeerStreams :
        Cardinality({s \in ConnectIds : i \in StreamsIn(c.early_event_buffer[s])})
            + (IF i \in c.accepted THEN 1 ELSE 0)
            + (IF i \in c.refused THEN 1 ELSE 0) = 1

(* What arrives before its session is counted, kept within limits, handed  *)
(* over when the session comes, and never in two places                    *)
(* (buffer_early_event, replay_early_events, cleanup_early_events).        *)
EarlyEventsAccounted == EarlyEventCount /\ EarlyEventsReplayed /\ PeerStreamsAccounted

(* Every stream of a session is routed to it, and no route leads to a      *)
(* session that is gone.                                                   *)
Routes ==
    /\ Range(c.stream_map) \subseteq DOMAIN c.sessions
    /\ \A s \in DOMAIN c.sessions : \A i \in c.sessions[s].streams :
           i \in DOMAIN c.stream_map /\ c.stream_map[i] = s

(* The limit on sessions counts those requested and those that exist, on   *)
(* either side, and changes when SETTINGS arrive.                          *)
WithinLimit ==
    ActiveLimit(c) > 0 =>
        Cardinality(DOMAIN c.sessions) + Cardinality(DOMAIN c.session_requests)
            <= ActiveLimit(c)

(* A closed connection holds no request of any kind, and all its sessions  *)
(* have ended.                                                             *)
ClosedHoldsNothing ==
    c.state = "Closed" =>
        /\ \A r \in Ids : ~Waiting(r)
        /\ c.blocked_session_requests = << >>
        /\ \A s \in DOMAIN c.sessions : c.sessions[s].state = "Closed"

(* A client uses flow control in every open session if and only if it was  *)
(* negotiated.  (A server is connected, and takes sessions, before         *)
(* SETTINGS arrive; has_flow_control is false for those.)                  *)
FlowControlAgrees ==
    c.is_client /\ c.peer_settings_received =>
        \A s \in DOMAIN c.sessions :
            c.sessions[s].state \in Live => c.sessions[s].fc = c.flow_control

(* The tables of the connection agree with each other and with its state:  *)
(* routes lead to sessions, the limit is kept, flow control is what was    *)
(* negotiated, and a closed connection holds nothing (prune_resources,     *)
(* handle_terminated, recv_settings).                                      *)
SessionsAccounted ==
    TypeOK /\ Routes /\ WithinLimit /\ FlowControlAgrees /\ ClosedHoldsNothing

(* The CONNECT stream of a request ended before the response:              *)
(* recv_stream_reset and recv_connect_close look for a session on it only, *)
(* and a request that is not optimistic has none yet.                      *)
EndedUnanswered(r) ==
    \E s \in DOMAIN c.pending_session_requests :
        c.pending_session_requests[s] = r /\ s \notin c.h3

(* Every request is answered in the end, if the peer grants streams and    *)
(* answers every CONNECT request, or its CONNECT stream ends before that.  *)
RequestsAnswered ==
    \A r \in Requests :
        r \in issued ~> c.done[r] + c.failed[r] > 0 \/ EndedUnanswered(r)

=============================================================================
