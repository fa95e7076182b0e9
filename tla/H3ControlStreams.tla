-------------------------- MODULE H3ControlStreams --------------------------
(****************************************************************************)
(* The peer's unidirectional streams in the HTTP/3 layer: the control       *)
(* stream and the two QPACK streams, of which a connection has one each and *)
(* which must never end; WebTransport streams until their header is read;   *)
(* and streams of types that are refused.  They may be opened in any order  *)
(* and their data arrives cut anywhere between units.                       *)
(*                                                                          *)
(* A unit is a tuple whose first component is its kind: a half of a stream  *)
(* type, the type, a session id, the type of a control frame, its length,   *)
(* its body, QPACK instructions or data.                                    *)
(*                                                                          *)
(* Source: h3.rs; the H3 events of engine.rs; recv_stream_data of           *)
(* transport/connection.rs.                                                 *)
(****************************************************************************)
EXTENDS Naturals, Sequences, SequencesExt, FiniteSetsExt

CONSTANTS
    Streams,    \* the peer's unidirectional streams
    Types,      \* the types of stream that the peer opens
    Frames,     \* the types of control frame that it sends
    MaxUnits,   \* bound: units on all streams
    MaxUnread,  \* bound: units that have arrived and are not read
    None        \* a model value: no stream, type or id

Roles == {"control", "encoder", "decoder"}

ASSUME H3ControlStreamsAssumption ==
    /\ {MaxUnits, MaxUnread} \subseteq Nat
    /\ Types \subseteq Roles \cup {"webtransport", "push", "unknown"}

VARIABLES
    is_client,
    units,               \* how many units have arrived so far
    place,               \* per stream: its type and last unit, as far as read
    unread,              \* per stream: how many units arrived and are not read
    fin,                 \* per stream: its end arrived
    armed,               \* per stream: None, then pending_receives: 0, 1 or All
    streams,             \* per stream: H3Stream, or None if it is not in the table
    peer_stream_id,      \* per role: peer_control_stream_id and so on
    local_bound,         \* the three local streams are bound
    settings_received,
    peer_max_push_id,
    closed,              \* CloseQuicConnection was requested
    log,                 \* history: events of the control stream
    swallowed            \* history: WebTransport streams of whose data H3 took some

wire == << is_client, units, fin >>
h3 == << peer_stream_id, settings_received, peer_max_push_id >>
vars == << wire, place, unread, armed, streams, peer_stream_id, local_bound, settings_received,
           peer_max_push_id, closed, log, swallowed >>

All == MaxUnits + 1

NewStream == [buffer |-> << >>, ended |-> FALSE, stream_type |-> None]

Init ==
    /\ is_client \in BOOLEAN
    /\ units = 0 /\ place = [s \in Streams |-> [type |-> None, last |-> << "none" >>]]
    /\ unread = [s \in Streams |-> 0] /\ fin = [s \in Streams |-> FALSE]
    /\ armed = [s \in Streams |-> None]
    /\ streams = [s \in Streams |-> None]
    /\ peer_stream_id = [r \in Roles |-> None]
    /\ local_bound = FALSE
    /\ settings_received = FALSE /\ peer_max_push_id = None
    /\ closed = FALSE
    /\ log = << >>
    /\ swallowed = {}

------------------------------------------------------------------------------
(* The peer: what may follow on a stream.                                   *)

MayFollow(p) ==
    CASE p.last[1] = "none" -> {<< "more" >>} \cup ({"stream"} \X Types)
      [] p.last[1] # "none" /\ p.type = None -> {"stream"} \X Types
      [] p.type = "control" ->
           CASE p.last[1] = "frame" -> {"length"} \X {0, 1, 2}
             [] p.last = << "length", 1 >> -> {"body"} \X {0, 1, 2}
             [] p.last = << "length", 2 >> -> {<< "data", TRUE >>}
             [] OTHER -> {"frame"} \X Frames
      [] p.type \in {"encoder", "decoder"} -> {"instruction"} \X BOOLEAN
      [] p.type = "webtransport" /\ p.last[1] = "stream" ->
           {<< "more" >>} \cup ({"session"} \X BOOLEAN)
      [] p.type = "webtransport" /\ p.last[1] = "more" -> {"session"} \X BOOLEAN
      [] OTHER -> {<< "data", TRUE >>}

(* The place after unit u, no more than MayFollow needs to know.            *)
Advance(p, u) == [type |-> IF u[1] = "stream" THEN u[2] ELSE p.type,
                  last |-> IF u[1] = "length" THEN u ELSE << u[1] >>]

(* The ways in which a stream can go on for n units.                        *)
RECURSIVE Continuations(_, _)
Continuations(p, n) ==
    IF n = 0 THEN {<< >>}
    ELSE UNION {{<< u >> \o rest : rest \in Continuations(Advance(p, u), n - 1)} : u \in MayFollow(p)}

------------------------------------------------------------------------------
(* The layer's state as one record, and what becomes of it.                 *)

State == [id |-> peer_stream_id, settings |-> settings_received, push |-> peer_max_push_id,
          events |-> << >>, err |-> FALSE]

(* register_peer_infrastructure_stream                                      *)
RegisterPeerInfrastructureStream(st, s, role) ==
    IF s \in {st.id[r] : r \in Roles} \/ st.id[role] # None
    THEN [st EXCEPT !.err = TRUE]
    ELSE [st EXCEPT !.id[role] = s]

(* The MAX_PUSH_ID arm of handle_control_frame: only a server gets it, and  *)
(* it must not decrease.                                                    *)
HandleMaxPushId(st, body, bad) ==
    IF is_client \/ bad \/ (st.push # None /\ body[1][2] < st.push)
    THEN [st EXCEPT !.err = TRUE]
    ELSE [st EXCEPT !.push = body[1][2]]

HandleControlFrameBug(st, type, body) ==
    CASE type = "SETTINGS" -> IF st.settings THEN [st EXCEPT !.err = TRUE]
                              ELSE [st EXCEPT !.settings = TRUE, !.events = Append(@, "settings")]
      [] type = "GOAWAY"   -> [st EXCEPT !.events = Append(@, "goaway")]
      [] OTHER             -> st

(* handle_control_frame.  A body of 0, or none, is not an id or settings.   *)
HandleControlFrame(st, type, body) ==
    LET bad == body \in {<< >>, << << "body", 0 >> >>}
    IN CASE type = "SETTINGS" ->
              IF st.settings \/ bad THEN [st EXCEPT !.err = TRUE]
              ELSE [st EXCEPT !.settings = TRUE, !.events = Append(@, "settings")]
         [] type # "SETTINGS" /\ ~st.settings -> [st EXCEPT !.err = TRUE]
         [] type = "GOAWAY" /\ st.settings -> [st EXCEPT !.events = Append(@, "goaway")]
         [] type = "MAX_PUSH_ID" /\ st.settings -> HandleMaxPushId(st, body, bad)
         [] type \in {"CANCEL_PUSH", "HEADERS"} /\ st.settings -> [st EXCEPT !.err = TRUE]
         [] type = "UNKNOWN" /\ st.settings -> st

Complete(b) == Len(b) >= 2 /\ Len(b) >= 2 + b[2][2]
Drop(seq, n) == SubSeq(seq, n + 1, Len(seq))

(* The loop over the frames of the control stream.  A length of 2 is beyond *)
(* CONTROL_FRAME_SIZE_LIMIT.                                                *)
RECURSIVE ParseControl(_, _)
ParseControl(st, b) ==
    CASE Len(b) < 2 \/ st.err -> [st |-> st, buffer |-> b]
      [] Len(b) >= 2 /\ ~st.err ->
           CASE b[1][2] = "DATA" \/ (b[1][2] # "HEADERS" /\ b[2][2] = 2) ->
                  [st |-> [st EXCEPT !.err = TRUE], buffer |-> b]
             [] b[1][2] # "DATA" /\ (b[1][2] = "HEADERS" \/ b[2][2] < 2) /\ ~Complete(b) ->
                  [st |-> st, buffer |-> b]
             [] OTHER -> ParseControl(HandleControlFrame(st, b[1][2], SubSeq(b, 3, 2 + b[2][2])),
                                      Drop(b, 2 + b[2][2]))

------------------------------------------------------------------------------
(* What a read makes of the state, the table entry and the armed read.      *)
Outcome(st, stream, limit) == [st |-> st, stream |-> stream, armed |-> limit]
Gone(st) == Outcome(st, None, 0)
Error(st) == Gone([st EXCEPT !.err = TRUE])

(* read_varint at the head of a buffer                                      *)
HasVarint(b) == b # << >> /\ (b[1][1] = "more" => Len(b) > 1)
Varint(b) == IF b[1][1] = "more" THEN b[2][2] ELSE b[1][2]

(* parse_stream_header: the session of a WebTransport stream                *)
ParseStreamHeader(st, stream) ==
    CASE ~HasVarint(stream.buffer) /\ stream.ended  -> Gone(st)
      [] ~HasVarint(stream.buffer) /\ ~stream.ended -> Outcome(st, stream, 1)
      [] HasVarint(stream.buffer) /\ Varint(stream.buffer)  -> Gone(st)
      [] HasVarint(stream.buffer) /\ ~Varint(stream.buffer) -> Error(st)

(* The second half of recv_unidirectional_stream_data, the type being known *)
RecvTyped(st, stream) ==
    CASE stream.stream_type = "control" ->
           LET p == ParseControl(st, stream.buffer)
           IN IF stream.ended THEN Error(st)
              ELSE IF p.st.err THEN Error(p.st)
              ELSE Outcome(p.st, [stream EXCEPT !.buffer = p.buffer], All)
      [] stream.stream_type \in {"encoder", "decoder"} ->
           IF stream.ended \/ \E i \in DOMAIN stream.buffer : ~stream.buffer[i][2]
           THEN Error(st)
           ELSE Outcome(st, [stream EXCEPT !.buffer = << >>], All)
      [] stream.stream_type = "webtransport" -> ParseStreamHeader(st, stream)

(* The first half: the type of the stream.                                  *)
RecvUnidirectionalStreamData(st, s, old, data, end) ==
    LET stream == [old EXCEPT !.buffer = @ \o data, !.ended = @ \/ end]
        type   == Varint(stream.buffer)
        typed  == [stream EXCEPT !.buffer = << >>, !.stream_type = type]
    IN CASE stream.stream_type # None -> RecvTyped(st, stream)
         [] stream.stream_type = None /\ ~HasVarint(stream.buffer) ->
              IF stream.ended THEN Gone(st) ELSE Outcome(st, stream, 1)
         [] stream.stream_type = None /\ HasVarint(stream.buffer) ->
              CASE type \in Roles ->
                     LET r == RegisterPeerInfrastructureStream(st, s, type)
                     IN IF r.err THEN Error(r) ELSE RecvTyped(r, typed)
                [] type = "push"         -> Error(st)
                [] type = "webtransport" -> RecvTyped(st, typed)
                [] type = "unknown"      -> Gone(st)

------------------------------------------------------------------------------
(* handle_stream_opened                                                     *)
HandleStreamOpenedBug(s) ==
    /\ streams' = [streams EXCEPT ![s] = NewStream]
    /\ armed' = [armed EXCEPT ![s] = All]

HandleStreamOpened(s) ==
    /\ streams' = [streams EXCEPT ![s] = NewStream]
    /\ armed' = [armed EXCEPT ![s] = 1]

(* A unit or the end arrives; the first unit opens the stream.  What comes  *)
(* after H3 is done with the stream is not its concern.  What the unit is,  *)
(* is chosen when it is read.                                               *)
Arrive(s) ==
    /\ ~closed /\ ~fin[s] /\ armed[s] # 0
    /\ units < MaxUnits /\ units' = units + 1
    /\ MapThenSumSet(LAMBDA t : unread[t], Streams) < MaxUnread
    /\ unread' = [unread EXCEPT ![s] = @ + 1]
    /\ IF armed[s] = None THEN HandleStreamOpened(s)
       ELSE UNCHANGED << armed, streams >>
    /\ UNCHANGED << is_client, fin, place, h3, local_bound, closed, log, swallowed >>

Finish(s) ==
    /\ ~closed /\ ~fin[s] /\ armed[s] \in {1, All}
    /\ fin' = [fin EXCEPT ![s] = TRUE]
    /\ UNCHANGED << is_client, units, place, unread, armed, streams, h3, local_bound, closed, log,
                    swallowed >>

Readable(s) == ~closed /\ armed[s] \in {1, All} /\ (unread[s] > 0 \/ fin[s])

(* recv_stream_data of the driver and everything that follows from it       *)
ReadUnits(s, data) ==
    LET end  == fin[s] /\ (armed[s] = All \/ data = << >>)
        out  == RecvUnidirectionalStreamData(State, s,
                    IF streams[s] = None THEN NewStream ELSE streams[s],
                    data, end)
    IN /\ unread' = [unread EXCEPT ![s] = @ - Len(data)]
       /\ place' = [place EXCEPT ![s] = FoldLeft(Advance, @, data)]
       /\ streams' = [streams EXCEPT ![s] = out.stream]
       /\ armed' = [armed EXCEPT ![s] = out.armed]
       /\ peer_stream_id' = out.st.id
       /\ settings_received' = out.st.settings
       /\ peer_max_push_id' = out.st.push
       /\ closed' = out.st.err
       /\ log' = IF out.st.err THEN log ELSE log \o out.st.events
       /\ swallowed' = IF place'[s].type = "webtransport" /\ << "data", TRUE >> \in ToSet(data)
                       THEN swallowed \cup {s} ELSE swallowed
       /\ UNCHANGED << wire, local_bound >>

Read(s) ==
    /\ Readable(s)
    /\ \E data \in Continuations(place[s], IF armed[s] = 1 /\ unread[s] > 0 THEN 1 ELSE unread[s]) :
           ReadUnits(s, data)

RecvStreamResetBug(s) == s # peer_stream_id["control"]

(* recv_stream_reset of H3: is the reset harmless?                          *)
RecvStreamReset(s) == s \notin {peer_stream_id[r] : r \in Roles}

Reset(s) ==
    /\ ~closed /\ armed[s] \in {1, All}
    /\ armed' = [armed EXCEPT ![s] = 0]
    /\ IF RecvStreamReset(s)
       THEN streams' = [streams EXCEPT ![s] = None] /\ UNCHANGED closed
       ELSE closed' = TRUE /\ UNCHANGED streams
    /\ UNCHANGED << wire, place, unread, h3, local_bound, log, swallowed >>

(* bind_local_streams, or fail_local_streams when QUIC grants too few       *)
BindLocalStreams ==
    /\ ~closed /\ ~local_bound
    /\ \/ local_bound' = TRUE /\ UNCHANGED closed
       \/ closed' = TRUE /\ UNCHANGED local_bound
    /\ UNCHANGED << wire, place, unread, armed, streams, h3, log, swallowed >>

(* recv_stop_sending for a local critical stream                            *)
StopSending ==
    /\ ~closed /\ local_bound
    /\ closed' = TRUE
    /\ UNCHANGED << wire, place, unread, armed, streams, h3, local_bound, log, swallowed >>

Next ==
    \/ \E s \in Streams : Arrive(s) \/ Finish(s) \/ Read(s) \/ Reset(s)
    \/ BindLocalStreams
    \/ StopSending

Spec == Init /\ [][Next]_vars

------------------------------------------------------------------------------
(* Properties                                                               *)

(* Type invariant: the stream states of H3, the ids of the peer's critical   *)
(* streams and the driver's reads keep their types.                          *)
TypeOK ==
    /\ \A s \in Streams :
           /\ unread[s] \in 0 .. units
           /\ armed[s] \in {None, 0, 1, All}
           /\ streams[s] # None => DOMAIN streams[s] = DOMAIN NewStream
    /\ peer_stream_id \in [Roles -> Streams \cup {None}]
    /\ peer_max_push_id \in {None, 1, 2}
    /\ {is_client, local_bound, settings_received, closed} \subseteq BOOLEAN
    /\ units \in 0 .. MaxUnits /\ swallowed \subseteq Streams

(* A connection has at most one control stream and one QPACK stream each    *)
(* way: the table's streams of a role are exactly the registered one        *)
(* (register_peer_infrastructure_stream).                                   *)
OneStreamPerRole ==
    ~closed => \A s \in Streams, r \in Roles :
        peer_stream_id[r] = s <=> streams[s] # None /\ streams[s].stream_type = r

(* As long as the connection goes on, its critical streams are read: none   *)
(* has ended or been reset unnoticed.                                       *)
CriticalStreamsRead ==
    ~closed => \A r \in Roles :
        LET s == peer_stream_id[r] IN s # None => armed[s] = All /\ streams[s] # None

(* The connection sees SETTINGS before any other event of the control       *)
(* stream, and once (handle_control_frame), however the stream is cut.      *)
SettingsFirst == \A i \in DOMAIN log : (log[i] = "settings") <=> (i = 1)

(* No complete frame waits in the buffer of the control stream.             *)
ControlFramesProcessed ==
    ~closed /\ peer_stream_id["control"] # None
        => ~Complete(streams[peer_stream_id["control"]].buffer)

(* H3 reads exactly the header of a WebTransport stream, and leaves its     *)
(* data to the session (parse_stream_header).                               *)
HeaderOnly == swallowed = {}

(* The streams of a connection keep their roles: one control stream and one *)
(* QPACK stream each way, read as long as the connection goes on, so that   *)
(* their end cannot pass unnoticed, and WebTransport streams keep their     *)
(* data (register_peer_infrastructure_stream, recv_stream_reset).           *)
RolesKept == TypeOK /\ OneStreamPerRole /\ CriticalStreamsRead /\ HeaderOnly

(* Control frames are handled at once, and SETTINGS first, whatever the     *)
(* reads are cut into (recv_unidirectional_stream_data).                    *)
FramesInOrder == SettingsFirst /\ ControlFramesProcessed

==============================================================================
