--------------------------- MODULE H3RequestStream ---------------------------
(****************************************************************************)
(* One bidirectional stream in the HTTP/3 layer: recognising the stream,    *)
(* parsing frames and capsules out of reads of any size, and asking for the *)
(* next read.  It is the CONNECT stream of a session, another request, or a *)
(* WebTransport stream until its header is read.                            *)
(*                                                                          *)
(* The wire carries units, tuples whose first component is their kind.  A   *)
(* frame is a type, a length and as many units of body; the body of HEADERS *)
(* is one field section, the bodies of DATA carry capsules, each a header   *)
(* with a length and at most one unit of value.  The stream may be cut      *)
(* anywhere between units.  QPACK has no dynamic table, as in the code      *)
(* (both capacities are 0), so that headers never block.                    *)
(*                                                                          *)
(* Source: h3.rs; the H3 events of engine.rs; recv_stream_data of           *)
(* transport/connection.rs.                                                 *)
(****************************************************************************)
EXTENDS Naturals, Sequences, SequencesExt

CONSTANTS
    Scripts,     \* what the peer sends: sequences of records [type, length, body]
    Headers,     \* scripts of WebTransport streams: sequences of units
    SizeLimit,   \* the limits on field sections, other frames and capsules
    None         \* a model value: no stream, type, session or error

ASSUME H3RequestStreamAssumption == SizeLimit \in Nat

VARIABLES
    is_client,
    wire,      \* the units that the peer sends
    arrived,   \* how many of them have arrived
    fin,       \* the end of the stream has arrived
    read,      \* how many of them the driver has read
    armed,     \* pending_receives of the driver: 0, 1 or All
    streams,   \* H3Stream, or None when it is not in H3's table
    session,   \* the session of this CONNECT stream
    outcome,   \* open, or how the layer gave up: on the stream, the connection
    log        \* history: the events that the engine handled

peer == << is_client, wire >>
vars == << peer, arrived, fin, read, armed, streams, session, outcome, log >>

All == SizeLimit + 99

NewStream == [buffer |-> << >>, capsule_buffer |-> << >>, ended |-> FALSE, frame_type |-> None,
              frame_size |-> 0, headers_processed |-> FALSE, is_connect_stream |-> FALSE,
              is_request_stream |-> FALSE, stream_type |-> None]

(* A frame on the wire, and where frames begin: the places at which a       *)
(* stream ends properly.                                                    *)
Units(frames) == FlattenSeq([i \in DOMAIN frames |->
    << << "type", frames[i].type >>, << "length", frames[i].length >> >> \o frames[i].body])
Boundary(n) == n < Len(wire) => wire[n + 1][1] = "type"

(* Type invariant: reading stays within what has arrived, and the H3 stream  *)
(* state and the session that hangs on it keep their types.                  *)
TypeOK ==
    /\ arrived \in 0 .. Len(wire) /\ read \in 0 .. arrived
    /\ armed \in {0, 1, All}
    /\ streams # None => DOMAIN streams = DOMAIN NewStream /\ streams.frame_size \in Nat
    /\ session \in {None, "open", "closing", "closed", "gone"}
    /\ outcome \in {"open", "stream", "connection", "loop"}

(* A client's CONNECT stream is bound by bind_connect_stream, with a        *)
(* session already if it is optimistic; other streams are the peer's.       *)
BindConnectStream ==
    /\ armed = All
    /\ streams = [NewStream EXCEPT !.is_connect_stream = TRUE, !.is_request_stream = TRUE]
    /\ session \in {None, "open"}

HandleStreamOpenedBug ==
    /\ armed = All
    /\ streams = NewStream
    /\ session = None

HandleStreamOpened ==
    /\ armed = 1
    /\ streams = NewStream
    /\ session = None

Init ==
    /\ is_client \in BOOLEAN
    /\ \/ wire \in {Units(f) : f \in Scripts} /\ is_client /\ BindConnectStream
       \/ wire \in {Units(f) : f \in Scripts} \cup Headers /\ HandleStreamOpened
    /\ arrived = 0 /\ fin = FALSE /\ read = 0
    /\ outcome = "open"
    /\ log = << >>

------------------------------------------------------------------------------
(* Parsing.  A result is the stream, the events found, and an error.        *)

Result(s, events) == [s |-> s, events |-> events, err |-> None]
Failed(s, err) == [s |-> s, events |-> << >>, err |-> err]
Before(events, r) == IF r.err # None THEN r ELSE [r EXCEPT !.events = events \o @]
Drop(seq, n) == SubSeq(seq, n + 1, Len(seq))

(* read_varint at the head of a buffer; "more" is the first half of an      *)
(* integer.                                                                 *)
HasVarint(b) == b # << >> /\ (b[1][1] = "more" => Len(b) > 1)
Varint(b) == IF b[1][1] = "more" THEN b[2][2] ELSE b[1][2]

(* parse_capsules: the complete capsules of the buffer                      *)
RECURSIVE ParseCapsules(_)
ParseCapsules(s) ==
    LET c == s.capsule_buffer
    IN CASE c = << >> -> Result(s, << >>)
         [] c # << >> /\ c[1][3] > SizeLimit -> Failed(s, "stream")
         [] c # << >> /\ c[1][3] <= SizeLimit /\ Len(c) < 1 + c[1][3] -> Result(s, << >>)
         [] OTHER -> Before(<< c[1][2] >>,
                            ParseCapsules([s EXCEPT !.capsule_buffer = Drop(c, 1 + c[1][3])]))

(* handle_request_frame                                                     *)
HandleRequestFrame(s, type, body) ==
    CASE type = "DATA" ->
           IF s.is_connect_stream /\ s.headers_processed
           THEN ParseCapsules([s EXCEPT !.capsule_buffer = @ \o body])
           ELSE Result(s, << >>)
      [] type = "HEADERS" ->
           IF s.headers_processed \/ body = << << "fields", "invalid" >> >>
           THEN Failed(s, "stream")
           ELSE Result([s EXCEPT !.headers_processed = TRUE,
                                 !.is_connect_stream = @ \/ body = << << "fields", "webtransport" >> >>],
                       << body[1][2] >>)
      [] type = "UNKNOWN" -> Result(s, << >>)
      [] type = "SETTINGS" -> Failed(s, "connection")

(* The type and length of the next frame, with the limits on its size.      *)
NextFrame(s) ==
    LET b == s.buffer
        t == b[1][2]
        n == b[2][2]
    IN CASE t = "HEADERS" /\ n > SizeLimit -> Failed(s, "stream")
         [] t \notin {"HEADERS", "DATA"} /\ n > SizeLimit -> Failed(s, "connection")
         [] OTHER -> Result([s EXCEPT !.frame_type = t, !.frame_size = n, !.buffer = Drop(b, 2)],
                            << >>)

Chunk(s) == IF s.frame_size < Len(s.buffer) THEN s.frame_size ELSE Len(s.buffer)

RECURSIVE ParseStreamData(_)

ParseFrameBug(s) ==
    LET b == s.buffer
        r == HandleRequestFrame([s EXCEPT !.buffer = Drop(b, s.frame_size), !.frame_type = None,
                                          !.frame_size = 0],
                                s.frame_type, SubSeq(b, 1, s.frame_size))
    IN IF Len(b) < s.frame_size THEN Result(s, << >>) ELSE r

(* The second half of a round of parse_stream_data.  DATA is handled as it  *)
(* arrives, other frames when they are complete.  The loop is left after a  *)
(* round that took nothing, unless the stream has ended; if the frame is    *)
(* still incomplete then, the next round is the same one again.             *)
ParseFrame(s) ==
    LET b     == s.buffer
        chunk == Chunk(s)
        last  == chunk = s.frame_size
        r     == HandleRequestFrame([s EXCEPT !.buffer = Drop(b, chunk), !.frame_size = @ - chunk],
                                    s.frame_type, SubSeq(b, 1, chunk))
        t     == IF last THEN [r.s EXCEPT !.frame_type = None] ELSE r.s
    IN CASE s.frame_type # "DATA" /\ ~last -> Result(s, << >>)
         [] (s.frame_type = "DATA" \/ last) /\ r.err # None -> r
         [] (s.frame_type = "DATA" \/ last) /\ r.err = None ->
              CASE chunk = 0 /\ ~s.ended         -> Result(t, r.events)
                [] chunk = 0 /\ s.ended /\ ~last -> Failed(t, "loop")
                [] OTHER                         -> Before(r.events, ParseStreamData(t))

(* The first half: is there a frame to go on with?                          *)
ParseStreamData(s) ==
    CASE s.buffer = << >> /\ ~s.ended -> Result(s, << >>)
      [] (s.buffer # << >> \/ s.ended) /\ s.frame_type = None /\ Len(s.buffer) < 2 ->
           Result(s, << >>)
      [] s.frame_type = None /\ Len(s.buffer) >= 2 ->
           LET n == NextFrame(s) IN IF n.err # None THEN n ELSE ParseFrame(n.s)
      [] (s.buffer # << >> \/ s.ended) /\ s.frame_type # None -> ParseFrame(s)

------------------------------------------------------------------------------
(* recv_request_data: the stream that goes back into the table, the read    *)
(* that is armed and the events, or an error.                               *)

Keep(s, limit, events) == [streams |-> s, armed |-> limit, events |-> events, err |-> None]
Cleanup(events) == Keep(None, 0, events)

(* parse_stream_header: the session of a WebTransport stream                *)
ParseStreamHeader(s) ==
    CASE ~HasVarint(s.buffer) /\ s.ended  -> Cleanup(<< >>)
      [] ~HasVarint(s.buffer) /\ ~s.ended -> Keep(s, 1, << >>)
      [] OTHER ->
           IF Varint(s.buffer) = "invalid"
           THEN [Cleanup(<< >>) EXCEPT !.err = "connection"]
           ELSE Cleanup(<< "stream" >>)

RecvFramesBug(s) ==
    LET r      == ParseStreamData(s)
        closed == IF s.is_connect_stream THEN << "closed" >> ELSE << >>
    IN CASE r.err # None -> [Cleanup(<< >>) EXCEPT !.err = r.err]
         [] r.err = None /\ s.ended /\ r.s.buffer = << >> -> Cleanup(r.events \o closed)
         [] OTHER -> Keep(r.s, IF s.ended \/ r.s.headers_processed # s.headers_processed
                               THEN 0 ELSE All, r.events)

(* The rest of recv_request_data for a request.  After the headers it waits *)
(* for the engine to resume the stream.                                     *)
RecvFrames(s) ==
    LET r      == ParseStreamData(s)
        closed == IF r.s.is_connect_stream THEN << "closed" >> ELSE << >>
    IN CASE r.err # None -> [Cleanup(<< >>) EXCEPT !.err = r.err]
         [] r.err = None /\ s.ended /\ r.s.buffer = << >> -> Cleanup(r.events \o closed)
         [] OTHER -> Keep(r.s, IF s.ended \/ r.s.headers_processed # s.headers_processed
                               THEN 0 ELSE All, r.events)

RecvRequestData(old, data, end) ==
    LET s == [old EXCEPT !.buffer = @ \o data, !.ended = @ \/ end]
        unknown == ~s.is_request_stream /\ s.stream_type = None
    IN CASE unknown /\ ~HasVarint(s.buffer) /\ s.ended -> Cleanup(<< >>)
         [] unknown /\ ~HasVarint(s.buffer) /\ ~s.ended -> Keep(s, 1, << >>)
         [] unknown /\ HasVarint(s.buffer) /\ Varint(s.buffer) = "WT_STREAM" ->
              ParseStreamHeader([s EXCEPT !.buffer = << >>, !.stream_type = "webtransport"])
         [] unknown /\ HasVarint(s.buffer) /\ Varint(s.buffer) # "WT_STREAM" ->
              IF is_client THEN [Cleanup(<< >>) EXCEPT !.err = "connection"]
              ELSE RecvFrames([s EXCEPT !.is_request_stream = TRUE])
         [] s.stream_type = "webtransport" -> ParseStreamHeader(s)
         [] s.is_request_stream -> RecvFrames(s)

------------------------------------------------------------------------------
(* The engine handles the events of one read in their order.  What it makes *)
(* of one depends on the connection and on the contents of headers and      *)
(* capsules: a choice.  A world is the table, the armed read and the        *)
(* session.                                                                 *)

IsSessionStream(w) == w.session \in {"open", "closing", "closed"}

(* recv_headers of the connection: the session that there is afterwards     *)
RecvHeaders(w, fields) ==
    CASE w.session = "open" -> {"open", "closed"}
      [] w.session \in {"closing", "closed", "gone"} -> {w.session}
      [] w.session = None ->
           IF fields = "plain" /\ ~is_client THEN {None} ELSE {None, "open"}

ResumeRequestStream(w) ==
    IF w.streams = None \/ w.streams.ended THEN w ELSE [w EXCEPT !.armed = All]

StopRequestStream(w) ==
    IF w.streams = None THEN w ELSE [w EXCEPT !.streams = None, !.armed = 0]

OnHeaders(w, fields) ==
    {IF IsSessionStream(v) THEN ResumeRequestStream(v) ELSE [v EXCEPT !.streams = None] :
        v \in {[w EXCEPT !.session = x] : x \in RecvHeaders(w, fields)}}

OnCapsule(w) ==
    {IF v.session = "closed" THEN StopRequestStream(v) ELSE v :
        v \in {w} \cup IF w.session = "open" THEN {[w EXCEPT !.session = "closed"]} ELSE {}}

OnEvent(w, event) ==
    CASE event \in {"webtransport", "plain"} -> OnHeaders(w, event)
      [] event = "closed"  -> {[w EXCEPT !.session = IF IsSessionStream(w) THEN "closed" ELSE @]}
      [] event = "stream"  -> {w}
      [] OTHER             -> OnCapsule(w)

(* The events of a read go to the front of the queue, last one first.       *)
EventsInTurn(events) ==
    FoldLeft(LAMBDA queue, event : << event >> \o queue, << >>, Reverse(events))

Handle(w, events) ==
    FoldLeft(LAMBDA worlds, event : UNION {OnEvent(v, event) : v \in worlds}, {w}, events)

------------------------------------------------------------------------------
(* QUIC delivers another unit, or the end.                                  *)
Arrive ==
    /\ ~fin /\ arrived < Len(wire)
    /\ arrived' = arrived + 1
    /\ UNCHANGED << peer, fin, read, armed, streams, session, outcome, log >>

Finish ==
    /\ ~fin
    /\ fin' = TRUE
    /\ UNCHANGED << peer, arrived, read, armed, streams, session, outcome, log >>

Readable == outcome = "open" /\ armed # 0 /\ (read < arrived \/ fin)

(* recv_stream_data of the driver and everything that follows from it.  A   *)
(* read that reaches its limit does not see the end.                        *)
Read ==
    LET n     == IF armed = 1 /\ read < arrived THEN 1 ELSE arrived - read
        end   == fin /\ (armed = All \/ n = 0)
        r     == RecvRequestData(IF streams = None THEN NewStream ELSE streams,
                                 SubSeq(wire, read + 1, read + n), end)
        queue == EventsInTurn(r.events)
    IN /\ Readable
       /\ read' = read + n
       /\ IF r.err = None
          THEN /\ \E w \in Handle([streams |-> r.streams, armed |-> r.armed, session |-> session],
                                  queue) :
                    streams' = w.streams /\ armed' = w.armed /\ session' = w.session
               /\ log' = log \o queue
               /\ UNCHANGED outcome
          ELSE /\ outcome' = r.err /\ streams' = None /\ armed' = 0
               /\ UNCHANGED << session, log >>
       /\ UNCHANGED << peer, arrived, fin >>

(* The peer resets the stream: recv_stream_reset of the connection for the  *)
(* stream of a session, of H3 for any other.                                *)
Reset ==
    /\ outcome = "open" /\ armed # 0
    /\ streams' = None /\ armed' = 0
    /\ session' = IF session = "open" THEN "closed" ELSE session
    /\ UNCHANGED << peer, arrived, fin, read, outcome, log >>

(* close and abort of the session for a reason that is not on this stream   *)
EndSession ==
    /\ outcome = "open" /\ session = "open"
    /\ session' \in {"closing", "closed"}
    /\ UNCHANGED << peer, arrived, fin, read, armed, streams, outcome, log >>

(* prune_closed_sessions                                                    *)
Prune ==
    /\ outcome = "open" /\ session = "closed"
    /\ session' = "gone"
    /\ UNCHANGED << peer, arrived, fin, read, armed, streams, outcome, log >>

Next == Arrive \/ Finish \/ Read \/ Reset \/ EndSession \/ Prune

Spec == Init /\ [][Next]_vars

------------------------------------------------------------------------------
(* Properties                                                               *)

(* The events of the first n units, read off the wire without parsing: the  *)
(* headers, and after them each capsule when its last unit is there.        *)
Expected(n) ==
    LET units == SelectSeq(SubSeq(wire, 1, n), LAMBDA u :
                     u[1] \in {"fields", "value"} \/ (u[1] = "capsule" /\ u[3] = 0))
        first == SelectInSeq(units, LAMBDA u : u[1] = "fields")
    IN IF first = 0 THEN << >>
       ELSE LET after == SubSeq(units, first, Len(units))
            IN [i \in DOMAIN after |-> after[i][2]]
Handled == SelectSeq(log, LAMBDA e : e \notin {"closed", "stream"})

(* However the stream is cut into reads, the engine handles the headers and *)
(* the capsules that were sent, each once and in order (parse_stream_data,  *)
(* parse_capsules, handle_event).                                           *)
EventsInOrder == IsPrefix(Handled, Expected(read))

(* The peer ended the stream inside a frame, which no peer that keeps to    *)
(* HTTP/3 does, or sent a frame without a body.  A stream that ends inside  *)
(* a DATA frame keeps parse_stream_data in its loop for ever; one that ends *)
(* inside another frame leaves its session open.                            *)
Truncated == fin /\ ~Boundary(arrived)
EmptyFrame == \E i \in 1 .. read : wire[i] = << "length", 0 >>

(* Nothing complete is left lying in a buffer: while a CONNECT stream is    *)
(* read, all that its bytes so far say has been handled.  The exception is  *)
(* a frame without a body: parse_stream_data leaves its loop behind it, and *)
(* what follows waits for the next read.                                    *)
FramesProcessed ==
    outcome = "open" /\ streams # None /\ streams.is_connect_stream
        => Handled = Expected(read) \/ EmptyFrame

(* A stream that is in the table and has not ended is being read, and no    *)
(* read is armed for a stream that is not: its bytes would start a new      *)
(* stream (recv_request_data falls back to a default).                      *)
ReadsHaveAStream ==
    outcome = "open" => (armed # 0 <=> streams # None /\ ~streams.ended)

(* H3 reads exactly the header of a WebTransport stream, and leaves its     *)
(* data to the session (parse_stream_header).                               *)
HeaderOnly ==
    Contains(log, "stream") => read = SelectInSeq(wire, LAMBDA u : u[1] = "session")

(* A session is open only while its CONNECT stream is being read: the end   *)
(* of the stream ends the session (recv_connect_close), unless it is inside *)
(* a frame: recv_request_data reports it only if the buffer is empty.       *)
SessionHasStream ==
    outcome = "open" /\ session = "open"
        => streams # None /\ (streams.ended => Truncated)

(* parse_stream_data returns: its loop never repeats a round that changed   *)
(* nothing, unless the stream ended inside a frame.                         *)
ParserReturns == outcome = "loop" => Truncated

(* However the stream is cut into reads, what it says is handled in order,  *)
(* completely, and no further than H3's part of it (parse_stream_data,      *)
(* parse_capsules, parse_stream_header).                                    *)
EventsComplete == EventsInOrder /\ FramesProcessed /\ HeaderOnly

(* Table, armed reads, session and parser agree: what is in the table is    *)
(* read, an open session has its CONNECT stream, and the parser returns     *)
(* (recv_request_data, resume_request_stream, recv_connect_close).          *)
StreamsServed == TypeOK /\ ReadsHaveAStream /\ SessionHasStream /\ ParserReturns

==============================================================================
