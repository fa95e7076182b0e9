------------------------------ MODULE StreamOps ------------------------------
(***************************************************************************)
(* The operations of one WebTransport stream (protocol/stream.rs) as       *)
(* operators on a stream record.  Payloads are abstracted to lengths.      *)
(* Every operation yields an outcome: the new record, the number of bytes  *)
(* it charges to the session's send credit, the requests it answered, and  *)
(* the effects it asks the transport for, with the length of the data of a *)
(* SendQuicData.  The modules Stream and SessionData give these operators  *)
(* to the drivers that call them.  An operator with a name in -Bug is a    *)
(* mistake the operation after it could contain; no specification uses it. *)
(***************************************************************************)
EXTENDS Naturals, Sequences, FiniteSets

CONSTANTS Requests,            \* request ids the application can use
          NoRequest,           \* Option::None of a request id
          MaxWriteBufferSize   \* max_write_buffer_size

ASSUME RequestAssumption == NoRequest \notin Requests
ASSUME BufferAssumption == MaxWriteBufferSize \in Nat

SendStates == {"None", "Ready", "DataSent", "DataReceived", "ResetSent"}
ReceiveStates == {"None", "Receive", "DataReceived", "DataRead", "ResetRead"}
Chunks == [id : Requests, len : Nat, fin : BOOLEAN]
Reads == [id : Requests, max : Nat \ {0}]
QuicEffects == {"SendQuicData", "ResetQuicStream", "StopQuicStream",
                "ReceiveQuicData"}

Streams == [send_state : SendStates,
            receive_state : ReceiveStates,
            write_buffer : Seq(Chunks),
            write_buffer_size : Nat,
            pending_write_request : Requests \cup {NoRequest},
            pending_read_requests : Seq(Reads)]

NewStream(direction) ==
    [send_state |-> IF direction = "ReceiveOnly" THEN "None" ELSE "Ready",
     receive_state |-> IF direction = "SendOnly" THEN "None" ELSE "Receive",
     write_buffer |-> << >>,
     write_buffer_size |-> 0,
     pending_write_request |-> NoRequest,
     pending_read_requests |-> << >>]

(* The ids of a queue of chunks or of reads, front first. *)
Ids(queue) == [i \in DOMAIN queue |-> queue[i].id]

(* How often r occurs in a sequence of request ids. *)
Count(ids, r) == Cardinality({i \in DOMAIN ids : ids[i] = r})

(* n bytes, each marked with the request it belongs to. *)
Repeat(r, n) == [i \in 1 .. n |-> r]

(* The chunks of the buffer spell the bytes of acc after the first n: f    *)
(* gives the end of every chunk, and each byte belongs to one of them.     *)
Spells(buffer, acc, n) ==
    \E f \in [0 .. Len(buffer) -> 0 .. Len(acc) - n] :
        /\ f[0] = 0 /\ f[Len(buffer)] = Len(acc) - n
        /\ \A i, j \in 0 .. Len(buffer) : i <= j => f[i] <= f[j]
        /\ \A i \in 1 .. Len(buffer) : f[i] = f[i - 1] + buffer[i].len
        /\ \A k \in 1 .. Len(acc) - n :
               \E i \in 1 .. Len(buffer) :
                   k \in f[i - 1] + 1 .. f[i] /\ acc[n + k] = buffer[i].id

Outcome(s) == [stream |-> s, sent |-> 0, data |-> 0,
               done |-> << >>, failed |-> << >>, effects |-> {}]
Done(s, r) == [Outcome(s) EXCEPT !.done = << r >>]
Failed(s, r) == [Outcome(s) EXCEPT !.failed = << r >>]

SendTerminated(s) == s.send_state \in {"None", "DataReceived", "ResetSent"}
ReceiveTerminated(s) == s.receive_state \in {"None", "DataRead", "ResetRead"}
IsClosed(s) == SendTerminated(s) /\ ReceiveTerminated(s)

(* The requests a stream still owes an answer, on either half. *)
Writing(s) == {s.write_buffer[i].id : i \in DOMAIN s.write_buffer}
                  \cup ({s.pending_write_request} \ {NoRequest})
Reading(s) == {s.pending_read_requests[i].id :
                  i \in DOMAIN s.pending_read_requests}
Held(s) == Writing(s) \cup Reading(s)

(* Bytes wait in the buffer and no send is in progress. *)
IsBlocked(s) == s.pending_write_request = NoRequest /\ s.write_buffer # << >>

(* Part of the request whose bytes are being sent is still buffered. *)
PartlySent(s) == /\ s.write_buffer # << >>
                 /\ Head(s.write_buffer).id = s.pending_write_request

(***************************************************************************)
(* The sending half.                                                       *)
(***************************************************************************)

IgnoreCreditBug(s, credit) ==
    LET front == Head(s.write_buffer)
    IN  IF \/ s.pending_write_request # NoRequest
           \/ s.send_state # "Ready"
           \/ s.write_buffer = << >>
        THEN Outcome(s)
        ELSE [Outcome([s EXCEPT
                 !.write_buffer = Tail(@),
                 !.write_buffer_size = @ - front.len,
                 !.pending_write_request = front.id,
                 !.send_state = IF front.fin THEN "DataSent" ELSE @])
              EXCEPT !.sent = front.len, !.data = front.len,
                     !.effects = {"SendQuicData"}]

(* Hand the front of the buffer, or as much of it as the credit allows, to *)
(* the transport; one send is in progress at a time.                       *)
FlushWrites(s, credit) ==
    LET front == Head(s.write_buffer)
        rest == Tail(s.write_buffer)
        complete == front.len <= credit
        sent == IF complete THEN front.len ELSE credit
    IN  IF \/ s.pending_write_request # NoRequest
           \/ s.send_state # "Ready"
           \/ s.write_buffer = << >>
           \/ front.len > 0 /\ credit = 0
        THEN Outcome(s)
        ELSE [Outcome([s EXCEPT
                 !.write_buffer =
                     IF complete THEN rest
                     ELSE << [front EXCEPT !.len = @ - credit] >> \o rest,
                 !.write_buffer_size = @ - sent,
                 !.pending_write_request = front.id,
                 !.send_state = IF complete /\ front.fin THEN "DataSent" ELSE @])
              EXCEPT !.sent = sent, !.data = sent, !.effects = {"SendQuicData"}]

DoneTooEarlyBug(s, credit) ==
    IF s.pending_write_request = NoRequest
    THEN Outcome(s)
    ELSE [FlushWrites([s EXCEPT !.pending_write_request = NoRequest], credit)
          EXCEPT !.done = << s.pending_write_request >>]

UnchargedBug(s, credit) ==
    IF s.pending_write_request = NoRequest
    THEN Outcome(s)
    ELSE [FlushWrites([s EXCEPT !.pending_write_request = NoRequest], credit)
          EXCEPT !.sent = 0,
                 !.done = IF PartlySent(s) THEN << >>
                          ELSE << s.pending_write_request >>]

CompleteWrite(s, credit) ==
    LET flushed == FlushWrites([s EXCEPT !.pending_write_request = NoRequest],
                               credit)
    IN  IF s.pending_write_request = NoRequest
        THEN Outcome(s)
        ELSE [flushed EXCEPT !.done = IF PartlySent(s) THEN << >>
                                      ELSE << s.pending_write_request >>]

(* The stream has been finished, or its last buffered chunk finishes it. *)
FinishPending(s) ==
    \/ s.send_state # "Ready"
    \/ s.write_buffer # << >> /\ s.write_buffer[Len(s.write_buffer)].fin

Write(s, r, len, fin, credit) ==
    IF s.send_state = "None"
    THEN Failed(s, r)
    ELSE IF FinishPending(s)
    THEN IF len = 0 /\ fin THEN Done(s, r) ELSE Failed(s, r)
    ELSE IF s.write_buffer_size + len > MaxWriteBufferSize
    THEN Failed(s, r)
    ELSE FlushWrites(
            [s EXCEPT !.write_buffer =
                          Append(@, [id |-> r, len |-> len, fin |-> fin]),
                      !.write_buffer_size = @ + len],
            credit)

FailTwiceBug(s) ==
    LET sending == IF s.pending_write_request = NoRequest
                   THEN << >> ELSE << s.pending_write_request >>
    IN  IF SendTerminated(s)
        THEN Outcome(s)
        ELSE [Outcome([s EXCEPT !.send_state = "ResetSent",
                                !.write_buffer = << >>,
                                !.write_buffer_size = 0,
                                !.pending_write_request = NoRequest])
              EXCEPT !.failed = sending \o Ids(s.write_buffer),
                     !.effects = {"ResetQuicStream"}]

SendReset(s) ==
    LET sending == IF s.pending_write_request = NoRequest \/ PartlySent(s)
                   THEN << >> ELSE << s.pending_write_request >>
    IN  IF SendTerminated(s)
        THEN Outcome(s)
        ELSE [Outcome([s EXCEPT !.send_state = "ResetSent",
                                !.write_buffer = << >>,
                                !.write_buffer_size = 0,
                                !.pending_write_request = NoRequest])
              EXCEPT !.failed = sending \o Ids(s.write_buffer),
                     !.effects = {"ResetQuicStream"}]

Reset(s, r) ==
    IF s.send_state = "None" THEN Failed(s, r)
    ELSE [SendReset(s) EXCEPT !.done = << r >>]

RecvStopSending(s) == SendReset(s)

HandleDataAcknowledged(s) ==
    IF s.send_state = "DataSent"
    THEN [s EXCEPT !.send_state = "DataReceived"]
    ELSE s

(***************************************************************************)
(* The receiving half.                                                     *)
(***************************************************************************)

Read(s, r, max) ==
    IF s.receive_state \in {"None", "ResetRead"}
    THEN Failed(s, r)
    ELSE IF s.receive_state = "Receive" /\ max > 0
    THEN [Outcome([s EXCEPT !.pending_read_requests =
                                Append(@, [id |-> r, max |-> max])])
          EXCEPT !.effects = IF s.pending_read_requests = << >>
                             THEN {"ReceiveQuicData"} ELSE {}]
    ELSE Done([s EXCEPT !.receive_state =
                  IF @ = "DataReceived" /\ max > 0 THEN "DataRead" ELSE @], r)

NoRearmBug(s, len, fin) ==
    LET reads == s.pending_read_requests
        told_end == fin /\ reads # << >> /\ (len = 0 \/ Len(reads) > 1)
    IN  IF s.receive_state # "Receive"
        THEN Outcome(s)
        ELSE IF fin
        THEN [Outcome([s EXCEPT
                 !.receive_state = IF told_end THEN "DataRead"
                                   ELSE "DataReceived",
                 !.pending_read_requests = << >>])
              EXCEPT !.done = Ids(reads)]
        ELSE IF reads = << >>
        THEN Outcome(s)
        ELSE Done([s EXCEPT !.pending_read_requests = Tail(@)], Head(reads).id)

(* len bytes, or the end of the stream, or both, read from QUIC for the    *)
(* oldest pending read; at the end every other pending read is answered    *)
(* empty.                                                                  *)
RecvData(s, len, fin) ==
    LET reads == s.pending_read_requests
        told_end == fin /\ reads # << >> /\ (len = 0 \/ Len(reads) > 1)
    IN  IF s.receive_state # "Receive"
        THEN Outcome(s)
        ELSE IF fin
        THEN [Outcome([s EXCEPT
                 !.receive_state = IF told_end THEN "DataRead"
                                   ELSE "DataReceived",
                 !.pending_read_requests = << >>])
              EXCEPT !.done = Ids(reads)]
        ELSE IF reads = << >>
        THEN Outcome(s)
        ELSE [Outcome([s EXCEPT !.pending_read_requests = Tail(@)])
              EXCEPT !.done = << Head(reads).id >>,
                     !.effects = IF Tail(reads) = << >> THEN {}
                                 ELSE {"ReceiveQuicData"}]

RecvReset(s) ==
    IF ReceiveTerminated(s)
    THEN Outcome(s)
    ELSE [Outcome([s EXCEPT !.receive_state = "ResetRead",
                            !.pending_read_requests = << >>])
          EXCEPT !.failed = Ids(s.pending_read_requests)]

SendStop(s) ==
    IF s.receive_state \notin {"Receive", "DataReceived"}
    THEN Outcome(s)
    ELSE [Outcome([s EXCEPT !.receive_state = "ResetRead",
                            !.pending_read_requests = << >>])
          EXCEPT !.failed = Ids(s.pending_read_requests),
                 !.effects = IF s.receive_state = "Receive"
                             THEN {"StopQuicStream"} ELSE {}]

Stop(s, r) ==
    IF s.receive_state = "None" THEN Failed(s, r)
    ELSE [SendStop(s) EXCEPT !.done = << r >>]

(* Both halves at once, when the session goes away. *)
Abort(s) ==
    LET reset == SendReset(s)
        stop == SendStop(reset.stream)
    IN  [stop EXCEPT !.failed = reset.failed \o @,
                     !.effects = reset.effects \cup @]
==============================================================================
