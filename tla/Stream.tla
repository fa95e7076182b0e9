-------------------------------- MODULE Stream --------------------------------
(***************************************************************************)
(* One WebTransport stream between its application and QUIC: the stream    *)
(* state machine of protocol/stream.rs, and the part of                    *)
(* transport/connection.rs that serves it, which keeps the bytes of a send *)
(* until QUIC takes them and reads from QUIC only when a read is pending.  *)
(* The session's send credit is an input that other streams and the peer   *)
(* move; the session itself is in module SessionData.                      *)
(***************************************************************************)
EXTENDS StreamOps

CONSTANTS Directions,    \* the directions a stream is opened with
          Lengths,       \* lengths of the application's writes
          ReadSizes,     \* max_size of the application's reads
          CreditLimit,   \* bound: session credit granted in all
          InboundLimit   \* bound: bytes the peer sends

ASSUME DirectionAssumption ==
    Directions \subseteq {"Bidirectional", "SendOnly", "ReceiveOnly"}
ASSUME SizeAssumption == Lengths \subseteq Nat /\ ReadSizes \subseteq Nat
ASSUME LimitAssumption == CreditLimit \in Nat /\ InboundLimit \in Nat

VARIABLES
    s,          \* the Stream object
    issued,     \* requests the application has made
    done,       \* NotifyRequestDone effects sent, per request
    failed,     \* NotifyRequestFailed effects sent, per request
    credit,     \* session credit available to the stream
    granted,    \* session credit granted so far
    tx,         \* the driver's send buffer for the stream
    finished,   \* finish() has been called on the QUIC stream
    stopped,    \* the peer's STOP_SENDING
    rx,         \* the driver's pending_receives entry (0: none)
    event,      \* what was read from QUIC, queued for the stream
    inbound,    \* bytes QUIC holds that nobody has read
    peer_end,   \* how the peer has ended its half
    peer_sent,  \* bytes the peer has sent
    delivered,  \* bytes answered to reads
    accepted,   \* the request of every byte the stream took from a write
    wire        \* the request of every byte handed to QUIC

NoEvent == [kind |-> "none", len |-> 0, fin |-> FALSE]

app == << issued, done, failed >>
sender == << credit, granted, tx, finished, stopped >>
receiver == << rx, event, inbound, peer_end, peer_sent, delivered >>
bytes == << accepted, wire >>
vars == << s, app, sender, receiver, bytes >>

Init ==
    /\ \E direction \in Directions : s = NewStream(direction)
    /\ issued = {}
    /\ done = [r \in Requests |-> 0]
    /\ failed = [r \in Requests |-> 0]
    /\ credit = 0 /\ granted = 0
    /\ tx = "idle" /\ finished = FALSE /\ stopped = "no"
    /\ rx = 0 /\ event = NoEvent /\ inbound = 0 /\ peer_end = "open"
    /\ peer_sent = 0 /\ delivered = 0
    /\ accepted = << >> /\ wire = << >>

------------------------------------------------------------------------------
(* Answer the requests of an outcome. *)
Notify(o) ==
    /\ done' = [r \in Requests |-> done[r] + Count(o.done, r)]
    /\ failed' = [r \in Requests |-> failed[r] + Count(o.failed, r)]

(* The driver empties its event queue and QUIC's before it takes the next  *)
(* command.                                                                *)
Settled ==
    /\ tx # "written" /\ event = NoEvent /\ stopped # "frame"
    /\ rx > 0 => inbound = 0 /\ peer_end = "open"

Issue(r) == Settled /\ r \notin issued /\ issued' = issued \cup {r}

(* The transport carries out a send: bytes wait in the send buffer until   *)
(* QUIC takes them, a send without bytes is complete at once.              *)
Send(o, otherwise) ==
    LET send == "SendQuicData" \in o.effects
    IN  /\ tx' = IF ~send THEN otherwise
                 ELSE IF o.data = 0 THEN "written" ELSE "blocked"
        /\ finished' = (finished \/ /\ send /\ o.data = 0 /\ stopped = "no"
                                    /\ o.stream.send_state = "DataSent")
        /\ wire' = wire \o Repeat(o.stream.pending_write_request, o.data)

(* A reset drops what is still buffered, but not a completion that is      *)
(* already queued.                                                         *)
Transmit(o) ==
    Send(o, IF "ResetQuicStream" \in o.effects /\ tx = "blocked"
            THEN "idle" ELSE tx)

(* And on the receiving half: a read arms the entry, a stop removes it. *)
Arm(o) ==
    rx' = IF "ReceiveQuicData" \in o.effects
          THEN Head(o.stream.pending_read_requests).max
          ELSE IF "StopQuicStream" \in o.effects THEN 0 ELSE rx

------------------------------------------------------------------------------
(* Requests of the application. *)

UserWrite(r, len, fin) ==
    LET o == Write(s, r, len, fin, credit)
        taken == o.failed = << >> /\ o.done = << >>
    IN  /\ Issue(r) /\ Notify(o) /\ Transmit(o)
        /\ s' = o.stream
        /\ credit' = credit - o.sent
        /\ accepted' = IF taken THEN accepted \o Repeat(r, len) ELSE accepted
        /\ UNCHANGED << granted, stopped, receiver >>

UserReset(r) ==
    LET o == Reset(s, r)
    IN  /\ Issue(r) /\ Notify(o) /\ Transmit(o)
        /\ s' = o.stream
        /\ UNCHANGED << credit, granted, stopped, receiver, accepted >>

UserRead(r, max) ==
    LET o == Read(s, r, max)
    IN  /\ Issue(r) /\ Notify(o) /\ Arm(o)
        /\ s' = o.stream
        /\ UNCHANGED << sender, event, inbound, peer_end, peer_sent, delivered,
                        bytes >>

UserStop(r) ==
    LET o == Stop(s, r)
    IN  /\ Issue(r) /\ Notify(o) /\ Arm(o)
        /\ s' = o.stream
        /\ UNCHANGED << sender, event, inbound, peer_end, peer_sent, delivered,
                        bytes >>

(* The session ends and aborts its streams. *)
SessionAbort ==
    LET o == Abort(s)
    IN  /\ Notify(o) /\ Transmit(o) /\ Arm(o)
        /\ s' = o.stream
        /\ UNCHANGED << issued, credit, granted, stopped, event, inbound, peer_end,
                        peer_sent, delivered, accepted >>

(* The session gains credit and flushes the stream if it is blocked. *)
SessionCredit ==
    LET o == FlushWrites(s, credit + 1)
    IN  /\ granted < CreditLimit
        /\ granted' = granted + 1
        /\ credit' = credit + 1 - o.sent
        /\ s' = o.stream
        /\ Notify(o) /\ Transmit(o)
        /\ UNCHANGED << issued, stopped, receiver, accepted >>

------------------------------------------------------------------------------
(* The driver and QUIC: the sending half. *)

LastCompletionLostBug ==
    /\ tx = "blocked"
    /\ tx' = IF stopped = "no" /\ s.send_state # "DataSent"
             THEN "written" ELSE "idle"
    /\ finished' = (finished \/ (stopped = "no" /\ s.send_state = "DataSent"))
    /\ UNCHANGED << s, app, credit, granted, stopped, receiver, bytes >>

(* QUIC takes the buffered bytes.  Once the peer has stopped the stream it *)
(* refuses them, and the buffer is dropped without a completion.           *)
FlushStream ==
    /\ tx = "blocked"
    /\ tx' = IF stopped = "no" THEN "written" ELSE "idle"
    /\ finished' = (finished \/ (stopped = "no" /\ s.send_state = "DataSent"))
    /\ UNCHANGED << s, app, credit, granted, stopped, receiver, bytes >>

(* The queued InternalCompleteQuicData event reaches the stream. *)
CompleteQuicData ==
    LET o == CompleteWrite(s, credit)
    IN  /\ tx = "written"
        /\ Notify(o)
        /\ s' = o.stream
        /\ credit' = credit - o.sent
        /\ Send(o, "idle")
        /\ UNCHANGED << issued, granted, stopped, receiver, accepted >>

(* QUIC reports a finished stream once the peer has all of it; the driver  *)
(* has emptied its event queue by then.                                    *)
StreamDataAcknowledged ==
    /\ finished /\ tx = "idle"
    /\ s.send_state = "DataSent"
    /\ s' = HandleDataAcknowledged(s)
    /\ UNCHANGED << app, sender, receiver, bytes >>

PeerStopSending ==
    /\ stopped = "no" /\ s.send_state # "None"
    /\ stopped' = "frame"
    /\ UNCHANGED << s, app, credit, granted, tx, finished, receiver, bytes >>

StopSendingReceived ==
    LET o == RecvStopSending(s)
    IN  /\ stopped = "frame" /\ tx # "written"
        /\ stopped' = "delivered"
        /\ tx' = "idle"
        /\ Notify(o)
        /\ s' = o.stream
        /\ UNCHANGED << issued, credit, granted, finished, receiver, bytes >>

------------------------------------------------------------------------------
(* The driver and QUIC: the receiving half. *)

PeerSend ==
    /\ peer_end = "open" /\ s.receive_state # "None"
    /\ peer_sent < InboundLimit
    /\ peer_sent' = peer_sent + 1
    /\ inbound' = inbound + 1
    /\ UNCHANGED << s, app, sender, rx, event, peer_end, delivered, bytes >>

PeerEnd ==
    /\ peer_end = "open" /\ s.receive_state # "None"
    /\ peer_end' \in {"fin", "reset"}
    /\ UNCHANGED << s, app, sender, rx, event, inbound, peer_sent, delivered,
                    bytes >>

FinBeforeLastByteBug ==
    LET len == IF inbound < rx THEN inbound ELSE rx
        fin == peer_end = "fin"
    IN  /\ rx > 0 /\ event = NoEvent
        /\ rx' = 0
        /\ \/ /\ peer_end = "reset"
              /\ event' = [kind |-> "reset", len |-> 0, fin |-> FALSE]
              /\ inbound' = 0
           \/ /\ peer_end # "reset" /\ (len > 0 \/ fin)
              /\ event' = [kind |-> "data", len |-> len, fin |-> fin]
              /\ inbound' = inbound - len
        /\ UNCHANGED << s, app, sender, peer_end, peer_sent, delivered, bytes >>

(* The driver's recv_stream_data: up to max_size bytes, in order, and the  *)
(* end of the stream with them when QUIC reports it before the limit.  A   *)
(* reset is seen only here, and QUIC discards what was not read.           *)
ReadQuic ==
    LET len == IF inbound < rx THEN inbound ELSE rx
        fin == peer_end = "fin" /\ inbound < rx
    IN  /\ rx > 0 /\ event = NoEvent
        /\ rx' = 0
        /\ \/ /\ peer_end = "reset"
              /\ event' = [kind |-> "reset", len |-> 0, fin |-> FALSE]
              /\ inbound' = 0
           \/ /\ peer_end # "reset" /\ (len > 0 \/ fin)
              /\ event' = [kind |-> "data", len |-> len, fin |-> fin]
              /\ inbound' = inbound - len
        /\ UNCHANGED << s, app, sender, peer_end, peer_sent, delivered, bytes >>

StreamDataReceived ==
    LET o == RecvData(s, event.len, event.fin)
    IN  /\ event.kind = "data"
        /\ event' = NoEvent
        /\ Notify(o) /\ Arm(o)
        /\ s' = o.stream
        /\ delivered' = delivered + (IF o.done = << >> THEN 0 ELSE event.len)
        /\ UNCHANGED << issued, sender, inbound, peer_end, peer_sent, bytes >>

ResetStreamReceived ==
    LET o == RecvReset(s)
    IN  /\ event.kind = "reset"
        /\ event' = NoEvent
        /\ Notify(o)
        /\ s' = o.stream
        /\ UNCHANGED << issued, sender, rx, inbound, peer_end, peer_sent,
                        delivered, bytes >>

------------------------------------------------------------------------------
User == \E r \in Requests :
            \/ \E len \in Lengths, fin \in BOOLEAN : UserWrite(r, len, fin)
            \/ UserReset(r)
            \/ \E max \in ReadSizes : UserRead(r, max)
            \/ UserStop(r)

Session == SessionAbort \/ SessionCredit

Quic == \/ FlushStream \/ CompleteQuicData \/ StreamDataAcknowledged
        \/ StopSendingReceived
        \/ ReadQuic \/ StreamDataReceived \/ ResetStreamReceived

Peer == PeerStopSending \/ PeerSend \/ PeerEnd

Next == User \/ Session \/ Quic \/ Peer

Spec == Init /\ [][Next]_vars

(* The reactor runs the driver as long as there is an event; the peer      *)
(* grants credit and ends its half some time.                              *)
FairSpec ==
    /\ Spec
    /\ WF_vars(FlushStream) /\ WF_vars(CompleteQuicData)
    /\ WF_vars(StopSendingReceived) /\ WF_vars(ReadQuic)
    /\ WF_vars(StreamDataReceived) /\ WF_vars(ResetStreamReceived)
    /\ WF_vars(SessionCredit) /\ WF_vars(PeerEnd)

------------------------------------------------------------------------------
(* Type invariant: the fields of Stream and of the driver's half of it keep  *)
(* their types.                                                              *)
TypeOK ==
    /\ s \in Streams
    /\ issued \subseteq Requests
    /\ done \in [Requests -> Nat] /\ failed \in [Requests -> Nat]
    /\ credit \in Nat /\ granted \in Nat
    /\ tx \in {"idle", "blocked", "written"}
    /\ finished \in BOOLEAN
    /\ stopped \in {"no", "frame", "delivered"}
    /\ rx \in Nat /\ inbound \in Nat /\ peer_sent \in Nat /\ delivered \in Nat
    /\ event \in [kind : {"none", "data", "reset"}, len : Nat, fin : BOOLEAN]
    /\ peer_end \in {"open", "fin", "reset"}
    /\ accepted \in Seq(Requests) /\ wire \in Seq(Requests)

(* Every request is answered exactly once: a request the stream still      *)
(* holds has no answer yet, any other request that was made has one.  A    *)
(* write that is partly sent is both in the buffer and pending, and reset, *)
(* abort and completion each answer from both places.                      *)
ExactlyOneAnswer ==
    \A r \in Requests :
        done[r] + failed[r] =
            IF r \in issued /\ r \notin Held(s) THEN 1 ELSE 0

(* The session drops a stream whose halves are both terminal, so a half    *)
(* that is terminal must not hold a request any more.                      *)
NothingHeldWhenTerminated ==
    /\ SendTerminated(s) => Writing(s) = {}
    /\ ReceiveTerminated(s) => Reading(s) = {}

(* A write in progress is waiting for something that will happen: the      *)
(* driver holds its bytes or its completion, or a STOP_SENDING that will   *)
(* reset the stream is on its way.                                         *)
WriteInProgressIsServed ==
    s.pending_write_request # NoRequest => tx # "idle" \/ stopped = "frame"

(* A stream keeps bytes back only for lack of session credit.              *)
BlockedOnlyOnCredit ==
    s.send_state = "Ready" /\ IsBlocked(s) =>
        credit = 0 /\ Head(s.write_buffer).len > 0

(* The bytes handed to QUIC never exceed the credit that was granted, and  *)
(* no credit is lost.                                                      *)
CreditConserved == Len(wire) + credit = granted

(* The oldest pending read is being served: the driver is armed for it or  *)
(* what it read is on its way.                                             *)
PendingReadIsServed ==
    s.receive_state = "Receive" /\ Reading(s) # {} => rx > 0 \/ event # NoEvent

(* No request waits in vain: a terminal half holds none, a write in        *)
(* progress and a pending read are being served, and bytes are kept back   *)
(* for lack of credit only (write, complete_write, recv_data, read).       *)
NothingWaitsInVain ==
    /\ NothingHeldWhenTerminated /\ WriteInProgressIsServed
    /\ PendingReadIsServed /\ BlockedOnlyOnCredit

(* No byte the peer sent is skipped while the application reads: bytes are *)
(* delivered, on their way or still in QUIC, and the end of the stream is  *)
(* reported only after all of them.                                        *)
NoByteSkipped ==
    /\ s.receive_state # "ResetRead" /\ peer_end # "reset" =>
           delivered + event.len + inbound = peer_sent
    /\ s.receive_state \in {"DataReceived", "DataRead"} =>
           peer_end = "fin" /\ delivered = peer_sent

(* Writes leave in the order they were accepted, each byte once: the bytes *)
(* on the wire are the first of the accepted ones, and until the stream is *)
(* reset the buffered chunks are exactly the others; write_buffer_size     *)
(* counts them and stays within its limit; and a byte that has not left    *)
(* belongs to a write that is not reported done (Stream::write,            *)
(* complete_write, flush_writes).                                          *)
BytesInOrder ==
    /\ Len(wire) <= Len(accepted)
    /\ \A i \in 1 .. Len(wire) : wire[i] = accepted[i]
    /\ \A i \in Len(wire) + 1 .. Len(accepted) : done[accepted[i]] = 0
    /\ s.send_state # "ResetSent" =>
           /\ Spells(s.write_buffer, accepted, Len(wire))
           /\ s.write_buffer_size = Len(accepted) - Len(wire)
    /\ s.write_buffer_size <= MaxWriteBufferSize

(* Every request is answered in the end: no write waits for a completion   *)
(* that was dropped and no read for bytes that were passed over.           *)
EveryRequestAnswered ==
    \A r \in Requests : r \in issued ~> done[r] + failed[r] > 0
==============================================================================
