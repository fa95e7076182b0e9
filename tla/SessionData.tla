----------------------------- MODULE SessionData -----------------------------
(***************************************************************************)
(* Session flow control of data (protocol/session.rs): the streams of one  *)
(* session share the credit that MAX_DATA capsules grant.  Two connected   *)
(* endpoints with negotiated flow control, one direction: the sender's     *)
(* write_stream, complete_stream_write and flush_blocked_writes, the       *)
(* receiver's recv_stream_data and replenish_data_credit, the capsules     *)
(* between them in order on the CONNECT stream, and the stream data, which *)
(* QUIC delivers independently of the capsules.                            *)
(***************************************************************************)
EXTENDS Integers, StreamOps, SequencesExt

CONSTANTS Sids,            \* the open unidirectional streams
          Lengths,         \* lengths of the application's writes
          InitialMaxData,  \* initial_max_data of the receiver
          ReceiveWindow    \* session_receive_window of the receiver

ASSUME SessionDataAssumption ==
    /\ Lengths \subseteq Nat /\ InitialMaxData \in Nat
    /\ ReceiveWindow \in Nat \ {0}

VARIABLES
    streams,                 \* the sender's streams, those not closed
    issued,                  \* requests the application has made
    blocked_streams,         \* streams with bytes the credit holds back
    blocked_streams_queue,   \* the order they are resumed in
    data_sent,
    peer_max_data,
    last_data_blocked_sent,  \* -1: None
    tx,                      \* bytes the driver holds per stream (-1: no send)
    finished,                \* streams whose end QUIC has taken
    in_flight,               \* bytes per stream that the peer has not read
    resets,                  \* RESET_STREAM frames on their way
    stops,                   \* STOP_SENDING frames on their way
    max_data,                \* MAX_DATA capsules on their way
    data_blocked,            \* DATA_BLOCKED capsules on their way
    open,                    \* the receiver's streams, those not closed
    data_received,
    data_consumed,
    local_max_data,
    errors                   \* endpoints that aborted the session

sender == << streams, issued, blocked_streams, blocked_streams_queue, data_sent,
             peer_max_data, last_data_blocked_sent, tx, finished >>
receiver == << open, data_received, data_consumed, local_max_data >>
vars == << sender, receiver, in_flight, resets, stops, max_data, data_blocked,
           errors >>

Init ==
    /\ streams = [i \in Sids |-> NewStream("SendOnly")]
    /\ issued = {}
    /\ blocked_streams = {} /\ blocked_streams_queue = << >>
    /\ data_sent = 0 /\ peer_max_data = InitialMaxData
    /\ last_data_blocked_sent = -1
    /\ tx = [i \in Sids |-> -1] /\ finished = {}
    /\ in_flight = [i \in Sids |-> 0]
    /\ resets = {} /\ stops = {} /\ max_data = << >> /\ data_blocked = << >>
    /\ open = Sids
    /\ data_received = 0 /\ data_consumed = 0 /\ local_max_data = InitialMaxData
    /\ errors = {}

------------------------------------------------------------------------------
(* The sender. *)

SessionCredit == IF peer_max_data > data_sent THEN peer_max_data - data_sent ELSE 0

(* DATA_BLOCKED is sent once per limit. *)
EmitDataBlocked(limit) ==
    IF /\ data_sent' >= limit /\ blocked_streams' # {}
       /\ limit > last_data_blocked_sent
    THEN /\ last_data_blocked_sent' = limit
         /\ data_blocked' = Append(data_blocked, limit)
    ELSE UNCHANGED << last_data_blocked_sent, data_blocked >>

Sending(o) == "SendQuicData" \in o.effects

DuplicateEntryBug(i, o, otherwise) ==
    /\ streams' = [streams EXCEPT ![i] = o.stream]
    /\ data_sent' = data_sent + o.sent
    /\ tx' = [tx EXCEPT ![i] = IF Sending(o) THEN o.data ELSE otherwise]
    /\ IF IsBlocked(o.stream)
       THEN /\ blocked_streams' = blocked_streams \cup {i}
            /\ blocked_streams_queue' = Append(blocked_streams_queue, i)
       ELSE UNCHANGED << blocked_streams, blocked_streams_queue >>
    /\ EmitDataBlocked(peer_max_data)

(* What write_stream and complete_stream_write do with a stream's outcome. *)
Account(i, o, otherwise) ==
    /\ streams' = [streams EXCEPT ![i] = o.stream]
    /\ data_sent' = data_sent + o.sent
    /\ tx' = [tx EXCEPT ![i] = IF Sending(o) THEN o.data ELSE otherwise]
    /\ IF IsBlocked(o.stream) /\ i \notin blocked_streams
       THEN /\ blocked_streams' = blocked_streams \cup {i}
            /\ blocked_streams_queue' = Append(blocked_streams_queue, i)
       ELSE UNCHANGED << blocked_streams, blocked_streams_queue >>
    /\ EmitDataBlocked(peer_max_data)

WriteStream(i, r, len, fin) ==
    /\ i \in DOMAIN streams /\ r \notin issued
    /\ issued' = issued \cup {r}
    /\ Account(i, Write(streams[i], r, len, fin, SessionCredit), tx[i])
    /\ UNCHANGED << peer_max_data, finished, receiver, in_flight, resets, stops,
                    max_data, errors >>

(* QUIC takes the bytes of a send, and the completion reaches the session. *)
CompleteStreamWrite(i) ==
    /\ i \in DOMAIN streams /\ tx[i] >= 0
    /\ in_flight' = [in_flight EXCEPT ![i] = IF i \in open THEN @ + tx[i] ELSE @]
    /\ finished' = IF streams[i].send_state = "DataSent"
                   THEN finished \cup {i} ELSE finished
    /\ \E o \in {CompleteWrite(streams[i], SessionCredit)} : Account(i, o, -1)
    /\ UNCHANGED << issued, peer_max_data, receiver, resets, stops, max_data,
                    errors >>

(* A closed stream is dropped; its place in the queue is left behind. *)
HandleClosed(i, s) ==
    IF IsClosed(s)
    THEN /\ streams' = Restrict(streams, DOMAIN streams \ {i})
         /\ blocked_streams' = blocked_streams \ {i}
    ELSE /\ streams' = [streams EXCEPT ![i] = s]
         /\ UNCHANGED blocked_streams

DropSend(i, o) ==
    /\ tx' = [tx EXCEPT ![i] = -1]
    /\ resets' = IF "ResetQuicStream" \in o.effects THEN resets \cup {i}
                 ELSE resets
    /\ HandleClosed(i, o.stream)

ResetStream(i) ==
    /\ i \in DOMAIN streams
    /\ DropSend(i, SendReset(streams[i]))
    /\ UNCHANGED << issued, blocked_streams_queue, data_sent, peer_max_data,
                    last_data_blocked_sent, finished, receiver, in_flight, stops,
                    max_data, data_blocked, errors >>

StopSendingReceived(i) ==
    /\ i \in stops /\ stops' = stops \ {i}
    /\ IF i \in DOMAIN streams
       THEN DropSend(i, RecvStopSending(streams[i]))
       ELSE UNCHANGED << streams, blocked_streams, tx, resets >>
    /\ UNCHANGED << issued, blocked_streams_queue, data_sent, peer_max_data,
                    last_data_blocked_sent, finished, receiver, in_flight,
                    max_data, data_blocked, errors >>

StreamDataAcknowledged(i) ==
    /\ i \in DOMAIN streams /\ i \in finished /\ tx[i] = -1
    /\ HandleClosed(i, HandleDataAcknowledged(streams[i]))
    /\ UNCHANGED << issued, blocked_streams_queue, data_sent, peer_max_data,
                    last_data_blocked_sent, tx, finished, receiver, in_flight,
                    resets, stops, max_data, data_blocked, errors >>

(* One stream of the blocked queue, in the order of the queue: it sends    *)
(* what the remaining credit allows and goes to the back if bytes are left.*)
(* Without credit the rest of the queue stays where it is.                 *)
FlushOne(limit, acc, i) ==
    LET o == FlushWrites(acc.streams[i], limit - acc.sent)
    IN  IF acc.sent >= limit
        THEN [acc EXCEPT !.kept = Append(@, i),
                         !.blocked = IF acc.kept = << >> THEN @ \cup {i} ELSE @]
        ELSE IF i \notin DOMAIN acc.streams
        THEN [acc EXCEPT !.blocked = @ \ {i}]
        ELSE [acc EXCEPT
                !.streams[i] = o.stream,
                !.sent = @ + o.sent,
                !.tx[i] = IF Sending(o) THEN o.data ELSE @,
                !.back = IF IsBlocked(o.stream) THEN Append(@, i) ELSE @,
                !.blocked = IF IsBlocked(o.stream) THEN @ ELSE @ \ {i}]

FlushBlockedWrites(limit) ==
    \E end \in {FoldLeft(LAMBDA acc, i : FlushOne(limit, acc, i),
                         [streams |-> streams, sent |-> data_sent, tx |-> tx,
                          blocked |-> blocked_streams,
                          kept |-> << >>, back |-> << >>],
                         blocked_streams_queue)} :
        /\ streams' = end.streams
        /\ data_sent' = end.sent
        /\ tx' = end.tx
        /\ blocked_streams' = end.blocked
        /\ blocked_streams_queue' = end.kept \o end.back
        /\ EmitDataBlocked(limit)

MaxDataReceived ==
    /\ max_data # << >>
    /\ max_data' = Tail(max_data)
    /\ IF Head(max_data) > peer_max_data
       THEN /\ peer_max_data' = Head(max_data)
            /\ IF data_sent >= Head(max_data)
               THEN UNCHANGED << streams, data_sent, tx, blocked_streams,
                                 blocked_streams_queue, last_data_blocked_sent,
                                 data_blocked >>
               ELSE FlushBlockedWrites(Head(max_data))
            /\ UNCHANGED errors
       ELSE /\ errors' = errors \cup {"sender"}
            /\ UNCHANGED << streams, blocked_streams, blocked_streams_queue,
                            data_sent, peer_max_data, last_data_blocked_sent, tx,
                            data_blocked >>
    /\ UNCHANGED << issued, finished, receiver, in_flight, resets, stops >>

------------------------------------------------------------------------------
(* The receiver. *)

SameLimitBug(consumed, force) ==
    LET new_limit == consumed + ReceiveWindow
        threshold == IF force THEN 0 ELSE ReceiveWindow \div 2
    IN  IF new_limit >= local_max_data + threshold
        THEN /\ local_max_data' = new_limit
             /\ max_data' = Append(max_data, new_limit)
        ELSE UNCHANGED << local_max_data, max_data >>

(* MAX_DATA is sent when it raises the limit by more than half a window,   *)
(* or at all when the peer asks for it.                                    *)
ReplenishDataCredit(consumed, force) ==
    LET new_limit == consumed + ReceiveWindow
        threshold == IF force THEN 0 ELSE ReceiveWindow \div 2
    IN  IF new_limit > local_max_data + threshold
        THEN /\ local_max_data' = new_limit
             /\ max_data' = Append(max_data, new_limit)
        ELSE UNCHANGED << local_max_data, max_data >>

(* The application reads len bytes of a stream, with its end or without:   *)
(* the driver reads them from QUIC and queues StreamDataReceived, which it *)
(* handles before anything else.                                           *)
StreamDataReceived(i, len, fin) ==
    /\ i \in open /\ len <= in_flight[i]
    /\ IF fin THEN i \in finished /\ len = in_flight[i] ELSE len > 0
    /\ in_flight' = [in_flight EXCEPT ![i] = @ - len]
    /\ data_received' = data_received + len
    /\ IF data_received' > local_max_data
       THEN /\ errors' = errors \cup {"receiver"}
            /\ UNCHANGED << open, data_consumed, local_max_data, max_data >>
       ELSE /\ data_consumed' = data_consumed + len
            /\ ReplenishDataCredit(data_consumed', FALSE)
            /\ open' = IF fin THEN open \ {i} ELSE open
            /\ UNCHANGED errors
    /\ UNCHANGED << sender, resets, stops, data_blocked >>

(* What was not read of a stream that is reset or stopped is gone. *)
ResetStreamReceived(i) ==
    /\ i \in resets /\ resets' = resets \ {i}
    /\ open' = open \ {i}
    /\ in_flight' = [in_flight EXCEPT ![i] = 0]
    /\ UNCHANGED << sender, data_received, data_consumed, local_max_data, stops,
                    max_data, data_blocked, errors >>

StopStream(i) ==
    /\ i \in open
    /\ open' = open \ {i}
    /\ stops' = stops \cup {i}
    /\ in_flight' = [in_flight EXCEPT ![i] = 0]
    /\ UNCHANGED << sender, data_received, data_consumed, local_max_data, resets,
                    max_data, data_blocked, errors >>

IgnoreDataBlockedBug ==
    /\ data_blocked # << >>
    /\ data_blocked' = Tail(data_blocked)
    /\ UNCHANGED << sender, receiver, in_flight, resets, stops, max_data, errors >>

DataBlockedReceived ==
    /\ data_blocked # << >>
    /\ data_blocked' = Tail(data_blocked)
    /\ ReplenishDataCredit(data_consumed, TRUE)
    /\ UNCHANGED << sender, open, data_received, data_consumed, in_flight, resets,
                    stops, errors >>

------------------------------------------------------------------------------
Sender == \/ \E i \in Sids :
                 \/ \E r \in Requests, len \in Lengths, fin \in BOOLEAN :
                        WriteStream(i, r, len, fin)
                 \/ CompleteStreamWrite(i)
                 \/ ResetStream(i)
                 \/ StopSendingReceived(i)
                 \/ StreamDataAcknowledged(i)
          \/ MaxDataReceived

ReadSome(i) == \E len \in 0 .. in_flight[i], fin \in BOOLEAN :
                   StreamDataReceived(i, len, fin)

Receiver == \/ \E i \in Sids :
                   ReadSome(i) \/ ResetStreamReceived(i) \/ StopStream(i)
            \/ DataBlockedReceived

(* An aborted session is over. *)
Next == errors = {} /\ (Sender \/ Receiver)

Spec == Init /\ [][Next]_vars

SenderEvents == \/ MaxDataReceived
                \/ \E i \in Sids : CompleteStreamWrite(i) \/ StopSendingReceived(i)
ReceiverEvents == \/ DataBlockedReceived
                  \/ \E i \in Sids : ResetStreamReceived(i)
ReadingStreams == \E i \in Sids : ReadSome(i)

(* The reactors keep running and the network delivers, so that each driver *)
(* handles its events, and the receiving application reads what arrives on *)
(* the streams it keeps open.  Weak fairness of the three groups, with     *)
(* their guards in place of ENABLED, which TLC evaluates slowly.           *)
SenderBusy == max_data # << >> \/ stops # {} \/ \E i \in DOMAIN streams : tx[i] >= 0
ReceiverBusy == data_blocked # << >> \/ resets # {}
Readable == \E i \in open : in_flight[i] > 0 \/ i \in finished

FairSpec == /\ Spec
            /\ []<>(errors # {} \/ ~SenderBusy) \/ []<><< SenderEvents >>_vars
            /\ []<>(errors # {} \/ ~ReceiverBusy) \/ []<><< ReceiverEvents >>_vars
            /\ []<>(errors # {} \/ ~Readable) \/ []<><< ReadingStreams >>_vars

------------------------------------------------------------------------------
(* Type invariant: stream table, credit counters, queue of blocked streams   *)
(* and what is on its way between the endpoints keep their types.            *)
TypeOK ==
    /\ DOMAIN streams \subseteq Sids
    /\ streams \in [DOMAIN streams -> Streams]
    /\ issued \subseteq Requests
    /\ blocked_streams \subseteq Sids /\ blocked_streams_queue \in Seq(Sids)
    /\ data_sent \in Nat /\ peer_max_data \in Nat
    /\ last_data_blocked_sent \in Nat \cup {-1}
    /\ tx \in [Sids -> Nat \cup {-1}] /\ finished \subseteq Sids
    /\ in_flight \in [Sids -> Nat]
    /\ resets \subseteq Sids /\ stops \subseteq Sids
    /\ max_data \in Seq(Nat) /\ data_blocked \in Seq(Nat)
    /\ open \subseteq Sids
    /\ data_received \in Nat /\ data_consumed \in Nat /\ local_max_data \in Nat
    /\ errors \subseteq {"sender", "receiver"}

(* Two endpoints that run this code never end the session over flow        *)
(* control: no byte arrives beyond the advertised limit, and no MAX_DATA   *)
(* arrives that does not raise it.                                         *)
NoFlowControlError == errors = {}

HoldsBytes(i) == i \in DOMAIN streams /\ IsBlocked(streams[i])

(* A stream holds bytes back only while the session's credit is spent, and *)
(* then it is registered to be resumed, once in the queue, and the peer    *)
(* has been told of this very limit, of each limit at most once            *)
(* (write_stream, flush_blocked_writes).                                   *)
BlockedIsRegistered ==
    /\ \A i \in Sids : HoldsBytes(i) =>
           /\ data_sent = peer_max_data
           /\ i \in blocked_streams
    /\ blocked_streams \subseteq ToSet(blocked_streams_queue)
    /\ \A i \in blocked_streams :
           Cardinality({k \in DOMAIN blocked_streams_queue :
                            blocked_streams_queue[k] = i}) = 1
    /\ (\E i \in Sids : HoldsBytes(i)) => last_data_blocked_sent = peer_max_data
    /\ \A k \in 2 .. Len(data_blocked) : data_blocked[k] > data_blocked[k - 1]

(* The session's flow control of data is what module Credit promises. *)
Promise == INSTANCE Credit WITH
    Initial <- InitialMaxData, Window <- ReceiveWindow,
    SpendLimit <- Cardinality(Requests) * MaxWriteBufferSize,
    sent <- data_sent, limit <- peer_max_data, grants <- max_data,
    received <- data_received, consumed <- data_consumed,
    granted <- local_max_data
ImplementsCredit == Promise!Spec

(* Bytes that were charged to the session and that nobody can read any     *)
(* more, because their stream was reset or stopped.                        *)
Discarded ==
    data_sent > data_consumed + SumFunction(in_flight)
                + SumFunction([i \in Sids |-> IF tx[i] > 0 THEN tx[i] ELSE 0])

(* A stream that is blocked on credit is resumed in the end (or closed):   *)
(* MAX_DATA, DATA_BLOCKED and the queue of blocked streams see to it       *)
(* (flush_blocked_writes, replenish_data_credit).  The exception is a      *)
(* session in which charged bytes were discarded: only bytes that are read *)
(* count as consumed, and the credit of the others is never returned.      *)
BlockedWriterResumes ==
    \A i \in Sids : HoldsBytes(i) ~> (~HoldsBytes(i) \/ Discarded)
==============================================================================
