---------------------------- MODULE Stream_proofs ----------------------------
(***************************************************************************)
(* Module Stream for every set of requests, every length and every bound:  *)
(* each request is answered exactly once, credit is conserved, a half that *)
(* ended holds no request, and nothing waits for an event that cannot come.*)
(***************************************************************************)
EXTENDS Stream, StreamOps_proofs

(* complete_write clears the send in progress or starts the next one. *)
LEMMA CompleteWriteHalves ==
    ASSUME NEW t, StreamInv(t), NEW c
    PROVE  LET o == CompleteWrite(t, c)
           IN  /\ \/ /\ NoSend(t, o)
                     /\ o.stream.pending_write_request = NoRequest
                     /\ "SendQuicData" \notin o.effects
                     /\ o.stream.send_state = t.send_state
                  \/ Sends(t, o)
               /\ ReceiveHalf(o.stream) = ReceiveHalf(t)
<1> DEFINE o == CompleteWrite(t, c)
           u == [t EXCEPT !.pending_write_request = NoRequest]
           f == FlushWrites(u, c)
<1>1. CASE t.pending_write_request = NoRequest
    <2>1. o = Outcome(t)
        BY <1>1 DEF CompleteWrite
    <2> QED
        BY <1>1, <2>1 DEF Outcome, NoSend, SendHalf, ReceiveHalf
<1>2. CASE t.pending_write_request # NoRequest
    <2>1. /\ o.stream = f.stream /\ o.data = f.data /\ o.effects = f.effects
        BY <1>2 DEF CompleteWrite, FlushWrites, Outcome
    <2>2. StreamInv(u)
        BY DropPendingInv, Zenon
    <2>3. /\ u.send_state = t.send_state /\ u.receive_state = t.receive_state
          /\ u.pending_write_request = NoRequest
          /\ u.pending_read_requests = t.pending_read_requests
        BY DEF StreamInv, Streams
    <2> HIDE DEF u
    <2>4. /\ f = Outcome(u) \/ Sends(u, f)
          /\ ReceiveHalf(f.stream) = ReceiveHalf(u)
        BY <2>2, FlushWritesHalves
    <2> HIDE DEF f, o
    <2>5. ReceiveHalf(o.stream) = ReceiveHalf(t)
        BY <2>1, <2>3, <2>4 DEF ReceiveHalf
    <2>6. CASE f = Outcome(u)
        <3>1. o.stream = u /\ o.data = 0 /\ o.effects = {}
            BY <2>1, <2>6 DEF Outcome
        <3> QED
            BY <2>3, <2>5, <3>1 DEF NoSend, SendHalf, o
    <2>7. CASE Sends(u, f)
        BY <2>1, <2>3, <2>5, <2>7 DEF Sends, o
    <2> QED
        BY <2>4, <2>6, <2>7
<1> QED
    BY <1>1, <1>2

(* write leaves the receiving half alone and starts at most one send. *)
LEMMA WriteHalves ==
    ASSUME NEW t, StreamInv(t), NEW r \in Requests, r \notin Held(t),
           NEW len \in Nat, NEW fin \in BOOLEAN, NEW c \in Nat
    PROVE  LET o == Write(t, r, len, fin, c)
           IN  /\ NoSend(t, o) \/ Sends(t, o)
               /\ ReceiveHalf(o.stream) = ReceiveHalf(t)
<1> DEFINE o == Write(t, r, len, fin, c)
           u == [t EXCEPT !.write_buffer =
                              Append(@, [id |-> r, len |-> len, fin |-> fin]),
                          !.write_buffer_size = @ + len]
<1>1. CASE o \in {Failed(t, r), Done(t, r)}
    <2>1. o.stream = t /\ o.data = 0 /\ o.effects = {}
        BY <1>1 DEF Failed, Done, Outcome
    <2> HIDE DEF o
    <2> QED
        BY <2>1 DEF NoSend, SendHalf, ReceiveHalf, o
<1>2. CASE o \notin {Failed(t, r), Done(t, r)}
    <2>1. /\ ~FinishPending(t)
          /\ ~(t.write_buffer_size + len > MaxWriteBufferSize)
          /\ o = FlushWrites(u, c)
        BY <1>2 DEF Write
    <2>2. /\ u.send_state = t.send_state /\ u.receive_state = t.receive_state
          /\ u.pending_write_request = t.pending_write_request
          /\ u.pending_read_requests = t.pending_read_requests
        BY SMTT(30) DEF StreamInv, Streams
    <2>3. StreamInv(u)
        BY <2>1, WriteTakenInv, Zenon
    <2> HIDE DEF u, o
    <2>4. /\ o = Outcome(u) \/ Sends(u, o)
          /\ ReceiveHalf(o.stream) = ReceiveHalf(u)
        BY <2>1, <2>3, FlushWritesHalves
    <2>5. ReceiveHalf(o.stream) = ReceiveHalf(t)
        BY <2>2, <2>4 DEF ReceiveHalf
    <2>6. CASE o = Outcome(u)
        <3>1. o.stream = u /\ o.data = 0 /\ o.effects = {}
            BY <2>6 DEF Outcome
        <3> QED
            BY <2>2, <2>5, <3>1 DEF NoSend, SendHalf, o
    <2>7. CASE Sends(u, o)
        BY <2>2, <2>5, <2>7 DEF Sends, o
    <2> QED
        BY <2>4, <2>6, <2>7
<1> QED
    BY <1>1, <1>2

(* send_reset ends the sending half and leaves the other alone. *)
LEMMA SendResetHalves ==
    ASSUME NEW t \in Streams
    PROVE  LET o == SendReset(t)
           IN  /\ NoSend(t, o)
               /\ SendTerminated(o.stream)
               /\ ReceiveHalf(o.stream) = ReceiveHalf(t)
               /\ o.effects \subseteq {"ResetQuicStream"}
<1> DEFINE o == SendReset(t)
<1>1. CASE SendTerminated(t)
    <2>1. o = Outcome(t)
        BY <1>1 DEF SendReset
    <2> QED
        BY <1>1, <2>1 DEF Outcome, NoSend, SendHalf, ReceiveHalf
<1>2. CASE ~SendTerminated(t)
    <2>1. /\ o.effects = {"ResetQuicStream"} /\ o.data = 0
          /\ o.stream.send_state = "ResetSent"
          /\ o.stream.pending_write_request = NoRequest
          /\ o.stream.receive_state = t.receive_state
          /\ o.stream.pending_read_requests = t.pending_read_requests
        BY <1>2, Zenon DEF SendReset, Outcome, Streams
    <2> HIDE DEF o
    <2> QED
        BY <2>1 DEF NoSend, SendHalf, ReceiveHalf, SendTerminated, o
<1> QED
    BY <1>1, <1>2

(* What an operation on the receiving half does: it leaves the other half  *)
(* alone, asks for data only for a pending read, and does not leave a read *)
(* behind that nobody serves.                                              *)
Receives(t, o) ==
    /\ SendHalf(o.stream) = SendHalf(t)
    /\ "ReceiveQuicData" \in o.effects => o.stream.pending_read_requests # << >>
    /\ "StopQuicStream" \in o.effects => o.stream.receive_state = "ResetRead"
    /\ o.stream.receive_state = "Receive" => t.receive_state = "Receive"

(* read arms the driver when no read was pending before. *)
LEMMA ReadHalves ==
    ASSUME NEW t, StreamInv(t), NEW r, NEW max
    PROVE  LET o == Read(t, r, max)
           IN  /\ Receives(t, o)
               /\ "StopQuicStream" \notin o.effects
               /\ \/ "ReceiveQuicData" \in o.effects
                  \/ o.stream.pending_read_requests = t.pending_read_requests
                  \/ t.pending_read_requests # << >>
<1> DEFINE o == Read(t, r, max)
<1>1. t \in Streams /\ t.pending_read_requests \in Seq(Reads)
    BY Fields DEF StreamInv
<1>2. CASE t.receive_state \in {"None", "ResetRead"}
    <2>1. o.stream = t /\ o.effects = {}
        BY <1>2 DEF Read, Failed, Outcome
    <2> HIDE DEF o
    <2> QED
        BY <2>1 DEF Receives, o
<1>3. CASE t.receive_state = "Receive" /\ max > 0
    <2>1. /\ o.stream.send_state = t.send_state
          /\ o.stream.pending_write_request = t.pending_write_request
          /\ o.stream.receive_state = t.receive_state
          /\ o.stream.pending_read_requests =
                 Append(t.pending_read_requests, [id |-> r, max |-> max])
          /\ o.effects = IF t.pending_read_requests = << >>
                         THEN {"ReceiveQuicData"} ELSE {}
        BY <1>1, <1>3, Zenon DEF Read, Outcome, Streams
    <2>2. Append(t.pending_read_requests, [id |-> r, max |-> max]) # << >>
        BY <1>1
    <2> HIDE DEF o
    <2> QED
        BY <1>3, <2>1, <2>2 DEF Receives, SendHalf, o
<1>4. CASE /\ t.receive_state \notin {"None", "ResetRead"}
           /\ ~(t.receive_state = "Receive" /\ max > 0)
    <2>1. /\ o.stream.send_state = t.send_state
          /\ o.stream.pending_write_request = t.pending_write_request
          /\ o.stream.receive_state \in {t.receive_state, "DataRead"}
          /\ o.stream.pending_read_requests = t.pending_read_requests
          /\ o.effects = {}
        BY <1>1, <1>4 DEF Read, Done, Outcome, Streams
    <2> HIDE DEF o
    <2> QED
        BY <2>1 DEF Receives, SendHalf, o
<1> QED
    BY <1>2, <1>3, <1>4

(* recv_data arms the driver again while reads are pending. *)
LEMMA RecvDataHalves ==
    ASSUME NEW t, StreamInv(t), NEW len, NEW fin \in BOOLEAN
    PROVE  LET o == RecvData(t, len, fin)
           IN  /\ Receives(t, o)
               /\ "StopQuicStream" \notin o.effects
               /\ \/ "ReceiveQuicData" \in o.effects
                  \/ o.stream.receive_state # "Receive"
                  \/ o.stream.pending_read_requests = << >>
<1> DEFINE o == RecvData(t, len, fin)
           reads == t.pending_read_requests
<1>1. t \in Streams /\ reads \in Seq(Reads)
    BY Fields DEF StreamInv
<1>2. CASE t.receive_state # "Receive" \/ (~fin /\ reads = << >>)
    <2>1. o.stream = t /\ o.effects = {}
        BY <1>2 DEF RecvData, Outcome
    <2> HIDE DEF o
    <2> QED
        BY <1>2, <2>1 DEF Receives, o
<1>3. CASE t.receive_state = "Receive" /\ fin
    <2>1. /\ o.stream.send_state = t.send_state
          /\ o.stream.pending_write_request = t.pending_write_request
          /\ o.stream.receive_state \in {"DataRead", "DataReceived"}
          /\ o.effects = {}
        BY <1>1, <1>3, Zenon DEF RecvData, Outcome, Streams
    <2> HIDE DEF o
    <2> QED
        BY <2>1 DEF Receives, SendHalf, o
<1>4. CASE t.receive_state = "Receive" /\ ~fin /\ reads # << >>
    <2>1. /\ o.stream.send_state = t.send_state
          /\ o.stream.pending_write_request = t.pending_write_request
          /\ o.stream.receive_state = t.receive_state
          /\ o.stream.pending_read_requests = Tail(reads)
          /\ o.effects = IF Tail(reads) = << >> THEN {} ELSE {"ReceiveQuicData"}
        BY <1>1, <1>4, Zenon DEF RecvData, Outcome, Streams
    <2> HIDE DEF o
    <2> QED
        BY <1>4, <2>1 DEF Receives, SendHalf, o
<1> QED
    BY <1>2, <1>3, <1>4

(* recv_reset ends the receiving half. *)
LEMMA RecvResetHalves ==
    ASSUME NEW t \in Streams
    PROVE  LET o == RecvReset(t)
           IN  SendHalf(o.stream) = SendHalf(t) /\ o.stream.receive_state # "Receive"
<1> DEFINE o == RecvReset(t)
<1>1. CASE ReceiveTerminated(t)
    <2>1. o.stream = t
        BY <1>1 DEF RecvReset, Outcome
    <2> QED
        BY <1>1, <2>1 DEF ReceiveTerminated
<1>2. CASE ~ReceiveTerminated(t)
    <2>1. /\ o.stream.send_state = t.send_state
          /\ o.stream.pending_write_request = t.pending_write_request
          /\ o.stream.receive_state = "ResetRead"
        BY <1>2, Zenon DEF RecvReset, Outcome, Streams
    <2> HIDE DEF o
    <2> QED
        BY <2>1 DEF SendHalf, o
<1> QED
    BY <1>1, <1>2

(* send_stop ends the receiving half and leaves the other alone. *)
LEMMA SendStopHalves ==
    ASSUME NEW t \in Streams
    PROVE  LET o == SendStop(t)
           IN  /\ Receives(t, o)
               /\ o.stream.receive_state # "Receive"
               /\ o.effects \subseteq {"StopQuicStream"}
<1> DEFINE o == SendStop(t)
<1>1. CASE t.receive_state \notin {"Receive", "DataReceived"}
    <2>1. o.stream = t /\ o.effects = {}
        BY <1>1 DEF SendStop, Outcome
    <2> HIDE DEF o
    <2> QED
        BY <1>1, <2>1 DEF Receives, o
<1>2. CASE t.receive_state \in {"Receive", "DataReceived"}
    <2>1. /\ o.stream.send_state = t.send_state
          /\ o.stream.pending_write_request = t.pending_write_request
          /\ o.stream.receive_state = "ResetRead"
          /\ o.effects \subseteq {"StopQuicStream"}
        BY <1>2 DEF SendStop, Outcome, Streams
    <2> HIDE DEF o
    <2> QED
        BY <2>1 DEF Receives, SendHalf, o
<1> QED
    BY <1>1, <1>2

------------------------------------------------------------------------------
(* The inductive invariant.  finish() is called on a half that has sent    *)
(* everything, and its completion is then still queued or delivered; a     *)
(* STOP_SENDING that was delivered left the half terminal.                 *)
SendInv ==
    /\ SendTerminated(s) => s.pending_write_request = NoRequest
    /\ finished => s.send_state \in {"DataSent", "DataReceived", "ResetSent"}
    /\ finished /\ s.pending_write_request # NoRequest => tx = "written"
    /\ stopped = "delivered" => SendTerminated(s)
    /\ WriteInProgressIsServed

RecvInv == PendingReadIsServed /\ (event.kind = "none" => event = NoEvent)

Answered == StreamInv(s) /\ Held(s) \subseteq issued /\ ExactlyOneAnswer

Inv == TypeOK /\ Answered /\ CreditConserved /\ SendInv /\ RecvInv

(* Notifications keep the count of answers at one per request. *)
LEMMA NotifyKeeps ==
    ASSUME TypeOK, Answered, NEW o, NEW new \in SUBSET Requests,
           new \cap issued = {}, issued' = issued \cup new,
           Answers(s, new, o), StreamInv(o.stream), s' = o.stream, Notify(o)
    PROVE  /\ Answered' /\ issued' \subseteq Requests
           /\ done' \in [Requests -> Nat] /\ failed' \in [Requests -> Nat]
<1>1. /\ done \in [Requests -> Nat] /\ failed \in [Requests -> Nat]
      /\ issued \subseteq Requests
    BY DEF TypeOK
<1>2. \A r \in Requests :
          /\ Count(o.done, r) \in Nat /\ Count(o.failed, r) \in Nat
          /\ Count(o.done, r) + Count(o.failed, r) =
                 IF r \in (Held(s) \cup new) \ Held(s') THEN 1 ELSE 0
    BY DEF Answers
<1>3. done' \in [Requests -> Nat] /\ failed' \in [Requests -> Nat]
    BY <1>1, <1>2 DEF Notify
<1>4. Held(s') \subseteq Held(s) \cup new /\ Held(s) \subseteq issued
    BY DEF Answers, Answered
<1>5. ExactlyOneAnswer'
    <2> SUFFICES ASSUME NEW r \in Requests
                 PROVE  done'[r] + failed'[r] =
                            IF r \in issued' /\ r \notin Held(s') THEN 1 ELSE 0
        BY DEF ExactlyOneAnswer
    <2>1. /\ done'[r] = done[r] + Count(o.done, r)
          /\ failed'[r] = failed[r] + Count(o.failed, r)
        BY DEF Notify
    <2>2. done[r] + failed[r] = IF r \in issued /\ r \notin Held(s) THEN 1 ELSE 0
        BY DEF Answered, ExactlyOneAnswer
    <2>3. done[r] \in Nat /\ failed[r] \in Nat
        BY <1>1
    <2>4. r \in issued' <=> r \in issued \/ r \in new
        OBVIOUS
    <2>5. /\ ~(r \in new /\ r \in issued)
          /\ r \in Held(s) => r \in issued
          /\ r \in Held(s') => r \in Held(s) \/ r \in new
        BY <1>4
    <2>6. (done[r] + failed[r]) + (Count(o.done, r) + Count(o.failed, r)) =
              IF r \in issued' /\ r \notin Held(s') THEN 1 ELSE 0
        BY <1>2, <2>2, <2>4, <2>5
    <2> QED
        BY <1>2, <2>1, <2>3, <2>6
<1> QED
    BY <1>1, <1>3, <1>4, <1>5 DEF Answered

(* The sending half, for an operation that may send. *)
LEMMA SendKeeps ==
    ASSUME TypeOK, SendInv, CreditConserved, NEW o, NEW w, NEW g \in Nat,
           NoSend(s, o) \/ Sends(s, o),
           NoSend(s, o) => w = tx \/ o.stream.pending_write_request = NoRequest,
           w \in {"idle", "blocked", "written"},
           StreamInv(o.stream), s' = o.stream,
           o.sent \in Nat, o.sent <= credit + g, o.data = o.sent,
           credit' = credit + g - o.sent, granted' = granted + g,
           stopped' = stopped, Send(o, w)
    PROVE  /\ SendInv' /\ CreditConserved'
           /\ credit' \in Nat /\ granted' \in Nat
           /\ tx' \in {"idle", "blocked", "written"} /\ finished' \in BOOLEAN
           /\ stopped' \in {"no", "frame", "delivered"}
           /\ wire' \in Seq(Requests)
<1> DEFINE send == "SendQuicData" \in o.effects
           p == o.stream.pending_write_request
<1>1. /\ credit \in Nat /\ granted \in Nat /\ finished \in BOOLEAN
      /\ stopped \in {"no", "frame", "delivered"} /\ wire \in Seq(Requests)
      /\ tx \in {"idle", "blocked", "written"}
    BY DEF TypeOK
<1>2. /\ tx' = IF ~send THEN w ELSE IF o.data = 0 THEN "written" ELSE "blocked"
      /\ finished' = (finished \/ /\ send /\ o.data = 0 /\ stopped = "no"
                                  /\ o.stream.send_state = "DataSent")
      /\ wire' = wire \o Repeat(p, o.data)
    BY DEF Send
<1>3. /\ credit' \in Nat /\ granted' \in Nat
    BY <1>1
<1>4. /\ tx' \in {"idle", "blocked", "written"} /\ finished' \in BOOLEAN
    BY <1>1, <1>2
<1>5. p \in Requests \/ o.data = 0
    <2>1. p \in Requests \cup {NoRequest}
        BY Fields DEF StreamInv
    <2> QED
        BY <2>1 DEF NoSend, Sends
<1>6. /\ Repeat(p, o.data) \in Seq(Requests) /\ Len(Repeat(p, o.data)) = o.data
    <2> DEFINE n == o.data
    <2>1. n \in Nat /\ (p \in Requests \/ n = 0)
        BY <1>5
    <2> HIDE DEF p, n
    <2>2. Repeat(p, n) \in Seq(Requests) /\ Len(Repeat(p, n)) = n
        BY <2>1, RepeatIsSeq
    <2> QED
        BY <2>2 DEF n
<1>7. /\ wire' \in Seq(Requests) /\ Len(wire') = Len(wire) + o.data
    BY <1>1, <1>2, <1>6
<1>8. CreditConserved'
    <2>1. Len(wire) + credit = granted /\ Len(wire) \in Nat
        BY <1>1 DEF CreditConserved
    <2>2. Len(wire') = Len(wire) + o.sent
        BY <1>7
    <2>3. Len(wire) + o.sent + (credit + g - o.sent) = granted + g
        BY <1>1, <2>1, SMTT(30)
    <2>4. Len(wire') + credit' = granted'
        BY <2>2, <2>3
    <2> QED
        BY <2>4 DEF CreditConserved
<1>9. CASE NoSend(s, o)
    <2>1. ~send
        BY <1>9 DEF NoSend
    <2>2. tx' = w /\ finished' = finished
        BY <1>1, <1>2, <2>1, SMTT(30)
    <2>3. \/ /\ s'.send_state = s.send_state
             /\ s'.pending_write_request = s.pending_write_request
          \/ /\ s'.send_state = s.send_state
             /\ s'.pending_write_request = NoRequest
          \/ /\ s'.send_state = "ResetSent"
             /\ s'.pending_write_request = NoRequest
        BY <1>9 DEF NoSend, SendHalf
    <2>4. s'.pending_write_request # NoRequest => tx' = tx
        BY <1>9, <2>2
    <2> QED
        BY <1>3, <1>4, <1>7, <1>8, <1>1, <2>2, <2>3, <2>4, SMTT(30)
        DEF SendInv, SendTerminated, WriteInProgressIsServed
<1>10. CASE Sends(s, o)
    <2>1. /\ send /\ s.send_state = "Ready"
          /\ s'.send_state \in {"Ready", "DataSent"}
          /\ s'.pending_write_request # NoRequest
        BY <1>10 DEF Sends
    <2>2. ~finished /\ stopped # "delivered"
        BY <1>1, <2>1 DEF SendInv, SendTerminated
    <2>3. /\ tx' \in {"written", "blocked"}
          /\ finished' => tx' = "written" /\ s'.send_state = "DataSent"
        BY <1>1, <1>2, <2>1, <2>2
    <2>4. SendInv'
        BY <2>1, <2>2, <2>3 DEF SendInv, SendTerminated, WriteInProgressIsServed
    <2> QED
        BY <1>1, <1>3, <1>4, <1>7, <1>8, <2>4
<1> QED
    BY <1>9, <1>10

(* The sending half, for a step that leaves it alone. *)
LEMMA SendFrame ==
    ASSUME SendInv, CreditConserved, SendHalf(s') = SendHalf(s),
           UNCHANGED << sender, wire >>
    PROVE  SendInv' /\ CreditConserved'
BY DEF SendInv, CreditConserved, SendHalf, SendTerminated, sender,
       WriteInProgressIsServed

(* The receiving half, for a step that leaves it alone. *)
LEMMA RecvFrame ==
    ASSUME RecvInv, ReceiveHalf(s') = ReceiveHalf(s), UNCHANGED << rx, event >>
    PROVE  RecvInv'
<1>1. /\ s'.receive_state = s.receive_state
      /\ s'.pending_read_requests = s.pending_read_requests
    BY DEF ReceiveHalf
<1>2. Reading(s') = Reading(s)
    BY <1>1 DEF Reading
<1> QED
    BY <1>1, <1>2 DEF RecvInv, PendingReadIsServed, NoEvent

(* The receiving half, for an operation of the stream. *)
LEMMA RecvKeeps ==
    ASSUME TypeOK, Answered, RecvInv, NEW o, StreamInv(o.stream), s' = o.stream,
           Arm(o), Receives(s, o), event' = event \/ event' = NoEvent,
           \/ "ReceiveQuicData" \in o.effects
           \/ o.stream.receive_state # "Receive"
           \/ o.stream.pending_read_requests = << >>
           \/ /\ event' = event /\ "StopQuicStream" \notin o.effects
              /\ \/ o.stream.pending_read_requests = s.pending_read_requests
                 \/ s.pending_read_requests # << >>
    PROVE  RecvInv' /\ rx' \in Nat
<1> DEFINE arm == "ReceiveQuicData" \in o.effects
           stop == "StopQuicStream" \in o.effects
           reads == o.stream.pending_read_requests
<1>1. /\ rx \in Nat /\ s \in Streams
    BY DEF TypeOK
<1>2. reads \in Seq(Reads) /\ s.pending_read_requests \in Seq(Reads)
    BY <1>1, Fields DEF StreamInv
<1>3. rx' = IF arm THEN Head(reads).max ELSE IF stop THEN 0 ELSE rx
    BY DEF Arm
<1>4. arm => Head(reads).max \in Nat \ {0}
    <2> SUFFICES ASSUME arm PROVE Head(reads).max \in Nat \ {0}
        OBVIOUS
    <2>1. reads # << >>
        BY DEF Receives
    <2> HIDE DEF reads, arm
    <2>2. Head(reads) \in Reads
        BY <1>2, <2>1
    <2> QED
        BY <2>2 DEF Reads
<1>5. rx' \in Nat /\ (arm => rx' > 0)
    <2> HIDE DEF reads, arm, stop
    <2> QED
        BY <1>1, <1>3, <1>4
<1>6. (event.kind = "none" => event = NoEvent)'
    BY DEF RecvInv, NoEvent
<1>7. \A t : Reading(t) # {} <=> DOMAIN t.pending_read_requests # {}
    BY Zenon DEF Reading
<1>8. ASSUME s'.receive_state = "Receive", Reading(s') # {}
      PROVE  rx' > 0 \/ event' # NoEvent
    <2>1. DOMAIN reads # {} /\ o.stream.receive_state = "Receive"
        BY <1>7, <1>8
    <2>2. reads # << >>
        BY <2>1
    <2>3. CASE arm
        BY <2>3, <1>5
    <2>4. CASE ~arm
        <3>1. /\ event' = event /\ ~stop /\ rx' = rx
              /\ reads = s.pending_read_requests \/ s.pending_read_requests # << >>
            BY <1>3, <2>1, <2>2, <2>4
        <3>2. s.pending_read_requests # << >>
            BY <2>2, <3>1
        <3>3. DOMAIN s.pending_read_requests # {}
            <4> DEFINE q == s.pending_read_requests
            <4>1. q \in Seq(Reads) /\ q # << >>
                BY <1>2, <3>2
            <4> HIDE DEF q
            <4>2. Len(q) \in Nat \ {0} /\ DOMAIN q = 1 .. Len(q)
                BY <4>1, SeqEmpty, SeqElements
            <4>3. 1 \in DOMAIN q
                BY <4>2
            <4> QED
                BY <4>3 DEF q
        <3>4. Reading(s) # {}
            BY <1>7, <3>3
        <3>5. s.receive_state = "Receive"
            BY <2>1 DEF Receives
        <3> QED
            BY <3>1, <3>4, <3>5 DEF RecvInv, PendingReadIsServed
    <2> QED
        BY <2>3, <2>4
<1> QED
    BY <1>5, <1>6, <1>8 DEF RecvInv, PendingReadIsServed

(* A request that is about to be made is not held and has no answer. *)
LEMMA Fresh ==
    ASSUME Inv, NEW r \in Requests, Issue(r)
    PROVE  /\ StreamInv(s) /\ r \notin Held(s)
           /\ {r} \in SUBSET Requests /\ {r} \cap issued = {}
           /\ issued' = issued \cup {r}
BY DEF Inv, Answered, Issue

(* An operation of the sending half, by the caller new or by the driver. *)
LEMMA SendStep ==
    ASSUME Inv, NEW o, NEW w, NEW g \in Nat, NEW new \in SUBSET Requests,
           new \cap issued = {}, issued' = issued \cup new,
           Answers(s, new, o), StreamInv(o.stream), s' = o.stream, Notify(o),
           NoSend(s, o) \/ Sends(s, o),
           NoSend(s, o) => w = tx \/ o.stream.pending_write_request = NoRequest,
           w \in {"idle", "blocked", "written"},
           o.sent \in Nat, o.sent <= credit + g, o.data = o.sent,
           credit' = credit + g - o.sent, granted' = granted + g,
           stopped' = stopped, Send(o, w),
           ReceiveHalf(o.stream) = ReceiveHalf(s), UNCHANGED receiver,
           accepted' \in Seq(Requests)
    PROVE  Inv'
<1>1. TypeOK /\ Answered /\ CreditConserved /\ SendInv /\ RecvInv
    BY DEF Inv
<1>2. /\ Answered' /\ issued' \subseteq Requests
      /\ done' \in [Requests -> Nat] /\ failed' \in [Requests -> Nat]
    BY <1>1, NotifyKeeps
<1>3. /\ SendInv' /\ CreditConserved'
      /\ credit' \in Nat /\ granted' \in Nat
      /\ tx' \in {"idle", "blocked", "written"} /\ finished' \in BOOLEAN
      /\ stopped' \in {"no", "frame", "delivered"}
      /\ wire' \in Seq(Requests)
    BY <1>1, SendKeeps
<1>4. RecvInv'
    BY <1>1, RecvFrame DEF receiver
<1>5. TypeOK'
    <2>1. s' \in Streams
        BY DEF StreamInv
    <2> QED
        BY <1>1, <1>2, <1>3, <2>1, Zenon DEF TypeOK, receiver
<1> QED
    BY <1>2, <1>3, <1>4, <1>5 DEF Inv

(* An operation of the receiving half. *)
LEMMA RecvStep ==
    ASSUME Inv, NEW o, NEW new \in SUBSET Requests,
           new \cap issued = {}, issued' = issued \cup new,
           Answers(s, new, o), StreamInv(o.stream), s' = o.stream, Notify(o),
           Arm(o), Receives(s, o), event' = event \/ event' = NoEvent,
           \/ "ReceiveQuicData" \in o.effects
           \/ o.stream.receive_state # "Receive"
           \/ o.stream.pending_read_requests = << >>
           \/ /\ event' = event /\ "StopQuicStream" \notin o.effects
              /\ \/ o.stream.pending_read_requests = s.pending_read_requests
                 \/ s.pending_read_requests # << >>,
           UNCHANGED << sender, inbound, peer_end, peer_sent, bytes >>,
           delivered' \in Nat
    PROVE  Inv'
<1>1. TypeOK /\ Answered /\ CreditConserved /\ SendInv /\ RecvInv
    BY DEF Inv
<1>2. /\ Answered' /\ issued' \subseteq Requests
      /\ done' \in [Requests -> Nat] /\ failed' \in [Requests -> Nat]
    BY <1>1, NotifyKeeps
<1>3. RecvInv' /\ rx' \in Nat
    BY <1>1, RecvKeeps
<1>4. SendInv' /\ CreditConserved'
    BY <1>1, SendFrame DEF Receives, bytes
<1>5. TypeOK'
    <2>1. s' \in Streams
        BY DEF StreamInv
    <2>2. event' \in [kind : {"none", "data", "reset"}, len : Nat, fin : BOOLEAN]
        <3> DEFINE E == [kind : {"none", "data", "reset"}, len : Nat,
                         fin : BOOLEAN]
        <3>1. event \in E
            BY <1>1, Zenon DEF TypeOK
        <3>2. NoEvent \in E
            BY DEF NoEvent
        <3> HIDE DEF E
        <3>3. event' \in E
            BY <3>1, <3>2
        <3> QED
            BY <3>3 DEF E
    <2>3. /\ credit' = credit /\ granted' = granted /\ tx' = tx
          /\ finished' = finished /\ stopped' = stopped
          /\ accepted' = accepted /\ wire' = wire
        BY DEF sender, bytes
    <2> QED
        BY <1>1, <1>2, <1>3, <2>1, <2>2, <2>3 DEF TypeOK
<1> QED
    BY <1>2, <1>3, <1>4, <1>5, Zenon DEF Inv

------------------------------------------------------------------------------
(* The steps, one lemma for each action. *)

(* An application write keeps the invariant. *)
LEMMA UserWriteKeeps ==
    ASSUME Inv, NEW r \in Requests, NEW len \in Nat, NEW fin \in BOOLEAN,
           UserWrite(r, len, fin)
    PROVE  Inv'
<1> DEFINE o == Write(s, r, len, fin, credit)
           w == IF "ResetQuicStream" \in o.effects /\ tx = "blocked"
                THEN "idle" ELSE tx
<1>1. /\ credit \in Nat /\ granted \in Nat
      /\ tx \in {"idle", "blocked", "written"} /\ accepted \in Seq(Requests)
    BY Zenon DEF Inv, TypeOK
<1>2. /\ Issue(r) /\ Notify(o) /\ Send(o, w) /\ s' = o.stream
      /\ credit' = credit - o.sent /\ granted' = granted /\ stopped' = stopped
      /\ UNCHANGED receiver
      /\ accepted' = accepted \o Repeat(r, len) \/ accepted' = accepted
    BY Zenon DEF UserWrite, Transmit
<1>3. /\ StreamInv(s) /\ r \notin Held(s)
      /\ {r} \in SUBSET Requests /\ {r} \cap issued = {}
      /\ issued' = issued \cup {r}
    BY <1>2, Fresh
<1>4. /\ StreamInv(o.stream) /\ Answers(s, {r}, o)
      /\ o.sent \in Nat /\ o.sent <= credit /\ o.data = o.sent
    <2>1. /\ StreamInv(s) /\ r \in Requests /\ r \notin Held(s)
          /\ len \in Nat /\ fin \in BOOLEAN /\ credit \in Nat
        BY <1>1, <1>3
    <2> QED
        BY <2>1, WriteInv, ZenonT(40)
<1>5. /\ NoSend(s, o) \/ Sends(s, o)
      /\ ReceiveHalf(o.stream) = ReceiveHalf(s)
    BY <1>1, <1>3, WriteHalves
<1> HIDE DEF o
<1>6. /\ w \in {"idle", "blocked", "written"}
      /\ NoSend(s, o) => w = tx \/ o.stream.pending_write_request = NoRequest
    BY <1>1, <1>4 DEF NoSend, StreamInv, HalfInv
<1> HIDE DEF w
<1>7. /\ credit' = credit + 0 - o.sent /\ granted' = granted + 0
      /\ o.sent <= credit + 0 /\ 0 \in Nat
    BY <1>1, <1>2, <1>4
<1>8. accepted' \in Seq(Requests)
    <2>1. Repeat(r, len) \in Seq(Requests)
        BY RepeatIsSeq
    <2>2. accepted \o Repeat(r, len) \in Seq(Requests)
        BY <1>1, <2>1, SeqConcat
    <2> QED
        BY <1>1, <1>2, <2>2, Zenon
<1> QED
    BY <1>2, <1>3, <1>4, <1>5, <1>6, <1>7, <1>8, SendStep, Zenon

(* An application reset keeps the invariant. *)
LEMMA UserResetKeeps ==
    ASSUME Inv, NEW r \in Requests, UserReset(r)
    PROVE  Inv'
<1> DEFINE o == Reset(s, r)
           w == IF "ResetQuicStream" \in o.effects /\ tx = "blocked"
                THEN "idle" ELSE tx
<1>1. /\ credit \in Nat /\ granted \in Nat /\ s \in Streams
      /\ tx \in {"idle", "blocked", "written"} /\ accepted \in Seq(Requests)
    BY DEF Inv, TypeOK
<1>2. /\ Issue(r) /\ Notify(o) /\ Send(o, w) /\ s' = o.stream
      /\ credit' = credit /\ granted' = granted /\ stopped' = stopped
      /\ UNCHANGED receiver /\ accepted' = accepted
    BY DEF UserReset, Transmit
<1>3. /\ StreamInv(s) /\ r \notin Held(s)
      /\ {r} \in SUBSET Requests /\ {r} \cap issued = {}
      /\ issued' = issued \cup {r}
    BY <1>2, Fresh
<1>4. /\ StreamInv(o.stream) /\ Answers(s, {r}, o) /\ o.sent = 0 /\ o.data = 0
    BY <1>3, ResetInv, Zenon
<1>5. NoSend(s, o) /\ ReceiveHalf(o.stream) = ReceiveHalf(s)
    <2>1. CASE s.send_state = "None"
        <3>1. o.stream = s /\ o.data = 0 /\ o.effects = {}
            BY <2>1 DEF Reset, Failed, Outcome
        <3> QED
            BY <3>1 DEF NoSend
    <2>2. CASE s.send_state # "None"
        <3> DEFINE q == SendReset(s)
        <3>1. o.stream = q.stream /\ o.data = q.data /\ o.effects = q.effects
            BY <2>2 DEF Reset, SendReset, Outcome
        <3>2. NoSend(s, q) /\ ReceiveHalf(q.stream) = ReceiveHalf(s)
            BY <1>1, SendResetHalves
        <3> HIDE DEF o, q
        <3> QED
            BY <3>1, <3>2 DEF NoSend
    <2> QED
        BY <2>1, <2>2
<1> HIDE DEF o
<1>6. /\ w \in {"idle", "blocked", "written"}
      /\ NoSend(s, o) => w = tx \/ o.stream.pending_write_request = NoRequest
    BY <1>1, <1>4 DEF NoSend, StreamInv, HalfInv
<1> HIDE DEF w
<1>7. /\ credit' = credit + 0 - o.sent /\ granted' = granted + 0
      /\ o.sent <= credit + 0 /\ 0 \in Nat /\ o.sent \in Nat /\ o.data = o.sent
    BY <1>1, <1>2, <1>4
<1> QED
    BY <1>1, <1>2, <1>3, <1>4, <1>5, <1>6, <1>7, SendStep, Zenon

(* More session credit, and the flush it causes, keep the invariant. *)
LEMMA SessionCreditKeeps ==
    ASSUME Inv, SessionCredit PROVE Inv'
<1> DEFINE o == FlushWrites(s, credit + 1)
           w == IF "ResetQuicStream" \in o.effects /\ tx = "blocked"
                THEN "idle" ELSE tx
<1>1. /\ credit \in Nat /\ granted \in Nat /\ StreamInv(s)
      /\ tx \in {"idle", "blocked", "written"} /\ accepted \in Seq(Requests)
      /\ credit + 1 \in Nat
    BY DEF Inv, TypeOK, Answered
<1>2. /\ Notify(o) /\ Send(o, w) /\ s' = o.stream /\ issued' = issued
      /\ credit' = credit + 1 - o.sent /\ granted' = granted + 1
      /\ stopped' = stopped /\ UNCHANGED receiver /\ accepted' = accepted
    BY DEF SessionCredit, Transmit
<1>3. /\ StreamInv(o.stream) /\ Held(o.stream) = Held(s)
      /\ o.done = << >> /\ o.failed = << >>
      /\ o.sent \in Nat /\ o.sent <= credit + 1 /\ o.data = o.sent
    BY <1>1, FlushWritesInv, Zenon
<1>4. /\ o = Outcome(s) \/ Sends(s, o)
      /\ ReceiveHalf(o.stream) = ReceiveHalf(s)
    BY <1>1, FlushWritesHalves
<1> HIDE DEF o
<1>5. NoSend(s, o) \/ Sends(s, o)
    BY <1>4 DEF Outcome, NoSend
<1>6. Answers(s, {}, o)
    BY <1>3, SmallSequences, AnswersFromRanges
<1>7. /\ w \in {"idle", "blocked", "written"}
      /\ NoSend(s, o) => w = tx \/ o.stream.pending_write_request = NoRequest
    BY <1>1, <1>3 DEF NoSend, StreamInv, HalfInv
<1> HIDE DEF w
<1>8. /\ {} \in SUBSET Requests /\ {} \cap issued = {} /\ issued' = issued \cup {}
      /\ 1 \in Nat
    BY <1>2
<1> QED
    BY <1>1, <1>2, <1>3, <1>4, <1>5, <1>6, <1>7, <1>8, SendStep, Zenon

(* A completion from the driver keeps the invariant. *)
LEMMA CompleteQuicDataKeeps ==
    ASSUME Inv, CompleteQuicData PROVE Inv'
<1> DEFINE o == CompleteWrite(s, credit)
<1>1. /\ credit \in Nat /\ granted \in Nat /\ StreamInv(s)
      /\ accepted \in Seq(Requests)
    BY DEF Inv, TypeOK, Answered
<1>2. /\ Notify(o) /\ Send(o, "idle") /\ s' = o.stream /\ issued' = issued
      /\ credit' = credit - o.sent /\ granted' = granted
      /\ stopped' = stopped /\ UNCHANGED receiver /\ accepted' = accepted
    BY DEF CompleteQuicData
<1>3. /\ StreamInv(o.stream) /\ Answers(s, {}, o)
      /\ o.sent \in Nat /\ o.sent <= credit /\ o.data = o.sent
    BY <1>1, CompleteWriteInv, Zenon
<1>4. /\ \/ NoSend(s, o) /\ o.stream.pending_write_request = NoRequest
         \/ Sends(s, o)
      /\ ReceiveHalf(o.stream) = ReceiveHalf(s)
    BY <1>1, CompleteWriteHalves
<1> HIDE DEF o
<1>5. NoSend(s, o) => o.stream.pending_write_request = NoRequest
    BY <1>4 DEF NoSend, Sends
<1>6. /\ credit' = credit + 0 - o.sent /\ granted' = granted + 0
      /\ o.sent <= credit + 0 /\ 0 \in Nat
    BY <1>1, <1>2, <1>3
<1>7. /\ {} \in SUBSET Requests /\ {} \cap issued = {} /\ issued' = issued \cup {}
      /\ "idle" \in {"idle", "blocked", "written"}
    BY <1>2
<1> QED
    BY <1>1, <1>2, <1>3, <1>4, <1>5, <1>6, <1>7, SendStep, Zenon

(* An application read keeps the invariant. *)
LEMMA UserReadKeeps ==
    ASSUME Inv, NEW r \in Requests, NEW max \in Nat, UserRead(r, max)
    PROVE  Inv'
<1> DEFINE o == Read(s, r, max)
<1>1. delivered \in Nat
    BY DEF Inv, TypeOK
<1>2. /\ Issue(r) /\ Notify(o) /\ Arm(o) /\ s' = o.stream
      /\ UNCHANGED << sender, inbound, peer_end, peer_sent, bytes >>
      /\ event' = event /\ delivered' = delivered
    BY DEF UserRead
<1>3. /\ StreamInv(s) /\ r \notin Held(s)
      /\ {r} \in SUBSET Requests /\ {r} \cap issued = {}
      /\ issued' = issued \cup {r}
    BY <1>2, Fresh
<1>4. StreamInv(o.stream) /\ Answers(s, {r}, o)
    BY <1>3, ReadInv, Zenon
<1>5. /\ Receives(s, o)
      /\ "StopQuicStream" \notin o.effects
      /\ \/ "ReceiveQuicData" \in o.effects
         \/ o.stream.pending_read_requests = s.pending_read_requests
         \/ s.pending_read_requests # << >>
    BY <1>3, ReadHalves, Zenon
<1> HIDE DEF o
<1> QED
    BY <1>1, <1>2, <1>3, <1>4, <1>5, RecvStep

(* An application stop keeps the invariant. *)
LEMMA UserStopKeeps ==
    ASSUME Inv, NEW r \in Requests, UserStop(r)
    PROVE  Inv'
<1> DEFINE o == Stop(s, r)
<1>1. delivered \in Nat /\ s \in Streams
    BY SMTT(30) DEF Inv, TypeOK
<1>2. /\ Issue(r) /\ Notify(o) /\ Arm(o) /\ s' = o.stream
      /\ UNCHANGED << sender, inbound, peer_end, peer_sent, bytes >>
      /\ event' = event /\ delivered' = delivered
    BY DEF UserStop
<1>3. /\ StreamInv(s) /\ r \notin Held(s)
      /\ {r} \in SUBSET Requests /\ {r} \cap issued = {}
      /\ issued' = issued \cup {r}
    BY <1>2, Fresh
<1>4. StreamInv(o.stream) /\ Answers(s, {r}, o)
    BY <1>3, StopInv, Zenon
<1>5. Receives(s, o) /\ o.stream.receive_state # "Receive"
    <2>1. CASE s.receive_state = "None"
        <3>1. o.stream = s /\ o.effects = {}
            BY <2>1 DEF Stop, Failed, Outcome
        <3> QED
            BY <2>1, <3>1 DEF Receives
    <2>2. CASE s.receive_state # "None"
        <3> DEFINE q == SendStop(s)
        <3>1. o.stream = q.stream /\ o.effects = q.effects
            BY <2>2 DEF Stop, SendStop, Outcome
        <3>2. Receives(s, q) /\ q.stream.receive_state # "Receive"
            BY <1>1, SendStopHalves
        <3> HIDE DEF o, q
        <3> QED
            BY <3>1, <3>2 DEF Receives
    <2> QED
        BY <2>1, <2>2
<1> HIDE DEF o
<1> QED
    BY <1>1, <1>2, <1>3, <1>4, <1>5, RecvStep, Zenon

(* Delivered data keeps the invariant. *)
LEMMA StreamDataReceivedKeeps ==
    ASSUME Inv, StreamDataReceived PROVE Inv'
<1> DEFINE o == RecvData(s, event.len, event.fin)
<1>1. /\ delivered \in Nat /\ StreamInv(s)
      /\ event.len \in Nat /\ event.fin \in BOOLEAN
    BY DEF Inv, TypeOK, Answered
<1>2. /\ Notify(o) /\ Arm(o) /\ s' = o.stream /\ issued' = issued
      /\ UNCHANGED << sender, inbound, peer_end, peer_sent, bytes >>
      /\ event' = NoEvent
      /\ delivered' = delivered + (IF o.done = << >> THEN 0 ELSE event.len)
    BY DEF StreamDataReceived
<1>3. StreamInv(o.stream) /\ Answers(s, {}, o)
    BY <1>1, RecvDataInv, Zenon
<1>4. /\ Receives(s, o)
      /\ \/ "ReceiveQuicData" \in o.effects
         \/ o.stream.receive_state # "Receive"
         \/ o.stream.pending_read_requests = << >>
    BY <1>1, RecvDataHalves, Zenon
<1>5. delivered' \in Nat
    BY <1>1, <1>2
<1> HIDE DEF o
<1>6. {} \in SUBSET Requests /\ {} \cap issued = {} /\ issued' = issued \cup {}
    BY <1>2
<1> QED
    BY <1>2, <1>3, <1>4, <1>5, <1>6, RecvStep

(* A delivered reset keeps the invariant. *)
LEMMA ResetStreamReceivedKeeps ==
    ASSUME Inv, ResetStreamReceived PROVE Inv'
<1> DEFINE o == RecvReset(s)
<1>1. /\ delivered \in Nat /\ StreamInv(s) /\ s \in Streams
    BY DEF Inv, TypeOK, Answered
<1>2. /\ Notify(o) /\ s' = o.stream /\ issued' = issued /\ rx' = rx
      /\ UNCHANGED << sender, inbound, peer_end, peer_sent, bytes >>
      /\ event' = NoEvent /\ delivered' = delivered
    BY DEF ResetStreamReceived
<1>3. Drops(s, o)
    BY <1>1, RecvResetInv, Zenon
<1>4. StreamInv(o.stream) /\ Answers(s, {}, o)
    BY <1>3, DropsAnswers, Zenon DEF Drops
<1>5. SendHalf(o.stream) = SendHalf(s) /\ o.stream.receive_state # "Receive"
    BY <1>1, RecvResetHalves
<1>6. o.effects = {}
    BY Zenon DEF RecvReset, Outcome
<1> HIDE DEF o
<1>7. Arm(o) /\ Receives(s, o)
    BY <1>2, <1>5, <1>6 DEF Arm, Receives
<1>8. {} \in SUBSET Requests /\ {} \cap issued = {} /\ issued' = issued \cup {}
    BY <1>2
<1> QED
    BY <1>1, <1>2, <1>4, <1>5, <1>7, <1>8, RecvStep

(* The abort of the session keeps the invariant. *)
LEMMA SessionAbortKeeps ==
    ASSUME Inv, SessionAbort PROVE Inv'
<1> DEFINE o == Abort(s)
           reset == SendReset(s)
           stop == SendStop(reset.stream)
           w == IF "ResetQuicStream" \in o.effects /\ tx = "blocked"
                THEN "idle" ELSE tx
<1>1. /\ TypeOK /\ Answered /\ CreditConserved /\ SendInv /\ RecvInv
      /\ credit \in Nat /\ granted \in Nat /\ StreamInv(s) /\ s \in Streams
      /\ tx \in {"idle", "blocked", "written"} /\ rx \in Nat
    BY DEF Inv, TypeOK, Answered
<1>2. /\ Notify(o) /\ Send(o, w) /\ Arm(o) /\ s' = o.stream /\ issued' = issued
      /\ credit' = credit /\ granted' = granted /\ stopped' = stopped
      /\ event' = event
      /\ UNCHANGED << inbound, peer_end, peer_sent, delivered, accepted >>
    BY DEF SessionAbort, Transmit
<1>3. Drops(s, o)
    BY <1>1, AbortInv
<1>4. /\ StreamInv(o.stream) /\ Answers(s, {}, o) /\ o.sent = 0 /\ o.data = 0
    BY <1>3, DropsAnswers DEF Drops
<1>5. /\ NoSend(s, reset) /\ reset.effects \subseteq {"ResetQuicStream"}
    BY <1>1, SendResetHalves
<1>6. reset.stream \in Streams
    BY <1>1, SendResetInv DEF Drops, StreamInv
<1>7. /\ Receives(reset.stream, stop) /\ stop.stream.receive_state # "Receive"
      /\ stop.effects \subseteq {"StopQuicStream"}
    BY <1>6, SendStopHalves
<1>8. o.stream = stop.stream /\ o.effects = reset.effects \cup stop.effects
    BY DEF Abort, SendStop, Outcome
<1> HIDE DEF o, reset, stop
<1>9. NoSend(s, o) /\ o.stream.receive_state # "Receive"
    BY <1>4, <1>5, <1>7, <1>8, Zenon DEF NoSend, Receives, SendHalf
<1>10. /\ Answered' /\ issued' \subseteq Requests
       /\ done' \in [Requests -> Nat] /\ failed' \in [Requests -> Nat]
    <2>1. {} \in SUBSET Requests /\ {} \cap issued = {} /\ issued' = issued \cup {}
        BY <1>2, Zenon
    <2> QED
        BY <1>1, <1>2, <1>4, <2>1, NotifyKeeps, Zenon
<1>11. /\ w \in {"idle", "blocked", "written"}
       /\ w = tx \/ o.stream.pending_write_request = NoRequest
    BY <1>1, <1>4, <1>9, Zenon DEF NoSend, StreamInv, HalfInv
<1> HIDE DEF w
<1>12. /\ credit' = credit + 0 - o.sent /\ granted' = granted + 0
       /\ o.sent <= credit + 0 /\ 0 \in Nat /\ o.sent \in Nat /\ o.data = o.sent
    BY <1>1, <1>2, <1>4
<1>13. /\ SendInv' /\ CreditConserved'
       /\ credit' \in Nat /\ granted' \in Nat
       /\ tx' \in {"idle", "blocked", "written"} /\ finished' \in BOOLEAN
       /\ stopped' \in {"no", "frame", "delivered"}
       /\ wire' \in Seq(Requests)
    BY <1>1, <1>2, <1>4, <1>9, <1>11, <1>12, SendKeeps, Zenon
<1>14. "ReceiveQuicData" \notin o.effects
    BY <1>5, <1>7, <1>8, Zenon
<1>15. RecvInv' /\ rx' \in Nat
    BY <1>1, <1>2, <1>9, <1>14, Zenon DEF Arm, RecvInv, PendingReadIsServed, NoEvent
<1>16. TypeOK'
    <2>1. s' \in Streams
        BY <1>2, <1>4 DEF StreamInv
    <2> QED
        BY <1>1, <1>2, <1>10, <1>13, <1>15, <2>1 DEF TypeOK
<1> QED
    BY <1>10, <1>13, <1>15, <1>16 DEF Inv

(* The driver handing bytes to QUIC keeps the invariant. *)
LEMMA FlushStreamKeeps ==
    ASSUME Inv, FlushStream PROVE Inv'
<1>1. /\ TypeOK /\ Answered /\ CreditConserved /\ SendInv /\ RecvInv
    BY DEF Inv
<1>2. /\ tx = "blocked"
      /\ tx' = IF stopped = "no" THEN "written" ELSE "idle"
      /\ finished' = (finished \/ (stopped = "no" /\ s.send_state = "DataSent"))
      /\ s' = s /\ UNCHANGED << app, credit, granted, stopped, receiver, bytes >>
    BY DEF FlushStream
<1>3. stopped \in {"no", "frame", "delivered"} /\ finished \in BOOLEAN
    BY <1>1 DEF TypeOK
<1>4. SendInv'
    BY <1>1, <1>2, <1>3, Zenon DEF SendInv, SendTerminated, WriteInProgressIsServed
<1>5. Answered'
    BY <1>1, <1>2, Zenon DEF Answered, ExactlyOneAnswer, app
<1>6. CreditConserved' /\ RecvInv'
    BY <1>1, <1>2, Zenon DEF CreditConserved, RecvInv, PendingReadIsServed, receiver,
                      bytes, NoEvent
<1>7. TypeOK'
    BY <1>1, <1>2, <1>3 DEF TypeOK, app, receiver, bytes
<1> QED
    BY <1>4, <1>5, <1>6, <1>7 DEF Inv

(* The acknowledgement of a finished stream keeps the invariant: the last  *)
(* write was completed before.                                             *)
LEMMA StreamDataAcknowledgedKeeps ==
    ASSUME Inv, StreamDataAcknowledged PROVE Inv'
<1> DEFINE u == HandleDataAcknowledged(s)
<1>1. /\ TypeOK /\ Answered /\ CreditConserved /\ SendInv /\ RecvInv
      /\ StreamInv(s) /\ s \in Streams
    BY DEF Inv, Answered, TypeOK
<1>2. /\ finished /\ tx = "idle" /\ s.send_state = "DataSent" /\ s' = u
      /\ UNCHANGED << app, sender, receiver, bytes >>
    BY DEF StreamDataAcknowledged
<1>3. StreamInv(u) /\ Held(u) = Held(s)
    BY <1>1, DataAcknowledgedInv
<1>4. /\ u.send_state = "DataReceived"
      /\ u.pending_write_request = s.pending_write_request
      /\ ReceiveHalf(u) = ReceiveHalf(s)
    BY <1>1, <1>2 DEF HandleDataAcknowledged, Streams, ReceiveHalf
<1> HIDE DEF u
<1>5. s.pending_write_request = NoRequest
    BY <1>1, <1>2 DEF SendInv
<1>6. SendInv' /\ CreditConserved'
    BY <1>1, <1>2, <1>4, <1>5
    DEF SendInv, SendTerminated, WriteInProgressIsServed, CreditConserved, sender,
        bytes
<1>7. RecvInv'
    BY <1>1, <1>2, <1>4, RecvFrame DEF receiver
<1>8. Answered'
    BY <1>1, <1>2, <1>3 DEF Answered, ExactlyOneAnswer, app
<1>9. TypeOK'
    BY <1>1, <1>2, <1>3 DEF TypeOK, StreamInv, app, sender, receiver, bytes
<1> QED
    BY <1>6, <1>7, <1>8, <1>9 DEF Inv

(* A delivered STOP_SENDING keeps the invariant. *)
LEMMA StopSendingReceivedKeeps ==
    ASSUME Inv, StopSendingReceived PROVE Inv'
<1> DEFINE o == RecvStopSending(s)
<1>1. /\ TypeOK /\ Answered /\ CreditConserved /\ SendInv /\ RecvInv
      /\ StreamInv(s) /\ s \in Streams
    BY DEF Inv, Answered, TypeOK
<1>2. /\ stopped' = "delivered" /\ tx' = "idle" /\ Notify(o) /\ s' = o.stream
      /\ issued' = issued /\ credit' = credit /\ granted' = granted
      /\ finished' = finished /\ UNCHANGED << receiver, bytes >>
    BY DEF StopSendingReceived
<1>3. Drops(s, o)
    BY <1>1, SendResetInv DEF RecvStopSending
<1>4. StreamInv(o.stream) /\ Answers(s, {}, o)
    BY <1>3, DropsAnswers DEF Drops
<1>5. /\ NoSend(s, o) /\ SendTerminated(o.stream)
      /\ ReceiveHalf(o.stream) = ReceiveHalf(s)
    BY <1>1, SendResetHalves DEF RecvStopSending
<1> HIDE DEF o
<1>6. o.stream.pending_write_request = NoRequest
    BY <1>1, <1>5, Zenon DEF NoSend, SendHalf, SendTerminated, SendInv
<1>7. finished => o.stream.send_state \in {"DataSent", "DataReceived", "ResetSent"}
    BY <1>1, <1>5, Zenon DEF NoSend, SendHalf, SendInv
<1>8. SendInv' /\ CreditConserved'
    BY <1>1, <1>2, <1>5, <1>6, <1>7, Zenon
    DEF SendInv, WriteInProgressIsServed, CreditConserved, bytes
<1>9. RecvInv'
    BY <1>1, <1>2, <1>5, RecvFrame DEF receiver
<1>10. /\ Answered' /\ issued' \subseteq Requests
       /\ done' \in [Requests -> Nat] /\ failed' \in [Requests -> Nat]
    <2>1. {} \in SUBSET Requests /\ {} \cap issued = {} /\ issued' = issued \cup {}
        BY <1>2
    <2> QED
        BY <1>1, <1>2, <1>4, <2>1, NotifyKeeps
<1>11. TypeOK'
    <2>1. s' \in Streams
        BY <1>2, <1>4 DEF StreamInv
    <2> QED
        BY <1>1, <1>2, <1>10, <2>1 DEF TypeOK, receiver, bytes
<1> QED
    BY <1>8, <1>9, <1>10, <1>11 DEF Inv

(* The driver reading from QUIC keeps the invariant. *)
LEMMA ReadQuicKeeps ==
    ASSUME Inv, ReadQuic PROVE Inv'
<1> DEFINE len == IF inbound < rx THEN inbound ELSE rx
           fin == peer_end = "fin" /\ inbound < rx
           E == [kind : {"none", "data", "reset"}, len : Nat, fin : BOOLEAN]
<1>1. /\ TypeOK /\ Answered /\ CreditConserved /\ SendInv /\ RecvInv
      /\ inbound \in Nat /\ rx \in Nat
    BY DEF Inv, TypeOK
<1>2. /\ rx' = 0
      /\ \/ /\ event' = [kind |-> "reset", len |-> 0, fin |-> FALSE]
            /\ inbound' = 0
         \/ /\ event' = [kind |-> "data", len |-> len, fin |-> fin]
            /\ inbound' = inbound - len
      /\ s' = s /\ UNCHANGED << app, sender, peer_end, peer_sent, delivered, bytes >>
    BY DEF ReadQuic
<1>3. len \in Nat /\ inbound - len \in Nat /\ fin \in BOOLEAN
    BY <1>1
<1> HIDE DEF len, fin
<1>4. event' \in E /\ event'.kind # "none" /\ inbound' \in Nat
    <2>1. CASE /\ event' = [kind |-> "reset", len |-> 0, fin |-> FALSE]
               /\ inbound' = 0
        BY <2>1
    <2>2. CASE /\ event' = [kind |-> "data", len |-> len, fin |-> fin]
               /\ inbound' = inbound - len
        <3>1. [kind |-> "data", len |-> len, fin |-> fin] \in E
            BY <1>3
        <3> HIDE DEF E
        <3> QED
            BY <1>3, <2>2, <3>1
    <2> QED
        BY <1>2, <2>1, <2>2
<1>5. event' # NoEvent
    BY <1>4 DEF NoEvent
<1>6. RecvInv'
    BY <1>4, <1>5 DEF RecvInv, PendingReadIsServed, NoEvent
<1>7. Answered'
    BY <1>1, <1>2 DEF Answered, ExactlyOneAnswer, app
<1>8. SendInv' /\ CreditConserved'
    BY <1>1, <1>2, SendFrame DEF bytes
<1>9. TypeOK'
    BY <1>1, <1>2, <1>4 DEF TypeOK, app, sender, bytes
<1> QED
    BY <1>6, <1>7, <1>8, <1>9 DEF Inv

(* Frames of the peer keep the invariant. *)
LEMMA PeerKeeps ==
    ASSUME Inv, Peer PROVE Inv'
<1>1. /\ TypeOK /\ Answered /\ CreditConserved /\ SendInv /\ RecvInv
    BY DEF Inv
<1>2. CASE PeerStopSending
    <2>1. /\ stopped = "no" /\ stopped' = "frame" /\ s' = s
          /\ UNCHANGED << app, credit, granted, tx, finished, receiver, bytes >>
        BY <1>2 DEF PeerStopSending
    <2>2. SendInv' /\ CreditConserved'
        BY <1>1, <2>1 DEF SendInv, WriteInProgressIsServed, CreditConserved, bytes
    <2>3. RecvInv'
        BY <1>1, <2>1, RecvFrame DEF receiver
    <2>4. Answered'
        BY <1>1, <2>1 DEF Answered, ExactlyOneAnswer, app
    <2>5. TypeOK'
        BY <1>1, <2>1 DEF TypeOK, app, receiver, bytes
    <2> QED
        BY <2>2, <2>3, <2>4, <2>5 DEF Inv
<1>3. CASE PeerSend \/ PeerEnd
    <2>1. /\ peer_sent' \in {peer_sent, peer_sent + 1}
          /\ inbound' \in {inbound, inbound + 1}
          /\ peer_end' \in {peer_end, "fin", "reset"} /\ s' = s
          /\ UNCHANGED << app, sender, rx, event, delivered, bytes >>
        BY <1>3 DEF PeerSend, PeerEnd
    <2>2. SendInv' /\ CreditConserved'
        BY <1>1, <2>1, SendFrame DEF bytes
    <2>3. RecvInv'
        BY <1>1, <2>1, RecvFrame
    <2>4. Answered'
        BY <1>1, <2>1 DEF Answered, ExactlyOneAnswer, app
    <2>5. TypeOK'
        BY <1>1, <2>1 DEF TypeOK, app, sender, bytes
    <2> QED
        BY <2>2, <2>3, <2>4, <2>5 DEF Inv
<1> QED
    BY <1>2, <1>3 DEF Peer

(* So does a step that changes nothing. *)
LEMMA StutterKeeps ==
    ASSUME Inv, UNCHANGED vars PROVE Inv'
<1>1. /\ TypeOK /\ Answered /\ CreditConserved /\ SendInv /\ RecvInv
    BY DEF Inv
<1>2. s' = s /\ UNCHANGED << app, sender, receiver, bytes >>
    BY DEF vars
<1>3. SendInv' /\ CreditConserved'
    BY <1>1, <1>2, SendFrame DEF bytes
<1>4. RecvInv'
    BY <1>1, <1>2, RecvFrame DEF receiver
<1>5. Answered'
    BY <1>1, <1>2 DEF Answered, ExactlyOneAnswer, app
<1>6. TypeOK'
    BY <1>1, <1>2 DEF TypeOK, app, sender, receiver, bytes
<1> QED
    BY <1>3, <1>4, <1>5, <1>6, SMTT(30) DEF Inv

(* A new stream of any direction satisfies the invariant. *)
LEMMA InitInv == Init => Inv
<1> SUFFICES ASSUME Init PROVE Inv
    OBVIOUS
<1>1. PICK direction \in Directions : s = NewStream(direction)
    BY DEF Init
<1>2. /\ s.send_state \in {"None", "Ready"} /\ s.receive_state \in {"None", "Receive"}
      /\ s.write_buffer = << >> /\ s.write_buffer_size = 0
      /\ s.pending_write_request = NoRequest /\ s.pending_read_requests = << >>
    BY <1>1 DEF NewStream
<1>3. << >> \in Seq(Chunks) /\ << >> \in Seq(Reads) /\ << >> \in Seq(Requests)
    OBVIOUS
<1>4. s \in Streams
    BY <1>1, <1>3 DEF NewStream, Streams, SendStates, ReceiveStates
<1>5. StreamInv(s)
    <2>1. BufferInv(s)
        BY <1>2, SizeOfEmpty, BufferAssumption DEF BufferInv
    <2>2. Writing(s) = {}
        BY <1>2 DEF Writing
    <2>3. QueueInv(s) /\ HalfInv(s)
        BY <1>2, <2>2 DEF QueueInv, HalfInv, DistinctIds
    <2> QED
        BY <1>4, <2>1, <2>3 DEF StreamInv
<1>6. Held(s) = {}
    BY <1>2 DEF Held, Writing, Reading
<1>7. TypeOK
    <2>1. NoEvent \in [kind : {"none", "data", "reset"}, len : Nat, fin : BOOLEAN]
        BY DEF NoEvent
    <2>2. /\ issued = {} /\ done = [r \in Requests |-> 0]
          /\ failed = [r \in Requests |-> 0] /\ credit = 0 /\ granted = 0
          /\ tx = "idle" /\ finished = FALSE /\ stopped = "no"
          /\ rx = 0 /\ event = NoEvent /\ inbound = 0 /\ peer_end = "open"
          /\ peer_sent = 0 /\ delivered = 0 /\ accepted = << >> /\ wire = << >>
        BY DEF Init
    <2> QED
        BY <1>3, <1>4, <2>1, <2>2, Zenon DEF TypeOK
<1>8. Answered
    BY <1>5, <1>6 DEF Init, Answered, ExactlyOneAnswer
<1>9. CreditConserved /\ SendInv
    BY <1>2 DEF Init, CreditConserved, SendInv, WriteInProgressIsServed,
                SendTerminated
<1>10. RecvInv
    BY <1>2 DEF Init, RecvInv, PendingReadIsServed, Reading, NoEvent
<1> QED
    BY <1>7, <1>8, <1>9, <1>10 DEF Inv

(* Every step keeps it. *)
LEMMA NextInv == Inv /\ [Next]_vars => Inv'
<1> SUFFICES ASSUME Inv, [Next]_vars PROVE Inv'
    OBVIOUS
<1>1. ASSUME NEW r \in Requests, NEW len \in Lengths, NEW fin \in BOOLEAN,
             UserWrite(r, len, fin)
      PROVE  Inv'
    BY <1>1, UserWriteKeeps, SizeAssumption
<1>2. ASSUME NEW r \in Requests, UserReset(r) PROVE Inv'
    BY <1>2, UserResetKeeps
<1>3. ASSUME NEW r \in Requests, NEW max \in ReadSizes, UserRead(r, max) PROVE Inv'
    BY <1>3, UserReadKeeps, SizeAssumption
<1>4. ASSUME NEW r \in Requests, UserStop(r) PROVE Inv'
    BY <1>4, UserStopKeeps
<1>5. CASE User
    BY <1>1, <1>2, <1>3, <1>4, <1>5 DEF User
<1>6. CASE Session
    BY <1>6, SessionAbortKeeps, SessionCreditKeeps DEF Session
<1>7. CASE Quic
    BY <1>7, FlushStreamKeeps, CompleteQuicDataKeeps, StreamDataAcknowledgedKeeps,
       StopSendingReceivedKeeps, ReadQuicKeeps, StreamDataReceivedKeeps,
       ResetStreamReceivedKeeps DEF Quic
<1>8. CASE Peer
    BY <1>8, PeerKeeps
<1>9. CASE UNCHANGED vars
    BY <1>9, StutterKeeps
<1> QED
    BY <1>5, <1>6, <1>7, <1>8, <1>9 DEF Next

------------------------------------------------------------------------------
(* What an operation does to the sending half as a whole. *)
WriteSide(t) == << t.send_state, t.pending_write_request, t.write_buffer,
                   t.write_buffer_size >>

(* The operations of the receiving half do not touch the write buffer. *)
LEMMA ReadLeavesWrites ==
    ASSUME NEW t \in Streams, NEW r, NEW max
    PROVE  WriteSide(Read(t, r, max).stream) = WriteSide(t)
    BY DEF Read, Failed, Done, Outcome, Streams, WriteSide

(* Neither does what arrives. *)
LEMMA DataLeavesWrites ==
    ASSUME NEW t \in Streams, NEW len, NEW fin
    PROVE  WriteSide(RecvData(t, len, fin).stream) = WriteSide(t)
    BY DEF RecvData, Outcome, Streams, WriteSide

(* Nor does the end of the receiving half. *)
LEMMA ReceivingLeavesWrites ==
    ASSUME NEW t \in Streams, NEW r
    PROVE  /\ WriteSide(RecvReset(t).stream) = WriteSide(t)
           /\ WriteSide(SendStop(t).stream) = WriteSide(t)
           /\ WriteSide(Stop(t, r).stream) = WriteSide(t)
<1>1. WriteSide(RecvReset(t).stream) = WriteSide(t)
    BY DEF RecvReset, Outcome, Streams, WriteSide
<1>2. WriteSide(SendStop(t).stream) = WriteSide(t)
    BY DEF SendStop, Outcome, Streams, WriteSide
<1>3. Stop(t, r).stream \in {t, SendStop(t).stream}
    BY DEF Stop, SendStop, Failed, Outcome
<1> QED
    BY <1>1, <1>2, <1>3

(* A reset clears the sending half, or finds it terminal. *)
Clears(t, o) ==
    \/ WriteSide(o.stream) = WriteSide(t)
    \/ /\ o.stream.send_state = "ResetSent" /\ t.send_state # "ResetSent"
       /\ o.stream.write_buffer = << >> /\ o.stream.write_buffer_size = 0
       /\ o.stream.pending_write_request = NoRequest

(* So do reset, abort and a received STOP_SENDING. *)
LEMMA ResettingClears ==
    ASSUME NEW t, StreamInv(t), NEW r
    PROVE  /\ Clears(t, SendReset(t)) /\ Clears(t, Reset(t, r))
           /\ Clears(t, Abort(t))
<1> DEFINE q == SendReset(t)
<1>0. t \in Streams
    BY DEF StreamInv
<1>1. Clears(t, q)
    BY <1>0 DEF SendReset, Outcome, Streams, WriteSide, Clears, SendTerminated
<1>2. Reset(t, r).stream \in {t, q.stream}
    BY Zenon DEF Reset, SendReset, Failed, Outcome
<1>3. Clears(t, Reset(t, r))
    BY <1>1, <1>2 DEF Clears
<1>4. Abort(t).stream = SendStop(q.stream).stream
    BY Zenon DEF Abort, SendStop, Outcome
<1>5. q.stream \in Streams
    BY SendResetInv, Zenon DEF Drops, StreamInv
<1>6. WriteSide(Abort(t).stream) = WriteSide(q.stream)
    BY <1>4, <1>5, ReceivingLeavesWrites, Zenon
<1>7. Clears(t, Abort(t))
    BY <1>1, <1>6, Zenon DEF Clears, WriteSide
<1> QED
    BY <1>1, <1>3, <1>7

------------------------------------------------------------------------------
(* Bytes are kept back for lack of credit only. *)
BlockedOn(t, c) ==
    t.send_state = "Ready" /\ IsBlocked(t) => c = 0 /\ Head(t.write_buffer).len > 0

(* flush_writes stops at the credit, not before. *)
LEMMA FlushWritesBlocked ==
    ASSUME NEW t, StreamInv(t), NEW c \in Nat
    PROVE  BlockedOn(FlushWrites(t, c).stream, c - FlushWrites(t, c).sent)
<1> DEFINE o == FlushWrites(t, c)
<1>1. o = Outcome(t) \/ Sends(t, o)
    BY FlushWritesHalves
<1>2. CASE Sends(t, o)
    BY <1>2 DEF Sends, BlockedOn, IsBlocked
<1>3. CASE o = Outcome(t) /\ ~Sends(t, o)
    <2>1. o.stream = t /\ o.sent = 0 /\ o.effects = {}
        BY <1>3 DEF Outcome
    <2>2. ASSUME t.send_state = "Ready", IsBlocked(t)
          PROVE  c = 0 /\ Head(t.write_buffer).len > 0
        <3>1. CASE ~(Head(t.write_buffer).len > 0 /\ c = 0)
            <4>1. o.effects = {"SendQuicData"}
                BY <2>2, <3>1 DEF FlushWrites, Outcome, IsBlocked
            <4> QED
                BY <2>1, <4>1
        <3> QED
            BY <3>1
    <2> HIDE DEF o
    <2> QED
        BY <2>1, <2>2 DEF BlockedOn, o
<1> QED
    BY <1>1, <1>2, <1>3

(* write flushes what it appends. *)
LEMMA WritingBlocked ==
    ASSUME NEW t, StreamInv(t), NEW r \in Requests, r \notin Held(t),
           NEW len \in Nat, NEW fin \in BOOLEAN, NEW c \in Nat, BlockedOn(t, c)
    PROVE  LET o == Write(t, r, len, fin, c) IN BlockedOn(o.stream, c - o.sent)
<1> DEFINE o == Write(t, r, len, fin, c)
           u == [t EXCEPT !.write_buffer =
                              Append(@, [id |-> r, len |-> len, fin |-> fin]),
                          !.write_buffer_size = @ + len]
<1>1. CASE o \in {Failed(t, r), Done(t, r)}
    <2>1. o.stream = t /\ o.sent = 0
        BY <1>1 DEF Failed, Done, Outcome
    <2> HIDE DEF o
    <2>2. BlockedOn(o.stream, c - o.sent)
        BY <2>1
    <2> QED
        BY <2>2 DEF o
<1>2. CASE o \notin {Failed(t, r), Done(t, r)}
    <2>1. /\ ~FinishPending(t)
          /\ ~(t.write_buffer_size + len > MaxWriteBufferSize)
          /\ o = FlushWrites(u, c)
        BY <1>2 DEF Write
    <2>2. /\ ~FinishPending(t)
          /\ ~(t.write_buffer_size + len > MaxWriteBufferSize)
        BY <2>1
    <2>3. StreamInv(u)
        BY <2>2, WriteTakenInv, Zenon
    <2> HIDE DEF u
    <2> QED
        BY <2>1, <2>3, FlushWritesBlocked
<1> QED
    BY <1>1, <1>2

(* complete_write flushes again with what credit there is. *)
LEMMA CompletingBlocked ==
    ASSUME NEW t, StreamInv(t), NEW c \in Nat, BlockedOn(t, c)
    PROVE  LET o == CompleteWrite(t, c) IN BlockedOn(o.stream, c - o.sent)
<1> DEFINE o == CompleteWrite(t, c)
           u == [t EXCEPT !.pending_write_request = NoRequest]
           f == FlushWrites(u, c)
<1>1. CASE t.pending_write_request = NoRequest
    <2>1. o = Outcome(t)
        BY <1>1 DEF CompleteWrite
    <2>2. o.stream = t /\ o.sent = 0
        BY <2>1 DEF Outcome
    <2> HIDE DEF o
    <2>3. BlockedOn(o.stream, c - o.sent)
        BY <2>2
    <2> QED
        BY <2>3 DEF o
<1>2. CASE t.pending_write_request # NoRequest
    <2>1. o.stream = f.stream /\ o.sent = f.sent
        BY <1>2 DEF CompleteWrite, FlushWrites, Outcome
    <2>2. StreamInv(u)
        BY DropPendingInv, Zenon
    <2> HIDE DEF u
    <2>3. BlockedOn(f.stream, c - f.sent)
        BY <2>2, FlushWritesBlocked
    <2> QED
        BY <2>1, <2>3
<1> QED
    BY <1>1, <1>2

(* Every step keeps it: the credit and the buffer change together. *)
LEMMA NextBlocked ==
    ASSUME Inv, BlockedOnlyOnCredit, [Next]_vars PROVE BlockedOnlyOnCredit'
<1>1. /\ BlockedOn(s, credit) /\ StreamInv(s) /\ s \in Streams /\ credit \in Nat
    BY DEF Inv, Answered, TypeOK, BlockedOnlyOnCredit, BlockedOn
<1>2. ASSUME BlockedOn(s', credit') PROVE BlockedOnlyOnCredit'
    BY <1>2 DEF BlockedOn, BlockedOnlyOnCredit
<1>3. ASSUME WriteSide(s') = WriteSide(s), credit' = credit
      PROVE  BlockedOnlyOnCredit'
    BY <1>1, <1>2, <1>3 DEF BlockedOn, WriteSide, IsBlocked
<1>4. ASSUME NEW o, Clears(s, o), s' = o.stream, credit' = credit
      PROVE  BlockedOnlyOnCredit'
    BY <1>2, <1>3, <1>4 DEF Clears, BlockedOn
<1>5. ASSUME NEW r \in Requests, NEW len \in Lengths, NEW fin \in BOOLEAN,
             UserWrite(r, len, fin)
      PROVE  BlockedOnlyOnCredit'
    <2> DEFINE o == Write(s, r, len, fin, credit)
    <2>0. Issue(r) /\ len \in Nat
        BY <1>5, SizeAssumption, Zenon DEF UserWrite
    <2>1. r \notin Held(s)
        BY <2>0, Fresh, Zenon
    <2>2. s' = o.stream /\ credit' = credit - o.sent
        BY <1>5, Zenon DEF UserWrite
    <2>3. BlockedOn(o.stream, credit - o.sent)
        <3>1. /\ StreamInv(s) /\ r \in Requests /\ r \notin Held(s) /\ len \in Nat
              /\ fin \in BOOLEAN /\ credit \in Nat /\ BlockedOn(s, credit)
            BY <1>1, <2>0, <2>1
        <3> QED
            BY <3>1, WritingBlocked, Zenon
    <2> QED
        BY <1>2, <2>2, <2>3
<1>6. ASSUME NEW r \in Requests, UserReset(r) PROVE BlockedOnlyOnCredit'
    BY <1>1, <1>4, <1>6, ResettingClears DEF UserReset
<1>7. ASSUME NEW r \in Requests, NEW max \in ReadSizes, UserRead(r, max)
      PROVE  BlockedOnlyOnCredit'
    <2>1. s' = Read(s, r, max).stream /\ credit' = credit
        BY <1>7 DEF UserRead, sender
    <2>2. WriteSide(Read(s, r, max).stream) = WriteSide(s)
        BY <1>1, ReadLeavesWrites
    <2> QED
        BY <1>3, <2>1, <2>2
<1>8. ASSUME NEW r \in Requests, UserStop(r) PROVE BlockedOnlyOnCredit'
    <2>1. s' = Stop(s, r).stream /\ credit' = credit
        BY <1>8, Zenon DEF UserStop, sender
    <2>2. WriteSide(Stop(s, r).stream) = WriteSide(s)
        BY <1>1, ReceivingLeavesWrites, Zenon
    <2> QED
        BY <1>3, <2>1, <2>2, Zenon
<1>9. CASE SessionAbort
    BY <1>1, <1>4, <1>9, ResettingClears DEF SessionAbort
<1>10. CASE SessionCredit
    <2> DEFINE c == credit + 1
               o == FlushWrites(s, c)
    <2>1. c \in Nat /\ StreamInv(s)
        BY <1>1
    <2>2. s' = o.stream /\ credit' = credit + 1 - o.sent
        BY <1>10 DEF SessionCredit
    <2>3. BlockedOn(o.stream, c - o.sent) /\ o.sent \in Nat
        <3> HIDE DEF c
        <3>1. o.sent \in Nat
            BY <2>1, FlushWritesInv, Zenon
        <3> QED
            BY <2>1, <3>1, FlushWritesBlocked
    <2> HIDE DEF o
    <2>4. credit' = c - o.sent
        BY <1>1, <2>2, <2>3
    <2>5. BlockedOn(s', credit')
        BY <2>2, <2>3, <2>4
    <2> QED
        BY <1>2, <2>5
<1>11. CASE CompleteQuicData
    <2>1. /\ s' = CompleteWrite(s, credit).stream
          /\ credit' = credit - CompleteWrite(s, credit).sent
        BY <1>11 DEF CompleteQuicData
    <2>2. StreamInv(s) /\ credit \in Nat /\ BlockedOn(s, credit)
        BY <1>1
    <2>3. BlockedOn(CompleteWrite(s, credit).stream,
                    credit - CompleteWrite(s, credit).sent)
        BY <2>2, CompletingBlocked, Zenon
    <2> QED
        BY <1>2, <2>1, <2>3
<1>12. CASE StreamDataAcknowledged
    <2>1. s'.send_state = "DataReceived"
        BY <1>1, <1>12 DEF StreamDataAcknowledged, HandleDataAcknowledged, Streams
    <2> QED
        BY <1>2, <2>1 DEF BlockedOn
<1>13. CASE StopSendingReceived
    BY <1>1, <1>4, <1>13, ResettingClears DEF StopSendingReceived, RecvStopSending
<1>14. CASE StreamDataReceived
    <2>1. s' = RecvData(s, event.len, event.fin).stream /\ credit' = credit
        BY <1>14, Zenon DEF StreamDataReceived, sender
    <2>2. WriteSide(RecvData(s, event.len, event.fin).stream) = WriteSide(s)
        BY <1>1, DataLeavesWrites, Zenon
    <2> QED
        BY <1>3, <2>1, <2>2, Zenon
<1>15. CASE ResetStreamReceived
    <2>1. s' = RecvReset(s).stream /\ credit' = credit
        BY <1>15, Zenon DEF ResetStreamReceived, sender
    <2>2. WriteSide(RecvReset(s).stream) = WriteSide(s)
        BY <1>1, ReceivingLeavesWrites
    <2> QED
        BY <1>3, <2>1, <2>2, Zenon
<1>16. CASE FlushStream \/ ReadQuic \/ Peer \/ UNCHANGED vars
    <2>1. s' = s /\ credit' = credit
        BY <1>16, Zenon DEF FlushStream, ReadQuic, Peer, PeerStopSending, PeerSend,
                     PeerEnd, vars, sender
    <2> QED
        BY <1>3, <2>1, Zenon
<1> QED
    BY <1>5, <1>6, <1>7, <1>8, <1>9, <1>10, <1>11, <1>12, <1>13, <1>14, <1>15,
       <1>16 DEF Next, User, Session, Quic

(* A half that is terminal holds no request. *)
LEMMA InvTerminated == Inv => NothingHeldWhenTerminated
<1> SUFFICES ASSUME Inv PROVE NothingHeldWhenTerminated
    BY Zenon
<1>1. /\ SendTerminated(s) => /\ s.pending_write_request = NoRequest
                             /\ s.write_buffer = << >>
      /\ ReceiveTerminated(s) => s.pending_read_requests = << >>
    BY DEF Inv, Answered, StreamInv, HalfInv, SendInv, SendTerminated,
           ReceiveTerminated
<1> QED
    BY <1>1 DEF NothingHeldWhenTerminated, Writing, Reading

------------------------------------------------------------------------------
(* The type invariant of the stream and its driver.                        *)
THEOREM TypeCorrect == Spec => []TypeOK
<1>1. Inv => TypeOK
    BY DEF Inv
<1> QED
    BY <1>1, InitInv, NextInv, PTL DEF Spec

(* Every write, read, reset and stop request is answered exactly once,     *)
(* whatever the order of the application's calls, credit, completions,     *)
(* STOP_SENDING, data, resets and the abort of the session.                *)
THEOREM EveryRequestOnce == Spec => []ExactlyOneAnswer
<1>1. Inv => ExactlyOneAnswer
    BY DEF Inv, Answered
<1> QED
    BY <1>1, InitInv, NextInv, PTL DEF Spec

(* The stream never sends a byte the session did not grant, and no credit  *)
(* is lost on the way from write or complete_write to the session.         *)
THEOREM CreditIsConserved == Spec => []CreditConserved
<1>1. Inv => CreditConserved
    BY DEF Inv
<1> QED
    BY <1>1, InitInv, NextInv, PTL DEF Spec

(* No request waits in vain: a half that is_closed counts as terminal      *)
(* holds none, a write in progress has its completion or the STOP_SENDING  *)
(* that ends it still to come, a pending read has the driver armed for it  *)
(* or its event queued, and flush_writes leaves bytes behind only when     *)
(* there is no credit.                                                     *)
THEOREM NoRequestWaitsInVain == Spec => []NothingWaitsInVain
<1>1. Init => BlockedOnlyOnCredit
    <2> SUFFICES ASSUME Init PROVE BlockedOnlyOnCredit
        OBVIOUS
    <2>1. s.write_buffer = << >>
        BY DEF Init, NewStream
    <2> QED
        BY <2>1, Zenon DEF BlockedOnlyOnCredit, IsBlocked
<1>2. Inv /\ BlockedOnlyOnCredit /\ [Next]_vars => (Inv /\ BlockedOnlyOnCredit)'
    BY NextInv, NextBlocked
<1>3. Inv /\ BlockedOnlyOnCredit => NothingWaitsInVain
    BY InvTerminated DEF Inv, SendInv, RecvInv, NothingWaitsInVain
<1> QED
    BY <1>1, <1>2, <1>3, InitInv, PTL DEF Spec
==============================================================================
