-------------------------- MODULE StreamBytes_proofs --------------------------
(***************************************************************************)
(* What the two applications see of a stream of module Stream: the bytes   *)
(* of each half, for every set of requests, every length and every bound,  *)
(* and the error codes of module ErrorCodes, for every first code that     *)
(* follows a reserved one and every largest code, those of the code among  *)
(* them.                                                                   *)
(***************************************************************************)
EXTENDS Stream_proofs, ErrorCodes

------------------------------------------------------------------------------
(* The bytes of the receiving half.  The driver reads only for a read that *)
(* waits, an event and an armed read exclude each other, and an end that   *)
(* is reported was the peer's.                                             *)
BytesInv ==
    /\ NoByteSkipped
    /\ rx > 0 => event = NoEvent /\ s.receive_state = "Receive"
    /\ rx > 0 \/ event # NoEvent =>
           /\ s.receive_state # "None"
           /\ s.receive_state = "Receive" => s.pending_read_requests # << >>
    /\ event.fin => peer_end = "fin" /\ inbound = 0
    /\ event.kind = "reset" => peer_end = "reset"
    /\ s.receive_state = "None" => peer_end = "open" /\ peer_sent = 0

(* A step that leaves the receiving half and its driver alone. *)
LEMMA BytesFrame ==
    ASSUME BytesInv, ReceiveHalf(s') = ReceiveHalf(s), UNCHANGED receiver
    PROVE  BytesInv'
<1>1. /\ s'.receive_state = s.receive_state
      /\ s'.pending_read_requests = s.pending_read_requests
    BY DEF ReceiveHalf
<1>2. /\ rx' = rx /\ event' = event /\ inbound' = inbound /\ peer_end' = peer_end
      /\ peer_sent' = peer_sent /\ delivered' = delivered
    BY DEF receiver
<1> QED
    BY <1>1, <1>2 DEF BytesInv, NoByteSkipped, NoEvent

(* The receiving half is stopped: what arrives is not accounted any more. *)
LEMMA BytesOfStop ==
    ASSUME TypeOK, BytesInv, NEW o, s' = o.stream, Arm(o),
           "ReceiveQuicData" \notin o.effects,
           \/ /\ o.stream.receive_state = s.receive_state
              /\ o.stream.pending_read_requests = s.pending_read_requests
              /\ s.receive_state # "Receive" /\ "StopQuicStream" \notin o.effects
           \/ /\ o.stream.receive_state = "ResetRead"
              /\ s.receive_state \in {"Receive", "DataReceived"}
              /\ s.receive_state = "Receive" => "StopQuicStream" \in o.effects,
           UNCHANGED << event, inbound, peer_end, peer_sent, delivered >>
    PROVE  BytesInv'
<1>1. rx' = IF "StopQuicStream" \in o.effects THEN 0 ELSE rx
    BY DEF Arm
<1>2. rx \in Nat
    BY DEF TypeOK
<1>3. rx' = 0
    BY <1>1, <1>2 DEF BytesInv
<1> QED
    BY <1>3 DEF BytesInv, NoByteSkipped, NoEvent

(* What send_stop does to the receiving half. *)
LEMMA SendStopEnds ==
    ASSUME NEW t \in Streams
    PROVE  LET o == SendStop(t)
           IN  /\ "ReceiveQuicData" \notin o.effects
               /\ \/ /\ o.stream.receive_state = t.receive_state
                     /\ o.stream.pending_read_requests = t.pending_read_requests
                     /\ t.receive_state # "Receive"
                     /\ "StopQuicStream" \notin o.effects
                  \/ /\ o.stream.receive_state = "ResetRead"
                     /\ t.receive_state \in {"Receive", "DataReceived"}
                     /\ t.receive_state = "Receive" =>
                            "StopQuicStream" \in o.effects
<1> DEFINE o == SendStop(t)
<1>1. CASE t.receive_state \notin {"Receive", "DataReceived"}
    <2>1. o.stream = t /\ o.effects = {}
        BY <1>1 DEF SendStop, Outcome
    <2> HIDE DEF o
    <2> QED
        BY <1>1, <2>1 DEF o
<1>2. CASE t.receive_state \in {"Receive", "DataReceived"}
    <2>1. /\ o.stream.receive_state = "ResetRead"
          /\ o.effects = IF t.receive_state = "Receive"
                         THEN {"StopQuicStream"} ELSE {}
        BY <1>2 DEF SendStop, Outcome, Streams
    <2> HIDE DEF o
    <2> QED
        BY <1>2, <2>1 DEF o
<1> QED
    BY <1>1, <1>2

(* A read arms the driver, or changes nothing the bytes depend on. *)
LEMMA BytesOfRead ==
    ASSUME Inv, BytesInv, NEW r \in Requests, NEW max \in Nat, UserRead(r, max)
    PROVE  BytesInv'
<1> DEFINE o == Read(s, r, max)
           reads == s.pending_read_requests
<1>1. /\ s \in Streams /\ reads \in Seq(Reads) /\ rx \in Nat
    BY Fields DEF Inv, TypeOK
<1>2. /\ event = NoEvent /\ Arm(o) /\ s' = o.stream
      /\ UNCHANGED << event, inbound, peer_end, peer_sent, delivered >>
    BY DEF UserRead, Issue, Settled
<1>3. CASE s.receive_state = "Receive" /\ max > 0
    <2> DEFINE more == Append(reads, [id |-> r, max |-> max])
    <2>1. /\ o.stream.receive_state = "Receive"
          /\ o.stream.pending_read_requests = more
          /\ o.effects = IF reads = << >> THEN {"ReceiveQuicData"} ELSE {}
        BY <1>1, <1>3, Zenon DEF Read, Outcome, Streams
    <2>2. more # << >> /\ (reads = << >> => Head(more).max > 0)
        BY <1>1, <1>3
    <2> HIDE DEF o, more
    <2>3. s'.receive_state = "Receive" /\ s'.pending_read_requests # << >>
        BY <1>2, <2>1, <2>2
    <2> QED
        BY <1>2, <1>3, <2>3 DEF BytesInv, NoByteSkipped, NoEvent
<1>4. CASE ~(s.receive_state = "Receive" /\ max > 0)
    <2>1. /\ o.effects = {}
          /\ o.stream.pending_read_requests = reads
          /\ \/ o.stream.receive_state = s.receive_state
             \/ /\ s.receive_state = "DataReceived"
                /\ o.stream.receive_state = "DataRead"
        BY <1>1, <1>4 DEF Read, Failed, Done, Outcome, Streams
    <2> HIDE DEF o, reads
    <2>2. rx' = rx
        BY <1>2, <2>1 DEF Arm
    <2> QED
        BY <1>2, <2>1, <2>2 DEF BytesInv, NoByteSkipped, NoEvent, reads
<1> QED
    BY <1>3, <1>4

(* Delivered data is counted, since a read was waiting for it. *)
LEMMA BytesOfData ==
    ASSUME Inv, BytesInv, StreamDataReceived PROVE BytesInv'
<1> DEFINE o == RecvData(s, event.len, event.fin)
           reads == s.pending_read_requests
<1>1. /\ s \in Streams /\ reads \in Seq(Reads) /\ rx \in Nat /\ event.len \in Nat
      /\ inbound \in Nat /\ delivered \in Nat /\ peer_sent \in Nat
      /\ event.fin \in BOOLEAN
    BY Fields DEF Inv, TypeOK
<1>2. /\ event.kind = "data" /\ event' = NoEvent /\ Arm(o) /\ s' = o.stream
      /\ delivered' = delivered + (IF o.done = << >> THEN 0 ELSE event.len)
      /\ UNCHANGED << inbound, peer_end, peer_sent >>
    BY DEF StreamDataReceived
<1>3. event # NoEvent /\ rx = 0
    BY <1>1, <1>2 DEF BytesInv, NoEvent
<1>4. CASE s.receive_state # "Receive"
    <2>1. o.stream = s /\ o.effects = {} /\ o.done = << >>
        BY <1>4 DEF RecvData, Outcome
    <2> HIDE DEF o
    <2>2. rx' = 0 /\ delivered' = delivered /\ s' = s
        BY <1>1, <1>2, <1>3, <2>1 DEF Arm
    <2>3. s.receive_state # "None"
        BY <1>3 DEF BytesInv
    <2>4. s.receive_state \in {"DataReceived", "DataRead", "ResetRead"}
        BY <1>1, <1>4, <2>3 DEF Streams, ReceiveStates
    <2>5. s.receive_state # "ResetRead" => event.len = 0
        BY <1>1, <2>4 DEF BytesInv, NoByteSkipped
    <2> QED
        BY <1>1, <1>2, <1>4, <2>2, <2>3, <2>4, <2>5
        DEF BytesInv, NoByteSkipped, NoEvent
<1>5. CASE s.receive_state = "Receive"
    <2>1. reads # << >>
        BY <1>3, <1>5 DEF BytesInv
    <2>2. peer_end # "reset" => delivered + event.len + inbound = peer_sent
        BY <1>5 DEF BytesInv, NoByteSkipped
    <2>3. CASE event.fin
        <3>1. /\ o.stream.receive_state \in {"DataRead", "DataReceived"}
              /\ o.effects = {} /\ o.done = Ids(reads)
            BY <1>1, <1>5, <2>3, Zenon DEF RecvData, Outcome, Streams
        <3>2. Ids(reads) # << >>
            <4> HIDE DEF reads
            <4>1. Len(reads) \in Nat \ {0} /\ DOMAIN reads = 1 .. Len(reads)
                BY <1>1, <2>1, SeqEmpty, SeqElements
            <4>2. 1 \in DOMAIN Ids(reads)
                BY <4>1 DEF Ids
            <4> QED
                BY <4>2
        <3> HIDE DEF o
        <3>3. rx' = 0 /\ delivered' = delivered + event.len
            BY <1>2, <1>3, <3>1, <3>2 DEF Arm
        <3>4. peer_end = "fin" /\ inbound = 0
            BY <2>3 DEF BytesInv
        <3>5. delivered' = peer_sent /\ delivered' \in Nat
            BY <1>1, <2>2, <3>3, <3>4
        <3>6. s'.receive_state \in {"DataRead", "DataReceived"}
            BY <1>2, <3>1
        <3> QED
            BY <1>1, <1>2, <3>3, <3>4, <3>5, <3>6 DEF BytesInv, NoByteSkipped, NoEvent
    <2>4. CASE ~event.fin
        <3>1. /\ o.stream.receive_state = "Receive"
              /\ o.stream.pending_read_requests = Tail(reads)
              /\ o.done = << Head(reads).id >>
              /\ o.effects = IF Tail(reads) = << >> THEN {} ELSE {"ReceiveQuicData"}
            BY <1>1, <1>5, <2>1, <2>4, ZenonT(60) DEF RecvData, Outcome, Streams
        <3> HIDE DEF o, reads
        <3>2. rx' = IF Tail(reads) = << >> THEN 0 ELSE Head(Tail(reads)).max
            BY <1>2, <1>3, <3>1, SMTT(30) DEF Arm
        <3>3. delivered' = delivered + event.len
            BY <1>2, <3>1
        <3>4. rx' > 0 => Tail(reads) # << >>
            BY <3>2
        <3>5. s'.receive_state = "Receive" /\ s'.pending_read_requests = Tail(reads)
            BY <1>2, <3>1
        <3>6. peer_end # "reset" => delivered' + 0 + inbound = peer_sent
            BY <1>1, <2>2, <3>3
        <3> QED
            BY <1>2, <3>4, <3>5, <3>6 DEF BytesInv, NoByteSkipped, NoEvent
    <2> QED
        BY <1>1, <2>3, <2>4
<1> QED
    BY <1>4, <1>5

(* The driver's read moves bytes from QUIC to an event, the end only after *)
(* the last of them.                                                       *)
LEMMA BytesOfReadQuic ==
    ASSUME Inv, BytesInv, ReadQuic PROVE BytesInv'
<1> DEFINE len == IF inbound < rx THEN inbound ELSE rx
           fin == peer_end = "fin" /\ inbound < rx
<1>1. /\ rx \in Nat /\ inbound \in Nat /\ delivered \in Nat /\ peer_sent \in Nat
    BY DEF Inv, TypeOK
<1>2. /\ rx > 0 /\ event = NoEvent /\ rx' = 0 /\ s' = s
      /\ UNCHANGED << peer_end, peer_sent, delivered >>
      /\ \/ /\ peer_end = "reset"
            /\ event' = [kind |-> "reset", len |-> 0, fin |-> FALSE]
         \/ /\ peer_end # "reset"
            /\ event' = [kind |-> "data", len |-> len, fin |-> fin]
            /\ inbound' = inbound - len
    BY DEF ReadQuic
<1>3. s.receive_state = "Receive" /\ s.pending_read_requests # << >>
    BY <1>2 DEF BytesInv
<1>4. CASE peer_end = "reset"
    <2>1. event' = [kind |-> "reset", len |-> 0, fin |-> FALSE]
        BY <1>2, <1>4
    <2> QED
        BY <1>2, <1>3, <1>4, <2>1 DEF BytesInv, NoByteSkipped
<1>5. CASE peer_end # "reset"
    <2>1. /\ len \in Nat /\ inbound - len \in Nat /\ fin \in BOOLEAN
          /\ fin => peer_end = "fin" /\ inbound - len = 0
        BY <1>1
    <2>2. delivered + 0 + inbound = peer_sent
        BY <1>2, <1>3, <1>5 DEF BytesInv, NoByteSkipped, NoEvent
    <2>3. delivered + len + (inbound - len) = peer_sent
        BY <1>1, <2>1, <2>2
    <2> HIDE DEF len, fin
    <2>4. event'.len = len /\ event'.fin = fin /\ event'.kind = "data"
        BY <1>2, <1>5
    <2> QED
        BY <1>2, <1>3, <1>5, <2>1, <2>3, <2>4 DEF BytesInv, NoByteSkipped
<1> QED
    BY <1>4, <1>5

(* Every step keeps it. *)
LEMMA NextBytes ==
    ASSUME Inv, BytesInv, [Next]_vars PROVE BytesInv'
<1>1. /\ StreamInv(s) /\ s \in Streams /\ credit \in Nat /\ TypeOK
    BY DEF Inv, Answered, TypeOK
<1>2. ASSUME NEW r \in Requests, NEW len \in Lengths, NEW fin \in BOOLEAN,
             UserWrite(r, len, fin)
      PROVE  BytesInv'
    <2> DEFINE o == Write(s, r, len, fin, credit)
    <2>1. Issue(r) /\ len \in Nat
        BY <1>2, SizeAssumption DEF UserWrite
    <2>2. r \notin Held(s)
        BY <2>1, Fresh
    <2>3. ReceiveHalf(o.stream) = ReceiveHalf(s)
        <3>1. /\ StreamInv(s) /\ r \in Requests /\ r \notin Held(s) /\ len \in Nat
              /\ fin \in BOOLEAN /\ credit \in Nat
            BY <1>1, <2>1, <2>2
        <3> QED
            BY <3>1, WriteHalves
    <2>4. s' = o.stream /\ UNCHANGED receiver
        BY <1>2 DEF UserWrite
    <2> HIDE DEF o
    <2> QED
        BY <2>3, <2>4, BytesFrame
<1>3. ASSUME NEW r \in Requests, UserReset(r) PROVE BytesInv'
    <2>1. s' = Reset(s, r).stream /\ UNCHANGED receiver
        BY <1>3 DEF UserReset
    <2>2. Reset(s, r).stream \in {s, SendReset(s).stream}
        BY DEF Reset, SendReset, Failed, Outcome
    <2>3. ReceiveHalf(SendReset(s).stream) = ReceiveHalf(s)
        BY <1>1, SendResetHalves
    <2> QED
        BY <2>1, <2>2, <2>3, BytesFrame
<1>4. ASSUME NEW r \in Requests, NEW max \in ReadSizes, UserRead(r, max)
      PROVE  BytesInv'
    BY <1>4, BytesOfRead, SizeAssumption
<1>5. ASSUME NEW r \in Requests, UserStop(r) PROVE BytesInv'
    <2> DEFINE o == Stop(s, r)
    <2>1. /\ Arm(o) /\ s' = o.stream
          /\ UNCHANGED << event, inbound, peer_end, peer_sent, delivered >>
        BY <1>5 DEF UserStop
    <2>2. CASE s.receive_state = "None"
        <3>1. o.stream = s /\ o.effects = {}
            BY <2>2 DEF Stop, Failed, Outcome
        <3> HIDE DEF o
        <3> QED
            BY <1>1, <2>1, <2>2, <3>1, BytesOfStop
    <2>3. CASE s.receive_state # "None"
        <3> DEFINE q == SendStop(s)
        <3>1. o.stream = q.stream /\ o.effects = q.effects
            BY <2>3 DEF Stop, SendStop, Outcome
        <3>2. /\ "ReceiveQuicData" \notin q.effects
              /\ \/ /\ q.stream.receive_state = s.receive_state
                    /\ q.stream.pending_read_requests = s.pending_read_requests
                    /\ s.receive_state # "Receive"
                    /\ "StopQuicStream" \notin q.effects
                 \/ /\ q.stream.receive_state = "ResetRead"
                    /\ s.receive_state \in {"Receive", "DataReceived"}
                    /\ s.receive_state = "Receive" => "StopQuicStream" \in q.effects
            BY <1>1, SendStopEnds
        <3> HIDE DEF o, q
        <3> QED
            BY <1>1, <2>1, <3>1, <3>2, BytesOfStop
    <2> QED
        BY <2>2, <2>3
<1>6. CASE SessionAbort
    <2> DEFINE o == Abort(s)
               reset == SendReset(s)
               q == SendStop(reset.stream)
    <2>1. /\ Arm(o) /\ s' = o.stream
          /\ UNCHANGED << event, inbound, peer_end, peer_sent, delivered >>
        BY <1>6 DEF SessionAbort
    <2>2. /\ o.stream = q.stream /\ o.effects = reset.effects \cup q.effects
        BY DEF Abort, SendStop, Outcome
    <2>3. /\ reset.effects \subseteq {"ResetQuicStream"}
          /\ reset.stream.receive_state = s.receive_state
          /\ reset.stream.pending_read_requests = s.pending_read_requests
        BY <1>1, SendResetHalves DEF ReceiveHalf
    <2>4. reset.stream \in Streams
        BY <1>1, SendResetInv DEF Drops, StreamInv
    <2> HIDE DEF reset
    <2>5. /\ "ReceiveQuicData" \notin q.effects
          /\ \/ /\ q.stream.receive_state = reset.stream.receive_state
                /\ q.stream.pending_read_requests =
                       reset.stream.pending_read_requests
                /\ reset.stream.receive_state # "Receive"
                /\ "StopQuicStream" \notin q.effects
             \/ /\ q.stream.receive_state = "ResetRead"
                /\ reset.stream.receive_state \in {"Receive", "DataReceived"}
                /\ reset.stream.receive_state = "Receive" =>
                       "StopQuicStream" \in q.effects
        BY <2>4, SendStopEnds
    <2> HIDE DEF o, q
    <2>6. /\ "ReceiveQuicData" \notin o.effects
          /\ "StopQuicStream" \in o.effects <=> "StopQuicStream" \in q.effects
        BY <2>2, <2>3, <2>5
    <2> QED
        BY <1>1, <2>1, <2>2, <2>3, <2>5, <2>6, BytesOfStop
<1>7. CASE SessionCredit
    <2>1. s' = FlushWrites(s, credit + 1).stream /\ UNCHANGED receiver
        BY <1>7 DEF SessionCredit
    <2>2. ReceiveHalf(FlushWrites(s, credit + 1).stream) = ReceiveHalf(s)
        BY <1>1, FlushWritesHalves
    <2> QED
        BY <2>1, <2>2, BytesFrame
<1>8. CASE CompleteQuicData
    <2>1. s' = CompleteWrite(s, credit).stream /\ UNCHANGED receiver
        BY <1>8 DEF CompleteQuicData
    <2>2. ReceiveHalf(CompleteWrite(s, credit).stream) = ReceiveHalf(s)
        BY <1>1, CompleteWriteHalves
    <2> QED
        BY <2>1, <2>2, BytesFrame
<1>9. CASE StreamDataAcknowledged
    <2>1. ReceiveHalf(s') = ReceiveHalf(s) /\ UNCHANGED receiver
        BY <1>1, <1>9 DEF StreamDataAcknowledged, HandleDataAcknowledged, Streams,
                          ReceiveHalf
    <2> QED
        BY <2>1, BytesFrame
<1>10. CASE StopSendingReceived
    <2>1. s' = SendReset(s).stream /\ UNCHANGED receiver
        BY <1>10 DEF StopSendingReceived, RecvStopSending
    <2>2. ReceiveHalf(SendReset(s).stream) = ReceiveHalf(s)
        BY <1>1, SendResetHalves
    <2> QED
        BY <2>1, <2>2, BytesFrame
<1>11. CASE StreamDataReceived
    BY <1>11, BytesOfData
<1>12. CASE ResetStreamReceived
    <2> DEFINE o == RecvReset(s)
    <2>1. /\ event.kind = "reset" /\ event' = NoEvent /\ s' = o.stream /\ rx' = rx
          /\ UNCHANGED << inbound, peer_end, peer_sent, delivered >>
        BY <1>12 DEF ResetStreamReceived
    <2>2. event # NoEvent /\ rx = 0 /\ peer_end = "reset"
        BY <1>1, <2>1 DEF BytesInv, NoEvent, TypeOK
    <2>3. s.receive_state \notin {"None", "DataRead", "DataReceived"}
        BY <2>2 DEF BytesInv, NoByteSkipped
    <2>4. o.stream.receive_state = "ResetRead"
        BY <1>1, <2>3 DEF RecvReset, ReceiveTerminated, Outcome, Streams,
                          ReceiveStates
    <2> HIDE DEF o
    <2> QED
        BY <2>1, <2>2, <2>4 DEF BytesInv, NoByteSkipped, NoEvent
<1>13. CASE ReadQuic
    BY <1>13, BytesOfReadQuic
<1>14. CASE PeerSend \/ PeerEnd
    <2>1. /\ inbound \in Nat /\ delivered \in Nat /\ peer_sent \in Nat
          /\ event.len \in Nat
        BY <1>1 DEF TypeOK
    <2>2. /\ peer_end = "open" /\ s.receive_state # "None" /\ s' = s
          /\ rx' = rx /\ event' = event /\ delivered' = delivered
          /\ \/ peer_sent' = peer_sent /\ inbound' = inbound
             \/ /\ peer_sent' = peer_sent + 1 /\ inbound' = inbound + 1
                /\ peer_end' = peer_end
        BY <1>14 DEF PeerSend, PeerEnd
    <2>3. /\ ~event.fin /\ event.kind # "reset"
          /\ s.receive_state \notin {"DataRead", "DataReceived"}
        BY <2>2 DEF BytesInv, NoByteSkipped
    <2>4. s.receive_state # "ResetRead" =>
              delivered + event.len + inbound' = peer_sent'
        BY <2>1, <2>2, SMTT(30) DEF BytesInv, NoByteSkipped
    <2> QED
        BY <2>2, <2>3, <2>4 DEF BytesInv, NoByteSkipped, NoEvent
<1>15. CASE FlushStream \/ PeerStopSending \/ UNCHANGED vars
    <2>1. s' = s /\ UNCHANGED receiver
        BY <1>15 DEF FlushStream, PeerStopSending, vars
    <2> QED
        BY <2>1, BytesFrame
<1> QED
    BY <1>2, <1>3, <1>4, <1>5, <1>6, <1>7, <1>8, <1>9, <1>10, <1>11, <1>12,
       <1>13, <1>14, <1>15 DEF Next, User, Session, Quic, Peer

------------------------------------------------------------------------------
(* Until the stream is reset the accepted bytes are on the wire or in the  *)
(* buffer, in order; a reset fails the writes whose bytes had not left.    *)
OrderInv ==
    /\ Len(wire) <= Len(accepted)
    /\ \A i \in 1 .. Len(wire) : wire[i] = accepted[i]
    /\ s.send_state # "ResetSent" => Order(s, accepted, wire)
    /\ s.send_state = "ResetSent" =>
           \A i \in Len(wire) + 1 .. Len(accepted) : failed[accepted[i]] = 1

(* A byte that has not left belongs to a write the stream still holds. *)
LEMMA UnsentIsHeld ==
    ASSUME TypeOK, Order(s, accepted, wire),
           NEW i \in Len(wire) + 1 .. Len(accepted)
    PROVE  accepted[i] \in Writing(s)
<1>1. Len(wire) \in Nat /\ Len(accepted) \in Nat
    BY SMTT(30) DEF TypeOK
<1>2. Spells(s.write_buffer, accepted, Len(wire))
    BY DEF Order
<1>3. PICK f : Owned(s.write_buffer, accepted, Len(wire), f)
    BY <1>2, SpellsIs
<1>4. i - Len(wire) \in 1 .. Len(accepted) - Len(wire)
      /\ Len(wire) + (i - Len(wire)) = i
    BY <1>1
<1>5. \E j \in 1 .. Len(s.write_buffer) : accepted[i] = s.write_buffer[j].id
    BY <1>3, <1>4, Zenon DEF Owned
<1>6. DOMAIN s.write_buffer = 1 .. Len(s.write_buffer)
    <2>1. s.write_buffer \in Seq(Chunks)
        BY DEF TypeOK, Streams
    <2> QED
        BY <2>1, SeqElements
<1> QED
    BY <1>5, <1>6 DEF Writing

(* The order of the bytes, from its inductive form. *)
LEMMA OrderImplies == Inv /\ OrderInv => BytesInOrder
<1> SUFFICES ASSUME Inv, OrderInv PROVE BytesInOrder
    OBVIOUS
<1>1. s.write_buffer_size <= MaxWriteBufferSize
    BY DEF Inv, Answered, StreamInv, BufferInv
<1>2. ASSUME NEW i \in Len(wire) + 1 .. Len(accepted) PROVE done[accepted[i]] = 0
    <2>1. accepted[i] \in Requests
        <3>1. /\ accepted \in Seq(Requests) /\ Len(accepted) \in Nat
              /\ Len(wire) \in Nat
            BY SMTT(30) DEF Inv, TypeOK
        <3>2. i \in 1 .. Len(accepted)
            BY <3>1
        <3> QED
            BY <3>1, <3>2, SeqElements
    <2>2. done[accepted[i]] \in Nat /\ failed[accepted[i]] \in Nat
        BY <2>1 DEF Inv, TypeOK
    <2>3. done[accepted[i]] + failed[accepted[i]] =
              IF accepted[i] \in issued /\ accepted[i] \notin Held(s) THEN 1 ELSE 0
        BY <2>1 DEF Inv, Answered, ExactlyOneAnswer
    <2>4. CASE s.send_state = "ResetSent"
        <3>1. failed[accepted[i]] = 1
            BY <2>4 DEF OrderInv
        <3> QED
            BY <2>2, <2>3, <3>1
    <2>5. CASE s.send_state # "ResetSent"
        <3>1. accepted[i] \in Held(s)
            BY <2>5, UnsentIsHeld DEF OrderInv, Inv, Held
        <3> QED
            BY <2>2, <2>3, <3>1
    <2> QED
        BY <2>4, <2>5
<1> QED
    BY <1>1, <1>2 DEF OrderInv, Order, BytesInOrder

(* An answer is never taken back. *)
LEMMA FailedStays ==
    ASSUME Inv, Inv', NEW o, NEW new, Answers(s, new, o), Notify(o)
    PROVE  \A r \in Requests : failed[r] = 1 => failed'[r] = 1
<1> SUFFICES ASSUME NEW r \in Requests, failed[r] = 1 PROVE failed'[r] = 1
    OBVIOUS
<1>1. Count(o.failed, r) \in Nat
    BY DEF Answers
<1>2. failed'[r] = failed[r] + Count(o.failed, r)
    BY DEF Notify
<1>3. done'[r] \in Nat /\ failed'[r] \in Nat
    BY DEF Inv, TypeOK
<1>4. done'[r] + failed'[r] <= 1
    BY DEF Inv, Answered, ExactlyOneAnswer
<1> HIDE DEF Inv
<1> QED
    BY <1>1, <1>2, <1>3, <1>4

(* A stream that was reset sends nothing and stays reset. *)
LEMMA ResetIsFinal ==
    ASSUME NEW t, StreamInv(t), t.send_state = "ResetSent",
           NEW r, NEW len, NEW fin, NEW c
    PROVE  /\ FlushWrites(t, c) = Outcome(t)
           /\ CompleteWrite(t, c) = Outcome(t)
           /\ \/ Write(t, r, len, fin, c) = Failed(t, r)
              \/ Write(t, r, len, fin, c) = Done(t, r)
<1>1. t.pending_write_request = NoRequest
    BY DEF StreamInv, HalfInv
<1> QED
    BY <1>1 DEF FlushWrites, CompleteWrite, Write, FinishPending

(* Only a reset makes a stream reset. *)
LEMMA SendingDoesNotReset ==
    ASSUME NEW t, StreamInv(t), t.send_state # "ResetSent",
           NEW r, NEW len, NEW fin, NEW c
    PROVE  /\ FlushWrites(t, c).stream.send_state # "ResetSent"
           /\ CompleteWrite(t, c).stream.send_state # "ResetSent"
           /\ Write(t, r, len, fin, c).stream.send_state # "ResetSent"
<1>1. ASSUME NEW u \in Streams, u.send_state # "ResetSent"
      PROVE  FlushWrites(u, c).stream.send_state # "ResetSent"
    BY <1>1 DEF FlushWrites, Outcome, Streams
<1>2. t \in Streams
    BY DEF StreamInv
<1>3. FlushWrites(t, c).stream.send_state # "ResetSent"
    BY <1>1, <1>2
<1>4. CompleteWrite(t, c).stream.send_state # "ResetSent"
    <2> DEFINE u == [t EXCEPT !.pending_write_request = NoRequest]
               f == FlushWrites(u, c)
    <2>1. u \in Streams /\ u.send_state # "ResetSent"
        BY <1>2, SMTT(30) DEF Streams
    <2>2. f.stream.send_state # "ResetSent"
        BY <1>1, <2>1, Zenon
    <2>3. \/ CompleteWrite(t, c) = Outcome(t)
          \/ CompleteWrite(t, c).stream = f.stream
        BY DEF CompleteWrite, FlushWrites, Outcome
    <2> HIDE DEF f
    <2> QED
        BY <2>2, <2>3 DEF Outcome
<1>5. Write(t, r, len, fin, c).stream.send_state # "ResetSent"
    <2> DEFINE u == [t EXCEPT !.write_buffer =
                         Append(@, [id |-> r, len |-> len, fin |-> fin]),
                              !.write_buffer_size = @ + len]
    <2>1. \/ Write(t, r, len, fin, c) = Failed(t, r)
          \/ Write(t, r, len, fin, c) = Done(t, r)
          \/ Write(t, r, len, fin, c) = FlushWrites(u, c)
        BY DEF Write
    <2>2. u.send_state = t.send_state
        BY <1>2 DEF Streams
    <2>3. \/ FlushWrites(u, c).stream.send_state = u.send_state
          \/ FlushWrites(u, c).stream.send_state = "DataSent"
        <3> DEFINE q == u.write_buffer
        <3>1. DOMAIN u = DOMAIN t /\ "send_state" \in DOMAIN u
            BY <1>2, Zenon DEF Streams
        <3> HIDE DEF u
        <3> QED
            BY <3>1 DEF FlushWrites, Outcome
    <2> HIDE DEF u
    <2> QED
        BY <2>1, <2>2, <2>3 DEF Failed, Done, Outcome
<1> QED
    BY <1>3, <1>4, <1>5

(* A step of the sending half. *)
LEMMA OrderOfSend ==
    ASSUME Inv, Inv', OrderInv, NEW o, NEW new, Answers(s, new, o), Notify(o),
           s' = o.stream,
           wire' = wire \o Repeat(o.stream.pending_write_request, o.data),
           s.send_state # "ResetSent" =>
               o.stream.send_state # "ResetSent" /\ Order(o.stream, accepted', wire'),
           s.send_state = "ResetSent" =>
               /\ o.stream.send_state = "ResetSent" /\ o.data = 0
               /\ accepted' = accepted
    PROVE  OrderInv'
<1>1. CASE s.send_state # "ResetSent"
    BY <1>1, Zenon DEF OrderInv, Order
<1>2. CASE s.send_state = "ResetSent"
    <2>1. accepted \in Seq(Requests) /\ wire \in Seq(Requests)
        BY Zenon DEF Inv, TypeOK
    <2>2. wire' = wire
        BY <1>2, <2>1, NothingSent, Zenon
    <2>3. \A r \in Requests : failed[r] = 1 => failed'[r] = 1
        BY FailedStays, Zenon
    <2>4. \A i \in Len(wire) + 1 .. Len(accepted) : accepted[i] \in Requests
        <3> SUFFICES ASSUME NEW i \in Len(wire) + 1 .. Len(accepted)
                     PROVE  accepted[i] \in Requests
            BY SMTT(30)
        <3>1. Len(wire) \in Nat /\ Len(accepted) \in Nat
            BY <2>1, SMTT(30)
        <3>2. i \in 1 .. Len(accepted)
            BY <3>1
        <3> QED
            BY <2>1, <3>2, SeqElements
    <2> QED
        BY <1>2, <2>2, <2>3, <2>4, Zenon DEF OrderInv
<1> QED
    BY <1>1, <1>2, Zenon

(* A step that leaves the sending half alone. *)
LEMMA OrderFrame ==
    ASSUME Inv, OrderInv, WriteSide(s') = WriteSide(s), UNCHANGED bytes,
           \A r \in Requests : failed[r] = 1 => failed'[r] = 1
    PROVE  OrderInv'
<1>1. /\ s'.send_state = s.send_state /\ s'.write_buffer = s.write_buffer
      /\ s'.write_buffer_size = s.write_buffer_size
      /\ accepted' = accepted /\ wire' = wire
    BY DEF WriteSide, bytes
<1>2. accepted \in Seq(Requests) /\ wire \in Seq(Requests)
    BY DEF Inv, TypeOK
<1>3. \A i \in Len(wire) + 1 .. Len(accepted) : accepted[i] \in Requests
    <2> SUFFICES ASSUME NEW i \in Len(wire) + 1 .. Len(accepted)
                 PROVE  accepted[i] \in Requests
        OBVIOUS
    <2>1. Len(wire) \in Nat /\ Len(accepted) \in Nat
        BY <1>2
    <2>2. i \in 1 .. Len(accepted)
        BY <2>1
    <2> QED
        BY <1>2, <2>2, SeqElements
<1>4. s'.send_state # "ResetSent" => Order(s', accepted', wire')
    BY <1>1 DEF OrderInv, Order
<1>5. s'.send_state = "ResetSent" =>
          \A i \in Len(wire') + 1 .. Len(accepted') : failed'[accepted'[i]] = 1
    BY <1>1, <1>3 DEF OrderInv
<1>6. Len(wire') <= Len(accepted') /\ \A i \in 1 .. Len(wire') : wire'[i] = accepted'[i]
    BY <1>1 DEF OrderInv
<1> QED
    BY <1>4, <1>5, <1>6 DEF OrderInv

(* A reset fails the writes whose bytes have not left. *)
LEMMA OrderOfReset ==
    ASSUME Inv, Inv', OrderInv, NEW o, NEW new, Answers(s, new, o), Notify(o),
           s' = o.stream, Clears(s, o), UNCHANGED bytes,
           Reading(o.stream) \subseteq Reading(s),
           Distinct(o.failed), RangeOf(o.failed) = Held(s) \ Held(o.stream)
    PROVE  OrderInv'
<1>1. CASE WriteSide(o.stream) = WriteSide(s)
    <2>1. \A r \in Requests : failed[r] = 1 => failed'[r] = 1
        BY FailedStays, Zenon
    <2> QED
        BY <1>1, <2>1, OrderFrame, Zenon
<1>2. CASE ~(WriteSide(o.stream) = WriteSide(s))
    <2>1. /\ o.stream.send_state = "ResetSent" /\ s.send_state # "ResetSent"
          /\ o.stream.write_buffer = << >>
          /\ o.stream.pending_write_request = NoRequest
        BY <1>2, Zenon DEF Clears
    <2>2. Writing(o.stream) = {}
        BY <2>1 DEF Writing
    <2>3. accepted' = accepted /\ wire' = wire
        BY DEF bytes
    <2>4. ASSUME NEW i \in Len(wire) + 1 .. Len(accepted)
          PROVE  failed'[accepted[i]] = 1
        <3>1. accepted[i] \in Writing(s)
            BY <2>1, UnsentIsHeld, Zenon DEF OrderInv, Inv
        <3>2. accepted[i] \in Held(s) /\ accepted[i] \notin Held(o.stream)
            <4>1. Writing(s) \cap Reading(s) = {}
                BY Zenon DEF Inv, Answered, StreamInv, QueueInv
            <4> QED
                BY <2>2, <3>1, <4>1, Zenon DEF Held
        <3>3. accepted[i] \in Requests
            BY <3>2, Zenon DEF Inv, Answered, TypeOK
        <3>4. failed[accepted[i]] = 0
            <4> DEFINE d == done[accepted[i]]
                       f == failed[accepted[i]]
            <4>1. d \in Nat /\ f \in Nat
                BY <3>3, Zenon DEF Inv, TypeOK
            <4>2. d + f = 0
                BY <3>2, <3>3, Zenon DEF Inv, Answered, ExactlyOneAnswer
            <4> HIDE DEF d, f
            <4>3. f = 0
                BY <4>1, <4>2
            <4> QED
                BY <4>3, Zenon DEF f
        <3>5. \E j \in DOMAIN o.failed : o.failed[j] = accepted[i]
            BY <3>2 DEF RangeOf
        <3>6. Count(o.failed, accepted[i]) = 1
            BY <3>5, CountDistinct
        <3>7. failed'[accepted[i]] = failed[accepted[i]] + Count(o.failed, accepted[i])
            BY <3>3 DEF Notify
        <3> QED
            BY <3>4, <3>6, <3>7
    <2> QED
        BY <2>1, <2>3, <2>4, Zenon DEF OrderInv
<1> QED
    BY <1>1, <1>2

(* What a reset or an abort does to the pending reads. *)
LEMMA ResettingReads ==
    ASSUME NEW t \in Streams, NEW r
    PROVE  /\ Reading(SendReset(t).stream) \subseteq Reading(t)
           /\ Reading(Reset(t, r).stream) \subseteq Reading(t)
           /\ Reading(Abort(t).stream) \subseteq Reading(t)
<1>1. SendReset(t).stream.pending_read_requests = t.pending_read_requests
    BY DEF SendReset, Outcome, Streams
<1>2. Reset(t, r).stream = SendReset(t).stream \/ Reset(t, r).stream = t
    BY DEF Reset, Failed, SendReset, Outcome
<1>3. ASSUME NEW u, "pending_read_requests" \in DOMAIN u
      PROVE  \/ SendStop(u).stream.pending_read_requests = u.pending_read_requests
             \/ SendStop(u).stream.pending_read_requests = << >>
    BY <1>3 DEF SendStop, Outcome
<1>4. Abort(t).stream = SendStop(SendReset(t).stream).stream
    BY DEF Abort, SendStop, Outcome
<1>5. "pending_read_requests" \in DOMAIN SendReset(t).stream
    BY DEF SendReset, Outcome, Streams
<1>6. \/ Abort(t).stream.pending_read_requests = t.pending_read_requests
      \/ Abort(t).stream.pending_read_requests = << >>
    BY <1>1, <1>3, <1>4, <1>5
<1> QED
    BY <1>1, <1>2, <1>6 DEF Reading

(* Every step keeps the order of the bytes. *)
LEMMA NextOrder ==
    ASSUME Inv, OrderInv, [Next]_vars PROVE OrderInv'
<1>1. /\ StreamInv(s) /\ s \in Streams /\ credit \in Nat /\ TypeOK
      /\ accepted \in Seq(Requests) /\ wire \in Seq(Requests)
    BY DEF Inv, Answered, TypeOK
<1>2. Inv'
    BY NextInv, Zenon
<1>3. ASSUME NEW r \in Requests, NEW len \in Lengths, NEW fin \in BOOLEAN,
             UserWrite(r, len, fin)
      PROVE  OrderInv'
    <2> DEFINE o == Write(s, r, len, fin, credit)
               taken == o.failed = << >> /\ o.done = << >>
    <2>1. /\ Issue(r) /\ Notify(o) /\ s' = o.stream /\ len \in Nat
          /\ wire' = wire \o Repeat(o.stream.pending_write_request, o.data)
          /\ accepted' = IF taken THEN accepted \o Repeat(r, len) ELSE accepted
        BY <1>3, SizeAssumption, Zenon DEF UserWrite, Transmit, Send
    <2>2. r \notin Held(s)
        BY <2>1, Fresh, Zenon
    <2>3. /\ StreamInv(s) /\ r \in Requests /\ r \notin Held(s) /\ len \in Nat
          /\ fin \in BOOLEAN /\ credit \in Nat
        BY <1>1, <2>1, <2>2, Zenon
    <2>4. Answers(s, {r}, o)
        BY <2>3, WriteInv, Zenon
    <2>5. s.send_state # "ResetSent" =>
              /\ o.stream.send_state # "ResetSent"
              /\ Order(o.stream, accepted', wire')
        <3> SUFFICES ASSUME s.send_state # "ResetSent"
                     PROVE  /\ o.stream.send_state # "ResetSent"
                            /\ Order(o.stream, accepted', wire')
            BY Zenon
        <3>1. Order(s, accepted, wire)
            BY Zenon DEF OrderInv
        <3>2. Order(o.stream, IF taken THEN accepted \o Repeat(r, len) ELSE accepted,
                    wire \o Repeat(o.stream.pending_write_request, o.data))
            BY <1>1, <2>3, <3>1, WriteOrder, Zenon
        <3>3. o.stream.send_state # "ResetSent"
            BY <1>1, SendingDoesNotReset
        <3> HIDE DEF o, taken
        <3> QED
            BY <2>1, <3>2, <3>3, Zenon
    <2>6. s.send_state = "ResetSent" =>
              /\ o.stream.send_state = "ResetSent" /\ o.data = 0
              /\ accepted' = accepted
        <3> SUFFICES ASSUME s.send_state = "ResetSent"
                     PROVE  /\ o.stream.send_state = "ResetSent" /\ o.data = 0
                            /\ accepted' = accepted
            BY Zenon
        <3>1. o = Failed(s, r) \/ o = Done(s, r)
            BY <1>1, ResetIsFinal
        <3> HIDE DEF o
        <3>2. /\ o.stream = s /\ o.data = 0
              /\ o.failed = << r >> \/ o.done = << r >>
            BY <3>1 DEF Failed, Done, Outcome
        <3>3. << r >> # << >>
            OBVIOUS
        <3>4. ~taken
            BY <3>2, <3>3, Zenon
        <3> QED
            BY <2>1, <3>2, <3>4, Zenon
    <2> HIDE DEF o
    <2> QED
        BY <1>2, <2>1, <2>4, <2>5, <2>6, OrderOfSend, Zenon
<1>4. ASSUME NEW r \in Requests, UserReset(r) PROVE OrderInv'
    <2> DEFINE o == Reset(s, r)
               q == SendReset(s)
    <2>1. /\ Issue(r) /\ Notify(o) /\ s' = o.stream /\ accepted' = accepted
          /\ wire' = wire \o Repeat(o.stream.pending_write_request, o.data)
        BY <1>4, Zenon DEF UserReset, Transmit, Send
    <2>2. r \notin Held(s)
        BY <2>1, Fresh, Zenon
    <2>3. Answers(s, {r}, o) /\ o.data = 0
        BY <1>1, <2>2, ResetInv, Zenon
    <2>4. UNCHANGED bytes
        BY <1>1, <2>1, <2>3, NothingSent DEF bytes
    <2>5. Clears(s, o) /\ Reading(o.stream) \subseteq Reading(s)
        BY <1>1, ResettingClears, ResettingReads
    <2>6. CASE s.send_state = "None"
        <3>1. o.stream = s
            BY <2>6, Zenon DEF Reset, Failed, Outcome
        <3> HIDE DEF o
        <3>2. \A x \in Requests : failed[x] = 1 => failed'[x] = 1
            BY <1>2, <2>1, <2>3, FailedStays, Zenon
        <3> QED
            BY <2>1, <2>4, <3>1, <3>2, OrderFrame, Zenon
    <2>7. CASE s.send_state # "None"
        <3>1. o.stream = q.stream /\ o.failed = q.failed
            BY <2>7 DEF Reset, SendReset, Outcome
        <3>2. Drops(s, q)
            BY <1>1, SendResetInv
        <3> HIDE DEF q, o
        <3>3. Distinct(o.failed) /\ RangeOf(o.failed) = Held(s) \ Held(o.stream)
            BY <3>1, <3>2 DEF Drops
        <3> QED
            BY <1>2, <2>1, <2>3, <2>4, <2>5, <3>3, OrderOfReset
    <2> QED
        BY <2>6, <2>7, Zenon
<1>5. ASSUME NEW r \in Requests, NEW max \in ReadSizes, UserRead(r, max)
      PROVE  OrderInv'
    <2> DEFINE o == Read(s, r, max)
    <2>1. /\ Issue(r) /\ Notify(o) /\ s' = o.stream /\ UNCHANGED bytes /\ max \in Nat
        BY <1>5, SizeAssumption DEF UserRead
    <2>2. r \notin Held(s)
        BY <2>1, Fresh
    <2>3. Answers(s, {r}, o)
        BY <1>1, <2>1, <2>2, ReadInv, Zenon
    <2>4. WriteSide(o.stream) = WriteSide(s)
        BY <1>1, ReadLeavesWrites
    <2> HIDE DEF o
    <2>5. \A x \in Requests : failed[x] = 1 => failed'[x] = 1
        BY <1>2, <2>1, <2>3, FailedStays
    <2> QED
        BY <2>1, <2>4, <2>5, OrderFrame
<1>6. ASSUME NEW r \in Requests, UserStop(r) PROVE OrderInv'
    <2> DEFINE o == Stop(s, r)
    <2>1. /\ Issue(r) /\ Notify(o) /\ s' = o.stream /\ UNCHANGED bytes
        BY <1>6 DEF UserStop
    <2>2. r \notin Held(s)
        BY <2>1, Fresh
    <2>3. Answers(s, {r}, o)
        BY <1>1, <2>2, StopInv, Zenon
    <2>4. WriteSide(o.stream) = WriteSide(s)
        BY <1>1, ReceivingLeavesWrites, Zenon
    <2> HIDE DEF o
    <2>5. \A x \in Requests : failed[x] = 1 => failed'[x] = 1
        BY <1>2, <2>1, <2>3, FailedStays, Zenon
    <2> QED
        BY <2>1, <2>4, <2>5, OrderFrame
<1>7. CASE SessionAbort
    <2> DEFINE o == Abort(s)
    <2>1. /\ Notify(o) /\ s' = o.stream /\ accepted' = accepted
          /\ wire' = wire \o Repeat(o.stream.pending_write_request, o.data)
        BY <1>7, Zenon DEF SessionAbort, Transmit, Send
    <2>2. Drops(s, o)
        BY <1>1, AbortInv, Zenon
    <2>3. /\ Answers(s, {}, o) /\ o.data = 0 /\ Distinct(o.failed)
          /\ RangeOf(o.failed) = Held(s) \ Held(o.stream)
        BY <2>2, DropsAnswers, Zenon DEF Drops
    <2>4. Clears(s, o) /\ Reading(o.stream) \subseteq Reading(s)
        BY <1>1, ResettingClears, ResettingReads, Zenon
    <2> HIDE DEF o
    <2>5. UNCHANGED bytes
        BY <1>1, <2>1, <2>3, NothingSent, Zenon DEF bytes
    <2> QED
        BY <1>2, <2>1, <2>3, <2>4, <2>5, OrderOfReset
<1>8. CASE SessionCredit
    <2> DEFINE o == FlushWrites(s, credit + 1)
    <2>1. /\ Notify(o) /\ s' = o.stream /\ accepted' = accepted
          /\ wire' = wire \o Repeat(o.stream.pending_write_request, o.data)
        BY <1>8 DEF SessionCredit, Transmit, Send
    <2>2. credit + 1 \in Nat
        BY <1>1
    <2>3. Held(o.stream) = Held(s) /\ o.done = << >> /\ o.failed = << >>
        BY <1>1, <2>2, FlushWritesInv, Zenon
    <2>4. s.send_state # "ResetSent" =>
              /\ o.stream.send_state # "ResetSent"
              /\ Order(o.stream, accepted, wire \o
                       Repeat(o.stream.pending_write_request, o.data))
        BY <1>1, <2>2, SendingDoesNotReset, FlushWritesOrder, Zenon DEF OrderInv
    <2>5. s.send_state = "ResetSent" => o = Outcome(s)
        BY <1>1, ResetIsFinal, Zenon
    <2> HIDE DEF o
    <2>6. s.send_state = "ResetSent" =>
              o.stream.send_state = "ResetSent" /\ o.data = 0
        BY <2>5 DEF Outcome
    <2>7. Answers(s, {}, o)
        BY <2>3, SmallSequences, AnswersFromRanges, Zenon
    <2> QED
        BY <1>2, <2>1, <2>4, <2>6, <2>7, OrderOfSend, Zenon
<1>9. CASE CompleteQuicData
    <2> DEFINE o == CompleteWrite(s, credit)
    <2>1. /\ Notify(o) /\ s' = o.stream /\ accepted' = accepted
          /\ wire' = wire \o Repeat(o.stream.pending_write_request, o.data)
        BY <1>9 DEF CompleteQuicData, Send
    <2>2. Answers(s, {}, o)
        BY <1>1, CompleteWriteInv, Zenon
    <2>3. s.send_state # "ResetSent" =>
              /\ o.stream.send_state # "ResetSent"
              /\ Order(o.stream, accepted, wire \o
                       Repeat(o.stream.pending_write_request, o.data))
        BY <1>1, SendingDoesNotReset, CompleteWriteOrder, Zenon DEF OrderInv
    <2>4. s.send_state = "ResetSent" => o = Outcome(s)
        BY <1>1, ResetIsFinal
    <2> HIDE DEF o
    <2>5. s.send_state = "ResetSent" =>
              o.stream.send_state = "ResetSent" /\ o.data = 0
        BY <2>4 DEF Outcome
    <2> QED
        BY <1>2, <2>1, <2>2, <2>3, <2>5, OrderOfSend, Zenon
<1>10. CASE StreamDataAcknowledged
    <2>1. /\ s.send_state = "DataSent" /\ s' = HandleDataAcknowledged(s)
          /\ accepted' = accepted /\ wire' = wire /\ failed' = failed
        BY <1>10 DEF StreamDataAcknowledged, app, bytes
    <2>2. /\ s'.send_state = "DataReceived" /\ s'.write_buffer = s.write_buffer
          /\ s'.write_buffer_size = s.write_buffer_size
        BY <1>1, <2>1, Zenon DEF HandleDataAcknowledged, Streams
    <2>3. Order(s', accepted', wire')
        BY <2>1, <2>2, Zenon DEF OrderInv, Order
    <2> QED
        BY <2>1, <2>2, <2>3 DEF OrderInv
<1>11. CASE StopSendingReceived
    <2> DEFINE o == RecvStopSending(s)
    <2>1. Notify(o) /\ s' = o.stream /\ UNCHANGED bytes
        BY <1>11 DEF StopSendingReceived
    <2>2. Drops(s, o)
        BY <1>1, SendResetInv, Zenon DEF RecvStopSending
    <2>3. /\ Answers(s, {}, o) /\ Distinct(o.failed)
          /\ RangeOf(o.failed) = Held(s) \ Held(o.stream)
        BY <2>2, DropsAnswers, Zenon DEF Drops
    <2>4. Clears(s, o) /\ Reading(o.stream) \subseteq Reading(s)
        BY <1>1, ResettingClears, ResettingReads DEF RecvStopSending
    <2> HIDE DEF o
    <2> QED
        BY <1>2, <2>1, <2>3, <2>4, OrderOfReset
<1>12. CASE StreamDataReceived
    <2> DEFINE o == RecvData(s, event.len, event.fin)
    <2>1. /\ Notify(o) /\ s' = o.stream /\ UNCHANGED bytes
          /\ event.len \in Nat /\ event.fin \in BOOLEAN
        BY <1>1, <1>12 DEF StreamDataReceived, TypeOK
    <2>2. Answers(s, {}, o)
        BY <1>1, <2>1, RecvDataInv, Zenon
    <2>3. WriteSide(o.stream) = WriteSide(s)
        BY <1>1, DataLeavesWrites
    <2> HIDE DEF o
    <2>4. \A x \in Requests : failed[x] = 1 => failed'[x] = 1
        BY <1>2, <2>1, <2>2, FailedStays
    <2> QED
        BY <2>1, <2>3, <2>4, OrderFrame, Zenon
<1>13. CASE ResetStreamReceived
    <2> DEFINE o == RecvReset(s)
    <2>1. Notify(o) /\ s' = o.stream /\ UNCHANGED bytes
        BY <1>13 DEF ResetStreamReceived
    <2>2. Answers(s, {}, o)
        BY <1>1, RecvResetInv, DropsAnswers, Zenon
    <2>3. WriteSide(o.stream) = WriteSide(s)
        BY <1>1, ReceivingLeavesWrites, Zenon
    <2> HIDE DEF o
    <2>4. \A x \in Requests : failed[x] = 1 => failed'[x] = 1
        BY <1>2, <2>1, <2>2, FailedStays, Zenon
    <2> QED
        BY <2>1, <2>3, <2>4, OrderFrame
<1>14. CASE FlushStream \/ ReadQuic \/ Peer \/ UNCHANGED vars
    <2>1. s' = s /\ failed' = failed /\ UNCHANGED bytes
        BY <1>14, Zenon DEF FlushStream, ReadQuic, Peer, PeerStopSending, PeerSend, PeerEnd,
                     vars, app
    <2> QED
        BY <2>1, OrderFrame, Zenon
<1> QED
    BY <1>3, <1>4, <1>5, <1>6, <1>7, <1>8, <1>9, <1>10, <1>11, <1>12, <1>13, <1>14
    DEF Next, User, Session, Quic

(* A new stream has lost no byte and none is out of order. *)
LEMMA InitBytes == Init => BytesInv /\ OrderInv
<1> SUFFICES ASSUME Init PROVE BytesInv /\ OrderInv
    OBVIOUS
<1>1. PICK direction \in Directions : s = NewStream(direction)
    BY Zenon DEF Init
<1>2. /\ s.write_buffer = << >> /\ s.write_buffer_size = 0
      /\ s.send_state \in {"None", "Ready"} /\ s.receive_state \in {"None", "Receive"}
    BY <1>1 DEF NewStream
<1>3. BytesInv
    BY <1>2 DEF Init, BytesInv, NoByteSkipped, NoEvent
<1>4. Spells(<< >>, << >>, 0)
    <2> DEFINE f == [i \in 0 .. 0 |-> 0]
    <2>1. Marks(<< >>, 0, f)
        BY DEF Marks
    <2>2. Owned(<< >>, << >>, 0, f)
        BY DEF Owned
    <2>3. Len(<< >>) - 0 = 0
        OBVIOUS
    <2> QED
        BY <2>1, <2>2, <2>3, SpellsIs
<1>5. OrderInv
    BY <1>2, <1>4 DEF Init, OrderInv, Order
<1> QED
    BY <1>3, <1>5

(* No byte is skipped: every byte the peer sent is delivered to a read, on *)
(* its way or still in QUIC, until a reset, and recv_data reports the end  *)
(* of the stream only behind the last byte.                                *)
THEOREM EveryByteIsDelivered == Spec => []NoByteSkipped
<1>1. Init => Inv /\ BytesInv
    BY InitInv, InitBytes
<1>2. Inv /\ BytesInv /\ [Next]_vars => (Inv /\ BytesInv)'
    BY NextInv, NextBytes
<1>3. BytesInv => NoByteSkipped
    BY DEF BytesInv
<1> QED
    BY <1>1, <1>2, <1>3, PTL DEF Spec

(* Writes leave in the order in which write took them, each byte once; the *)
(* buffer holds exactly the bytes that have not left, within its limit;    *)
(* and complete_write reports a write done only when all of it has left.   *)
THEOREM WritesLeaveInOrder == Spec => []BytesInOrder
<1>1. Init => Inv /\ OrderInv
    BY InitInv, InitBytes
<1>2. Inv /\ OrderInv /\ [Next]_vars => (Inv /\ OrderInv)'
    BY NextInv, NextOrder
<1> QED
    BY <1>1, <1>2, OrderImplies, PTL DEF Spec

------------------------------------------------------------------------------
\* The error codes of resets and stops.

\* Spreading the codes puts 30 of them between two reserved codes.
LEMMA Spread ==
    ASSUME NEW n \in Nat
    PROVE  /\ (n + (n \div 30)) \div 31 = n \div 30
           /\ (n + (n \div 30)) % 31 # 30
           /\ n \div 30 \in Nat
  OBVIOUS

\* A distance from the first code that is not that of a reserved code comes
\* from exactly one application code.
LEMMA Gather ==
    ASSUME NEW d \in Nat, d % 31 # 30
    PROVE  /\ d - (d \div 31) \in Nat
           /\ (d - (d \div 31)) \div 30 = d \div 31
  OBVIOUS

\* The spread of the codes keeps their order.
LEMMA Monotone ==
    ASSUME NEW m \in Nat, NEW n \in Nat
    PROVE  m + (m \div 30) <= n + (n \div 30) <=> m <= n
  OBVIOUS

\* Where the reserved codes are, seen from the first application code.
LEMMA ReservedDistance ==
    ASSUME NEW d \in Nat
    PROVE  Reserved(FirstCode + d) <=> d % 31 = 30
  <1>1. FirstCode \in Nat /\ FirstCode >= 33 /\ (FirstCode - 33) % 31 = 1
    BY ErrorCodesAssumption DEF ReservedOffset, ReservedModulo
  <1>2. ASSUME NEW f \in Nat, f % 31 = 1
        PROVE  (f + d) % 31 = 0 <=> d % 31 = 30
    BY <1>2
  <1>3. FirstCode - 33 \in Nat /\ FirstCode + d - 33 = (FirstCode - 33) + d
    BY <1>1
  <1> QED
    BY <1>1, <1>2, <1>3 DEF Reserved, ReservedOffset, ReservedModulo

\* An application code of at most MaxCode is converted to a code that is not
\* reserved and that is converted back to it.
LEMMA ThereAndBack ==
    ASSUME NEW n \in 0..MaxCode
    PROVE  LET w == webtransport_code_to_http_code(n)
           IN  /\ w \in Nat
               /\ ~Reserved(w)
               /\ http_code_to_webtransport_code(w) = n
  <1> DEFINE d == n + (n \div 30)
             m == MaxCode + (MaxCode \div 30)
  <1>1. FirstCode \in Nat /\ MaxCode \in Nat /\ n \in Nat /\ n <= MaxCode
    BY ErrorCodesAssumption
  <1>2. d \in Nat /\ d \div 31 = n \div 30 /\ d % 31 # 30 /\ n \div 30 \in Nat
    BY <1>1, Spread
  <1>3. d <= m /\ m \in Nat
    BY <1>1, Monotone, Spread
  <1>4. webtransport_code_to_http_code(n) = FirstCode + d /\ LastCode = FirstCode + m
    BY <1>1, <1>2, Spread DEF webtransport_code_to_http_code, LastCode, MapDivisor
  <1>5. ~Reserved(FirstCode + d)
    BY <1>2, ReservedDistance
  <1>6. d - (d \div 31) = n
    BY <1>1, <1>2
  <1> HIDE DEF d, m
  <1>7. FirstCode + d >= FirstCode /\ FirstCode + d <= LastCode /\ (FirstCode + d) - FirstCode = d
    BY <1>1, <1>2, <1>3, <1>4
  <1>8. http_code_to_webtransport_code(FirstCode + d) = AsCode(d - (d \div 31))
    BY <1>1, <1>2, <1>3, <1>4, <1>5, <1>7
    DEF http_code_to_webtransport_code, ReservedModulo
  <1> QED
    BY <1>1, <1>2, <1>4, <1>5, <1>6, <1>8 DEF AsCode

\* A code of a peer is converted to nothing, or to the application code that is
\* converted to it.
LEMMA BackAndThere ==
    ASSUME NEW w \in Nat, http_code_to_webtransport_code(w) # NoCode
    PROVE  LET n == http_code_to_webtransport_code(w)
           IN  n \in 0..MaxCode /\ webtransport_code_to_http_code(n) = w
  <1> DEFINE d == w - FirstCode
             n == d - (d \div 31)
  <1>1. FirstCode \in Nat /\ MaxCode \in Nat
    BY ErrorCodesAssumption
  <1>2. w >= FirstCode /\ w <= LastCode /\ ~Reserved(w)
    BY <1>1 DEF http_code_to_webtransport_code, LastCode, MapDivisor
  <1>3. d \in Nat /\ FirstCode + d = w
    BY <1>1, <1>2
  <1>4. http_code_to_webtransport_code(w) = AsCode(n)
    BY <1>2 DEF http_code_to_webtransport_code, ReservedModulo
  <1> HIDE DEF d
  <1>5. d % 31 # 30
    BY <1>2, <1>3, ReservedDistance
  <1>6. n \in Nat /\ n \div 30 = d \div 31 /\ d \div 31 \in Nat
    BY <1>3, <1>5, Gather
  <1>7. AsCode(n) = n /\ n <= MaxCode
    BY <1>1, <1>6, <1>4 DEF AsCode
  <1>8. FirstCode + n + (n \div 30) = w
    BY <1>1, <1>3, <1>6
  <1> HIDE DEF n
  <1> QED
    BY <1>1, <1>6, <1>4, <1>7, <1>8 DEF webtransport_code_to_http_code, MapDivisor

\* Code 0 is the first of the range.
LEMMA FirstIsZero ==
    webtransport_code_to_http_code(0) = FirstCode
  BY ErrorCodesAssumption DEF webtransport_code_to_http_code, MapDivisor

\* A code passed to reset_stream or stop_stream reaches the peer's application
\* unchanged, whatever the first and the largest code.
THEOREM CodesArrive == RoundTrip
  <1> SUFFICES ASSUME NEW code \in 0..MaxAsked
               PROVE  http_code_to_webtransport_code(Sent(code))
                          = IF code <= MaxCode THEN code ELSE 0
    BY DEF RoundTrip
  <1>1. code \in Nat /\ MaxCode \in Nat /\ 0 \in 0..MaxCode
    BY ErrorCodesAssumption
  <1>2. CASE code <= MaxCode
    <2>1. code \in 0..MaxCode
      BY <1>1, <1>2
    <2> QED
      BY <1>2, <2>1, ThereAndBack DEF Sent
  <1>3. CASE ~(code <= MaxCode)
    BY <1>1, <1>3, ThereAndBack, FirstIsZero DEF Sent
  <1> QED
    BY <1>2, <1>3

\* No reset is sent with a code that HTTP/3 reserves and the peer has to ignore.
THEOREM NoReservedCodeSent == \A code \in 0..MaxAsked : ~Reserved(Sent(code))
  <1> SUFFICES ASSUME NEW code \in 0..MaxAsked PROVE ~Reserved(Sent(code))
    OBVIOUS
  <1>1. code \in Nat /\ MaxCode \in Nat /\ 0 \in 0..MaxCode
    BY ErrorCodesAssumption
  <1>2. CASE code <= MaxCode
    <2>1. code \in 0..MaxCode
      BY <1>1, <1>2
    <2> QED
      BY <1>2, <2>1, ThereAndBack DEF Sent
  <1>3. CASE ~(code <= MaxCode)
    BY <1>1, <1>3, ThereAndBack, FirstIsZero DEF Sent
  <1> QED
    BY <1>2, <1>3

\* The conversion of received codes is injective where it is defined, for the
\* codes of any peer.
THEOREM CodesAreTold == NoCodeTwice
  <1> SUFFICES ASSUME NEW w \in 0..MaxForeign,
                      http_code_to_webtransport_code(w) # NoCode
               PROVE  LET n == http_code_to_webtransport_code(w)
                      IN  n \in 0..MaxCode /\ webtransport_code_to_http_code(n) = w
    BY DEF NoCodeTwice
  <1>1. w \in Nat
    BY ErrorCodesAssumption
  <1> QED
    BY <1>1, BackAndThere
==============================================================================
