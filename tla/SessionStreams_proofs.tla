------------------------ MODULE SessionStreams_proofs ------------------------
(* Proofs about module SessionStreams, for any requests and any limits of   *)
(* the session and of QUIC: the limits, the queue of requests that wait, no *)
(* request lost, and that the streams implement module Credit; then what    *)
(* module Credit promises, by itself.                                       *)
EXTENDS SessionStreams, SequenceTheorems, FiniteSetTheorems, TLAPS

(* The limits on their way increase, and lie above the opener's and not     *)
(* above the one that the acceptor enforces.                                *)
LimitsInv ==
    /\ peer_max_streams <= local_max_streams
    /\ \A i \in DOMAIN max_streams :
           /\ peer_max_streams < max_streams[i]
           /\ max_streams[i] <= local_max_streams
    /\ \A i, j \in DOMAIN max_streams : i < j => max_streams[i] < max_streams[j]

(* Every stream that the opener counts is on its way, was accepted, or was  *)
(* reset before it arrived.                                                 *)
CountsInv ==
    /\ local_streams_opened = peer_streams_opened + arriving + vanished
    /\ local_streams_opened <= peer_max_streams
    /\ peer_streams_closed <= peer_streams_opened

(* What is known of the queue, and of the limit reported last.              *)
QueueInv ==
    /\ WaitsForALimit
    /\ BlockedIsReported
    /\ last_streams_blocked_sent <= peer_max_streams

(* The inductive invariant.                                                 *)
IInv == TypeOK /\ NoFlowControlError /\ LimitsInv /\ CountsInv /\ QueueInv

(* Both endpoints start from the same limit, with nothing opened.           *)
LEMMA InitIInv == Init => IInv
  BY SessionStreamsAssumption, EmptySeq
     DEF Init, IInv, TypeOK, NoFlowControlError, LimitsInv, CountsInv, QueueInv,
         WaitsForALimit, BlockedIsReported

------------------------------------------------------------------------------
(* Least is one of its arguments, and not above the other.                  *)
LEMMA LeastFact ==
    ASSUME NEW m \in Nat, NEW n \in Nat
    PROVE  /\ Least(m, n) \in Nat /\ Least(m, n) <= m /\ Least(m, n) <= n
           /\ Least(m, n) = m \/ Least(m, n) = n
  BY DEF Least

(* Cutting a queue in two.                                                  *)
LEMMA Cut ==
    ASSUME NEW S, NEW q \in Seq(S), NEW n \in 0 .. Len(q)
    PROVE  /\ SubSeq(q, 1, n) \in Seq(S) /\ Len(SubSeq(q, 1, n)) = n
           /\ SubSeq(q, n + 1, Len(q)) \in Seq(S)
           /\ Len(SubSeq(q, n + 1, Len(q))) = Len(q) - n
<1>1. Len(q) \in Nat /\ n \in Nat /\ n <= Len(q)
  OBVIOUS
<1>2. /\ SubSeq(q, 1, n) \in Seq(S) /\ Len(SubSeq(q, 1, n)) = n
  BY <1>1, SubSeqProperties
<1>3. /\ SubSeq(q, n + 1, Len(q)) \in Seq(S)
      /\ Len(SubSeq(q, n + 1, Len(q))) = Len(q) - n
  BY <1>1, SubSeqProperties
<1> QED BY <1>2, <1>3

(* The driver opens the first m streams that were asked for; the other      *)
(* requests go to the end of the queue, uncounted (create_quic_stream,      *)
(* bind_stream, defer_stream).                                              *)
LEMMA CreateQuicStreamsFact ==
    ASSUME TypeOK, NEW requests \in Seq(Requests), NEW opened \in Nat,
           NEW queue \in Seq(Requests), NEW credit \in Nat,
           Len(requests) <= opened,
           CreateQuicStreams(requests, opened, queue, credit)
    PROVE  LET m == Least(Len(requests), credit)
           IN  /\ m \in Nat /\ m <= Len(requests) /\ m <= credit
               /\ m = Len(requests) \/ m = credit
               /\ created' \subseteq Requests
               /\ arriving' = arriving + m
               /\ quic_credit' = credit - m
               /\ local_streams_opened' = opened - (Len(requests) - m)
               /\ blocked_stream_requests' \in Seq(Requests)
               /\ Len(blocked_stream_requests') = Len(queue) + (Len(requests) - m)
<1> DEFINE m == Least(Len(requests), credit)
<1>1. /\ m \in Nat /\ m <= Len(requests) /\ m <= credit
      /\ m = Len(requests) \/ m = credit
      /\ Len(requests) \in Nat /\ Len(queue) \in Nat
  BY LeastFact
<1>2. /\ arriving' = arriving + m
      /\ quic_credit' = credit - m
      /\ local_streams_opened' = opened - (Len(requests) - m)
  BY DEF CreateQuicStreams
<1>3. created' \subseteq Requests
  <2>1. created' = created \cup {requests[k] : k \in 1 .. m}
    BY DEF CreateQuicStreams
  <2>2. \A k \in 1 .. m : requests[k] \in Requests
    BY <1>1
  <2> QED BY <2>1, <2>2 DEF TypeOK
<1>4. /\ blocked_stream_requests' \in Seq(Requests)
      /\ Len(blocked_stream_requests') = Len(queue) + (Len(requests) - m)
  <2> DEFINE rest == SubSeq(requests, m + 1, Len(requests))
  <2>1. rest \in Seq(Requests) /\ Len(rest) = Len(requests) - m
    BY <1>1, Cut, SMTT(30)
  <2>2. blocked_stream_requests' = queue \o rest
    BY DEF CreateQuicStreams
  <2> HIDE DEF rest
  <2> QED BY <2>1, <2>2, ConcatProperties, ZenonT(60)
<1> HIDE DEF m
<1>5. /\ m \in Nat /\ m <= Len(requests) /\ m <= credit
      /\ m = Len(requests) \/ m = credit
      /\ created' \subseteq Requests
      /\ arriving' = arriving + m
      /\ quic_credit' = credit - m
      /\ local_streams_opened' = opened - (Len(requests) - m)
      /\ blocked_stream_requests' \in Seq(Requests)
      /\ Len(blocked_stream_requests') = Len(queue) + (Len(requests) - m)
  BY <1>1, <1>2, <1>3, <1>4
<1> QED BY <1>5 DEF m

(* STREAMS_BLOCKED: after the call the limit is reported if requests wait   *)
(* for it, and no higher limit ever was (emit_streams_blocked).             *)
LEMMA EmitFact ==
    ASSUME TypeOK, NEW opened \in Nat, NEW limit \in Nat, NEW queue,
           last_streams_blocked_sent <= limit,
           EmitStreamsBlocked(opened, limit, queue)
    PROVE  /\ last_streams_blocked_sent' \in Nat \cup {-1}
           /\ last_streams_blocked_sent' <= limit
           /\ queue # << >> /\ opened >= limit => last_streams_blocked_sent' = limit
           /\ streams_blocked' \in Seq(Nat)
<1>1. CASE queue # << >> /\ opened >= limit /\ limit > last_streams_blocked_sent
  <2>1. /\ last_streams_blocked_sent' = limit
        /\ streams_blocked' = Append(streams_blocked, limit)
    BY <1>1 DEF EmitStreamsBlocked
  <2>2. streams_blocked' \in Seq(Nat)
    BY <2>1, AppendProperties DEF TypeOK
  <2> QED BY <2>1, <2>2
<1>2. CASE ~(queue # << >> /\ opened >= limit /\ limit > last_streams_blocked_sent)
  BY <1>2 DEF EmitStreamsBlocked, TypeOK
<1> QED BY <1>1, <1>2

------------------------------------------------------------------------------
(* What a step leaves behind when the opener has served its queue up to     *)
(* limit: the counters agree, and what still waits does so for the limit,   *)
(* which is reported, or for QUIC.                                          *)
Served(limit) ==
    /\ created' \subseteq Requests
    /\ blocked_stream_requests' \in Seq(Requests)
    /\ last_streams_blocked_sent' \in Nat \cup {-1}
    /\ streams_blocked' \in Seq(Nat)
    /\ quic_credit' \in Nat /\ arriving' \in Nat /\ local_streams_opened' \in Nat
    /\ local_streams_opened' = local_streams_opened + (arriving' - arriving)
    /\ local_streams_opened' <= limit
    /\ last_streams_blocked_sent' <= limit
    /\ blocked_stream_requests' # << >> =>
           local_streams_opened' >= limit \/ quic_credit' = 0
    /\ blocked_stream_requests' # << >> /\ local_streams_opened' >= limit
           => last_streams_blocked_sent' = limit

(* A step of the opener that serves the queue up to its limit, which may    *)
(* be a new one, keeps the invariant.                                       *)
LEMMA ServedInv ==
    ASSUME IInv, Served(peer_max_streams'),
           peer_max_streams' \in Nat, peer_max_streams <= peer_max_streams',
           issued' \subseteq Requests, quic_freed' \in Nat,
           max_streams' \in Seq(Nat), LimitsInv',
           UNCHANGED << acceptor, vanished, errors >>
    PROVE  IInv'
<1>1. TypeOK'
  BY Zenon DEF IInv, TypeOK, Served, acceptor
<1>2. NoFlowControlError'
  BY DEF IInv, NoFlowControlError
<1>3. CountsInv'
  <2>1. /\ local_streams_opened \in Nat /\ arriving \in Nat /\ vanished \in Nat
        /\ peer_streams_opened \in Nat /\ peer_max_streams \in Nat
        /\ local_streams_opened = peer_streams_opened + arriving + vanished
        /\ peer_streams_closed <= peer_streams_opened
    BY DEF IInv, TypeOK, CountsInv
  <2>2. /\ vanished' = vanished /\ peer_streams_opened' = peer_streams_opened
        /\ peer_streams_closed' = peer_streams_closed
    BY DEF acceptor
  <2>3. /\ local_streams_opened' \in Nat /\ arriving' \in Nat
        /\ local_streams_opened' = local_streams_opened + (arriving' - arriving)
        /\ local_streams_opened' <= peer_max_streams'
    BY DEF Served
  <2>4. local_streams_opened' = peer_streams_opened' + arriving' + vanished'
    BY <2>1, <2>2, <2>3
  <2> QED BY <2>1, <2>2, <2>3, <2>4, Zenon DEF CountsInv
<1>4. QueueInv'
  BY DEF QueueInv, WaitsForALimit, BlockedIsReported, Served
<1> QED BY <1>1, <1>2, <1>3, <1>4 DEF IInv

(* flush_blocked_streams, with the driver's bind and defer events, serves   *)
(* the queue up to the limit it is given.                                   *)
LEMMA FlushFact ==
    ASSUME IInv, NEW limit \in Nat, peer_max_streams <= limit, NEW credit \in Nat,
           FlushBlockedStreamRequests(limit, credit)
    PROVE  Served(limit)
<1> DEFINE queue == blocked_stream_requests
           n == Least(Len(queue), limit - local_streams_opened)
           first == SubSeq(queue, 1, n)
           rest == SubSeq(queue, n + 1, Len(queue))
           opened == local_streams_opened + n
           m == Least(Len(first), credit)
<1>1. /\ queue \in Seq(Requests) /\ Len(queue) \in Nat
      /\ local_streams_opened \in Nat /\ arriving \in Nat
      /\ local_streams_opened <= limit
      /\ last_streams_blocked_sent <= limit
  BY DEF IInv, TypeOK, CountsInv, QueueInv
<1>2. /\ n \in Nat /\ n <= Len(queue) /\ n <= limit - local_streams_opened
      /\ n = Len(queue) \/ n = limit - local_streams_opened
  <2>1. limit - local_streams_opened \in Nat
    BY <1>1
  <2> QED BY <1>1, <2>1, LeastFact, ZenonT(60)
<1>3. /\ EmitStreamsBlocked(opened, limit, rest)
      /\ CreateQuicStreams(first, opened, rest, credit)
  BY DEF FlushBlockedStreamRequests
<1> HIDE DEF n
<1>4. /\ first \in Seq(Requests) /\ Len(first) = n
      /\ rest \in Seq(Requests) /\ Len(rest) = Len(queue) - n
  BY <1>1, <1>2, Cut
<1>5. opened \in Nat /\ n <= opened /\ opened <= limit
  BY <1>1, <1>2
<1> HIDE DEF first, rest, opened
<1>6. /\ last_streams_blocked_sent' \in Nat \cup {-1}
      /\ last_streams_blocked_sent' <= limit
      /\ rest # << >> /\ opened >= limit => last_streams_blocked_sent' = limit
      /\ streams_blocked' \in Seq(Nat)
  BY <1>1, <1>3, <1>5, EmitFact DEF IInv
<1>7. /\ m \in Nat /\ m <= n /\ m <= credit
      /\ m = n \/ m = credit
      /\ created' \subseteq Requests
      /\ arriving' = arriving + m
      /\ quic_credit' = credit - m
      /\ local_streams_opened' = opened - (n - m)
      /\ blocked_stream_requests' \in Seq(Requests)
      /\ Len(blocked_stream_requests') = Len(rest) + (n - m)
  BY <1>3, <1>4, <1>5, CreateQuicStreamsFact, SMTT(30) DEF IInv
<1> HIDE DEF m
<1>8. /\ quic_credit' \in Nat /\ arriving' \in Nat /\ local_streams_opened' \in Nat
      /\ local_streams_opened' = local_streams_opened + m
      /\ local_streams_opened' = local_streams_opened + (arriving' - arriving)
      /\ local_streams_opened' <= limit
  BY <1>1, <1>2, <1>5, <1>7 DEF opened
<1>9. ASSUME blocked_stream_requests' # << >>
      PROVE  local_streams_opened' >= limit \/ quic_credit' = 0
  <2>1. Len(blocked_stream_requests') > 0
    BY <1>7, <1>9, EmptySeq
  <2>2. CASE m = n
    <3>1. Len(queue) - n > 0
      BY <1>1, <1>2, <1>4, <1>7, <2>1, <2>2
    <3>2. n = limit - local_streams_opened
      BY <1>1, <1>2, <3>1
    <3> QED BY <1>1, <1>2, <1>8, <2>2, <3>2
  <2>3. CASE m = credit
    BY <1>7, <2>3
  <2> QED BY <1>7, <2>2, <2>3
<1>10. ASSUME blocked_stream_requests' # << >>, local_streams_opened' >= limit
       PROVE  last_streams_blocked_sent' = limit
  <2>1. Len(blocked_stream_requests') > 0
    BY <1>7, <1>10, EmptySeq
  <2>2. m = n /\ opened >= limit
    BY <1>1, <1>2, <1>7, <1>8, <1>10 DEF opened
  <2>3. Len(rest) > 0
    BY <1>2, <1>4, <1>7, <2>1, <2>2
  <2>4. rest # << >>
    BY <1>4, <2>3, EmptySeq
  <2> QED BY <1>6, <2>2, <2>4
<1> QED BY <1>6, <1>7, <1>8, <1>9, <1>10 DEF Served

(* A new limit is higher than every one that is on its way                  *)
(* (replenish_streams_credit).                                              *)
LEMMA ReplenishFact ==
    ASSUME IInv, NEW closed \in Nat, NEW force \in BOOLEAN,
           ReplenishStreamsCredit(closed, force), peer_max_streams' = peer_max_streams
    PROVE  /\ local_max_streams' \in Nat /\ max_streams' \in Seq(Nat)
           /\ LimitsInv'
<1> DEFINE new_limit == closed + InitialMaxStreams
<1>1. /\ peer_max_streams \in Nat /\ local_max_streams \in Nat
      /\ max_streams \in Seq(Nat) /\ Len(max_streams) \in Nat
      /\ DOMAIN max_streams = 1 .. Len(max_streams)
      /\ \A i \in DOMAIN max_streams : max_streams[i] \in Nat
  BY DEF IInv, TypeOK
<1>2. new_limit \in Nat
  BY SessionStreamsAssumption
<1> HIDE DEF new_limit
<1>3. CASE /\ new_limit > local_max_streams
           /\ local_max_streams' = new_limit
           /\ max_streams' = Append(max_streams, new_limit)
  <2>1. /\ max_streams' \in Seq(Nat)
        /\ DOMAIN max_streams' = 1 .. Len(max_streams) + 1
        /\ \A i \in 1 .. Len(max_streams) : max_streams'[i] = max_streams[i]
        /\ max_streams'[Len(max_streams) + 1] = new_limit
    BY <1>1, <1>2, <1>3
  <2>2. peer_max_streams' <= local_max_streams'
    BY <1>1, <1>2, <1>3 DEF IInv, LimitsInv
  <2>3. \A i \in DOMAIN max_streams' :
            peer_max_streams' < max_streams'[i] /\ max_streams'[i] <= local_max_streams'
    BY <1>1, <1>2, <1>3, <2>1 DEF IInv, LimitsInv
  <2>4. ASSUME NEW i \in DOMAIN max_streams', NEW j \in DOMAIN max_streams', i < j
        PROVE  max_streams'[i] < max_streams'[j]
    <3>1. CASE j <= Len(max_streams)
      <4>1. /\ i \in DOMAIN max_streams /\ j \in DOMAIN max_streams
            /\ max_streams'[i] = max_streams[i] /\ max_streams'[j] = max_streams[j]
        BY <1>1, <2>1, <2>4, <3>1, SMTT(30)
      <4> QED BY <2>4, <4>1 DEF IInv, LimitsInv
    <3>2. CASE j = Len(max_streams) + 1
      <4>1. /\ i \in DOMAIN max_streams
            /\ max_streams'[i] = max_streams[i] /\ max_streams'[j] = new_limit
        BY <1>1, <2>1, <2>4, <3>2, SMTT(30)
      <4> QED BY <1>1, <1>2, <1>3, <4>1 DEF IInv, LimitsInv
    <3> QED BY <1>1, <2>1, <3>1, <3>2
  <2> QED BY <1>2, <1>3, <2>1, <2>2, <2>3, <2>4 DEF LimitsInv
<1>4. CASE UNCHANGED << local_max_streams, max_streams >>
  BY <1>1, <1>4 DEF IInv, LimitsInv
<1> QED BY <1>3, <1>4 DEF ReplenishStreamsCredit, new_limit

(* The first limit on its way is higher than the opener's, so recv_capsule  *)
(* does not end the session, and what is left lies above it.                *)
LEMMA HeadFact ==
    ASSUME IInv, max_streams # << >>, max_streams' = Tail(max_streams),
           peer_max_streams' = Head(max_streams), UNCHANGED local_max_streams
    PROVE  /\ max_streams' \in Seq(Nat) /\ LimitsInv'
<1>1. /\ max_streams \in Seq(Nat) /\ Len(max_streams) \in Nat /\ Len(max_streams) >= 1
      /\ Head(max_streams) = max_streams[1]
      /\ DOMAIN max_streams = 1 .. Len(max_streams)
  BY DEF IInv, TypeOK
<1>2. /\ max_streams' \in Seq(Nat)
      /\ DOMAIN max_streams' = 1 .. Len(max_streams) - 1
      /\ \A i \in DOMAIN max_streams' : max_streams'[i] = max_streams[i + 1]
  BY <1>1
<1>3. peer_max_streams' = max_streams[1] /\ peer_max_streams' <= local_max_streams'
  BY <1>1 DEF IInv, LimitsInv
<1>4. ASSUME NEW i \in DOMAIN max_streams'
      PROVE  peer_max_streams' < max_streams'[i] /\ max_streams'[i] <= local_max_streams'
  <2>1. i + 1 \in DOMAIN max_streams /\ 1 \in DOMAIN max_streams /\ 1 < i + 1
    BY <1>1, <1>2
  <2> QED BY <1>2, <1>3, <2>1 DEF IInv, LimitsInv
<1>5. ASSUME NEW i \in DOMAIN max_streams', NEW j \in DOMAIN max_streams', i < j
      PROVE  max_streams'[i] < max_streams'[j]
  <2>1. i + 1 \in DOMAIN max_streams /\ j + 1 \in DOMAIN max_streams /\ i + 1 < j + 1
    BY <1>1, <1>2, <1>5, SMTT(30)
  <2> QED BY <1>2, <2>1 DEF IInv, LimitsInv
<1> QED BY <1>2, <1>3, <1>4, <1>5 DEF LimitsInv

------------------------------------------------------------------------------
(* create_stream queues the request behind a limit that it reports, or      *)
(* opens a stream within it.                                                *)
LEMMA CreateStreamInv ==
    ASSUME IInv, NEW r \in Requests, CreateStream(r) PROVE IInv'
<1>1. /\ issued' \subseteq Requests
      /\ UNCHANGED << peer_max_streams, acceptor, quic_freed, vanished, max_streams, errors >>
  BY DEF CreateStream, IInv, TypeOK
<1>2. Served(peer_max_streams)
  <2>1. CASE local_streams_opened >= peer_max_streams
    <3> DEFINE queue == Append(blocked_stream_requests, r)
    <3>1. /\ blocked_stream_requests' = queue
          /\ EmitStreamsBlocked(local_streams_opened, peer_max_streams, queue)
          /\ UNCHANGED << created, local_streams_opened, quic_credit, arriving >>
      BY <2>1 DEF CreateStream
    <3>2. queue \in Seq(Requests) /\ queue # << >>
      <4>1. blocked_stream_requests \in Seq(Requests) /\ Len(blocked_stream_requests) \in Nat
        BY DEF IInv, TypeOK
      <4>2. queue \in Seq(Requests) /\ Len(queue) = Len(blocked_stream_requests) + 1
        BY <4>1, AppendProperties
      <4> HIDE DEF queue
      <4> QED BY <4>1, <4>2, EmptySeq
    <3> HIDE DEF queue
    <3>3. /\ last_streams_blocked_sent' \in Nat \cup {-1}
          /\ last_streams_blocked_sent' <= peer_max_streams
          /\ last_streams_blocked_sent' = peer_max_streams
          /\ streams_blocked' \in Seq(Nat)
      BY <2>1, <3>1, <3>2, EmitFact DEF IInv, TypeOK, QueueInv
    <3> QED BY <2>1, <3>1, <3>2, <3>3 DEF Served, IInv, TypeOK, CountsInv
  <2>2. CASE ~(local_streams_opened >= peer_max_streams)
    <3> DEFINE opened == local_streams_opened + 1
               queue == blocked_stream_requests
               one == << r >>
               credit == quic_credit
               m == Least(Len(one), credit)
    <3>1. /\ CreateQuicStreams(one, opened, queue, credit)
          /\ UNCHANGED << last_streams_blocked_sent, streams_blocked >>
      BY <2>2 DEF CreateStream
    <3>2. /\ one \in Seq(Requests) /\ Len(one) = 1
          /\ opened \in Nat /\ 1 <= opened /\ opened <= peer_max_streams
          /\ queue \in Seq(Requests) /\ credit \in Nat /\ Len(queue) \in Nat
          /\ local_streams_opened \in Nat /\ arriving \in Nat
          /\ peer_max_streams \in Nat
      BY <2>2 DEF IInv, TypeOK
    <3>3. /\ m \in Nat /\ m <= 1 /\ m <= credit
          /\ m = 1 \/ m = credit
          /\ created' \subseteq Requests
          /\ arriving' = arriving + m
          /\ quic_credit' = credit - m
          /\ local_streams_opened' = opened - (1 - m)
          /\ blocked_stream_requests' \in Seq(Requests)
          /\ Len(blocked_stream_requests') = Len(queue) + (1 - m)
      <4>1. TypeOK /\ Len(one) <= opened
        BY <3>2 DEF IInv
      <4>3. CreateQuicStreams(one, opened, queue, credit)
        BY <3>1
      <4>4. one \in Seq(Requests) /\ opened \in Nat /\ queue \in Seq(Requests) /\ credit \in Nat
        BY <3>2
      <4> HIDE DEF opened, queue, one, credit
      <4>2. /\ m \in Nat /\ m <= Len(one) /\ m <= credit
            /\ m = Len(one) \/ m = credit
            /\ created' \subseteq Requests
            /\ arriving' = arriving + m
            /\ quic_credit' = credit - m
            /\ local_streams_opened' = opened - (Len(one) - m)
            /\ blocked_stream_requests' \in Seq(Requests)
            /\ Len(blocked_stream_requests') = Len(queue) + (Len(one) - m)
        BY <4>1, <4>3, <4>4, CreateQuicStreamsFact
      <4> QED BY <3>2, <4>2
    <3> HIDE DEF m
    <3>4. /\ quic_credit' \in Nat /\ arriving' \in Nat /\ local_streams_opened' \in Nat
          /\ local_streams_opened' = local_streams_opened + m
          /\ local_streams_opened' = local_streams_opened + (arriving' - arriving)
          /\ local_streams_opened' <= peer_max_streams
      BY <3>2, <3>3
    <3>5. ASSUME blocked_stream_requests' # << >> PROVE quic_credit' = 0
      <4>1. Len(blocked_stream_requests') > 0
        BY <3>3, <3>5, EmptySeq
      <4>2. CASE m = quic_credit
        BY <3>2, <3>3, <4>2
      <4>3. CASE m = 1
        <5>1. Len(queue) > 0
          BY <3>2, <3>3, <4>1, <4>3
        <5>2. queue # << >>
          BY <3>2, <5>1, EmptySeq
        <5>3. quic_credit = 0
          BY <2>2, <5>2 DEF IInv, QueueInv, WaitsForALimit
        <5> QED BY <3>2, <3>3, <4>3, <5>3
      <4> QED BY <3>3, <4>2, <4>3
    <3>6. ASSUME blocked_stream_requests' # << >>,
                 local_streams_opened' >= peer_max_streams
          PROVE  last_streams_blocked_sent' = peer_max_streams
      <4>1. m = 1
        BY <2>2, <3>2, <3>3, <3>4, <3>6
      <4>2. quic_credit' = 0 /\ quic_credit = 1
        BY <3>2, <3>3, <3>5, <3>6, <4>1
      <4>3. Len(queue) > 0
        <5>1. Len(blocked_stream_requests') > 0
          BY <3>3, <3>6, EmptySeq
        <5> QED BY <3>2, <3>3, <4>1, <5>1
      <4>4. queue # << >>
        BY <3>2, <4>3, EmptySeq
      <4> QED BY <2>2, <4>2, <4>4 DEF IInv, QueueInv, WaitsForALimit
    <3> QED BY <3>1, <3>3, <3>4, <3>5, <3>6 DEF Served, IInv, TypeOK, QueueInv
  <2> QED BY <2>1, <2>2
<1>3. /\ peer_max_streams' = peer_max_streams /\ peer_max_streams \in Nat
      /\ quic_freed' \in Nat /\ max_streams' \in Seq(Nat) /\ LimitsInv'
  BY <1>1 DEF IInv, TypeOK, LimitsInv, acceptor
<1> QED BY <1>1, <1>2, <1>3, ServedInv

(* MAX_STREAMS raises the limit and serves the queue up to it.              *)
LEMMA MaxStreamsReceivedInv ==
    ASSUME IInv, MaxStreamsReceived PROVE IInv'
<1> DEFINE limit == Head(max_streams)
<1>1. /\ max_streams # << >> /\ max_streams \in Seq(Nat)
      /\ limit = max_streams[1] /\ 1 \in DOMAIN max_streams
      /\ limit \in Nat /\ limit > peer_max_streams
  BY SMTT(30) DEF IInv, TypeOK, LimitsInv, MaxStreamsReceived
<1>2. /\ max_streams' = Tail(max_streams) /\ peer_max_streams' = limit
      /\ FlushBlockedStreamRequests(limit, quic_credit)
      /\ UNCHANGED << issued, acceptor, quic_freed, vanished, errors >>
  BY <1>1 DEF MaxStreamsReceived
<1>3. max_streams' \in Seq(Nat) /\ LimitsInv'
  BY <1>1, <1>2, HeadFact DEF acceptor
<1> HIDE DEF limit
<1>4. quic_credit \in Nat /\ peer_max_streams <= limit
  BY <1>1 DEF IInv, TypeOK
<1>5. Served(limit)
  <2>1. FlushBlockedStreamRequests(limit, quic_credit)
    BY <1>2
  <2> QED BY <1>1, <1>4, <2>1, FlushFact
<1> QED BY <1>1, <1>2, <1>3, <1>4, <1>5, ServedInv, Zenon DEF IInv, TypeOK

(* A stream that QUIC gives back serves the queue up to the same limit.     *)
LEMMA QuicStreamAvailableInv ==
    ASSUME IInv, QuicStreamAvailable PROVE IInv'
<1> DEFINE limit == peer_max_streams
           credit == quic_credit + 1
<1>1. /\ quic_freed' \in Nat /\ limit \in Nat /\ credit \in Nat
      /\ UNCHANGED << issued, peer_max_streams, acceptor, vanished, max_streams, errors >>
  BY DEF QuicStreamAvailable, IInv, TypeOK
<1>2. FlushBlockedStreamRequests(limit, credit)
  BY DEF QuicStreamAvailable
<1>3. Served(limit)
  <2>1. peer_max_streams <= limit
    BY <1>1
  <2> HIDE DEF credit, limit
  <2> QED BY <1>1, <1>2, <2>1, FlushFact
<1>4. /\ max_streams' \in Seq(Nat) /\ LimitsInv' /\ issued' \subseteq Requests
      /\ peer_max_streams' = limit
  BY <1>1 DEF IInv, TypeOK, LimitsInv, acceptor
<1> QED BY <1>1, <1>3, <1>4, ServedInv

(* A stream that is reset before it arrives only moves between two terms.   *)
LEMMA ResetBeforeArrivalInv ==
    ASSUME IInv, ResetBeforeArrival PROVE IInv'
<1>1. TypeOK'
  BY DEF ResetBeforeArrival, IInv, TypeOK, opener, acceptor
<1>2. CountsInv'
  BY DEF ResetBeforeArrival, IInv, TypeOK, CountsInv, opener, acceptor
<1>3. NoFlowControlError' /\ LimitsInv' /\ QueueInv'
  BY DEF ResetBeforeArrival, IInv, NoFlowControlError, LimitsInv, QueueInv,
         WaitsForALimit, BlockedIsReported, opener, acceptor
<1> QED BY <1>1, <1>2, <1>3 DEF IInv

(* A stream that arrives is within the limit that handle_stream_opened      *)
(* enforces.                                                                *)
LEMMA HandleStreamOpenedInv ==
    ASSUME IInv, HandleStreamOpened PROVE IInv'
<1>1. peer_streams_opened < local_max_streams
  BY DEF HandleStreamOpened, IInv, TypeOK, CountsInv, LimitsInv
<1>2. /\ peer_streams_opened' = peer_streams_opened + 1 /\ arriving > 0
      /\ arriving' = arriving - 1
      /\ UNCHANGED << opener, peer_streams_closed, local_max_streams, quic_freed,
                      vanished, max_streams, streams_blocked, errors >>
  <2>1. ~(peer_streams_opened >= local_max_streams)
    BY <1>1 DEF IInv, TypeOK
  <2> QED BY <2>1 DEF HandleStreamOpened
<1>3. TypeOK'
  BY <1>2 DEF IInv, TypeOK, opener
<1>4. CountsInv'
  BY <1>2 DEF IInv, TypeOK, CountsInv, opener
<1>5. NoFlowControlError' /\ LimitsInv' /\ QueueInv'
  BY <1>2 DEF IInv, NoFlowControlError, LimitsInv, QueueInv,
              WaitsForALimit, BlockedIsReported, opener
<1> QED BY <1>3, <1>4, <1>5 DEF IInv

(* An accepted stream that has ended may raise the limit.                   *)
LEMMA HandleClosedInv ==
    ASSUME IInv, HandleClosed PROVE IInv'
<1> DEFINE closed == peer_streams_closed + 1
<1>1. /\ peer_streams_closed < peer_streams_opened
      /\ peer_streams_closed' = closed /\ closed \in Nat
      /\ ReplenishStreamsCredit(closed, FALSE)
      /\ UNCHANGED << opener, peer_streams_opened, quic_freed, arriving, vanished,
                      streams_blocked, errors >>
  <2>1. closed \in Nat /\ peer_streams_closed' = closed
    BY DEF HandleClosed, IInv, TypeOK
  <2>2. ReplenishStreamsCredit(closed, FALSE)
    BY <2>1 DEF HandleClosed, ReplenishStreamsCredit
  <2> QED BY <2>1, <2>2, Zenon DEF HandleClosed
<1>2. /\ local_max_streams' \in Nat /\ max_streams' \in Seq(Nat) /\ LimitsInv'
  <2> HIDE DEF closed
  <2>1. peer_max_streams' = peer_max_streams
    BY <1>1 DEF opener
  <2>2. closed \in Nat /\ FALSE \in BOOLEAN /\ ReplenishStreamsCredit(closed, FALSE)
    BY <1>1, Zenon
  <2> QED BY <2>1, <2>2, ReplenishFact, Zenon
<1>3. TypeOK'
  BY <1>1, <1>2 DEF IInv, TypeOK, opener
<1>4. CountsInv'
  BY <1>1 DEF IInv, TypeOK, CountsInv, opener
<1>5. NoFlowControlError' /\ QueueInv'
  BY <1>1 DEF IInv, NoFlowControlError, QueueInv, WaitsForALimit, BlockedIsReported, opener
<1> QED BY <1>2, <1>3, <1>4, <1>5 DEF IInv

(* STREAMS_BLOCKED may raise the limit.                                     *)
LEMMA StreamsBlockedReceivedInv ==
    ASSUME IInv, StreamsBlockedReceived PROVE IInv'
<1> DEFINE closed == peer_streams_closed
<1>1. /\ streams_blocked' \in Seq(Nat) /\ closed \in Nat
      /\ ReplenishStreamsCredit(closed, TRUE)
      /\ UNCHANGED << opener, peer_streams_opened, peer_streams_closed, quic_freed,
                      arriving, vanished, errors >>
  <2>1. streams_blocked' \in Seq(Nat) /\ closed \in Nat
    BY DEF StreamsBlockedReceived, IInv, TypeOK
  <2>2. ReplenishStreamsCredit(closed, TRUE)
    BY Zenon DEF StreamsBlockedReceived
  <2> QED BY <2>1, <2>2, Zenon DEF StreamsBlockedReceived
<1>2. /\ local_max_streams' \in Nat /\ max_streams' \in Seq(Nat) /\ LimitsInv'
  <2> HIDE DEF closed
  <2>1. peer_max_streams' = peer_max_streams
    BY <1>1 DEF opener
  <2>2. closed \in Nat /\ TRUE \in BOOLEAN /\ ReplenishStreamsCredit(closed, TRUE)
    BY <1>1, Zenon
  <2> QED BY <2>1, <2>2, ReplenishFact, Zenon
<1>3. TypeOK'
  BY <1>1, <1>2 DEF IInv, TypeOK, opener
<1>4. CountsInv'
  BY <1>1 DEF IInv, TypeOK, CountsInv, opener
<1>5. NoFlowControlError' /\ QueueInv'
  BY <1>1 DEF IInv, NoFlowControlError, QueueInv, WaitsForALimit, BlockedIsReported, opener
<1> QED BY <1>2, <1>3, <1>4, <1>5 DEF IInv

------------------------------------------------------------------------------
(* Every step of either endpoint keeps the invariant.                       *)
LEMMA NextIInv == IInv /\ [Next]_vars => IInv'
<1> SUFFICES ASSUME IInv, [Next]_vars PROVE IInv'
  OBVIOUS
<1>1. CASE \E r \in Requests : CreateStream(r)
  BY <1>1, CreateStreamInv
<1>2. CASE ResetBeforeArrival
  BY <1>2, ResetBeforeArrivalInv
<1>3. CASE MaxStreamsReceived
  BY <1>3, MaxStreamsReceivedInv
<1>4. CASE QuicStreamAvailable
  BY <1>4, QuicStreamAvailableInv
<1>5. CASE HandleStreamOpened
  BY <1>5, HandleStreamOpenedInv
<1>6. CASE StreamsBlockedReceived
  BY <1>6, StreamsBlockedReceivedInv
<1>7. CASE HandleClosed
  BY <1>7, HandleClosedInv
<1>8. CASE UNCHANGED vars
  BY <1>8 DEF vars, opener, acceptor, IInv, TypeOK, NoFlowControlError, LimitsInv,
              CountsInv, QueueInv, WaitsForALimit, BlockedIsReported
<1> QED
  BY <1>1, <1>2, <1>3, <1>4, <1>5, <1>6, <1>7, <1>8
     DEF Next, Opener, OpenerEvents, AcceptorEvents

(* The invariant holds in every state of every behaviour.                   *)
LEMMA AlwaysIInv == Spec => []IInv
  BY InitIInv, NextIInv, PTL DEF Spec

(* Whatever the limits of the session and of QUIC, and although streams     *)
(* that QUIC refuses are uncounted again, handle_stream_opened never meets  *)
(* a stream above its limit and recv_capsule never a MAX_STREAMS that does  *)
(* not raise the limit.                                                     *)
THEOREM StreamLimitsRespected == Spec => []NoFlowControlError
<1>1. IInv => NoFlowControlError
  BY DEF IInv
<1> QED BY <1>1, AlwaysIInv, PTL

(* A request waits only for a limit, and the session's limit has been       *)
(* reported (flush_blocked_stream_requests, create_stream, defer_stream).   *)
THEOREM EveryWaitHasAReason == Spec => []WaitHasAReason
<1>1. IInv => WaitHasAReason
  BY DEF IInv, QueueInv, WaitHasAReason
<1> QED BY <1>1, AlwaysIInv, PTL

------------------------------------------------------------------------------
(* No request is lost, and the streams implement Credit.                    *)

(* A queue that holds no request twice, and what it holds.                   *)
Distinct(q) == \A i, j \in DOMAIN q : q[i] = q[j] => i = j
Members(q) == {q[k] : k \in DOMAIN q}

(* A queue without duplicates has as many members as its length.             *)
LEMMA CountMembers ==
    ASSUME NEW S, NEW q \in Seq(S), Distinct(q)
    PROVE  IsFiniteSet(Members(q)) /\ Cardinality(Members(q)) = Len(q)
<1>1. Len(q) \in Nat /\ DOMAIN q = 1 .. Len(q)
  OBVIOUS
<1> DEFINE f == [k \in 1 .. Len(q) |-> q[k]]
<1>2. f \in Bijection(1 .. Len(q), Members(q))
  <2>1. f \in [1 .. Len(q) -> Members(q)]
    BY <1>1 DEF Members
  <2>2. \A a, b \in 1 .. Len(q) : f[a] = f[b] => a = b
    BY <1>1 DEF Distinct
  <2>3. \A t \in Members(q) : \E a \in 1 .. Len(q) : f[a] = t
    BY <1>1 DEF Members
  <2> QED BY <2>1, <2>2, <2>3 DEF Bijection, Injection, Surjection, IsInjective
<1>3. ExistsBijection(1 .. Len(q), Members(q))
  BY <1>2 DEF ExistsBijection
<1>4. IsFiniteSet(1 .. Len(q)) /\ Cardinality(1 .. Len(q)) = Len(q)
  BY <1>1, FS_Interval, SMTT(30)
<1> QED BY <1>3, <1>4, FS_Bijection

(* Cutting a queue without duplicates leaves two that share nothing.         *)
LEMMA CutMembers ==
    ASSUME NEW S, NEW q \in Seq(S), Distinct(q), NEW n \in 0 .. Len(q)
    PROVE  /\ Distinct(SubSeq(q, 1, n)) /\ Distinct(SubSeq(q, n + 1, Len(q)))
           /\ Members(SubSeq(q, 1, n)) = {q[k] : k \in 1 .. n}
           /\ Members(q) = Members(SubSeq(q, 1, n)) \cup Members(SubSeq(q, n + 1, Len(q)))
           /\ Members(SubSeq(q, 1, n)) \cap Members(SubSeq(q, n + 1, Len(q))) = {}
<1> DEFINE first == SubSeq(q, 1, n)
           rest == SubSeq(q, n + 1, Len(q))
<1>1. Len(q) \in Nat /\ n \in Nat /\ n <= Len(q) /\ DOMAIN q = 1 .. Len(q)
  OBVIOUS
<1>2. /\ first \in Seq(S) /\ rest \in Seq(S)
      /\ DOMAIN first = 1 .. n /\ DOMAIN rest = 1 .. Len(q) - n
  BY <1>1, Cut
<1>3. \A k \in 1 .. n : first[k] = q[k]
  BY <1>1, SubSeqProperties
<1>4. \A k \in 1 .. Len(q) - n : rest[k] = q[n + k]
  BY <1>1, SubSeqProperties
<1> HIDE DEF first, rest
<1>5. Distinct(first)
  BY <1>1, <1>2, <1>3 DEF Distinct
<1>6. Distinct(rest)
  <2> SUFFICES ASSUME NEW i \in 1 .. Len(q) - n, NEW j \in 1 .. Len(q) - n,
                      rest[i] = rest[j]
               PROVE  i = j
    BY <1>2 DEF Distinct
  <2>1. n + i \in DOMAIN q /\ n + j \in DOMAIN q
    BY <1>1
  <2>2. q[n + i] = q[n + j]
    BY <1>4
  <2>3. n + i = n + j
    BY <2>1, <2>2 DEF Distinct
  <2> QED BY <1>1, <2>3
<1>7. Members(first) = {q[k] : k \in 1 .. n}
  BY <1>2, <1>3, Zenon DEF Members
<1>8. Members(rest) = {q[k] : k \in n + 1 .. Len(q)}
  <2>1. ASSUME NEW k \in n + 1 .. Len(q) PROVE q[k] \in Members(rest)
    <3>1. k - n \in 1 .. Len(q) - n /\ n + (k - n) = k
      BY <1>1
    <3>2. rest[k - n] = q[k]
      BY <1>4, <3>1
    <3> QED BY <1>2, <3>1, <3>2, SMTT(30) DEF Members
  <2>2. ASSUME NEW k \in 1 .. Len(q) - n PROVE rest[k] \in {q[l] : l \in n + 1 .. Len(q)}
    <3>1. n + k \in n + 1 .. Len(q)
      BY <1>1
    <3> QED BY <1>4, <3>1
  <2> QED BY <1>2, <2>1, <2>2, Zenon DEF Members
<1>9. Members(q) = Members(first) \cup Members(rest)
  <2>1. 1 .. Len(q) = (1 .. n) \cup (n + 1 .. Len(q))
    BY <1>1
  <2> QED BY <1>1, <1>7, <1>8, <2>1, ZenonT(60) DEF Members
<1>10. Members(first) \cap Members(rest) = {}
  <2>1. \A k \in 1 .. n, l \in n + 1 .. Len(q) :
            k \in DOMAIN q /\ l \in DOMAIN q /\ k # l
    BY <1>1
  <2> QED BY <1>7, <1>8, <2>1 DEF Distinct
<1> QED BY <1>5, <1>6, <1>7, <1>9, <1>10 DEF first, rest

(* Joining two queues without duplicates that share nothing.                 *)
LEMMA ConcatMembers ==
    ASSUME NEW S, NEW p \in Seq(S), NEW q \in Seq(S), Distinct(p), Distinct(q),
           Members(p) \cap Members(q) = {}
    PROVE  Distinct(p \o q) /\ Members(p \o q) = Members(p) \cup Members(q)
<1> DEFINE c == p \o q
<1>1. /\ Len(p) \in Nat /\ Len(q) \in Nat
      /\ DOMAIN p = 1 .. Len(p) /\ DOMAIN q = 1 .. Len(q)
  OBVIOUS
<1>2. /\ DOMAIN c = 1 .. Len(p) + Len(q)
      /\ \A i \in 1 .. Len(p) : c[i] = p[i]
      /\ \A i \in Len(p) + 1 .. Len(p) + Len(q) :
             i - Len(p) \in 1 .. Len(q) /\ c[i] = q[i - Len(p)]
  BY <1>1, ConcatProperties
<1>3. \A i \in DOMAIN c : i \in 1 .. Len(p) \/ i \in Len(p) + 1 .. Len(p) + Len(q)
  BY <1>1, <1>2
<1> HIDE DEF c
<1>4. Distinct(c)
  <2> SUFFICES ASSUME NEW i \in DOMAIN c, NEW j \in DOMAIN c, c[i] = c[j]
               PROVE  i = j
    BY DEF Distinct
  <2>1. CASE i \in 1 .. Len(p) /\ j \in 1 .. Len(p)
    BY <1>1, <1>2, <2>1 DEF Distinct
  <2>2. CASE i \notin 1 .. Len(p) /\ j \notin 1 .. Len(p)
    <3>1. i - Len(p) = j - Len(p)
      BY <1>1, <1>2, <1>3, <2>2, SMTT(30) DEF Distinct
    <3> QED BY <1>1, <1>2, <3>1
  <2>5. \A k \in 1 .. Len(p) : c[k] \in Members(p)
    <3>1. \A k \in 1 .. Len(p) : p[k] \in Members(p)
      BY <1>1 DEF Members
    <3> QED BY <1>2, <3>1, Zenon
  <2>6. \A k \in DOMAIN c : k \notin 1 .. Len(p) => c[k] \in Members(q)
    <3>1. \A k \in 1 .. Len(q) : q[k] \in Members(q)
      BY <1>1 DEF Members
    <3> QED BY <1>2, <1>3, <3>1, Zenon
  <2>3. CASE i \in 1 .. Len(p) /\ j \notin 1 .. Len(p)
    <3>1. c[i] \in Members(p) \cap Members(q)
      BY <2>3, <2>5, <2>6, Zenon
    <3> QED BY <3>1, Zenon
  <2>4. CASE i \notin 1 .. Len(p) /\ j \in 1 .. Len(p)
    <3>1. c[i] \in Members(p) \cap Members(q)
      BY <2>4, <2>5, <2>6, Zenon
    <3> QED BY <3>1, Zenon
  <2> QED BY <2>1, <2>2, <2>3, <2>4
<1>5. Members(c) \subseteq Members(p) \cup Members(q)
  BY <1>1, <1>2, <1>3, ZenonT(60) DEF Members
<1>6. Members(p) \subseteq Members(c)
  BY <1>1, <1>2 DEF Members
<1>7. Members(q) \subseteq Members(c)
  <2> SUFFICES ASSUME NEW k \in 1 .. Len(q) PROVE q[k] \in Members(c)
    BY <1>1 DEF Members
  <2>1. Len(p) + k \in Len(p) + 1 .. Len(p) + Len(q) /\ (Len(p) + k) - Len(p) = k
    BY <1>1
  <2>2. c[Len(p) + k] = q[k] /\ Len(p) + k \in DOMAIN c
    BY <1>1, <1>2, <2>1
  <2> QED BY <2>2 DEF Members
<1> QED BY <1>4, <1>5, <1>6, <1>7 DEF c

------------------------------------------------------------------------------
(* Every request is in one place only, and the counter is the number of      *)
(* those that have a stream.                                                 *)
RInv ==
    /\ Distinct(blocked_stream_requests)
    /\ issued = created \cup Members(blocked_stream_requests)
    /\ created \cap Members(blocked_stream_requests) = {}
    /\ local_streams_opened = Cardinality(created)

(* No request has been made.                                                 *)
LEMMA InitRInv == Init => RInv
<1> SUFFICES ASSUME Init PROVE RInv
  OBVIOUS
<1>1. blocked_stream_requests = << >> /\ DOMAIN blocked_stream_requests = {}
  BY DEF Init
<1>2. Members(blocked_stream_requests) = {} /\ Distinct(blocked_stream_requests)
  BY <1>1 DEF Members, Distinct
<1>3. local_streams_opened = Cardinality(created)
  BY FS_EmptySet DEF Init
<1> QED BY <1>2, <1>3 DEF RInv, Init

(* Opening some of the requested streams moves these requests out of the     *)
(* queue and counts exactly them (bind_stream, defer_stream).                *)
LEMMA CreateQuicStreamsRInv ==
    ASSUME IInv, NEW requests \in Seq(Requests), NEW opened \in Nat,
           NEW queue \in Seq(Requests), NEW credit \in Nat,
           Len(requests) <= opened,
           CreateQuicStreams(requests, opened, queue, credit),
           Distinct(requests), Distinct(queue),
           Members(requests) \cap Members(queue) = {},
           created \cap (Members(requests) \cup Members(queue)) = {},
           issued' = created \cup Members(requests) \cup Members(queue),
           opened = Cardinality(created) + Len(requests)
    PROVE  RInv'
<1> DEFINE m == Least(Len(requests), credit)
           first == SubSeq(requests, 1, m)
           rest == SubSeq(requests, m + 1, Len(requests))
<1>1. /\ m \in Nat /\ m <= Len(requests) /\ m \in 0 .. Len(requests)
      /\ Len(requests) \in Nat
  BY LeastFact
<1>2. /\ created' = created \cup {requests[k] : k \in 1 .. m}
      /\ local_streams_opened' = opened - (Len(requests) - m)
      /\ blocked_stream_requests' = queue \o rest
  BY DEF CreateQuicStreams
<1> HIDE DEF m
<1>3. /\ first \in Seq(Requests) /\ Len(first) = m /\ rest \in Seq(Requests)
  BY <1>1, Cut
<1>4. /\ Distinct(first) /\ Distinct(rest)
      /\ Members(first) = {requests[k] : k \in 1 .. m}
      /\ Members(requests) = Members(first) \cup Members(rest)
      /\ Members(first) \cap Members(rest) = {}
  BY <1>1, CutMembers
<1> HIDE DEF first, rest
<1>5. /\ Distinct(queue \o rest)
      /\ Members(queue \o rest) = Members(queue) \cup Members(rest)
  <2>1. Members(queue) \cap Members(rest) = {}
    BY <1>4
  <2> QED BY <1>3, <1>4, <2>1, ConcatMembers
<1>6. /\ Distinct(blocked_stream_requests')
      /\ Members(blocked_stream_requests') = Members(queue) \cup Members(rest)
  BY <1>2, <1>5
<1>7. created' = created \cup Members(first)
  BY <1>2, <1>4
<1>8. issued' = created' \cup Members(blocked_stream_requests')
  BY <1>4, <1>6, <1>7
<1>9. created' \cap Members(blocked_stream_requests') = {}
  BY <1>4, <1>6, <1>7
<1>10. local_streams_opened' = Cardinality(created')
  <2>1. IsFiniteSet(created)
    BY SessionStreamsAssumption, FS_Subset DEF IInv, TypeOK
  <2>2. IsFiniteSet(Members(first)) /\ Cardinality(Members(first)) = m
    BY <1>3, <1>4, CountMembers, Zenon
  <2>3. created \cap Members(first) = {}
    BY <1>4
  <2>4. Cardinality(created \cup Members(first)) =
            Cardinality(created) + Cardinality(Members(first)) - Cardinality({})
    BY <2>1, <2>2, <2>3, FS_Union
  <2>5. Cardinality(created') = Cardinality(created) + m
    <3>1. Cardinality(created) \in Nat /\ Cardinality({}) = 0
      BY <2>1, FS_CardinalityType, FS_EmptySet
    <3> QED BY <1>1, <1>7, <2>2, <2>4, <3>1
  <2>6. Cardinality(created) \in Nat
    BY <2>1, FS_CardinalityType
  <2> QED BY <1>1, <1>2, <2>5, <2>6
<1> QED
  <2>1. Distinct(blocked_stream_requests)'
    BY <1>6 DEF Distinct
  <2>2. Members(blocked_stream_requests)' = Members(blocked_stream_requests')
    BY DEF Members
  <2> QED BY <1>8, <1>9, <1>10, <2>1, <2>2 DEF RInv

(* A released queue stays a partition of its requests.                       *)
LEMMA FlushRInv ==
    ASSUME IInv, RInv, NEW limit \in Nat, peer_max_streams <= limit, NEW credit \in Nat,
           FlushBlockedStreamRequests(limit, credit), UNCHANGED issued
    PROVE  RInv'
<1> DEFINE queue == blocked_stream_requests
           n == Least(Len(queue), limit - local_streams_opened)
           first == SubSeq(queue, 1, n)
           rest == SubSeq(queue, n + 1, Len(queue))
           opened == local_streams_opened + n
<1>1. /\ queue \in Seq(Requests) /\ Len(queue) \in Nat
      /\ local_streams_opened \in Nat /\ local_streams_opened <= limit
  BY DEF IInv, TypeOK, CountsInv
<1>2. n \in Nat /\ n <= Len(queue) /\ n \in 0 .. Len(queue)
  <2>1. limit - local_streams_opened \in Nat
    BY <1>1
  <2>2. n \in Nat /\ n <= Len(queue)
    BY <1>1, <2>1, LeastFact, Zenon
  <2> QED BY <1>1, <2>2
<1>3. CreateQuicStreams(first, opened, rest, credit)
  BY DEF FlushBlockedStreamRequests
<1> HIDE DEF n
<1>4. /\ first \in Seq(Requests) /\ Len(first) = n /\ rest \in Seq(Requests)
  BY <1>1, <1>2, Cut
<1>5. /\ Distinct(first) /\ Distinct(rest)
      /\ Members(queue) = Members(first) \cup Members(rest)
      /\ Members(first) \cap Members(rest) = {}
  <2>1. Distinct(queue)
    BY DEF RInv
  <2> QED BY <1>1, <1>2, <2>1, CutMembers
<1>6. opened \in Nat /\ Len(first) <= opened /\ opened = Cardinality(created) + Len(first)
  <2>1. local_streams_opened = Cardinality(created)
    BY DEF RInv
  <2>2. opened = local_streams_opened + Len(first)
    BY <1>4
  <2>3. opened \in Nat /\ n <= opened
    BY <1>1, <1>2
  <2> QED BY <1>4, <2>1, <2>2, <2>3
<1>7. /\ created \cap (Members(first) \cup Members(rest)) = {}
      /\ issued' = created \cup Members(first) \cup Members(rest)
  <2>1. /\ issued' = issued /\ issued = created \cup Members(queue)
        /\ created \cap Members(queue) = {}
    BY DEF RInv
  <2> HIDE DEF first, rest, queue
  <2> QED BY <1>5, <2>1
<1> HIDE DEF first, rest, opened
<1>8. Len(first) <= opened /\ opened \in Nat
  BY <1>6
<1>9. opened = Cardinality(created) + Len(first)
  BY <1>6
<1> QED BY <1>3, <1>4, <1>5, <1>7, <1>8, <1>9, CreateQuicStreamsRInv

(* A new request is queued behind the others, or given to the driver.        *)
LEMMA CreateStreamRInv ==
    ASSUME IInv, RInv, NEW r \in Requests, CreateStream(r) PROVE RInv'
<1> DEFINE queue == blocked_stream_requests
           one == << r >>
           opened == local_streams_opened + 1
           credit == quic_credit
<1>1. /\ queue \in Seq(Requests) /\ credit \in Nat /\ local_streams_opened \in Nat
      /\ opened \in Nat /\ 1 <= opened
  BY DEF IInv, TypeOK
<1>2. /\ one \in Seq(Requests) /\ Len(one) = 1 /\ Distinct(one) /\ Members(one) = {r}
  BY DEF Distinct, Members
<1>3. /\ Distinct(queue) /\ issued = created \cup Members(queue)
      /\ created \cap Members(queue) = {}
      /\ local_streams_opened = Cardinality(created)
  BY DEF RInv
<1>4. r \notin issued /\ issued' = issued \cup {r}
  BY DEF CreateStream
<1>5. CASE local_streams_opened >= peer_max_streams
  <2>1. /\ blocked_stream_requests' = Append(queue, r)
        /\ created' = created /\ local_streams_opened' = local_streams_opened
    BY <1>5 DEF CreateStream
  <2>2. Append(queue, r) = queue \o one
    BY <1>1, AppendIsConcat
  <2>3. Distinct(queue \o one) /\ Members(queue \o one) = Members(queue) \cup {r}
    <3>1. Members(queue) \cap Members(one) = {}
      BY <1>2, <1>3, <1>4
    <3> HIDE DEF queue, one
    <3> QED BY <1>1, <1>2, <1>3, <3>1, ConcatMembers
  <2>4. /\ Distinct(blocked_stream_requests)'
        /\ Members(blocked_stream_requests)' = Members(queue) \cup {r}
    BY <2>1, <2>2, <2>3 DEF Distinct, Members
  <2> QED BY <1>3, <1>4, <2>1, <2>4 DEF RInv
<1>6. CASE ~(local_streams_opened >= peer_max_streams)
  <2>1. CreateQuicStreams(one, opened, queue, credit)
    BY <1>6 DEF CreateStream
  <2>2. /\ Members(one) \cap Members(queue) = {}
        /\ created \cap (Members(one) \cup Members(queue)) = {}
        /\ issued' = created \cup Members(one) \cup Members(queue)
    BY <1>2, <1>3, <1>4
  <2>3. opened = Cardinality(created) + Len(one) /\ Len(one) <= opened
    BY <1>1, <1>2, <1>3
  <2>4. one \in Seq(Requests) /\ Distinct(one) /\ Distinct(queue)
    BY <1>2, <1>3
  <2> HIDE DEF queue, one, opened, credit
  <2> QED BY <1>1, <2>1, <2>2, <2>3, <2>4, CreateQuicStreamsRInv
<1> QED BY <1>5, <1>6

(* Every step keeps the partition of the requests.                           *)
LEMMA NextRInv == IInv /\ RInv /\ [Next]_vars => RInv'
<1> SUFFICES ASSUME IInv, RInv, [Next]_vars PROVE RInv'
  OBVIOUS
<1>1. CASE \E r \in Requests : CreateStream(r)
  BY <1>1, CreateStreamRInv
<1>2. CASE MaxStreamsReceived
  <2> DEFINE limit == Head(max_streams)
             credit == quic_credit
  <2>1. /\ limit \in Nat /\ limit > peer_max_streams /\ peer_max_streams <= limit
        /\ credit \in Nat
    BY <1>2 DEF IInv, TypeOK, LimitsInv, MaxStreamsReceived
  <2>2. FlushBlockedStreamRequests(limit, credit) /\ UNCHANGED issued
    BY <1>2, <2>1 DEF MaxStreamsReceived
  <2> HIDE DEF limit, credit
  <2> QED BY <2>1, <2>2, FlushRInv
<1>3. CASE QuicStreamAvailable
  <2> DEFINE limit == peer_max_streams
             credit == quic_credit + 1
  <2>1. limit \in Nat /\ credit \in Nat /\ peer_max_streams <= limit
    BY DEF IInv, TypeOK
  <2>2. FlushBlockedStreamRequests(limit, credit) /\ UNCHANGED issued
    BY <1>3 DEF QuicStreamAvailable
  <2> HIDE DEF limit, credit
  <2> QED BY <2>1, <2>2, FlushRInv
<1>4. CASE UNCHANGED opener
  BY <1>4 DEF opener, RInv, Distinct, Members
<1>5. CASE ResetBeforeArrival
  BY <1>4, <1>5 DEF ResetBeforeArrival
<1>6. CASE AcceptorEvents
  BY <1>4, <1>6, Zenon DEF AcceptorEvents, HandleStreamOpened, StreamsBlockedReceived
<1>7. CASE HandleClosed
  BY <1>4, <1>7 DEF HandleClosed
<1>8. CASE UNCHANGED vars
  BY <1>4, <1>8 DEF vars
<1> QED
  BY <1>1, <1>2, <1>3, <1>5, <1>6, <1>7, <1>8 DEF Next, Opener, OpenerEvents

(* Both invariants hold in every state of every behaviour.                   *)
LEMMA AlwaysRInv == Spec => [](IInv /\ RInv)
<1>1. Init => RInv
  BY InitRInv
<1>2. IInv /\ RInv /\ [Next]_vars => RInv'
  BY NextRInv
<1> QED BY <1>1, <1>2, AlwaysIInv, PTL DEF Spec

(* Whatever the limits, and however often QUIC refuses a stream, every       *)
(* create_stream request has one stream or one place in the queue, and the   *)
(* session counts exactly the streams that exist.                            *)
THEOREM RequestsKept == Spec => []NoRequestLost
<1>1. IInv /\ RInv => NoRequestLost
  <2> SUFFICES ASSUME IInv, RInv PROVE NoRequestLost
    OBVIOUS
  <2>1. Waiting = Members(blocked_stream_requests)
    BY DEF Waiting, Members
  <2>2. Len(blocked_stream_requests) = Cardinality(Waiting)
    BY <2>1, CountMembers DEF IInv, TypeOK, RInv
  <2> QED BY <2>1, <2>2 DEF RInv, NoRequestLost
<1> QED BY <1>1, AlwaysRInv, PTL

------------------------------------------------------------------------------
(* Requests that have a stream keep it, so the count grows, up to the number *)
(* of all requests.                                                          *)
LEMMA CountGrows ==
    ASSUME IInv, RInv, IInv', RInv', created \subseteq created'
    PROVE  /\ local_streams_opened <= local_streams_opened'
           /\ local_streams_opened' <= Cardinality(Requests)
<1>1. created' \subseteq Requests
  BY DEF IInv, TypeOK
<1>2. IsFiniteSet(created') /\ Cardinality(created') <= Cardinality(Requests)
  BY <1>1, SessionStreamsAssumption, FS_Subset
<1>3. Cardinality(created) <= Cardinality(created')
  BY <1>2, FS_Subset
<1>4. /\ local_streams_opened = Cardinality(created)
      /\ local_streams_opened' = Cardinality(created')
  BY DEF RInv
<1> QED BY <1>2, <1>3, <1>4

(* Opening streams within the limit is what the abstract spender does.       *)
LEMMA SendStep ==
    ASSUME IInv, RInv, IInv', RInv', created \subseteq created',
           UNCHANGED << peer_max_streams, max_streams, acceptor >>
    PROVE  [Promise!Next]_(Promise!vars)
<1>1. /\ local_streams_opened \in Nat /\ local_streams_opened' \in Nat
      /\ peer_max_streams \in Nat /\ peer_max_streams' = peer_max_streams
      /\ local_streams_opened' <= peer_max_streams
  BY Zenon DEF IInv, TypeOK, CountsInv
<1>2. /\ local_streams_opened <= local_streams_opened'
      /\ local_streams_opened' <= Cardinality(Requests)
  BY CountGrows
<1>3. UNCHANGED << peer_max_streams, max_streams, peer_streams_opened,
                   peer_streams_closed, local_max_streams >>
  BY DEF acceptor
<1>4. CASE local_streams_opened' = local_streams_opened
  BY <1>3, <1>4 DEF Promise!vars
<1>5. CASE local_streams_opened' # local_streams_opened
  <2>1. local_streams_opened' \in local_streams_opened + 1 .. peer_max_streams
    BY <1>1, <1>2, <1>5
  <2>2. Promise!Send
    BY <1>2, <1>3, <2>1 DEF Promise!Send
  <2> QED BY <2>2 DEF Promise!Next
<1> QED BY <1>4, <1>5

(* The limit of a MAX_STREAMS capsule is the first one on its way.           *)
LEMMA AcceptStep ==
    ASSUME IInv, RInv, IInv', RInv', MaxStreamsReceived
    PROVE  Promise!Accept
<1>1. /\ max_streams # << >> /\ Head(max_streams) > peer_max_streams
  <2>1. max_streams # << >> /\ max_streams \in Seq(Nat)
    BY DEF IInv, TypeOK, MaxStreamsReceived
  <2>2. Head(max_streams) = max_streams[1] /\ 1 \in DOMAIN max_streams
    BY <2>1
  <2>3. peer_max_streams < max_streams[1]
    BY <2>2, Zenon DEF IInv, LimitsInv
  <2> QED BY <2>1, <2>2, <2>3
<1>2. /\ peer_max_streams' = Head(max_streams) /\ max_streams' = Tail(max_streams)
      /\ UNCHANGED << peer_streams_opened, peer_streams_closed, local_max_streams >>
      /\ created \subseteq created'
  BY <1>1 DEF MaxStreamsReceived, FlushBlockedStreamRequests, CreateQuicStreams, acceptor
<1>3. /\ local_streams_opened <= local_streams_opened'
      /\ local_streams_opened' <= Cardinality(Requests)
  BY <1>2, CountGrows
<1>4. local_streams_opened' \in local_streams_opened .. peer_max_streams'
  <2>1. /\ local_streams_opened \in Nat /\ local_streams_opened' \in Nat
        /\ peer_max_streams' \in Nat
    BY DEF IInv, TypeOK
  <2>2. local_streams_opened' <= peer_max_streams'
    BY DEF IInv, CountsInv
  <2> QED BY <1>3, <2>1, <2>2
<1> QED BY <1>1, <1>2, <1>3, <1>4 DEF Promise!Accept

(* A term of a sum is not above it.                                          *)
LEMMA TermOfSum ==
    ASSUME NEW a \in Nat, NEW b \in Nat, NEW c \in Nat, NEW d \in Nat, a = b + c + d
    PROVE  b <= a
  OBVIOUS

(* A limit that replenish_streams_credit advertises is the abstract one.     *)
LEMMA ReceiveStep ==
    ASSUME IInv, IInv',
           peer_streams_opened <= peer_streams_opened',
           peer_streams_closed <= peer_streams_closed',
           UNCHANGED << local_streams_opened, peer_max_streams >>,
           Promise!Replenish(peer_streams_closed')
    PROVE  Promise!Receive
<1>1. /\ peer_streams_opened \in Nat /\ peer_streams_opened' \in Nat
      /\ peer_streams_closed \in Nat /\ peer_streams_closed' \in Nat
      /\ local_streams_opened' \in Nat /\ arriving' \in Nat /\ vanished' \in Nat
  BY DEF IInv, TypeOK
<1>2. /\ local_streams_opened' = peer_streams_opened' + arriving' + vanished'
      /\ peer_streams_closed' <= peer_streams_opened'
  BY DEF IInv, CountsInv
<1>3. peer_streams_opened' \in peer_streams_opened .. local_streams_opened
  <2>1. peer_streams_opened' <= local_streams_opened'
    BY <1>1, <1>2, TermOfSum, Zenon
  <2>2. local_streams_opened' = local_streams_opened
    OBVIOUS
  <2> QED BY <1>1, <2>1, <2>2
<1>4. peer_streams_closed' \in peer_streams_closed .. peer_streams_opened'
  BY <1>1, <1>2
<1> QED BY <1>3, <1>4 DEF Promise!Receive

(* Every step is one of the abstract specification or leaves its state alone. *)
LEMMA NextImplements ==
    IInv /\ RInv /\ IInv' /\ RInv' /\ [Next]_vars => [Promise!Next]_(Promise!vars)
<1> SUFFICES ASSUME IInv, RInv, IInv', RInv', [Next]_vars
             PROVE  [Promise!Next]_(Promise!vars)
  OBVIOUS
<1>1. ASSUME NEW r \in Requests, CreateStream(r) PROVE [Promise!Next]_(Promise!vars)
  <2>1. UNCHANGED << peer_max_streams, max_streams, acceptor >> /\ created \subseteq created'
    BY <1>1 DEF CreateStream, CreateQuicStreams
  <2> QED BY <2>1, SendStep
<1>2. CASE QuicStreamAvailable
  <2>1. UNCHANGED << peer_max_streams, max_streams, acceptor >> /\ created \subseteq created'
    BY <1>2 DEF QuicStreamAvailable, FlushBlockedStreamRequests, CreateQuicStreams
  <2> QED BY <2>1, SendStep, Zenon
<1>3. CASE MaxStreamsReceived
  BY <1>3, AcceptStep DEF Promise!Next
<1>4. CASE HandleStreamOpened
  <2>1. /\ peer_streams_opened <= peer_streams_opened' /\ peer_streams_closed' = peer_streams_closed
        /\ UNCHANGED << local_streams_opened, peer_max_streams, local_max_streams, max_streams >>
    BY <1>4 DEF HandleStreamOpened, opener, IInv, TypeOK
  <2>2. peer_streams_closed <= peer_streams_closed'
    BY <2>1 DEF IInv, TypeOK
  <2>3. Promise!Replenish(peer_streams_closed')
    BY <2>1 DEF Promise!Replenish
  <2> QED BY <2>1, <2>2, <2>3, ReceiveStep DEF Promise!Next
<1>5. CASE HandleClosed
  <2>1. /\ peer_streams_closed' = peer_streams_closed + 1 /\ peer_streams_opened' = peer_streams_opened
        /\ UNCHANGED << local_streams_opened, peer_max_streams >>
    BY <1>5 DEF HandleClosed, opener
  <2>2. peer_streams_closed <= peer_streams_closed' /\ peer_streams_opened <= peer_streams_opened'
    BY <2>1 DEF IInv, TypeOK
  <2>3. Promise!Replenish(peer_streams_closed')
    BY <1>5 DEF HandleClosed, ReplenishStreamsCredit, Promise!Replenish
  <2> QED BY <2>1, <2>2, <2>3, ReceiveStep DEF Promise!Next
<1>6. CASE StreamsBlockedReceived
  <2>1. /\ peer_streams_closed' = peer_streams_closed /\ peer_streams_opened' = peer_streams_opened
        /\ UNCHANGED << local_streams_opened, peer_max_streams >>
    BY <1>6 DEF StreamsBlockedReceived, opener
  <2>2. peer_streams_closed <= peer_streams_closed' /\ peer_streams_opened <= peer_streams_opened'
    BY <2>1 DEF IInv, TypeOK
  <2>3. Promise!Replenish(peer_streams_closed')
    BY <1>6, <2>1 DEF StreamsBlockedReceived, ReplenishStreamsCredit, Promise!Replenish
  <2> QED BY <2>1, <2>2, <2>3, ReceiveStep DEF Promise!Next
<1>7. CASE ResetBeforeArrival
  BY <1>7 DEF ResetBeforeArrival, opener, acceptor, Promise!vars
<1>8. CASE UNCHANGED vars
  BY <1>8 DEF vars, opener, acceptor, Promise!vars
<1> QED
  BY <1>1, <1>2, <1>3, <1>4, <1>5, <1>6, <1>7, <1>8
     DEF Next, Opener, OpenerEvents, AcceptorEvents

(* Whatever the limits, the session's flow control of streams, with its      *)
(* queue, its deferred requests and QUIC's own limit, is an implementation   *)
(* of module Credit: replenish_streams_credit and flush_blocked_streams keep *)
(* the abstract promise at every step.                                       *)
THEOREM StreamsImplementCredit == Spec => ImplementsCredit
<1>1. Init => Promise!Init
  BY DEF Init, Promise!Init
<1>2. IInv /\ RInv /\ IInv' /\ RInv' /\ [Next]_vars => [Promise!Next]_(Promise!vars)
  BY NextImplements
<1> QED BY <1>1, <1>2, AlwaysRInv, PTL DEF Spec, ImplementsCredit, Promise!Spec

------------------------------------------------------------------------------
(* The promise itself, for every initial limit, every window and every      *)
(* behaviour of module Credit, whether of bytes or of streams.              *)
CONSTANTS Initial, Window, SpendLimit
VARIABLES sent, limit, grants, received, consumed, granted

C == INSTANCE Credit

(* The inductive invariant: the limits on their way increase from the      *)
(* spender's limit to the one advertised last, which is the initial one or *)
(* lies at most a window above what the receiver is done with.             *)
CreditInv ==
    /\ C!CreditAssumption /\ C!TypeOK
    /\ consumed <= received /\ received <= sent /\ sent <= limit
    /\ C!LimitsIncrease
    /\ limit <= granted
    /\ grants = << >> => limit = granted
    /\ grants # << >> => grants[Len(grants)] = granted
    /\ \A i \in DOMAIN grants : grants[i] <= granted
    /\ granted = Initial \/ granted <= consumed + Window

(* Both endpoints start from the same limit. *)
LEMMA CreditInit == C!CreditAssumption /\ C!Init => CreditInv
  BY EmptySeq DEF C!CreditAssumption, C!Init, CreditInv, C!TypeOK, C!LimitsIncrease

(* Spending (write_stream, create_stream) stays within the limit. *)
LEMMA CreditSend == CreditInv /\ C!Send => CreditInv'
  BY DEF C!CreditAssumption, CreditInv, C!Send, C!TypeOK, C!LimitsIncrease

(* Taking the first limit on its way (recv_capsule, MAX_DATA and           *)
(* MAX_STREAMS) raises the spender's limit and leaves the rest increasing. *)
LEMMA CreditAccept == CreditInv /\ C!Accept => CreditInv'
<1> SUFFICES ASSUME CreditInv, C!Accept PROVE CreditInv'
  OBVIOUS
<1>1. /\ grants \in Seq(Nat) /\ grants # << >> /\ Len(grants) \in Nat
      /\ Len(grants) >= 1 /\ Head(grants) = grants[1] /\ 1 \in DOMAIN grants
  BY DEF CreditInv, C!TypeOK, C!Accept
<1>2. /\ Tail(grants) \in Seq(Nat) /\ Len(Tail(grants)) = Len(grants) - 1
      /\ DOMAIN Tail(grants) = 1 .. Len(grants) - 1
      /\ \A i \in 1 .. Len(grants) - 1 : Tail(grants)[i] = grants[i + 1]
  BY <1>1
<1>3. /\ limit' = grants[1] /\ limit' > limit /\ limit' <= granted
      /\ limit' \in Nat /\ granted' = granted
  BY <1>1 DEF CreditInv, C!Accept, C!LimitsIncrease, C!TypeOK
<1>4. C!TypeOK'
  BY <1>2, <1>3 DEF CreditInv, C!TypeOK, C!Accept
<1>5. C!LimitsIncrease'
  <2> SUFFICES ASSUME NEW i \in 1 .. Len(grants) - 1
               PROVE  grants'[i] > (IF i = 1 THEN limit' ELSE grants'[i - 1])
    BY <1>2, Zenon DEF C!LimitsIncrease, C!Accept
  <2>1. /\ i + 1 \in DOMAIN grants /\ i + 1 # 1 /\ (i + 1) - 1 = i
        /\ grants'[i] = grants[i + 1]
    BY <1>1, <1>2 DEF C!Accept
  <2>4. grants[i + 1] > grants[i]
    BY <2>1 DEF CreditInv, C!LimitsIncrease
  <2>2. CASE i = 1
    BY <2>1, <2>4, <2>2, <1>3
  <2>3. CASE i # 1
    <3>1. i - 1 \in 1 .. Len(grants) - 1 /\ (i - 1) + 1 = i
      BY <2>3, <1>1
    <3>2. grants'[i - 1] = grants[i]
      BY <3>1, <1>2 DEF C!Accept
    <3> QED BY <2>1, <2>4, <2>3, <3>2
  <2> QED BY <2>2, <2>3
<1>6. grants' = << >> => limit' = granted'
  <2> SUFFICES ASSUME grants' = << >> PROVE limit' = granted'
    OBVIOUS
  <2>1. Len(grants) = 1
    <3>1. Len(Tail(grants)) = 0
      BY EmptySeq, Zenon DEF C!Accept
    <3> QED BY <3>1, <1>1, <1>2
  <2> QED BY <2>1, <1>1, <1>3 DEF CreditInv
<1>7. grants' # << >> => grants'[Len(grants')] = granted'
  <2> SUFFICES ASSUME grants' # << >> PROVE grants'[Len(grants')] = granted'
    OBVIOUS
  <2>1. Len(grants') = Len(grants) - 1 /\ Len(grants') >= 1
    BY <1>1, <1>2, EmptySeq DEF C!Accept
  <2>2. Len(grants) - 1 \in 1 .. Len(grants) - 1
    BY <2>1, <1>1
  <2>3. grants'[Len(grants) - 1] = grants[Len(grants)]
    BY <2>2, <1>1, <1>2 DEF C!Accept
  <2> QED BY <2>1, <2>3, <1>1, <1>3 DEF CreditInv
<1>8. \A i \in DOMAIN grants' : grants'[i] <= granted'
  BY <1>1, <1>2, <1>3 DEF CreditInv, C!Accept
<1> QED
  BY <1>3, <1>4, <1>5, <1>6, <1>7, <1>8, SMTT(30) DEF CreditInv, C!TypeOK, C!Accept

(* A limit set a window above what is consumed is higher than the one it   *)
(* replaces when it is sent.                                               *)
LEMMA Raised ==
    ASSUME NEW c \in Nat, NEW g \in Nat, NEW w \in Nat, NEW h,
           c + w > g, h = c + w
    PROVE  h \in Nat /\ h > g /\ h <= c + w
  OBVIOUS

(* Consuming more leaves a limit within a window of what is consumed. *)
LEMMA StillWithin ==
    ASSUME NEW c \in Nat, NEW d \in Nat, NEW w \in Nat, NEW g \in Nat,
           g <= c + w, c <= d
    PROVE  g <= d + w
  OBVIOUS

(* Receiving, being done with units and advertising a higher limit         *)
(* (replenish_data_credit, replenish_streams_credit) appends a limit above *)
(* every one that is on its way.                                           *)
LEMMA CreditReceive == CreditInv /\ C!Receive => CreditInv'
<1> SUFFICES ASSUME CreditInv, C!Receive PROVE CreditInv'
  OBVIOUS
<1>0. Initial \in Nat /\ Window \in Nat
  BY DEF CreditInv, C!CreditAssumption
<1>1. /\ received' \in Nat /\ consumed' \in Nat /\ consumed' <= received'
      /\ received' <= sent' /\ consumed <= consumed'
      /\ sent' = sent /\ limit' = limit
  BY DEF CreditInv, C!TypeOK, C!Receive
<1>2. CASE UNCHANGED << granted, grants >>
  <2>1. C!TypeOK' /\ C!LimitsIncrease'
    BY <1>1, <1>2 DEF CreditInv, C!TypeOK, C!LimitsIncrease
  <2>2. granted' = Initial \/ granted' <= consumed' + Window
    <3>1. consumed \in Nat /\ granted \in Nat /\ granted' = granted
      BY <1>2 DEF CreditInv, C!TypeOK
    <3>2. granted = Initial \/ granted <= consumed + Window
      BY DEF CreditInv
    <3> QED BY <3>1, <3>2, <1>0, <1>1, StillWithin, Zenon
  <2> QED BY <1>1, <1>2, <2>1, <2>2 DEF CreditInv, C!TypeOK
<1>3. CASE /\ consumed' + Window > granted
           /\ granted' = consumed' + Window
           /\ grants' = Append(grants, granted')
  <2>1. granted' \in Nat /\ granted' > granted
    <3>1. granted \in Nat
      BY DEF CreditInv, C!TypeOK
    <3> QED BY <3>1, <1>0, <1>1, <1>3, Raised, Zenon
  <2>2. /\ grants \in Seq(Nat) /\ grants' \in Seq(Nat) /\ Len(grants) \in Nat
        /\ Len(grants') = Len(grants) + 1
        /\ DOMAIN grants' = 1 .. Len(grants) + 1
        /\ DOMAIN grants = 1 .. Len(grants)
        /\ \A i \in 1 .. Len(grants) : grants'[i] = grants[i]
        /\ grants'[Len(grants) + 1] = granted'
    BY <2>1, <1>3 DEF CreditInv, C!TypeOK
  <2>3. C!TypeOK'
    BY <2>1, <2>2, <1>1 DEF CreditInv, C!TypeOK
  <2>4. C!LimitsIncrease'
    <3> SUFFICES ASSUME NEW i \in 1 .. Len(grants) + 1
                 PROVE  grants'[i] > (IF i = 1 THEN limit' ELSE grants'[i - 1])
      BY <2>2, SMTT(30) DEF C!LimitsIncrease
    <3>1. CASE i <= Len(grants)
      <4>1. i \in DOMAIN grants /\ grants'[i] = grants[i]
        BY <3>1, <2>2, SMTT(30)
      <4>2. grants[i] > (IF i = 1 THEN limit ELSE grants[i - 1])
        BY <4>1 DEF CreditInv, C!LimitsIncrease
      <4>3. ASSUME i # 1 PROVE grants'[i - 1] = grants[i - 1]
        <5>1. i - 1 \in 1 .. Len(grants)
          BY <4>3, <3>1, <2>2
        <5> QED BY <5>1, <2>2
      <4> QED BY <4>1, <4>2, <4>3, <1>1
    <3>2. CASE i = Len(grants) + 1
      <4>1. CASE grants = << >>
        BY <4>1, <3>2, <2>1, <2>2, <1>1 DEF CreditInv
      <4>2. CASE grants # << >>
        <5>1. Len(grants) >= 1
          BY <4>2, <2>2, EmptySeq
        <5>2. i # 1 /\ i - 1 = Len(grants) /\ i - 1 \in 1 .. Len(grants)
          BY <5>1, <3>2, <2>2
        <5>3. grants'[i - 1] = granted
          BY <5>2, <4>2, <2>2 DEF CreditInv
        <5> QED BY <5>2, <5>3, <3>2, <2>1, <2>2
      <4> QED BY <4>1, <4>2
    <3> QED BY <3>1, <3>2, <2>2
  <2>5. grants' # << >> /\ grants'[Len(grants')] = granted'
    BY <2>2
  <2>6. \A i \in DOMAIN grants' : grants'[i] <= granted'
    <3> SUFFICES ASSUME NEW i \in 1 .. Len(grants) + 1
                 PROVE  grants'[i] <= granted'
      BY <2>2
    <3>1. CASE i <= Len(grants)
      <4>1. i \in DOMAIN grants /\ grants'[i] = grants[i] /\ grants[i] \in Nat
        BY <3>1, <2>2
      <4> QED BY <4>1, <2>1 DEF CreditInv, C!TypeOK
    <3>2. CASE i = Len(grants) + 1
      BY <3>2, <2>1, <2>2
    <3> QED BY <3>1, <3>2, <2>2
  <2>7. limit' <= granted' /\ sent' <= limit'
    BY <1>1, <2>1 DEF CreditInv, C!TypeOK
  <2>8. granted' <= consumed' + Window
    <3>1. granted \in Nat
      BY DEF CreditInv, C!TypeOK
    <3> QED BY <3>1, <1>0, <1>1, <1>3, Raised, Zenon
  <2> QED
    BY <1>1, <2>3, <2>4, <2>5, <2>6, <2>7, <2>8 DEF CreditInv
<1> QED BY <1>2, <1>3 DEF C!Receive, C!Replenish

(* Every step keeps the invariant. *)
LEMMA CreditNext == CreditInv /\ [C!Next]_(C!vars) => CreditInv'
<1> SUFFICES ASSUME CreditInv, [C!Next]_(C!vars) PROVE CreditInv'
  OBVIOUS
<1>1. CASE C!Send
  BY <1>1, CreditSend
<1>2. CASE C!Accept
  BY <1>2, CreditAccept
<1>3. CASE C!Receive
  BY <1>3, CreditReceive
<1>4. CASE UNCHANGED C!vars
  BY <1>4 DEF CreditInv, C!vars, C!TypeOK, C!LimitsIncrease
<1> QED BY <1>1, <1>2, <1>3, <1>4 DEF C!Next

(* The invariant holds in every state of every behaviour. *)
LEMMA AlwaysCreditInv == C!CreditAssumption /\ C!Spec => []CreditInv
  BY CreditInit, CreditNext, PTL DEF C!Spec

(* Whatever the windows, nothing is spent beyond the limit the receiver    *)
(* enforces in handle_stream_opened and recv_stream_data.                  *)
THEOREM NeverOverspent == C!CreditAssumption /\ C!Spec => []C!WithinGranted
<1>1. CreditInv => C!WithinGranted
  BY DEF CreditInv, C!TypeOK, C!WithinGranted
<1> QED BY <1>1, AlwaysCreditInv, PTL

(* Whatever the windows, recv_capsule never meets a MAX_DATA or            *)
(* MAX_STREAMS that does not increase the limit.                           *)
THEOREM EveryLimitIncreases == C!CreditAssumption /\ C!Spec => []C!LimitsIncrease
<1>1. CreditInv => C!LimitsIncrease
  BY DEF CreditInv
<1> QED BY <1>1, AlwaysCreditInv, PTL

(* The receiver never has more outstanding than the larger of the initial  *)
(* limit and the receive window.                                           *)
THEOREM ReceiverIsBounded == C!CreditAssumption /\ C!Spec => []C!OutstandingBounded
<1>1. CreditInv => C!OutstandingBounded
  BY DEF CreditInv, C!CreditAssumption, C!TypeOK, C!OutstandingBounded
<1> QED BY <1>1, AlwaysCreditInv, PTL
==============================================================================
