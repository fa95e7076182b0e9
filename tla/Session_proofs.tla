---------------------------- MODULE Session_proofs ----------------------------
(***************************************************************************)
(* Module Session for every set of requests and peer streams and every     *)
(* limit: each request is answered exactly once, the buffers are emptied   *)
(* by the replay and by the end of the session, and the events that the    *)
(* application sees are paired.  Everything is proved of the operators on  *)
(* the session record first, since one call runs several of them.          *)
(***************************************************************************)
EXTENDS Session, TLAPS

Datagrams == 1 .. DatagramLimit

(* The session records that are well typed and within their limits.        *)
Records ==
    [state : States,
     pending_capsules : Seq(Capsules), pending_datagrams : Seq(Datagrams),
     pending_datagram_requests : Seq(Requests), pending_streams : Seq(PeerStreams),
     streams : SUBSET (PeerStreams \cup Requests),
     blocked_stream_requests : Seq(Requests),
     opened : Nat, max_streams : Nat,
     creating : Seq(Requests),
     done : [Requests -> Nat], failed : [Requests -> Nat],
     delivered : Seq(Datagrams),
     announced : SUBSET (PeerStreams \cup Requests),
     ended : SUBSET (PeerStreams \cup Requests),
     ready : Nat, draining : Nat, closed : Nat]

Within(w) ==
    /\ Len(w.pending_capsules) <= MaxPendingCapsules
    /\ Len(w.pending_datagrams) <= MaxPendingDatagrams
    /\ Len(w.pending_streams) <= MaxPendingStreams
    /\ w.opened <= w.max_streams

Distinct(q) == \A i, j \in DOMAIN q : q[i] = q[j] => i = j

(* The requests of R are answered once or wait once: in a read of          *)
(* datagrams, for a stream, or for the driver to create it.                *)
Answered(w, R) ==
    LET reading == Range(w.pending_datagram_requests)
        blocked == Range(w.blocked_stream_requests)
        creating == Range(w.creating)
    IN  /\ Distinct(w.pending_datagram_requests)
        /\ Distinct(w.blocked_stream_requests)
        /\ Distinct(w.creating)
        /\ reading \cup blocked \cup creating \subseteq R
        /\ reading \cap blocked = {}
        /\ reading \cap creating = {}
        /\ blocked \cap creating = {}
        /\ \A r \in Requests :
               w.done[r] + w.failed[r] =
                   IF r \in R \ (reading \cup blocked \cup creating) THEN 1 ELSE 0

(* Streams are announced or held back, and ends follow openings; of the    *)
(* peer's streams only those of A have come.                               *)
Paired(w, A) ==
    /\ w.ended \subseteq w.announced
    /\ w.announced \subseteq w.ended \cup w.streams
    /\ w.streams \subseteq w.announced \cup Range(w.pending_streams)
    /\ w.announced \cap Range(w.pending_streams) = {}
    /\ w.announced \cap PeerStreams \subseteq A
    /\ Range(w.pending_streams) \subseteq A

(* The events of the session so far, by its state, and what an ended       *)
(* session holds.                                                          *)
Lifecycle(w) ==
    /\ w.state = "Connecting" => w.ready = 0 /\ w.draining = 0
    /\ w.state = "Connected" => w.ready = 1 /\ w.draining = 0
    /\ w.ready <= 1 /\ w.draining <= w.ready
    /\ w.closed = IF w.state \in {"Closing", "Closed"} THEN 1 ELSE 0
    /\ w.state \in {"Closing", "Closed"} =>
           /\ w.streams = {}
           /\ w.pending_capsules = << >> /\ w.pending_datagrams = << >>
           /\ w.pending_datagram_requests = << >> /\ w.pending_streams = << >>
           /\ w.blocked_stream_requests = << >>

(* What holds of the record within a call, R and A being the requests and  *)
(* streams so far.                                                         *)
Good(w, R, A) ==
    w \in Records /\ Within(w) /\ Answered(w, R) /\ Paired(w, A) /\ Lifecycle(w)

(* Nothing is left for the two loops of the replay.                        *)
Exhausted(w) ==
    /\ w.pending_capsules = << >>
    /\ w.pending_datagrams = << >> \/ w.pending_datagram_requests = << >>

Replayed(w) ==
    w.state = "Connected" => Exhausted(w) /\ w.pending_streams = << >>

(* The inductive invariant: between two calls the replay is complete and   *)
(* the driver has no stream to create.                                     *)
IInv ==
    /\ Good(s, issued, arrived) /\ Replayed(s) /\ s.creating = << >>
    /\ issued \subseteq Requests /\ arrived \subseteq PeerStreams
    /\ datagrams \in 0 .. DatagramLimit

------------------------------------------------------------------------------
(* Facts about small sets and sequences.                                   *)

(* A set of one element has cardinality 1: the recursion that defines it   *)
(* has a solution, and every solution says so.                              *)
LEMMA CardinalityOne == ASSUME NEW i PROVE Cardinality({i}) = 1
<1> DEFINE S == {i}
           Is(f) == f = [T \in SUBSET S |-> IF T = {} THEN 0
                                    ELSE 1 + f[T \ {CHOOSE x : x \in T}]]
           one == [T \in SUBSET S |-> IF T = {} THEN 0 ELSE 1]
<1>1. \A T \in SUBSET S : T = {} \/ T = {i}
    OBVIOUS
<1>2. (CHOOSE x : x \in {i}) = i
    OBVIOUS
<1>3. \A T \in SUBSET S : T # {} => T \ {CHOOSE x : x \in T} = {}
    BY <1>1, <1>2
<1>4. Is(one)
    <2>1. \A T \in SUBSET S : T # {} => one[T \ {CHOOSE x : x \in T}] = 0
        BY <1>3
    <2>2. \A T \in SUBSET S : one[T] = IF T = {} THEN 0
                                    ELSE 1 + one[T \ {CHOOSE x : x \in T}]
        BY <2>1
    <2> QED
        BY <2>2
<1> DEFINE f == CHOOSE g : Is(g)
<1>5. Is(f)
    BY <1>4, Zenon
<1>6. Cardinality(S) = f[S]
    BY DEF Cardinality
<1> HIDE DEF f
<1>7. f[{}] = 0
    BY <1>5
<1>8. f[S] = 1 + f[S \ {CHOOSE x : x \in S}]
    BY <1>5
<1> QED
    BY <1>3, <1>6, <1>7, <1>8

(* The empty set has cardinality 0. *)
LEMMA CardinalityNone == Cardinality({}) = 0
<1> DEFINE Is(f) == f = [T \in SUBSET {} |-> IF T = {} THEN 0
                                    ELSE 1 + f[T \ {CHOOSE x : x \in T}]]
           none == [T \in SUBSET {} |-> 0]
           f == CHOOSE g : Is(g)
<1>1. Is(none)
    <2>1. \A T \in SUBSET {} : T = {}
        OBVIOUS
    <2>2. \A T \in SUBSET {} : 0 = IF T = {} THEN 0
                                    ELSE 1 + none[T \ {CHOOSE x : x \in T}]
        BY <2>1
    <2> QED
        BY <2>2
<1>2. Is(f)
    BY <1>1
<1>3. Cardinality({}) = f[{}]
    BY DEF Cardinality
<1> HIDE DEF f
<1> QED
    BY <1>2, <1>3

Count(q, r) == Cardinality({k \in DOMAIN q : q[k] = r})

(* In a queue without repetitions a request occurs once or not at all. *)
LEMMA CountIs ==
    ASSUME NEW q, NEW r, Distinct(q)
    PROVE  Count(q, r) = IF r \in Range(q) THEN 1 ELSE 0
<1>1. CASE r \in Range(q)
    <2>1. PICK k \in DOMAIN q : q[k] = r
        BY <1>1 DEF Range
    <2>2. {j \in DOMAIN q : q[j] = r} = {k}
        BY <2>1 DEF Distinct
    <2>3. Cardinality({k}) = 1
        BY CardinalityOne, Zenon
    <2> QED
        BY <1>1, <2>2, <2>3 DEF Count
<1>2. CASE r \notin Range(q)
    <2>1. {j \in DOMAIN q : q[j] = r} = {}
        BY <1>2 DEF Range
    <2> QED
        BY <1>2, <2>1, CardinalityNone DEF Count
<1> QED
    BY <1>1, <1>2

(* What an empty queue holds. *)
LEMMA EmptyQueue ==
    /\ Range(<< >>) = {} /\ Distinct(<< >>) /\ Len(<< >>) = 0
    /\ << >> \in Seq(Capsules) /\ << >> \in Seq(Datagrams)
    /\ << >> \in Seq(Requests) /\ << >> \in Seq(PeerStreams)
BY DEF Range, Distinct

(* The length of a queue is a number. *)
LEMMA LenOf == ASSUME NEW S, NEW q \in Seq(S) PROVE Len(q) \in Nat
OBVIOUS

(* A request at the back of a queue. *)
LEMMA AppendQueue ==
    ASSUME NEW S, NEW q \in Seq(S), NEW x \in S
    PROVE  /\ Append(q, x) \in Seq(S) /\ Len(Append(q, x)) = Len(q) + 1
           /\ Range(Append(q, x)) = Range(q) \cup {x}
           /\ Distinct(q) /\ x \notin Range(q) => Distinct(Append(q, x))
<1> DEFINE p == Append(q, x)
<1>1. /\ p \in Seq(S) /\ Len(q) \in Nat /\ Len(p) = Len(q) + 1
      /\ DOMAIN q = 1 .. Len(q) /\ DOMAIN p = 1 .. Len(q) + 1
      /\ p[Len(q) + 1] = x /\ \A k \in 1 .. Len(q) : p[k] = q[k]
    OBVIOUS
<1> HIDE DEF p
<1>2. Range(p) = Range(q) \cup {x}
    BY <1>1 DEF Range
<1>3. Distinct(q) /\ x \notin Range(q) => Distinct(p)
    BY <1>1 DEF Range, Distinct
<1> QED
    BY <1>1, <1>2, <1>3 DEF p

(* The front of a queue and the rest. *)
LEMMA TailQueue ==
    ASSUME NEW S, NEW q \in Seq(S), q # << >>
    PROVE  /\ Head(q) \in S /\ Tail(q) \in Seq(S)
           /\ Len(q) \in Nat /\ Len(q) > 0 /\ Len(Tail(q)) = Len(q) - 1
           /\ Range(q) = Range(Tail(q)) \cup {Head(q)}
           /\ Distinct(q) => Distinct(Tail(q)) /\ Head(q) \notin Range(Tail(q))
<1> DEFINE t == Tail(q)
<1>1. /\ t \in Seq(S) /\ Len(q) \in Nat /\ Len(q) > 0 /\ Len(t) = Len(q) - 1
      /\ DOMAIN q = 1 .. Len(q) /\ DOMAIN t = 1 .. Len(q) - 1
      /\ Head(q) = q[1] /\ Head(q) \in S
      /\ \A k \in 1 .. Len(q) - 1 : t[k] = q[k + 1]
    OBVIOUS
<1> HIDE DEF t
<1>2. Range(q) = Range(t) \cup {Head(q)}
    <2>1. \A k \in DOMAIN q : k = 1 \/ (k - 1 \in DOMAIN t /\ q[k] = t[k - 1])
        BY <1>1
    <2>2. \A k \in DOMAIN t : k + 1 \in DOMAIN q /\ t[k] = q[k + 1]
        BY <1>1
    <2>3. 1 \in DOMAIN q
        BY <1>1
    <2> QED
        BY <1>1, <2>1, <2>2, <2>3, SMTT(30) DEF Range
<1>3. ASSUME Distinct(q) PROVE Distinct(t) /\ Head(q) \notin Range(t)
    <2>1. \A k \in DOMAIN t : /\ k + 1 \in DOMAIN q /\ t[k] = q[k + 1]
                              /\ k \in Nat /\ k + 1 # 1
        BY <1>1
    <2>2. 1 \in DOMAIN q
        BY <1>1
    <2>3. \A i, j \in DOMAIN t : t[i] = t[j] => i + 1 = j + 1
        BY <1>3, <2>1 DEF Distinct
    <2>4. \A k \in DOMAIN t : t[k] # q[1]
        BY <1>3, <2>1, <2>2 DEF Distinct
    <2>5. Distinct(t)
        BY <2>1, <2>3 DEF Distinct
    <2> QED
        BY <1>1, <2>4, <2>5 DEF Range
<1> QED
    BY <1>1, <1>2, <1>3 DEF t

(* A queue cut in two. *)
LEMMA CutQueue ==
    ASSUME NEW S, NEW q \in Seq(S), NEW n \in 0 .. Len(q)
    PROVE  LET a == SubSeq(q, 1, n)
               b == SubSeq(q, n + 1, Len(q))
           IN  /\ a \in Seq(S) /\ b \in Seq(S) /\ Len(a) = n
               /\ Range(q) = Range(a) \cup Range(b)
               /\ Distinct(q) => /\ Distinct(a) /\ Distinct(b)
                                 /\ Range(a) \cap Range(b) = {}
<1> DEFINE a == SubSeq(q, 1, n)
           b == SubSeq(q, n + 1, Len(q))
<1>1. /\ Len(q) \in Nat /\ n \in Nat /\ n <= Len(q) /\ DOMAIN q = 1 .. Len(q)
      /\ \A k \in 1 .. Len(q) : q[k] \in S
    OBVIOUS
<1>2. /\ a \in Seq(S) /\ Len(a) = n /\ DOMAIN a = 1 .. n
      /\ \A k \in 1 .. n : a[k] = q[k]
    BY <1>1
<1>3. /\ b \in Seq(S) /\ Len(b) = Len(q) - n /\ DOMAIN b = 1 .. Len(q) - n
      /\ \A k \in 1 .. Len(q) - n : b[k] = q[n + k]
    <2> DEFINE m == Len(q) - n
    <2>1. m \in Nat /\ Len(q) - (n + 1) + 1 = m /\ n + 1 \in Nat
        BY <1>1
    <2>2. b = [k \in 1 .. m |-> q[n + k]]
        <3>1. \A k \in 1 .. m : (n + 1) + k - 1 = n + k
            BY <1>1, <2>1
        <3> QED
            BY <1>1, <2>1, <3>1
    <2>3. \A k \in 1 .. m : q[n + k] \in S
        BY <1>1, <2>1
    <2> HIDE DEF b, m
    <2>4. b \in Seq(S) /\ Len(b) = m /\ DOMAIN b = 1 .. m
        BY <2>1, <2>2, <2>3
    <2> QED
        BY <2>2, <2>4 DEF m
<1> HIDE DEF a, b
<1>4. /\ \A k \in DOMAIN q : \/ k \in DOMAIN a /\ q[k] = a[k]
                             \/ k - n \in DOMAIN b /\ q[k] = b[k - n]
      /\ \A k \in DOMAIN a : k \in Nat /\ k \in DOMAIN q /\ a[k] = q[k]
      /\ \A k \in DOMAIN b : k \in Nat /\ n + k \in DOMAIN q /\ b[k] = q[n + k]
      /\ \A k \in DOMAIN a, j \in DOMAIN b : k # n + j
    <2>1. \A k \in DOMAIN q : \/ k \in DOMAIN a /\ q[k] = a[k]
                              \/ k - n \in DOMAIN b /\ q[k] = b[k - n]
        <3> TAKE k \in DOMAIN q
        <3>1. CASE k <= n
            <4>1. k \in 1 .. n
                BY <1>1, <3>1
            <4> QED
                BY <1>2, <4>1
        <3>2. CASE k > n
            <4>1. k - n \in 1 .. Len(q) - n /\ n + (k - n) = k
                BY <1>1, <3>2
            <4> QED
                BY <1>3, <4>1
        <3> QED
            BY <1>1, <3>1, <3>2
    <2>2. \A k \in DOMAIN a : k \in Nat /\ k \in DOMAIN q /\ a[k] = q[k]
        BY <1>1, <1>2
    <2>3. \A k \in DOMAIN b : k \in Nat /\ n + k \in DOMAIN q /\ b[k] = q[n + k]
        BY <1>1, <1>3
    <2>4. \A k \in DOMAIN a, j \in DOMAIN b : k # n + j
        BY <1>1, <1>2, <1>3
    <2> QED
        BY <2>1, <2>2, <2>3, <2>4
<1>5. Range(q) = Range(a) \cup Range(b)
    BY <1>4 DEF Range
<1>6. ASSUME Distinct(q)
      PROVE  Distinct(a) /\ Distinct(b) /\ Range(a) \cap Range(b) = {}
    <2>1. Distinct(a)
        BY <1>4, <1>6 DEF Distinct
    <2>2. \A i, j \in DOMAIN b : b[i] = b[j] => n + i = n + j
        BY <1>4, <1>6 DEF Distinct
    <2>3. Distinct(b)
        BY <1>1, <1>4, <2>2 DEF Distinct
    <2>4. \A k \in DOMAIN a, j \in DOMAIN b : a[k] # b[j]
        BY <1>4, <1>6 DEF Distinct
    <2> QED
        BY <2>1, <2>3, <2>4 DEF Range
<1> QED
    BY <1>2, <1>3, <1>5, <1>6 DEF a, b

(* One queue behind another. *)
LEMMA JoinQueues ==
    ASSUME NEW S, NEW p \in Seq(S), NEW q \in Seq(S)
    PROVE  /\ p \o q \in Seq(S)
           /\ Range(p \o q) = Range(p) \cup Range(q)
           /\ Distinct(p) /\ Distinct(q) /\ Range(p) \cap Range(q) = {}
                  => Distinct(p \o q)
<1> DEFINE c == p \o q
           n == Len(p)
<1>1. /\ c \in Seq(S) /\ n \in Nat /\ Len(q) \in Nat /\ Len(c) = n + Len(q)
      /\ DOMAIN p = 1 .. n /\ DOMAIN q = 1 .. Len(q) /\ DOMAIN c = 1 .. n + Len(q)
      /\ \A k \in 1 .. n : c[k] = p[k]
      /\ \A k \in 1 .. Len(q) : c[n + k] = q[k]
    OBVIOUS
<1> HIDE DEF c, n
<1>2. \A k \in DOMAIN c : \/ k \in DOMAIN p /\ c[k] = p[k]
                          \/ k - n \in DOMAIN q /\ c[k] = q[k - n]
    <2> TAKE k \in DOMAIN c
    <2>1. CASE k <= n
        <3>1. k \in 1 .. n
            BY <1>1, <2>1
        <3> QED
            BY <1>1, <3>1
    <2>2. CASE k > n
        <3>1. k - n \in 1 .. Len(q) /\ n + (k - n) = k
            BY <1>1, <2>2
        <3> QED
            BY <1>1, <3>1
    <2> QED
        BY <1>1, <2>1, <2>2
<1>3. /\ \A k \in DOMAIN p : k \in DOMAIN c /\ c[k] = p[k]
      /\ \A k \in DOMAIN q : n + k \in DOMAIN c /\ c[n + k] = q[k]
    BY <1>1
<1>4. Range(c) = Range(p) \cup Range(q)
    BY <1>2, <1>3 DEF Range
<1>5. ASSUME Distinct(p), Distinct(q), Range(p) \cap Range(q) = {}
      PROVE  Distinct(c)
    <2>1. \A i \in DOMAIN p, j \in DOMAIN q : p[i] # q[j]
        BY <1>5 DEF Range
    <2>2. \A i, j \in DOMAIN c : c[i] = c[j] => i = j \/ i - n = j - n
        BY <1>2, <1>5, <2>1 DEF Distinct
    <2>3. \A i, j \in DOMAIN c : i - n = j - n => i = j
        BY <1>1
    <2> QED
        BY <2>2, <2>3 DEF Distinct
<1> QED
    BY <1>1, <1>4, <1>5 DEF c

------------------------------------------------------------------------------
(* The operators that end a session.                                       *)

(* The types of the fields of a record. *)
LEMMA Fields ==
    ASSUME NEW w \in Records
    PROVE  /\ w.state \in States
           /\ w.pending_capsules \in Seq(Capsules)
           /\ w.pending_datagrams \in Seq(Datagrams)
           /\ w.pending_datagram_requests \in Seq(Requests)
           /\ w.pending_streams \in Seq(PeerStreams)
           /\ w.streams \in SUBSET (PeerStreams \cup Requests)
           /\ w.blocked_stream_requests \in Seq(Requests)
           /\ w.opened \in Nat /\ w.max_streams \in Nat
           /\ w.creating \in Seq(Requests)
           /\ w.done \in [Requests -> Nat] /\ w.failed \in [Requests -> Nat]
           /\ w.delivered \in Seq(Datagrams)
           /\ w.announced \in SUBSET (PeerStreams \cup Requests)
           /\ w.ended \in SUBSET (PeerStreams \cup Requests)
           /\ w.ready \in Nat /\ w.draining \in Nat /\ w.closed \in Nat
BY SMTT(30) DEF Records

(* FailAll counts one failure for each request of a queue. *)
LEMMA FailAllIs ==
    ASSUME NEW w \in Records, NEW q \in Seq(Requests), Distinct(q)
    PROVE  FailAll(w, q) =
               [w EXCEPT !.failed = [r \in Requests |->
                    w.failed[r] + (IF r \in Range(q) THEN 1 ELSE 0)]]
<1>1. \A r \in Requests :
          Cardinality({k \in DOMAIN q : q[k] = r}) = IF r \in Range(q) THEN 1 ELSE 0
    BY CountIs DEF Count
<1> QED
    BY <1>1, Zenon DEF FailAll, Records

(* Terminate answers what waits, drops the streams and empties the buffers. *)
LEMMA TerminateIs ==
    ASSUME NEW w \in Records, NEW st \in States,
           Distinct(w.blocked_stream_requests), Distinct(w.pending_datagram_requests)
    PROVE  LET o == Terminate(w, st)
           IN  /\ o \in Records
               /\ o.state = st /\ o.streams = {} /\ o.closed = w.closed + 1
               /\ o.pending_capsules = << >> /\ o.pending_datagrams = << >>
               /\ o.pending_datagram_requests = << >> /\ o.pending_streams = << >>
               /\ o.blocked_stream_requests = << >>
               /\ o.opened = w.opened /\ o.max_streams = w.max_streams
               /\ o.creating = w.creating /\ o.done = w.done
               /\ o.announced = w.announced
               /\ o.ended = w.ended \cup (w.streams \ Range(w.pending_streams))
               /\ o.ready = w.ready /\ o.draining = w.draining
               /\ \A r \in Requests : o.failed[r] =
                      w.failed[r]
                      + (IF r \in Range(w.blocked_stream_requests) THEN 1 ELSE 0)
                      + (IF r \in Range(w.pending_datagram_requests) THEN 1 ELSE 0)
<1> DEFINE f1 == [r \in Requests |-> w.failed[r]
                    + (IF r \in Range(w.blocked_stream_requests) THEN 1 ELSE 0)]
           a == AbortStreams(w)
           f2 == [r \in Requests |-> f1[r]
                    + (IF r \in Range(w.pending_datagram_requests) THEN 1 ELSE 0)]
           o == Terminate(w, st)
<1>1. /\ w.blocked_stream_requests \in Seq(Requests)
      /\ w.pending_datagram_requests \in Seq(Requests)
      /\ w.failed \in [Requests -> Nat]
    BY DEF Records
<1>2. f1 \in [Requests -> Nat] /\ f2 \in [Requests -> Nat]
    BY <1>1
<1> HIDE DEF f1, f2
<1>3. FailAll(w, w.blocked_stream_requests) = [w EXCEPT !.failed = f1]
    BY <1>1, FailAllIs, Zenon DEF f1
<1>4. a = [w EXCEPT !.failed = f1, !.streams = {},
                    !.ended = @ \cup (w.streams \ Range(w.pending_streams)),
                    !.pending_streams = << >>, !.blocked_stream_requests = << >>]
    BY <1>3 DEF AbortStreams, Records
<1>5. /\ a \in Records /\ a.failed = f1
      /\ w.ended \cup (w.streams \ Range(w.pending_streams))
             \in SUBSET (PeerStreams \cup Requests)
    <2>1. w.ended \cup (w.streams \ Range(w.pending_streams))
              \in SUBSET (PeerStreams \cup Requests)
        BY DEF Records
    <2> QED
        BY <1>2, <1>4, <2>1, EmptyQueue, ZenonT(60) DEF Records
<1>6. FailAll(a, w.pending_datagram_requests) = [a EXCEPT !.failed = f2]
    <2>1. FailAll(a, w.pending_datagram_requests) =
             [a EXCEPT !.failed = [r \in Requests |->
                  a.failed[r]
                  + (IF r \in Range(w.pending_datagram_requests) THEN 1 ELSE 0)]]
        BY ONLY <1>1, <1>5, FailAllIs, Distinct(w.pending_datagram_requests), Zenon
    <2> QED
        BY <1>5, <2>1 DEF f2
<1> DEFINE b == [a EXCEPT !.failed = f2]
<1>7. /\ b \in Records /\ b.failed = f2
      /\ b.opened = w.opened /\ b.max_streams = w.max_streams
      /\ b.creating = w.creating /\ b.done = w.done
      /\ b.announced = w.announced /\ b.streams = {} /\ b.closed = w.closed
      /\ b.ended = w.ended \cup (w.streams \ Range(w.pending_streams))
      /\ b.ready = w.ready /\ b.draining = w.draining
      /\ b.pending_streams = << >> /\ b.blocked_stream_requests = << >>
    BY <1>2, <1>4, <1>5, ZenonT(60) DEF Records
<1>8. o = [b EXCEPT !.state = st, !.pending_capsules = << >>,
                    !.pending_datagrams = << >>, !.pending_datagram_requests = << >>,
                    !.closed = @ + 1]
    BY <1>6 DEF Terminate
<1> HIDE DEF o, a, b
<1>9. o \in Records
    <2>1. b.closed \in Nat
        BY ONLY <1>7, Fields
    <2>2. b.closed + 1 \in Nat
        BY <2>1
    <2> QED
        BY <1>7, <1>8, <2>2, EmptyQueue, ZenonT(60) DEF Records
<1>10. /\ o.state = st /\ o.streams = {} /\ o.closed = w.closed + 1
       /\ o.pending_capsules = << >> /\ o.pending_datagrams = << >>
       /\ o.pending_datagram_requests = << >> /\ o.pending_streams = << >>
       /\ o.blocked_stream_requests = << >>
       /\ o.opened = w.opened /\ o.max_streams = w.max_streams
       /\ o.creating = w.creating /\ o.done = w.done
       /\ o.announced = w.announced
       /\ o.ended = w.ended \cup (w.streams \ Range(w.pending_streams))
       /\ o.ready = w.ready /\ o.draining = w.draining
       /\ o.failed = f2
    BY <1>7, <1>8, Zenon DEF Records
<1>11. \A r \in Requests : o.failed[r] =
                      w.failed[r]
                      + (IF r \in Range(w.blocked_stream_requests) THEN 1 ELSE 0)
                      + (IF r \in Range(w.pending_datagram_requests) THEN 1 ELSE 0)
    BY <1>10 DEF f1, f2
<1> QED
    BY <1>9, <1>10, <1>11 DEF o

(* An ending session keeps every promise, and is over. *)
LEMMA TerminateGood ==
    ASSUME NEW w, NEW R, NEW A, Good(w, R, A), w.state \in Live,
           NEW st \in {"Closing", "Closed"}
    PROVE  /\ Good(Terminate(w, st), R, A)
           /\ Terminate(w, st).state = st /\ Terminate(w, st).creating = w.creating
<1> DEFINE o == Terminate(w, st)
           reading == Range(w.pending_datagram_requests)
           blocked == Range(w.blocked_stream_requests)
           creating == Range(w.creating)
<1>1. /\ w \in Records /\ st \in States
      /\ Distinct(w.blocked_stream_requests) /\ Distinct(w.pending_datagram_requests)
    BY DEF Good, Answered, States
<1>2. /\ o \in Records
      /\ o.state = st /\ o.streams = {} /\ o.closed = w.closed + 1
      /\ o.pending_capsules = << >> /\ o.pending_datagrams = << >>
      /\ o.pending_datagram_requests = << >> /\ o.pending_streams = << >>
      /\ o.blocked_stream_requests = << >>
      /\ o.opened = w.opened /\ o.max_streams = w.max_streams
      /\ o.creating = w.creating /\ o.done = w.done
      /\ o.announced = w.announced
      /\ o.ended = w.ended \cup (w.streams \ Range(w.pending_streams))
      /\ o.ready = w.ready /\ o.draining = w.draining
      /\ \A r \in Requests : o.failed[r] =
             w.failed[r] + (IF r \in blocked THEN 1 ELSE 0)
             + (IF r \in reading THEN 1 ELSE 0)
    BY <1>1, TerminateIs
<1> HIDE DEF o
<1>3. Within(o)
    BY <1>2, EmptyQueue, SessionAssumption DEF Good, Within
<1>4. Answered(o, R)
    <2>1. /\ Distinct(w.creating) /\ creating \subseteq R
          /\ reading \subseteq R /\ blocked \subseteq R
          /\ reading \cap blocked = {} /\ reading \cap creating = {}
          /\ blocked \cap creating = {}
          /\ \A r \in Requests :
                 w.done[r] + w.failed[r] =
                     IF r \in R \ (reading \cup blocked \cup creating) THEN 1 ELSE 0
        BY DEF Good, Answered
    <2>2. \A r \in Requests : w.done[r] \in Nat /\ w.failed[r] \in Nat
        BY <1>1, Fields
    <2> HIDE DEF reading, blocked, creating
    <2>3. \A r \in Requests :
              o.done[r] + o.failed[r] = IF r \in R \ creating THEN 1 ELSE 0
        <3> TAKE r \in Requests
        <3>1. CASE r \in blocked
            <4>1. r \notin reading /\ r \notin creating /\ r \in R
                BY <2>1, <3>1
            <4>2. w.done[r] + w.failed[r] = 0
                BY <2>1, <3>1
            <4>3. o.failed[r] = w.failed[r] + 1 + 0 /\ o.done[r] = w.done[r]
                BY <1>2, <3>1, <4>1
            <4> QED
                BY <2>2, <4>1, <4>2, <4>3
        <3>2. CASE r \in reading
            <4>1. r \notin blocked /\ r \notin creating /\ r \in R
                BY <2>1, <3>2
            <4>2. w.done[r] + w.failed[r] = 0
                BY <2>1, <3>2
            <4>3. o.failed[r] = w.failed[r] + 0 + 1 /\ o.done[r] = w.done[r]
                BY <1>2, <3>2, <4>1
            <4> QED
                BY <2>2, <4>1, <4>2, <4>3
        <3>3. CASE r \notin blocked /\ r \notin reading
            BY <1>2, <2>1, <2>2, <3>3
        <3> QED
            BY <3>1, <3>2, <3>3
    <2>4. {} \cup {} \cup creating = creating
        OBVIOUS
    <2> QED
        BY <1>2, <2>1, <2>3, <2>4, EmptyQueue DEF Answered, creating
<1>5. Paired(o, A)
    BY <1>2, EmptyQueue DEF Good, Paired
<1>6. Lifecycle(o)
    <2>1. w.closed = 0 /\ w.ready <= 1 /\ w.draining <= w.ready
        BY DEF Good, Lifecycle, Live
    <2> QED
        BY <1>2, <2>1 DEF Lifecycle
<1> QED
    BY <1>2, <1>3, <1>4, <1>5, <1>6 DEF Good, o

(* A session that is aborted is over, and one that is over is left alone. *)
LEMMA AbortGood ==
    ASSUME NEW w, NEW R, NEW A, Good(w, R, A)
    PROVE  /\ Good(Abort(w), R, A)
           /\ Abort(w).state \in {"Closing", "Closed"}
           /\ Abort(w).creating = w.creating
<1>1. w.state \in Live \/ w.state \in {"Closing", "Closed"}
    BY Fields DEF Good, States
<1>2. CASE w.state \in {"Closing", "Closed"}
    BY <1>2 DEF Abort
<1>3. CASE w.state \in Live
    <2>1. Abort(w) = Terminate(w, "Closed")
        BY <1>3 DEF Abort, Live
    <2> QED
        BY <1>3, <2>1, TerminateGood
<1> QED
    BY <1>1, <1>2, <1>3

------------------------------------------------------------------------------
(* Capsules and datagrams.                                                 *)

(* Two records hold the same for the replay. *)
SameQueues(o, w) ==
    /\ o.pending_capsules = w.pending_capsules
    /\ o.pending_datagrams = w.pending_datagrams
    /\ o.pending_datagram_requests = w.pending_datagram_requests
    /\ o.pending_streams = w.pending_streams

(* A higher limit breaks nothing. *)
LEMMA RaiseLimitGood ==
    ASSUME NEW w, NEW R, NEW A, Good(w, R, A)
    PROVE  LET o == [w EXCEPT !.max_streams = @ + 1]
           IN  Good(o, R, A) /\ o.state = w.state /\ SameQueues(o, w)
<1> DEFINE o == [w EXCEPT !.max_streams = @ + 1]
<1>1. w \in Records /\ w.max_streams \in Nat /\ w.opened \in Nat
    BY Fields DEF Good
<1>2. /\ o \in Records /\ o.max_streams = w.max_streams + 1
      /\ o.state = w.state /\ SameQueues(o, w)
      /\ o.streams = w.streams /\ o.blocked_stream_requests = w.blocked_stream_requests
      /\ o.opened = w.opened /\ o.creating = w.creating
      /\ o.done = w.done /\ o.failed = w.failed
      /\ o.announced = w.announced /\ o.ended = w.ended
      /\ o.ready = w.ready /\ o.draining = w.draining /\ o.closed = w.closed
    <2>1. w.max_streams + 1 \in Nat
        BY <1>1
    <2> QED
        BY <1>1, <2>1, Zenon DEF Records, SameQueues
<1> HIDE DEF o
<1>3. Within(o)
    BY <1>1, <1>2 DEF Good, Within, SameQueues
<1>4. Answered(o, R)
    BY <1>2 DEF Good, Answered, SameQueues
<1>5. Paired(o, A) /\ Lifecycle(o)
    BY <1>2 DEF Good, Paired, Lifecycle, SameQueues
<1> QED
    BY <1>2, <1>3, <1>4, <1>5 DEF Good, o

(* Requests for streams go from the queue to the driver in their order. *)
LEMMA FlushGood ==
    ASSUME NEW w, NEW R, NEW A, Good(w, R, A)
    PROVE  LET o == FlushBlockedStreamRequests(w)
           IN  Good(o, R, A) /\ o.state = w.state /\ SameQueues(o, w)
<1> DEFINE o == FlushBlockedStreamRequests(w)
           queue == w.blocked_stream_requests
           room == w.max_streams - w.opened
           n == IF Len(queue) < room THEN Len(queue) ELSE room
           a == SubSeq(queue, 1, n)
           b == SubSeq(queue, n + 1, Len(queue))
           c == w.creating \o a
           reading == Range(w.pending_datagram_requests)
<1>1. /\ w \in Records /\ w.max_streams \in Nat /\ w.opened \in Nat
      /\ w.opened <= w.max_streams
      /\ queue \in Seq(Requests) /\ w.creating \in Seq(Requests)
    BY Fields DEF Good, Within
<1>2. n \in 0 .. Len(queue) /\ w.opened + n <= w.max_streams /\ w.opened + n \in Nat
    BY <1>1, SMTT(30)
<1>3. /\ Distinct(queue) /\ Distinct(w.creating)
      /\ Distinct(w.pending_datagram_requests)
      /\ reading \cup Range(queue) \cup Range(w.creating) \subseteq R
      /\ reading \cap Range(queue) = {} /\ reading \cap Range(w.creating) = {}
      /\ Range(queue) \cap Range(w.creating) = {}
      /\ \A r \in Requests :
             w.done[r] + w.failed[r] =
                 IF r \in R \ (reading \cup Range(queue) \cup Range(w.creating))
                 THEN 1 ELSE 0
    BY DEF Good, Answered
<1> HIDE DEF n, queue
<1>4. /\ a \in Seq(Requests) /\ b \in Seq(Requests)
      /\ Range(queue) = Range(a) \cup Range(b)
      /\ Distinct(a) /\ Distinct(b) /\ Range(a) \cap Range(b) = {}
    BY <1>1, <1>2, <1>3, CutQueue
<1> HIDE DEF a, b
<1>5. /\ c \in Seq(Requests) /\ Range(c) = Range(w.creating) \cup Range(a)
      /\ Distinct(c)
    <2>1. Range(w.creating) \cap Range(a) = {}
        BY <1>3, <1>4
    <2> QED
        BY <1>1, <1>3, <1>4, <2>1, JoinQueues
<1> HIDE DEF c
<1>6. o = [w EXCEPT !.opened = w.opened + n, !.creating = c,
                    !.blocked_stream_requests = b]
    BY <1>1 DEF FlushBlockedStreamRequests, n, queue, a, b, c, Records
<1> HIDE DEF o
<1>7. /\ o \in Records /\ o.opened = w.opened + n /\ o.creating = c
      /\ o.blocked_stream_requests = b
      /\ o.state = w.state /\ SameQueues(o, w)
      /\ o.streams = w.streams /\ o.max_streams = w.max_streams
      /\ o.done = w.done /\ o.failed = w.failed
      /\ o.announced = w.announced /\ o.ended = w.ended
      /\ o.ready = w.ready /\ o.draining = w.draining /\ o.closed = w.closed
    BY <1>1, <1>2, <1>4, <1>5, <1>6, Zenon DEF Records, SameQueues
<1>8. Within(o)
    BY <1>2, <1>7 DEF Good, Within, SameQueues
<1>9. Answered(o, R)
    <2>1. /\ reading \cup Range(b) \cup Range(c)
                 = reading \cup Range(queue) \cup Range(w.creating)
          /\ reading \cap Range(b) = {} /\ reading \cap Range(c) = {}
          /\ Range(b) \cap Range(c) = {}
        BY <1>3, <1>4, <1>5
    <2> QED
        BY <1>3, <1>4, <1>5, <1>7, <2>1 DEF Answered, SameQueues
<1>10. Paired(o, A)
    BY <1>7 DEF Good, Paired, SameQueues
<1>11. Lifecycle(o)
    <2>1. w.state \in {"Closing", "Closed"} => b = << >>
        <3>1. ASSUME w.state \in {"Closing", "Closed"} PROVE b = << >>
            <4>1. queue = << >>
                BY <3>1 DEF Good, Lifecycle, queue
            <4>2. Range(b) = {}
                BY <1>4, <4>1, EmptyQueue
            <4> QED
                BY <1>4, <4>2 DEF Range
        <3> QED
            BY <3>1
    <2> QED
        BY <1>7, <2>1 DEF Good, Lifecycle, SameQueues
<1> QED
    BY <1>7, <1>8, <1>9, <1>10, <1>11 DEF Good, o

(* A capsule keeps every promise: it is buffered, ends the session, starts *)
(* draining or releases requests.  A session is connected after it only if *)
(* it was before, and then its buffers are as they were.                   *)
LEMMA RecvCapsuleGood ==
    ASSUME NEW w, NEW R, NEW A, Good(w, R, A), NEW c \in Capsules
    PROVE  LET o == RecvCapsule(w, c)
           IN  /\ Good(o, R, A)
               /\ o.state = "Connected" => w.state = "Connected" /\ SameQueues(o, w)
<1> DEFINE o == RecvCapsule(w, c)
<1>1. w \in Records /\ w.state \in States /\ w.pending_capsules \in Seq(Capsules)
    BY Fields DEF Good
<1>2. CASE w.state = "Connecting" /\ Len(w.pending_capsules) >= MaxPendingCapsules
    <2>1. o = Abort(w)
        BY <1>2 DEF RecvCapsule
    <2> HIDE DEF o
    <2> QED
        BY <2>1, AbortGood DEF o
<1>3. CASE w.state = "Connecting" /\ ~(Len(w.pending_capsules) >= MaxPendingCapsules)
    <2> DEFINE q == Append(w.pending_capsules, c)
    <2>1. q \in Seq(Capsules) /\ Len(q) = Len(w.pending_capsules) + 1
        BY <1>1, AppendQueue
    <2>2. Len(q) <= MaxPendingCapsules
        BY <1>1, <1>3, <2>1, SessionAssumption
    <2>3. o = [w EXCEPT !.pending_capsules = q]
        BY <1>3 DEF RecvCapsule
    <2> HIDE DEF q, o
    <2>4. /\ o \in Records /\ o.pending_capsules = q /\ o.state = w.state
          /\ o.pending_datagrams = w.pending_datagrams
          /\ o.pending_datagram_requests = w.pending_datagram_requests
          /\ o.pending_streams = w.pending_streams
          /\ o.streams = w.streams
          /\ o.blocked_stream_requests = w.blocked_stream_requests
          /\ o.opened = w.opened /\ o.max_streams = w.max_streams
          /\ o.creating = w.creating /\ o.done = w.done /\ o.failed = w.failed
          /\ o.announced = w.announced /\ o.ended = w.ended
          /\ o.ready = w.ready /\ o.draining = w.draining /\ o.closed = w.closed
        BY <1>1, <2>1, <2>3, Zenon DEF Records
    <2>5. Within(o)
        BY <2>2, <2>4 DEF Good, Within
    <2>6. Answered(o, R)
        BY <2>4 DEF Good, Answered
    <2>7. Paired(o, A)
        BY <2>4 DEF Good, Paired
    <2>8. Lifecycle(o)
        BY <1>3, <2>4 DEF Good, Lifecycle
    <2> QED
        BY <1>3, <2>4, <2>5, <2>6, <2>7, <2>8 DEF Good, o
<1>4. CASE w.state \in {"Closing", "Closed"}
    BY <1>4 DEF RecvCapsule, SameQueues
<1>5. CASE w.state \in {"Connected", "Draining"} /\ c = "MALFORMED"
    <2>1. o = Abort(w)
        BY <1>5 DEF RecvCapsule
    <2> HIDE DEF o
    <2> QED
        BY <2>1, AbortGood DEF o
<1>6. CASE w.state \in {"Connected", "Draining"} /\ c = "CLOSE_SESSION"
    <2>1. o = Terminate(w, "Closed")
        BY <1>6 DEF RecvCapsule
    <2>2. w.state \in Live
        BY <1>6 DEF Live
    <2> HIDE DEF o
    <2> QED
        BY <2>1, <2>2, TerminateGood DEF o
<1>7. CASE w.state = "Connected" /\ c = "DRAIN_SESSION"
    <2>1. o = [w EXCEPT !.state = "Draining", !.draining = @ + 1]
        BY <1>7 DEF RecvCapsule
    <2> HIDE DEF o
    <2>2. w.ready = 1 /\ w.draining = 0 /\ w.closed = 0
        BY <1>7 DEF Good, Lifecycle
    <2>3. /\ o \in Records /\ o.state = "Draining" /\ o.draining = 1
          /\ SameQueues(o, w) /\ o.streams = w.streams
          /\ o.blocked_stream_requests = w.blocked_stream_requests
          /\ o.opened = w.opened /\ o.max_streams = w.max_streams
          /\ o.creating = w.creating /\ o.done = w.done /\ o.failed = w.failed
          /\ o.announced = w.announced /\ o.ended = w.ended
          /\ o.ready = w.ready /\ o.closed = w.closed
        <3>1. "Draining" \in States /\ 0 + 1 \in Nat /\ 0 + 1 = 1
            BY DEF States, Live
        <3>2. o = [w EXCEPT !.state = "Draining", !.draining = 1]
            BY <1>1, <2>1, <2>2, <3>1 DEF Records
        <3> QED
            BY <1>1, <3>1, <3>2, ZenonT(60) DEF Records, SameQueues
    <2>4. Within(o)
        BY <2>3 DEF Good, Within, SameQueues
    <2>5. Answered(o, R)
        BY <2>3 DEF Good, Answered, SameQueues
    <2>6. Paired(o, A)
        BY <2>3 DEF Good, Paired, SameQueues
    <2>7. Lifecycle(o)
        BY <2>2, <2>3 DEF Lifecycle
    <2> QED
        BY <2>3, <2>4, <2>5, <2>6, <2>7 DEF Good, o
<1>8. CASE w.state = "Draining" /\ c = "DRAIN_SESSION"
    BY <1>8 DEF RecvCapsule, SameQueues
<1>9. CASE w.state \in {"Connected", "Draining"} /\ c = "MAX_STREAMS"
    <2> DEFINE v == [w EXCEPT !.max_streams = @ + 1]
    <2>1. o = FlushBlockedStreamRequests(v)
        BY <1>9 DEF RecvCapsule
    <2>2. Good(v, R, A) /\ v.state = w.state /\ SameQueues(v, w)
        BY RaiseLimitGood
    <2> HIDE DEF v, o
    <2>3. Good(o, R, A) /\ o.state = v.state /\ SameQueues(o, v)
        BY <2>1, <2>2, FlushGood
    <2>4. SameQueues(o, w)
        BY <2>2, <2>3 DEF SameQueues
    <2> QED
        BY <2>2, <2>3, <2>4 DEF o
<1> QED
    BY <1>1, <1>2, <1>3, <1>4, <1>5, <1>6, <1>7, <1>8, <1>9
        DEF Capsules, States, Live

(* A read takes a datagram from the front of the queue, and is answered. *)
LEMMA DeliverGood ==
    ASSUME NEW w, NEW R, NEW A, Good(w, R, A), NEW d \in Datagrams,
           w.pending_datagram_requests # << >>
    PROVE  LET v == [w EXCEPT !.pending_datagram_requests = Tail(@),
                              !.delivered = Append(@, d)]
               o == Done(v, Head(w.pending_datagram_requests))
           IN  /\ Good(o, R, A) /\ o.state = w.state /\ o.creating = w.creating
               /\ o.pending_capsules = w.pending_capsules
               /\ o.pending_streams = w.pending_streams
               /\ o.pending_datagrams = w.pending_datagrams
<1> DEFINE q == w.pending_datagram_requests
           x == Head(q)
           t == Tail(q)
           e == Append(w.delivered, d)
           f == [w.done EXCEPT ![x] = @ + 1]
           v == [w EXCEPT !.pending_datagram_requests = Tail(@),
                          !.delivered = Append(@, d)]
           o == Done(v, x)
<1>1. /\ w \in Records /\ q \in Seq(Requests) /\ w.delivered \in Seq(Datagrams)
      /\ w.done \in [Requests -> Nat] /\ w.failed \in [Requests -> Nat]
    BY Fields DEF Good
<1>2. /\ Distinct(q) /\ Distinct(w.creating) /\ Distinct(w.blocked_stream_requests)
      /\ Range(q) \cup Range(w.blocked_stream_requests) \cup Range(w.creating) \subseteq R
      /\ Range(q) \cap Range(w.blocked_stream_requests) = {}
      /\ Range(q) \cap Range(w.creating) = {}
      /\ Range(w.blocked_stream_requests) \cap Range(w.creating) = {}
      /\ \A r \in Requests :
             w.done[r] + w.failed[r] =
                 IF r \in R \ (Range(q) \cup Range(w.blocked_stream_requests)
                                   \cup Range(w.creating))
                 THEN 1 ELSE 0
    BY DEF Good, Answered
<1>3. /\ x \in Requests /\ t \in Seq(Requests) /\ Range(q) = Range(t) \cup {x}
      /\ Distinct(t) /\ x \notin Range(t)
    BY <1>1, <1>2, TailQueue, SMTT(30)
<1>4. e \in Seq(Datagrams) /\ f \in [Requests -> Nat]
    BY <1>1, <1>3
<1>5. o = [w EXCEPT !.pending_datagram_requests = t, !.delivered = e, !.done = f]
    BY <1>1 DEF Done, Records
<1> HIDE DEF q, x, t, e, f, v, o
<1>6. /\ o \in Records /\ o.pending_datagram_requests = t /\ o.done = f
      /\ o.state = w.state /\ o.pending_capsules = w.pending_capsules
      /\ o.pending_datagrams = w.pending_datagrams
      /\ o.pending_streams = w.pending_streams /\ o.streams = w.streams
      /\ o.blocked_stream_requests = w.blocked_stream_requests
      /\ o.opened = w.opened /\ o.max_streams = w.max_streams
      /\ o.creating = w.creating /\ o.failed = w.failed
      /\ o.announced = w.announced /\ o.ended = w.ended
      /\ o.ready = w.ready /\ o.draining = w.draining /\ o.closed = w.closed
    BY <1>1, <1>3, <1>4, <1>5, Zenon DEF Records
<1>7. Within(o)
    BY <1>6 DEF Good, Within
<1>8. Answered(o, R)
    <2> DEFINE held == Range(w.blocked_stream_requests) \cup Range(w.creating)
    <2>1. \A r \in Requests :
              o.done[r] + o.failed[r] = IF r \in R \ (Range(t) \cup held) THEN 1 ELSE 0
        <3> TAKE r \in Requests
        <3>1. w.done[r] \in Nat /\ w.failed[r] \in Nat
            BY <1>1
        <3>2. w.done[r] + w.failed[r] =
                  IF r \in R \ (Range(t) \cup {x} \cup held) THEN 1 ELSE 0
            BY <1>2, <1>3
        <3>3. CASE r = x
            <4>1. x \in R /\ x \notin Range(t) /\ x \notin held
                BY <1>2, <1>3
            <4>2. o.done[r] = w.done[r] + 1 /\ o.failed[r] = w.failed[r]
                BY <1>1, <1>6, <3>3 DEF f
            <4> HIDE DEF held
            <4> QED
                BY <3>1, <3>2, <3>3, <4>1, <4>2
        <3>4. CASE r # x
            <4>1. o.done[r] = w.done[r] /\ o.failed[r] = w.failed[r]
                BY <1>1, <1>6, <3>4 DEF f
            <4> HIDE DEF held
            <4> QED
                BY <3>1, <3>2, <3>4, <4>1
        <3> QED
            BY <3>3, <3>4
    <2>2. /\ Range(t) \cap Range(w.blocked_stream_requests) = {}
          /\ Range(t) \cap Range(w.creating) = {}
          /\ Range(t) \cup Range(w.blocked_stream_requests) \cup Range(w.creating)
                 \subseteq R
          /\ Range(t) \cup Range(w.blocked_stream_requests) \cup Range(w.creating)
                 = Range(t) \cup held
        BY <1>2, <1>3
    <2> HIDE DEF held
    <2> QED
        BY <1>2, <1>3, <1>6, <2>1, <2>2 DEF Answered
<1>9. Paired(o, A)
    BY <1>6 DEF Good, Paired
<1>10. Lifecycle(o)
    <2>1. w.state \notin {"Closing", "Closed"}
        BY DEF Good, Lifecycle
    <2> QED
        BY <1>6, <2>1 DEF Good, Lifecycle
<1> QED
    BY <1>6, <1>7, <1>8, <1>9, <1>10 DEF Good, o, v, q, x

(* A queue of datagrams of another content, within its limit. *)
LEMMA BufferGood ==
    ASSUME NEW w, NEW R, NEW A, Good(w, R, A), w.state \in Live,
           NEW q \in Seq(Datagrams), Len(q) <= MaxPendingDatagrams
    PROVE  LET o == [w EXCEPT !.pending_datagrams = q]
           IN  /\ Good(o, R, A) /\ o.state = w.state /\ o.creating = w.creating
               /\ o.pending_capsules = w.pending_capsules
               /\ o.pending_streams = w.pending_streams
               /\ o.pending_datagram_requests = w.pending_datagram_requests
               /\ o.pending_datagrams = q
<1> DEFINE o == [w EXCEPT !.pending_datagrams = q]
<1>1. /\ o \in Records /\ o.pending_datagrams = q /\ o.state = w.state
      /\ o.pending_capsules = w.pending_capsules
      /\ o.pending_datagram_requests = w.pending_datagram_requests
      /\ o.pending_streams = w.pending_streams /\ o.streams = w.streams
      /\ o.blocked_stream_requests = w.blocked_stream_requests
      /\ o.opened = w.opened /\ o.max_streams = w.max_streams
      /\ o.creating = w.creating /\ o.done = w.done /\ o.failed = w.failed
      /\ o.announced = w.announced /\ o.ended = w.ended
      /\ o.ready = w.ready /\ o.draining = w.draining /\ o.closed = w.closed
    BY Zenon DEF Good, Records
<1> HIDE DEF o
<1>2. Within(o)
    BY <1>1 DEF Good, Within
<1>3. Answered(o, R)
    BY <1>1 DEF Good, Answered
<1>4. Paired(o, A)
    BY <1>1 DEF Good, Paired
<1>5. Lifecycle(o)
    BY <1>1 DEF Good, Lifecycle, Live
<1> QED
    BY <1>1, <1>2, <1>3, <1>4, <1>5 DEF Good, o

(* A datagram is dropped, buffered, or given to the first read that waits. *)
LEMMA RecvDatagramGood ==
    ASSUME NEW w, NEW R, NEW A, Good(w, R, A), NEW d \in Datagrams
    PROVE  LET o == RecvDatagram(w, d)
           IN  /\ Good(o, R, A) /\ o.state = w.state /\ o.creating = w.creating
               /\ o.pending_capsules = w.pending_capsules
               /\ o.pending_streams = w.pending_streams
               /\ w.state = "Connected" =>
                      \/ o.pending_datagrams = w.pending_datagrams
                      \/ /\ w.pending_datagram_requests = << >>
                         /\ o.pending_datagram_requests = << >>
               /\ w.pending_datagram_requests = << >> =>
                      o.pending_datagram_requests = << >>
<1> DEFINE o == RecvDatagram(w, d)
<1>1. CASE w.state \notin Live
    <2>1. o = w
        BY <1>1 DEF RecvDatagram
    <2> HIDE DEF o
    <2> QED
        BY <2>1 DEF o
<1>2. CASE w.state \in Live /\ w.state # "Connecting"
           /\ w.pending_datagram_requests # << >>
    <2>1. o = Done([w EXCEPT !.pending_datagram_requests = Tail(@),
                             !.delivered = Append(@, d)],
                   Head(w.pending_datagram_requests))
        BY <1>2, SMTT(30) DEF RecvDatagram
    <2> HIDE DEF o
    <2>2. /\ Good(o, R, A) /\ o.state = w.state /\ o.creating = w.creating
          /\ o.pending_capsules = w.pending_capsules
          /\ o.pending_streams = w.pending_streams
          /\ o.pending_datagrams = w.pending_datagrams
        BY <1>2, <2>1, DeliverGood, ZenonT(60)
    <2> QED
        BY <1>2, <2>2 DEF o
<1>3. CASE w.state \in Live /\ Len(w.pending_datagrams) >= MaxPendingDatagrams
           /\ ~(w.state # "Connecting" /\ w.pending_datagram_requests # << >>)
    <2>1. o = w
        BY <1>3 DEF RecvDatagram
    <2> HIDE DEF o
    <2> QED
        BY <2>1 DEF o
<1>4. CASE w.state \in Live /\ ~(Len(w.pending_datagrams) >= MaxPendingDatagrams)
           /\ ~(w.state # "Connecting" /\ w.pending_datagram_requests # << >>)
    <2> DEFINE q == Append(w.pending_datagrams, d)
    <2>1. w.pending_datagrams \in Seq(Datagrams)
        BY Fields DEF Good
    <2>2. q \in Seq(Datagrams) /\ Len(q) = Len(w.pending_datagrams) + 1
        BY <2>1, AppendQueue
    <2>3. Len(q) <= MaxPendingDatagrams
        BY <1>4, <2>1, <2>2, SessionAssumption
    <2>4. o = [w EXCEPT !.pending_datagrams = q]
        BY <1>4 DEF RecvDatagram
    <2> HIDE DEF o, q
    <2>5. /\ Good(o, R, A) /\ o.state = w.state /\ o.creating = w.creating
          /\ o.pending_capsules = w.pending_capsules
          /\ o.pending_streams = w.pending_streams
          /\ o.pending_datagram_requests = w.pending_datagram_requests
        BY <1>4, <2>2, <2>3, <2>4, BufferGood
    <2> QED
        BY <1>4, <2>5 DEF o
<1> QED
    BY <1>1, <1>2, <1>3, <1>4, Zenon

(* bind_stream answers every request that the driver was to create a       *)
(* stream for, in a live session with the stream and its event.            *)
LEMMA BindGood ==
    ASSUME NEW w, NEW R, NEW A, Good(w, R, A)
    PROVE  LET o == BindStreams(w)
           IN  /\ Good(o, R, A) /\ o.creating = << >>
               /\ o.state = w.state /\ SameQueues(o, w)
<1> DEFINE o == BindStreams(w)
           rs == Range(w.creating)
           held == Range(w.pending_datagram_requests) \cup Range(w.blocked_stream_requests)
           plus(f) == [r \in Requests |-> f[r] + (IF r \in rs THEN 1 ELSE 0)]
<1>1. /\ w \in Records /\ w.creating \in Seq(Requests)
      /\ w.done \in [Requests -> Nat] /\ w.failed \in [Requests -> Nat]
    BY Fields DEF Good
<1>2. /\ Distinct(w.pending_datagram_requests) /\ Distinct(w.creating)
      /\ Distinct(w.blocked_stream_requests) /\ held \cup rs \subseteq R
      /\ Range(w.pending_datagram_requests) \cap Range(w.blocked_stream_requests) = {}
      /\ held \cap rs = {}
      /\ \A r \in Requests :
             w.done[r] + w.failed[r] = IF r \in R \ (held \cup rs) THEN 1 ELSE 0
    BY DEF Good, Answered
<1>3. rs \subseteq Requests /\ rs \cap PeerStreams = {}
    <2>1. rs \subseteq Requests
        BY <1>1 DEF Range
    <2> QED
        BY <2>1, SessionAssumption
<1>4. plus(w.done) \in [Requests -> Nat] /\ plus(w.failed) \in [Requests -> Nat]
    BY <1>1
<1> HIDE DEF rs, held
<1>5. ASSUME o \in Records, SameQueues(o, w), o.creating = << >>,
             o.blocked_stream_requests = w.blocked_stream_requests,
             \/ o.done = plus(w.done) /\ o.failed = w.failed
             \/ o.done = w.done /\ o.failed = plus(w.failed)
      PROVE  Answered(o, R)
    <2> HIDE DEF o
    <2>1. \A r \in Requests :
              o.done[r] + o.failed[r] = IF r \in R \ held THEN 1 ELSE 0
        <3> TAKE r \in Requests
        <3>1. w.done[r] \in Nat /\ w.failed[r] \in Nat
            BY <1>1
        <3>2. o.done[r] + o.failed[r] =
                  w.done[r] + w.failed[r] + (IF r \in rs THEN 1 ELSE 0)
            <4>1. CASE o.done = plus(w.done) /\ o.failed = w.failed
                <5>1. o.done[r] = w.done[r] + (IF r \in rs THEN 1 ELSE 0)
                    BY <4>1
                <5> QED
                    BY <3>1, <4>1, <5>1
            <4>2. CASE o.done = w.done /\ o.failed = plus(w.failed)
                <5>1. o.failed[r] = w.failed[r] + (IF r \in rs THEN 1 ELSE 0)
                    BY <4>2
                <5> QED
                    BY <3>1, <4>2, <5>1
            <4> QED
                BY <1>5, <4>1, <4>2
        <3> QED
            BY <1>2, <3>1, <3>2
    <2>2. /\ Range(w.pending_datagram_requests) \cup Range(w.blocked_stream_requests)
                 \cup {} = held
          /\ Range(w.pending_datagram_requests) \cap {} = {}
          /\ Range(w.blocked_stream_requests) \cap {} = {}
          /\ held \subseteq R
        BY <1>2 DEF held
    <2> QED
        BY <1>2, <1>5, <2>1, <2>2, EmptyQueue DEF Answered, SameQueues
<1>6. CASE w.state \in Live
    <2>1. o = [w EXCEPT !.creating = << >>, !.streams = @ \cup rs,
                        !.announced = @ \cup rs, !.done = plus(w.done)]
        BY <1>1, <1>6 DEF BindStreams, rs, Records
    <2>2. /\ w.streams \cup rs \in SUBSET (PeerStreams \cup Requests)
          /\ w.announced \cup rs \in SUBSET (PeerStreams \cup Requests)
        BY <1>1, <1>3, Fields
    <2> HIDE DEF o, plus
    <2>3. /\ o \in Records /\ o.creating = << >> /\ o.streams = w.streams \cup rs
          /\ o.announced = w.announced \cup rs /\ o.done = plus(w.done)
          /\ o.state = w.state /\ SameQueues(o, w)
          /\ o.blocked_stream_requests = w.blocked_stream_requests
          /\ o.opened = w.opened /\ o.max_streams = w.max_streams
          /\ o.failed = w.failed /\ o.ended = w.ended
          /\ o.ready = w.ready /\ o.draining = w.draining /\ o.closed = w.closed
        BY <1>1, <1>4, <2>1, <2>2, EmptyQueue, Zenon DEF Records, SameQueues
    <2>4. Within(o)
        BY <2>3 DEF Good, Within, SameQueues
    <2>5. Answered(o, R)
        BY <1>5, <2>3
    <2>6. Paired(o, A)
        <3>1. Range(w.pending_streams) \subseteq PeerStreams
            BY <1>1, Fields DEF Range
        <3> QED
            BY <1>3, <2>3, <3>1 DEF Good, Paired, SameQueues
    <2>7. Lifecycle(o)
        BY <1>6, <2>3 DEF Good, Lifecycle, SameQueues, Live
    <2> QED
        BY <2>3, <2>4, <2>5, <2>6, <2>7 DEF Good, o
<1>7. CASE w.state \notin Live
    <2>1. FailAll(w, w.creating) = [w EXCEPT !.failed = plus(w.failed)]
        BY <1>1, <1>2, FailAllIs DEF rs
    <2>2. o = [w EXCEPT !.failed = plus(w.failed), !.creating = << >>]
        BY <1>7, <2>1 DEF BindStreams
    <2> HIDE DEF o, plus
    <2>3. /\ o \in Records /\ o.creating = << >> /\ o.failed = plus(w.failed)
          /\ o.streams = w.streams /\ o.announced = w.announced /\ o.done = w.done
          /\ o.state = w.state /\ SameQueues(o, w)
          /\ o.blocked_stream_requests = w.blocked_stream_requests
          /\ o.opened = w.opened /\ o.max_streams = w.max_streams
          /\ o.ended = w.ended
          /\ o.ready = w.ready /\ o.draining = w.draining /\ o.closed = w.closed
        BY <1>1, <1>4, <2>2, EmptyQueue, Zenon DEF Records, SameQueues
    <2>4. Within(o)
        BY <2>3 DEF Good, Within, SameQueues
    <2>5. Answered(o, R)
        BY <1>5, <2>3
    <2>6. Paired(o, A) /\ Lifecycle(o)
        BY <2>3 DEF Good, Paired, Lifecycle, SameQueues
    <2> QED
        BY <2>3, <2>4, <2>5, <2>6 DEF Good, o
<1> QED
    BY <1>6, <1>7

------------------------------------------------------------------------------
(* A new request r.                                                        *)

(* Counting an answer to a new request, of either kind. *)
LEMMA CountAnswer ==
    ASSUME NEW w, NEW o, NEW R, NEW r \in Requests, r \notin R, Answered(w, R),
           w \in Records, SameQueues(o, w), o.creating = w.creating,
           o.blocked_stream_requests = w.blocked_stream_requests,
           \/ /\ o.done = [w.done EXCEPT ![r] = @ + 1] /\ o.failed = w.failed
           \/ /\ o.failed = [w.failed EXCEPT ![r] = @ + 1] /\ o.done = w.done
    PROVE  Answered(o, R \cup {r})
<1> DEFINE held == Range(w.pending_datagram_requests)
                       \cup Range(w.blocked_stream_requests) \cup Range(w.creating)
<1>1. w.done \in [Requests -> Nat] /\ w.failed \in [Requests -> Nat]
    BY Fields
<1>2. /\ held \subseteq R
      /\ \A x \in Requests : w.done[x] + w.failed[x] = IF x \in R \ held THEN 1 ELSE 0
    BY DEF Answered
<1>3. r \notin held
    BY <1>2
<1> HIDE DEF held
<1>4. \A x \in Requests :
          o.done[x] + o.failed[x] = IF x \in (R \cup {r}) \ held THEN 1 ELSE 0
    <2> TAKE x \in Requests
    <2>1. w.done[x] \in Nat /\ w.failed[x] \in Nat
        BY <1>1
    <2>2. w.done[x] + w.failed[x] = IF x \in R \ held THEN 1 ELSE 0
        BY <1>2
    <2>3. CASE x = r
        <3>1. \/ o.done[x] = w.done[x] + 1 /\ o.failed[x] = w.failed[x]
              \/ o.failed[x] = w.failed[x] + 1 /\ o.done[x] = w.done[x]
            BY <1>1, <2>3
        <3> QED
            BY <1>3, <2>1, <2>2, <2>3, <3>1
    <2>4. CASE x # r
        <3>1. o.done[x] = w.done[x] /\ o.failed[x] = w.failed[x]
            BY <1>1, <2>4
        <3> QED
            BY <2>1, <2>2, <2>4, <3>1
    <2> QED
        BY <2>3, <2>4
<1>5. held \subseteq R \cup {r}
    BY <1>2
<1> QED
    BY <1>4, <1>5 DEF Answered, SameQueues, held

(* A new request is answered at once, with a result or an error. *)
LEMMA AnswerGood ==
    ASSUME NEW w, NEW R, NEW A, Good(w, R, A), NEW r \in Requests, r \notin R,
           NEW o, o \in {Done(w, r), Failed(w, r)}
    PROVE  /\ Good(o, R \cup {r}, A) /\ o.state = w.state
           /\ o.creating = w.creating /\ SameQueues(o, w)
<1> DEFINE dn == [w.done EXCEPT ![r] = @ + 1]
           fl == [w.failed EXCEPT ![r] = @ + 1]
<1>1. /\ w \in Records
      /\ w.done \in [Requests -> Nat] /\ w.failed \in [Requests -> Nat]
    BY Fields DEF Good
<1>2. dn \in [Requests -> Nat] /\ fl \in [Requests -> Nat]
    BY <1>1
<1>3. Done(w, r) = [w EXCEPT !.done = dn] /\ Failed(w, r) = [w EXCEPT !.failed = fl]
    BY <1>1 DEF Done, Failed, Records
<1> HIDE DEF dn, fl
<1>4. /\ o \in Records /\ o.state = w.state /\ SameQueues(o, w)
      /\ o.creating = w.creating /\ o.streams = w.streams
      /\ o.blocked_stream_requests = w.blocked_stream_requests
      /\ o.opened = w.opened /\ o.max_streams = w.max_streams
      /\ o.announced = w.announced /\ o.ended = w.ended
      /\ o.ready = w.ready /\ o.draining = w.draining /\ o.closed = w.closed
      /\ \/ o.done = dn /\ o.failed = w.failed
         \/ o.failed = fl /\ o.done = w.done
    <2>1. CASE o = [w EXCEPT !.done = dn]
        BY <1>1, <1>2, <2>1, Zenon DEF Records, SameQueues
    <2>2. CASE o = [w EXCEPT !.failed = fl]
        BY <1>1, <1>2, <2>2, ZenonT(60) DEF Records, SameQueues
    <2> QED
        BY <1>3, <2>1, <2>2
<1>5. Within(o)
    BY <1>4 DEF Good, Within, SameQueues
<1>6. Answered(o, R \cup {r})
    <2>1. Answered(w, R)
        BY DEF Good
    <2> QED
        BY <1>1, <1>4, <2>1, CountAnswer DEF dn, fl
<1>7. Paired(o, A) /\ Lifecycle(o)
    BY <1>4 DEF Good, Paired, Lifecycle, SameQueues
<1> QED
    BY <1>4, <1>5, <1>6, <1>7 DEF Good


(* Putting a new request in one of the three places where it waits. *)
LEMMA QueueNew ==
    ASSUME NEW w, NEW o, NEW R, NEW r \in Requests, r \notin R, Answered(w, R),
           w \in Records, o.done = w.done, o.failed = w.failed,
           \/ /\ o.pending_datagram_requests = Append(w.pending_datagram_requests, r)
              /\ o.blocked_stream_requests = w.blocked_stream_requests
              /\ o.creating = w.creating
           \/ /\ o.pending_datagram_requests = w.pending_datagram_requests
              /\ o.blocked_stream_requests = Append(w.blocked_stream_requests, r)
              /\ o.creating = w.creating
           \/ /\ o.pending_datagram_requests = w.pending_datagram_requests
              /\ o.blocked_stream_requests = w.blocked_stream_requests
              /\ o.creating = Append(w.creating, r)
    PROVE  Answered(o, R \cup {r})
<1> DEFINE a == Range(w.pending_datagram_requests)
           b == Range(w.blocked_stream_requests)
           c == Range(w.creating)
           x == Range(o.pending_datagram_requests)
           y == Range(o.blocked_stream_requests)
           z == Range(o.creating)
<1>1. /\ w.pending_datagram_requests \in Seq(Requests)
      /\ w.blocked_stream_requests \in Seq(Requests)
      /\ w.creating \in Seq(Requests)
    BY Fields
<1>2. /\ a \cup b \cup c \subseteq R
      /\ a \cap b = {} /\ a \cap c = {} /\ b \cap c = {}
      /\ Distinct(w.pending_datagram_requests)
      /\ Distinct(w.blocked_stream_requests) /\ Distinct(w.creating)
      /\ \A k \in Requests :
             w.done[k] + w.failed[k] = IF k \in R \ (a \cup b \cup c) THEN 1 ELSE 0
    BY DEF Answered
<1>3. r \notin a /\ r \notin b /\ r \notin c
    BY <1>2
<1>4. /\ Distinct(o.pending_datagram_requests)
      /\ Distinct(o.blocked_stream_requests) /\ Distinct(o.creating)
      /\ \/ x = a \cup {r} /\ y = b /\ z = c
         \/ x = a /\ y = b \cup {r} /\ z = c
         \/ x = a /\ y = b /\ z = c \cup {r}
    <2>1. /\ Range(Append(w.pending_datagram_requests, r)) = a \cup {r}
          /\ Distinct(Append(w.pending_datagram_requests, r))
        BY <1>1, <1>2, <1>3, AppendQueue
    <2>2. /\ Range(Append(w.blocked_stream_requests, r)) = b \cup {r}
          /\ Distinct(Append(w.blocked_stream_requests, r))
        BY <1>1, <1>2, <1>3, AppendQueue
    <2>3. /\ Range(Append(w.creating, r)) = c \cup {r}
          /\ Distinct(Append(w.creating, r))
        BY <1>1, <1>2, <1>3, AppendQueue
    <2> QED
        BY <1>2, <2>1, <2>2, <2>3, Zenon
<1> HIDE DEF a, b, c, x, y, z
<1>5. /\ x \cup y \cup z \subseteq R \cup {r}
      /\ x \cap y = {} /\ x \cap z = {} /\ y \cap z = {}
      /\ (R \cup {r}) \ (x \cup y \cup z) = R \ (a \cup b \cup c)
    <2>1. x \cup y \cup z = a \cup b \cup c \cup {r}
        BY <1>4
    <2>2. x \cap y = {} /\ x \cap z = {} /\ y \cap z = {}
        BY <1>2, <1>3, <1>4
    <2>3. (R \cup {r}) \ (a \cup b \cup c \cup {r}) = R \ (a \cup b \cup c)
        OBVIOUS
    <2> QED
        BY <1>2, <2>1, <2>2, <2>3
<1>6. \A k \in Requests :
          o.done[k] + o.failed[k] =
              IF k \in (R \cup {r}) \ (x \cup y \cup z) THEN 1 ELSE 0
    BY <1>2, <1>5
<1> QED
    BY <1>4, <1>5, <1>6 DEF Answered, x, y, z

(* create_stream without credit: the request waits in the session. *)
LEMMA BlockGood ==
    ASSUME NEW w, NEW R, NEW A, Good(w, R, A), NEW r \in Requests, r \notin R,
           w.state \in Live
    PROVE  LET o == [w EXCEPT !.blocked_stream_requests = Append(@, r)]
           IN  /\ Good(o, R \cup {r}, A) /\ o.state = w.state
               /\ o.creating = w.creating /\ SameQueues(o, w)
<1> DEFINE q == Append(w.blocked_stream_requests, r)
           o == [w EXCEPT !.blocked_stream_requests = q]
<1>1. w \in Records /\ w.blocked_stream_requests \in Seq(Requests)
    BY Fields DEF Good
<1>2. q \in Seq(Requests)
    BY <1>1
<1> HIDE DEF q
<1>3. /\ o \in Records /\ o.state = w.state /\ SameQueues(o, w)
      /\ o.creating = w.creating /\ o.streams = w.streams
      /\ o.blocked_stream_requests = q
      /\ o.opened = w.opened /\ o.max_streams = w.max_streams
      /\ o.done = w.done /\ o.failed = w.failed
      /\ o.announced = w.announced /\ o.ended = w.ended
      /\ o.ready = w.ready /\ o.draining = w.draining /\ o.closed = w.closed
    BY <1>1, <1>2, Zenon DEF Records, SameQueues
<1> HIDE DEF o
<1>4. Within(o)
    BY <1>3 DEF Good, Within, SameQueues
<1>5. Answered(o, R \cup {r})
    <2>1. Answered(w, R)
        BY DEF Good
    <2>2. o.pending_datagram_requests = w.pending_datagram_requests
        BY <1>3 DEF SameQueues
    <2> QED
        BY <1>1, <1>3, <2>1, <2>2, QueueNew DEF q
<1>6. Paired(o, A)
    BY <1>3 DEF Good, Paired, SameQueues
<1>7. Lifecycle(o)
    BY <1>3 DEF Good, Lifecycle, SameQueues, Live
<1> QED
    BY <1>3, <1>4, <1>5, <1>6, <1>7 DEF Good, o, q


(* read_datagram with nothing to read: the request waits in the session. *)
LEMMA WaitGood ==
    ASSUME NEW w, NEW R, NEW A, Good(w, R, A), NEW r \in Requests, r \notin R,
           w.state \in Live
    PROVE  LET o == [w EXCEPT !.pending_datagram_requests = Append(@, r)]
           IN  /\ Good(o, R \cup {r}, A) /\ o.state = w.state
               /\ o.creating = w.creating
               /\ o.pending_capsules = w.pending_capsules
               /\ o.pending_datagrams = w.pending_datagrams
               /\ o.pending_streams = w.pending_streams
<1> DEFINE q == Append(w.pending_datagram_requests, r)
           o == [w EXCEPT !.pending_datagram_requests = q]
<1>1. w \in Records /\ w.pending_datagram_requests \in Seq(Requests)
    BY Fields DEF Good
<1>2. q \in Seq(Requests)
    BY <1>1
<1> HIDE DEF q
<1>3. /\ o \in Records /\ o.state = w.state
      /\ o.pending_capsules = w.pending_capsules
      /\ o.pending_datagrams = w.pending_datagrams
      /\ o.pending_streams = w.pending_streams
      /\ o.pending_datagram_requests = q
      /\ o.creating = w.creating /\ o.streams = w.streams
      /\ o.blocked_stream_requests = w.blocked_stream_requests
      /\ o.opened = w.opened /\ o.max_streams = w.max_streams
      /\ o.done = w.done /\ o.failed = w.failed
      /\ o.announced = w.announced /\ o.ended = w.ended
      /\ o.ready = w.ready /\ o.draining = w.draining /\ o.closed = w.closed
    BY <1>1, <1>2, Zenon DEF Records
<1> HIDE DEF o
<1>4. Within(o)
    BY <1>3 DEF Good, Within
<1>5. Answered(o, R \cup {r})
    <2>1. Answered(w, R)
        BY DEF Good
    <2> QED
        BY <1>1, <1>3, <2>1, QueueNew DEF q
<1>6. Paired(o, A)
    BY <1>3, Zenon DEF Good, Paired
<1>7. Lifecycle(o)
    BY <1>3 DEF Good, Lifecycle, Live
<1> QED
    BY <1>3, <1>4, <1>5, <1>6, <1>7 DEF Good, o, q

(* create_stream with credit: the driver is to create the stream. *)
LEMMA OpenGood ==
    ASSUME NEW w, NEW R, NEW A, Good(w, R, A), NEW r \in Requests, r \notin R,
           w.state \in Live, w.creating = << >>, ~(w.opened >= w.max_streams)
    PROVE  LET o == [w EXCEPT !.opened = @ + 1, !.creating = << r >>]
           IN  Good(o, R \cup {r}, A) /\ o.state = w.state /\ SameQueues(o, w)
<1> DEFINE n == w.opened + 1
           c == Append(w.creating, r)
           o == [w EXCEPT !.opened = n, !.creating = c]
<1>1. w \in Records /\ w.creating \in Seq(Requests)
      /\ w.opened \in Nat /\ w.max_streams \in Nat
    BY Fields DEF Good
<1>2. n \in Nat /\ c \in Seq(Requests) /\ c = << r >> /\ n <= w.max_streams
    BY <1>1
<1>3. o = [w EXCEPT !.opened = @ + 1, !.creating = << r >>]
    BY <1>1, <1>2 DEF Records
<1> HIDE DEF n, c
<1>4. /\ o \in Records /\ o.state = w.state /\ SameQueues(o, w)
      /\ o.creating = c /\ o.streams = w.streams
      /\ o.blocked_stream_requests = w.blocked_stream_requests
      /\ o.opened = n /\ o.max_streams = w.max_streams
      /\ o.done = w.done /\ o.failed = w.failed
      /\ o.announced = w.announced /\ o.ended = w.ended
      /\ o.ready = w.ready /\ o.draining = w.draining /\ o.closed = w.closed
    BY <1>1, <1>2, Zenon DEF Records, SameQueues
<1> HIDE DEF o
<1>5. Within(o)
    BY <1>2, <1>4 DEF Good, Within, SameQueues
<1>6. Answered(o, R \cup {r})
    <2>1. Answered(w, R)
        BY DEF Good
    <2>2. o.pending_datagram_requests = w.pending_datagram_requests
        BY <1>4 DEF SameQueues
    <2> QED
        BY <1>1, <1>4, <2>1, <2>2, QueueNew, Zenon DEF c
<1>7. Paired(o, A)
    BY <1>4 DEF Good, Paired, SameQueues
<1>8. Lifecycle(o)
    BY <1>4 DEF Good, Lifecycle, SameQueues, Live
<1> QED
    BY <1>3, <1>4, <1>5, <1>6, <1>7, <1>8 DEF Good

(* A datagram leaves the buffer for a read that finds it there. *)
LEMMA TakeGood ==
    ASSUME NEW w, NEW R, NEW A, Good(w, R, A), w.state \in Live,
           w.pending_datagrams # << >>
    PROVE  LET o == [w EXCEPT !.pending_datagrams = Tail(@),
                              !.delivered = Append(@, Head(w.pending_datagrams))]
           IN  /\ Good(o, R, A) /\ o.state = w.state /\ o.creating = w.creating
               /\ o.pending_capsules = w.pending_capsules
               /\ o.pending_streams = w.pending_streams
               /\ o.pending_datagram_requests = w.pending_datagram_requests
<1> DEFINE q == Tail(w.pending_datagrams)
           v == [w EXCEPT !.pending_datagrams = q]
           e == Append(w.delivered, Head(w.pending_datagrams))
           o == [v EXCEPT !.delivered = e]
<1>1. /\ w \in Records /\ w.pending_datagrams \in Seq(Datagrams)
      /\ w.delivered \in Seq(Datagrams)
    BY Fields DEF Good
<1>2. /\ q \in Seq(Datagrams) /\ Len(q) = Len(w.pending_datagrams) - 1
      /\ Len(w.pending_datagrams) \in Nat /\ Head(w.pending_datagrams) \in Datagrams
    BY <1>1, TailQueue
<1>3. Len(q) <= MaxPendingDatagrams
    <2>1. Len(w.pending_datagrams) <= MaxPendingDatagrams
        BY DEF Good, Within
    <2> QED
        BY <1>2, <2>1, SessionAssumption
<1>4. e \in Seq(Datagrams)
    BY <1>1, <1>2
<1>5. o = [w EXCEPT !.pending_datagrams = Tail(@),
                    !.delivered = Append(@, Head(w.pending_datagrams))]
    BY <1>1 DEF Records
<1> HIDE DEF q, e
<1>6. /\ Good(v, R, A) /\ v.state = w.state /\ v.creating = w.creating
      /\ v.pending_capsules = w.pending_capsules
      /\ v.pending_streams = w.pending_streams
      /\ v.pending_datagram_requests = w.pending_datagram_requests
    BY <1>2, <1>3, BufferGood
<1> HIDE DEF v
<1>7. /\ o \in Records /\ o.state = v.state /\ SameQueues(o, v)
      /\ o.creating = v.creating /\ o.streams = v.streams
      /\ o.blocked_stream_requests = v.blocked_stream_requests
      /\ o.opened = v.opened /\ o.max_streams = v.max_streams
      /\ o.done = v.done /\ o.failed = v.failed
      /\ o.announced = v.announced /\ o.ended = v.ended
      /\ o.ready = v.ready /\ o.draining = v.draining /\ o.closed = v.closed
    BY <1>4, <1>6, Zenon DEF Good, Records, SameQueues
<1> HIDE DEF o
<1>8. Within(o) /\ Answered(o, R) /\ Paired(o, A) /\ Lifecycle(o)
    <2>1. Within(o)
        BY <1>6, <1>7, Zenon DEF Good, Within, SameQueues
    <2>2. Answered(o, R)
        BY <1>6, <1>7 DEF Good, Answered, SameQueues
    <2>3. Paired(o, A)
        BY <1>6, <1>7, Zenon DEF Good, Paired, SameQueues
    <2>4. Lifecycle(o)
        BY <1>6, <1>7, Zenon DEF Good, Lifecycle, SameQueues
    <2> QED
        BY <2>1, <2>2, <2>3, <2>4
<1>9. Good(o, R, A)
    BY <1>7, <1>8, Zenon DEF Good
<1> QED
    BY <1>5, <1>6, <1>7, <1>9 DEF SameQueues

------------------------------------------------------------------------------
(* The events from the connection, on a record between two calls.          *)

(* The DRAIN_SESSION capsule and the graceful end of the connection. *)
LEMMA DrainGood ==
    ASSUME NEW w, NEW R, NEW A, Good(w, R, A), w.state = "Connected"
    PROVE  LET o == [w EXCEPT !.state = "Draining", !.draining = @ + 1]
           IN  Good(o, R, A) /\ o.state = "Draining" /\ o.creating = w.creating
<1> DEFINE o == [w EXCEPT !.state = "Draining", !.draining = @ + 1]
<1>1. w \in Records /\ w.ready = 1 /\ w.draining = 0 /\ w.closed = 0
    BY DEF Good, Lifecycle
<1>2. "Draining" \in States /\ 0 + 1 = 1 /\ 1 \in Nat
    BY DEF States, Live
<1>3. o = [w EXCEPT !.state = "Draining", !.draining = 1]
    BY <1>1, <1>2 DEF Records
<1> HIDE DEF o
<1>4. /\ o \in Records /\ o.state = "Draining" /\ o.draining = 1
      /\ SameQueues(o, w) /\ o.streams = w.streams
      /\ o.blocked_stream_requests = w.blocked_stream_requests
      /\ o.opened = w.opened /\ o.max_streams = w.max_streams
      /\ o.creating = w.creating /\ o.done = w.done /\ o.failed = w.failed
      /\ o.announced = w.announced /\ o.ended = w.ended
      /\ o.ready = w.ready /\ o.closed = w.closed
    BY <1>1, <1>2, <1>3, Zenon DEF Records, SameQueues
<1>5. Within(o)
    BY <1>4 DEF Good, Within, SameQueues
<1>6. Answered(o, R)
    BY <1>4, Zenon DEF Good, Answered, SameQueues
<1>7. Paired(o, A)
    BY <1>4, Zenon DEF Good, Paired, SameQueues
<1>8. Lifecycle(o)
    BY <1>1, <1>4 DEF Lifecycle
<1> QED
    BY <1>4, <1>5, <1>6, <1>7, <1>8 DEF Good, o

(* The end of the CONNECT stream completes a session that is closing. *)
LEMMA ClosedGood ==
    ASSUME NEW w, NEW R, NEW A, Good(w, R, A), w.state = "Closing"
    PROVE  LET o == [w EXCEPT !.state = "Closed"]
           IN  Good(o, R, A) /\ o.state = "Closed" /\ o.creating = w.creating
<1> DEFINE o == [w EXCEPT !.state = "Closed"]
<1>1. w \in Records /\ "Closed" \in States
    BY DEF Good, States
<1>2. /\ o \in Records /\ o.state = "Closed"
      /\ SameQueues(o, w) /\ o.streams = w.streams
      /\ o.blocked_stream_requests = w.blocked_stream_requests
      /\ o.opened = w.opened /\ o.max_streams = w.max_streams
      /\ o.creating = w.creating /\ o.done = w.done /\ o.failed = w.failed
      /\ o.announced = w.announced /\ o.ended = w.ended
      /\ o.ready = w.ready /\ o.draining = w.draining /\ o.closed = w.closed
    BY <1>1, Zenon DEF Records, SameQueues
<1> HIDE DEF o
<1>3. Within(o)
    BY <1>2 DEF Good, Within, SameQueues
<1>4. Answered(o, R)
    BY <1>2, Zenon DEF Good, Answered, SameQueues
<1>5. Paired(o, A)
    BY <1>2, Zenon DEF Good, Paired, SameQueues
<1>6. Lifecycle(o)
    BY <1>2 DEF Good, Lifecycle, SameQueues
<1> QED
    BY <1>2, <1>3, <1>4, <1>5, <1>6 DEF Good, o

(* A stream of the peer is held back while the session is connecting. *)
LEMMA HoldStreamGood ==
    ASSUME NEW w, NEW R, NEW A, Good(w, R, A), w.state = "Connecting",
           NEW i \in PeerStreams, i \notin A,
           ~(Len(w.pending_streams) >= MaxPendingStreams)
    PROVE  LET o == [w EXCEPT !.pending_streams = Append(@, i),
                              !.streams = @ \cup {i}]
           IN  Good(o, R, A \cup {i}) /\ o.state = w.state /\ o.creating = w.creating
<1> DEFINE q == Append(w.pending_streams, i)
           e == w.streams \cup {i}
           o == [w EXCEPT !.pending_streams = q, !.streams = e]
<1>1. w \in Records /\ w.pending_streams \in Seq(PeerStreams)
      /\ e \in SUBSET (PeerStreams \cup Requests)
    BY Fields, Zenon DEF Good
<1>2. /\ q \in Seq(PeerStreams) /\ Len(q) = Len(w.pending_streams) + 1
      /\ Range(q) = Range(w.pending_streams) \cup {i}
      /\ Len(w.pending_streams) \in Nat
    BY <1>1, AppendQueue, LenOf
<1>3. Len(q) <= MaxPendingStreams
    BY <1>2, SessionAssumption
<1>4. o = [w EXCEPT !.pending_streams = Append(@, i), !.streams = @ \cup {i}]
    BY <1>1 DEF Records
<1> HIDE DEF q
<1>5. /\ o \in Records /\ o.state = w.state
      /\ o.pending_capsules = w.pending_capsules
      /\ o.pending_datagrams = w.pending_datagrams
      /\ o.pending_datagram_requests = w.pending_datagram_requests
      /\ o.pending_streams = q /\ o.streams = w.streams \cup {i}
      /\ o.blocked_stream_requests = w.blocked_stream_requests
      /\ o.opened = w.opened /\ o.max_streams = w.max_streams
      /\ o.creating = w.creating /\ o.done = w.done /\ o.failed = w.failed
      /\ o.announced = w.announced /\ o.ended = w.ended
      /\ o.ready = w.ready /\ o.draining = w.draining /\ o.closed = w.closed
    BY <1>1, <1>2, Zenon DEF Records
<1> HIDE DEF o, e
<1>6. Within(o)
    BY <1>3, <1>5 DEF Good, Within
<1>7. Answered(o, R)
    BY <1>5, Zenon DEF Good, Answered
<1>8. Paired(o, A \cup {i})
    <2>1. i \notin w.announced
        BY Zenon DEF Good, Paired
    <2> QED
        BY <1>2, <1>5, <2>1, Zenon DEF Good, Paired
<1>9. Lifecycle(o)
    BY <1>5, Zenon DEF Good, Lifecycle
<1> QED
    BY <1>4, <1>5, <1>6, <1>7, <1>8, <1>9, Zenon DEF Good


(* More streams may have come than the session knows of. *)
LEMMA RefusedGood ==
    ASSUME NEW w, NEW R, NEW A, Good(w, R, A), NEW i
    PROVE  Good(w, R, A \cup {i})
BY DEF Good, Paired

(* A stream of the peer is announced once the session is confirmed. *)
LEMMA NewStreamGood ==
    ASSUME NEW w, NEW R, NEW A, Good(w, R, A), w.state \in Live,
           NEW i \in PeerStreams, i \notin A
    PROVE  LET o == [w EXCEPT !.streams = @ \cup {i}, !.announced = @ \cup {i}]
           IN  /\ Good(o, R, A \cup {i}) /\ o.state = w.state
               /\ o.creating = w.creating /\ SameQueues(o, w)
<1> DEFINE e == w.streams \cup {i}
           a == w.announced \cup {i}
           o == [w EXCEPT !.streams = e, !.announced = a]
<1>1. w \in Records /\ e \in SUBSET (PeerStreams \cup Requests)
      /\ a \in SUBSET (PeerStreams \cup Requests)
    BY Fields DEF Good
<1>2. o = [w EXCEPT !.streams = @ \cup {i}, !.announced = @ \cup {i}]
    BY <1>1 DEF Records
<1> HIDE DEF e, a
<1>3. /\ o \in Records /\ o.state = w.state /\ SameQueues(o, w)
      /\ o.streams = e /\ o.announced = a
      /\ o.blocked_stream_requests = w.blocked_stream_requests
      /\ o.opened = w.opened /\ o.max_streams = w.max_streams
      /\ o.creating = w.creating /\ o.done = w.done /\ o.failed = w.failed
      /\ o.ended = w.ended
      /\ o.ready = w.ready /\ o.draining = w.draining /\ o.closed = w.closed
    BY <1>1, Zenon DEF Records, SameQueues
<1> HIDE DEF o
<1>4. Within(o)
    BY <1>3 DEF Good, Within, SameQueues
<1>5. Answered(o, R)
    BY <1>3, Zenon DEF Good, Answered, SameQueues
<1>6. Paired(o, A \cup {i})
    BY <1>3, Zenon DEF Good, Paired, SameQueues, e, a
<1>7. Lifecycle(o)
    BY <1>3 DEF Good, Lifecycle, SameQueues, Live
<1> QED
    BY <1>2, <1>3, <1>4, <1>5, <1>6, <1>7 DEF Good

(* A stream ends: said of it only if its opening was. *)
LEMMA StreamEndGood ==
    ASSUME NEW w, NEW R, NEW A, Good(w, R, A), NEW i \in w.streams
    PROVE  LET o == [w EXCEPT !.streams = @ \ {i},
                              !.ended = IF i \in Range(w.pending_streams) THEN @
                                        ELSE @ \cup {i}]
           IN  /\ Good(o, R, A) /\ o.state = w.state
               /\ o.creating = w.creating /\ SameQueues(o, w)
<1> DEFINE e == w.streams \ {i}
           a == IF i \in Range(w.pending_streams) THEN w.ended ELSE w.ended \cup {i}
           o == [w EXCEPT !.streams = e, !.ended = a]
<1>1. w \in Records /\ e \in SUBSET (PeerStreams \cup Requests)
      /\ a \in SUBSET (PeerStreams \cup Requests)
    BY Fields DEF Good
<1>2. o = [w EXCEPT !.streams = @ \ {i},
                    !.ended = IF i \in Range(w.pending_streams) THEN @
                              ELSE @ \cup {i}]
    BY <1>1 DEF Records
<1> HIDE DEF e, a
<1>3. /\ o \in Records /\ o.state = w.state /\ SameQueues(o, w)
      /\ o.streams = e /\ o.ended = a
      /\ o.blocked_stream_requests = w.blocked_stream_requests
      /\ o.opened = w.opened /\ o.max_streams = w.max_streams
      /\ o.creating = w.creating /\ o.done = w.done /\ o.failed = w.failed
      /\ o.announced = w.announced
      /\ o.ready = w.ready /\ o.draining = w.draining /\ o.closed = w.closed
    BY <1>1, Zenon DEF Records, SameQueues
<1> HIDE DEF o
<1>4. Within(o)
    BY <1>3 DEF Good, Within, SameQueues
<1>5. Answered(o, R)
    BY <1>3, Zenon DEF Good, Answered, SameQueues
<1>6. Paired(o, A)
    BY <1>3, Zenon DEF Good, Paired, SameQueues, e, a
<1>7. Lifecycle(o)
    BY <1>3 DEF Good, Lifecycle, SameQueues, e
<1> QED
    BY <1>2, <1>3, <1>4, <1>5, <1>6, <1>7, Zenon DEF Good

------------------------------------------------------------------------------
(* The replay.                                                             *)

(* The queues of a record without the capsule or datagram at their front. *)
LEMMA PopCapsuleGood ==
    ASSUME NEW w, NEW R, NEW A, Good(w, R, A), w.pending_capsules # << >>
    PROVE  LET o == [w EXCEPT !.pending_capsules = Tail(@)]
           IN  /\ Good(o, R, A) /\ o.state = w.state
               /\ o.pending_capsules = Tail(w.pending_capsules)
               /\ o.pending_datagrams = w.pending_datagrams
<1> DEFINE q == Tail(w.pending_capsules)
           o == [w EXCEPT !.pending_capsules = q]
<1>1. w \in Records /\ w.pending_capsules \in Seq(Capsules)
    BY Fields DEF Good
<1>2. q \in Seq(Capsules) /\ Len(q) = Len(w.pending_capsules) - 1
      /\ Len(w.pending_capsules) \in Nat
    BY <1>1, TailQueue
<1>3. Len(q) <= MaxPendingCapsules
    <2>1. Len(w.pending_capsules) <= MaxPendingCapsules
        BY DEF Good, Within
    <2> QED
        BY <1>2, <2>1, SessionAssumption
<1> HIDE DEF q
<1>4. /\ o \in Records /\ o.pending_capsules = q /\ o.state = w.state
      /\ o.pending_datagrams = w.pending_datagrams
      /\ o.pending_datagram_requests = w.pending_datagram_requests
      /\ o.pending_streams = w.pending_streams /\ o.streams = w.streams
      /\ o.blocked_stream_requests = w.blocked_stream_requests
      /\ o.opened = w.opened /\ o.max_streams = w.max_streams
      /\ o.creating = w.creating /\ o.done = w.done /\ o.failed = w.failed
      /\ o.announced = w.announced /\ o.ended = w.ended
      /\ o.ready = w.ready /\ o.draining = w.draining /\ o.closed = w.closed
    BY <1>1, <1>2, Zenon DEF Records
<1> HIDE DEF o
<1>5. Within(o)
    BY <1>3, <1>4 DEF Good, Within
<1>6. Answered(o, R)
    BY <1>4, Zenon DEF Good, Answered
<1>7. Paired(o, A)
    BY <1>4, Zenon DEF Good, Paired
<1>8. Lifecycle(o)
    <2>1. w.state \notin {"Closing", "Closed"}
        BY DEF Good, Lifecycle
    <2> QED
        BY <1>4, <2>1, Zenon DEF Good, Lifecycle
<1> QED
    BY <1>4, <1>5, <1>6, <1>7, <1>8 DEF Good, o, q

(* What is left to replay after at most n turns. *)
Left(w, n) ==
    w.state = "Connected" =>
        \/ Exhausted(w)
        \/ Len(w.pending_capsules) + Len(w.pending_datagrams) <= n

(* One turn of the replay keeps every promise and has one thing less to do. *)
LEMMA ReplayOneGood ==
    ASSUME NEW w, NEW R, NEW A, NEW n \in Nat, Good(w, R, A), Left(w, n + 1)
    PROVE  Good(ReplayOne(w), R, A) /\ Left(ReplayOne(w), n)
<1> DEFINE o == ReplayOne(w)
           c == Len(w.pending_capsules)
           d == Len(w.pending_datagrams)
<1>1. /\ w.pending_capsules \in Seq(Capsules) /\ w.pending_datagrams \in Seq(Datagrams)
      /\ c \in Nat /\ d \in Nat
    BY Fields DEF Good
<1>2. CASE w.state # "Connected"
    BY <1>2, Zenon DEF ReplayOne, Left
<1>3. CASE w.state = "Connected" /\ w.pending_capsules # << >>
    <2> DEFINE v == [w EXCEPT !.pending_capsules = Tail(@)]
               x == Head(w.pending_capsules)
    <2>1. o = RecvCapsule(v, x)
        BY <1>3 DEF ReplayOne
    <2>2. /\ Good(v, R, A) /\ v.state = w.state
          /\ v.pending_capsules = Tail(w.pending_capsules)
          /\ v.pending_datagrams = w.pending_datagrams
        BY <1>3, PopCapsuleGood, Zenon
    <2>3. /\ x \in Capsules /\ c > 0
          /\ Len(Tail(w.pending_capsules)) = c - 1
        BY <1>1, <1>3, TailQueue
    <2> HIDE DEF o, v, x
    <2>4. /\ Good(o, R, A)
          /\ o.state = "Connected" => SameQueues(o, v)
        BY <2>1, <2>2, <2>3, RecvCapsuleGood
    <2>5. c + d <= n + 1
        BY <1>3, Zenon DEF Left, Exhausted
    <2>6. (c - 1) + d <= n
        <3> HIDE DEF c, d
        <3> QED
            BY <1>1, <2>5
    <2>7. Left(o, n)
        BY <2>2, <2>3, <2>4, <2>6, Zenon DEF Left, SameQueues
    <2> QED
        BY <2>4, <2>7 DEF o
<1>4. CASE /\ w.state = "Connected" /\ w.pending_capsules = << >>
           /\ w.pending_datagram_requests # << >> /\ w.pending_datagrams # << >>
    <2> DEFINE q == Tail(w.pending_datagrams)
               v == [w EXCEPT !.pending_datagrams = q]
               x == Head(w.pending_datagrams)
    <2>1. o = RecvDatagram(v, x)
        BY <1>4 DEF ReplayOne
    <2>2. /\ x \in Datagrams /\ q \in Seq(Datagrams) /\ d > 0 /\ Len(q) = d - 1
        BY <1>1, <1>4, TailQueue
    <2>3. w.state \in Live /\ Len(q) <= MaxPendingDatagrams
        <3>1. d <= MaxPendingDatagrams
            BY DEF Good, Within
        <3> QED
            BY <1>1, <1>4, <2>2, <3>1, SessionAssumption DEF Live
    <2> HIDE DEF o, q, x
    <2>4. /\ Good(v, R, A) /\ v.state = w.state
          /\ v.pending_capsules = << >> /\ v.pending_datagrams = q
          /\ v.pending_datagram_requests # << >>
        BY <1>4, <2>2, <2>3, BufferGood
    <2> HIDE DEF v
    <2>5. /\ Good(o, R, A) /\ o.state = v.state
          /\ o.pending_capsules = v.pending_capsules
          /\ o.pending_datagrams = v.pending_datagrams
        BY <1>4, <2>1, <2>2, <2>4, RecvDatagramGood
    <2>6. c + d <= n + 1
        BY <1>4 DEF Left, Exhausted
    <2>7. Len(<< >>) + (d - 1) <= n
        BY <1>1, <2>6, <1>4, EmptyQueue
    <2>8. Left(o, n)
        BY <2>2, <2>4, <2>5, <2>7 DEF Left
    <2> QED
        BY <2>5, <2>8 DEF o
<1>5. CASE w.state = "Connected" /\ Exhausted(w)
    BY <1>5, Zenon DEF ReplayOne, Left, Exhausted
<1> QED
    BY <1>2, <1>3, <1>4, <1>5 DEF Exhausted

(* A session becomes connected, before the replay. *)
LEMMA ConfirmedGood ==
    ASSUME NEW w, NEW R, NEW A, Good(w, R, A), w.state = "Connecting"
    PROVE  Good([w EXCEPT !.state = "Connected", !.ready = @ + 1], R, A)
<1> DEFINE o == [w EXCEPT !.state = "Connected", !.ready = @ + 1]
<1>1. w \in Records /\ w.ready = 0 /\ w.draining = 0 /\ w.closed = 0
    BY DEF Good, Lifecycle
<1>2. "Connected" \in States /\ 0 + 1 = 1 /\ 1 \in Nat
    BY DEF States, Live
<1>3. o = [w EXCEPT !.state = "Connected", !.ready = 1]
    BY <1>1, <1>2 DEF Records
<1> HIDE DEF o
<1>4. /\ o \in Records /\ o.state = "Connected" /\ o.ready = 1
      /\ SameQueues(o, w) /\ o.streams = w.streams
      /\ o.blocked_stream_requests = w.blocked_stream_requests
      /\ o.opened = w.opened /\ o.max_streams = w.max_streams
      /\ o.creating = w.creating /\ o.done = w.done /\ o.failed = w.failed
      /\ o.announced = w.announced /\ o.ended = w.ended
      /\ o.draining = w.draining /\ o.closed = w.closed
    BY <1>1, <1>2, <1>3, Zenon DEF Records, SameQueues
<1>5. Within(o)
    BY <1>4 DEF Good, Within, SameQueues
<1>6. Answered(o, R)
    BY <1>4, Zenon DEF Good, Answered, SameQueues
<1>7. Paired(o, A)
    BY <1>4, Zenon DEF Good, Paired, SameQueues
<1>8. Lifecycle(o)
    BY <1>1, <1>4 DEF Lifecycle
<1> QED
    BY <1>4, <1>5, <1>6, <1>7, <1>8 DEF Good, o

(* The last loop of the replay announces the streams that are still there. *)
LEMMA AnnounceGood ==
    ASSUME NEW w, NEW R, NEW A, Good(w, R, A), w.state = "Connected", Exhausted(w)
    PROVE  LET o == [w EXCEPT
                        !.pending_streams = << >>,
                        !.announced = @ \cup (Range(w.pending_streams) \cap w.streams)]
           IN  Good(o, R, A) /\ Replayed(o)
<1> DEFINE new == w.announced \cup (Range(w.pending_streams) \cap w.streams)
           o == [w EXCEPT !.pending_streams = << >>, !.announced = new]
<1>1. w \in Records /\ new \in SUBSET (PeerStreams \cup Requests)
    BY Fields DEF Good
<1>2. /\ o \in Records /\ o.state = w.state /\ o.pending_streams = << >>
      /\ o.announced = new
      /\ o.pending_capsules = w.pending_capsules
      /\ o.pending_datagrams = w.pending_datagrams
      /\ o.pending_datagram_requests = w.pending_datagram_requests
      /\ o.streams = w.streams
      /\ o.blocked_stream_requests = w.blocked_stream_requests
      /\ o.opened = w.opened /\ o.max_streams = w.max_streams
      /\ o.creating = w.creating /\ o.done = w.done /\ o.failed = w.failed
      /\ o.ended = w.ended
      /\ o.ready = w.ready /\ o.draining = w.draining /\ o.closed = w.closed
    <2> HIDE DEF new
    <2> QED
        BY <1>1, EmptyQueue, Zenon DEF Records
<1> HIDE DEF o
<1>3. Within(o)
    BY <1>2, EmptyQueue, SessionAssumption DEF Good, Within
<1>4. Answered(o, R)
    BY <1>2 DEF Good, Answered
<1>5. Paired(o, A)
    BY <1>2, EmptyQueue, Zenon DEF Good, Paired
<1>6. Lifecycle(o)
    BY <1>2, Zenon DEF Good, Lifecycle
<1>7. Replayed(o)
    BY <1>2 DEF Replayed, Exhausted
<1> QED
    BY <1>2, <1>3, <1>4, <1>5, <1>6, <1>7 DEF Good, o

(* Induction up to n over the members of a set. *)
WF == INSTANCE WellFoundedInduction

(* A set that holds 0 and with each number below n the next one holds all  *)
(* numbers up to n: otherwise there is a smallest one that it lacks.       *)
LEMMA InductionUpTo ==
    ASSUME NEW n \in Nat, NEW T, 0 \in T,
           \A k \in 0 .. n : k \in T /\ k < n => k + 1 \in T
    PROVE  0 .. n \subseteq T
<1> DEFINE F == (0 .. n) \ T
           less == {p \in Nat \X Nat : p[1] < p[2]}
<1> SUFFICES ASSUME F # {} PROVE FALSE
    OBVIOUS
<1>1. F \subseteq Nat
    OBVIOUS
<1>2. WF!IsWellFoundedOn(less, Nat)
    <2>1. WF!OpToRel(<, Nat) = less
        BY DEF WF!OpToRel
    <2> QED
        BY <2>1, WF!NatLessThanWellFounded
<1> HIDE DEF F, less
<1>3. PICK x \in F : \A y \in F : ~(<< y, x >> \in less)
    BY <1>1, <1>2, WF!WFMin, Zenon
<1>4. \A y \in F : ~(y < x)
    BY <1>1, <1>3, Zenon DEF less
<1> USE DEF F
<1>5. x \in 0 .. n /\ x \notin T /\ x # 0
    OBVIOUS
<1>6. x - 1 \in 0 .. n /\ x - 1 < n /\ x - 1 < x /\ (x - 1) + 1 = x
    BY <1>5
<1>7. x - 1 \in T
    BY <1>4, <1>6
<1> QED
    BY <1>5, <1>6, <1>7

(* The recursion of Replay has a solution for any number of turns. *)
LEMMA ReplayRuns ==
    ASSUME NEW w, NEW turns \in Nat
    PROVE  \E f : /\ f = [k \in 0 .. turns |->
                             IF k = 0 THEN w ELSE ReplayOne(f[k - 1])]
                  /\ Replay(w, turns) = f[turns]
<1> DEFINE Is(f, m) == f = [k \in 0 .. m |->
                               IF k = 0 THEN w ELSE ReplayOne(f[k - 1])]
           T == {m \in 0 .. turns : \E f : Is(f, m)}
<1>1. 0 \in T
    <2> DEFINE f == [k \in 0 .. 0 |-> w]
    <2>1. Is(f, 0)
        <3>1. \A k \in 0 .. 0 : k = 0
            OBVIOUS
        <3> QED
            BY <3>1
    <2>2. 0 \in 0 .. turns
        OBVIOUS
    <2> HIDE DEF Is, f
    <2> QED
        BY <2>1, <2>2
<1>2. ASSUME NEW m \in 0 .. turns, m \in T, m < turns
      PROVE  m + 1 \in T
    <2>1. PICK f : Is(f, m)
        <3> HIDE DEF Is
        <3> QED
            BY <1>2
    <2> DEFINE g == [k \in 0 .. m + 1 |-> IF k = 0 THEN w ELSE ReplayOne(f[k - 1])]
    <2>2. ASSUME NEW k \in 0 .. m
          PROVE  g[k] = f[k]
        <3>1. k \in 0 .. m + 1
            BY <1>2
        <3>2. f[k] = IF k = 0 THEN w ELSE ReplayOne(f[k - 1])
            BY <2>1
        <3> QED
            BY <3>1, <3>2
    <2>3. \A k \in 0 .. m + 1 : k # 0 => k - 1 \in 0 .. m
        BY <1>2
    <2>4. ASSUME NEW k \in 0 .. m + 1
          PROVE  (IF k = 0 THEN w ELSE ReplayOne(f[k - 1])) =
                 (IF k = 0 THEN w ELSE ReplayOne(g[k - 1]))
        <3>1. k # 0 => f[k - 1] = g[k - 1]
            BY <2>2, <2>3
        <3> HIDE DEF g
        <3> QED
            BY <3>1
    <2>5. Is(g, m + 1)
        BY <2>4, Zenon
    <2>6. m + 1 \in 0 .. turns
        BY <1>2
    <2> HIDE DEF Is, g
    <2> QED
        BY <2>5, <2>6
<1>3. turns \in T
    <2>1. 0 .. turns \subseteq T
        <3> HIDE DEF T
        <3> QED
            BY <1>1, <1>2, InductionUpTo
    <2> QED
        BY <2>1
<1>4. \E f : Is(f, turns)
    BY <1>3
<1> DEFINE after == CHOOSE f : Is(f, turns)
<1>5. Is(after, turns)
    BY <1>4, Zenon
<1>6. Replay(w, turns) = after[turns]
    BY DEF Replay
<1> QED
    BY <1>5, <1>6, Zenon

(* The whole replay keeps every promise, and leaves nothing to do. *)
LEMMA ReplayGood ==
    ASSUME NEW w, NEW R, NEW A, Good(w, R, A), NEW turns \in Nat, Left(w, turns)
    PROVE  Good(Replay(w, turns), R, A) /\ Left(Replay(w, turns), 0)
<1>1. PICK f : /\ f = [k \in 0 .. turns |->
                          IF k = 0 THEN w ELSE ReplayOne(f[k - 1])]
               /\ Replay(w, turns) = f[turns]
    BY ReplayRuns
<1> DEFINE T == {k \in 0 .. turns : Good(f[k], R, A) /\ Left(f[k], turns - k)}
<1>2. 0 \in T
    <2>1. f[0] = w /\ turns - 0 = turns /\ 0 \in 0 .. turns
        BY <1>1
    <2> QED
        BY <2>1
<1>3. ASSUME NEW k \in 0 .. turns, k \in T, k < turns
      PROVE  k + 1 \in T
    <2> DEFINE n == turns - (k + 1)
    <2>1. n \in Nat /\ turns - k = n + 1 /\ k + 1 \in 0 .. turns /\ (k + 1) - 1 = k
        BY <1>3
    <2>2. f[k + 1] = ReplayOne(f[k])
        BY <1>1, <2>1
    <2>3. Good(f[k], R, A) /\ Left(f[k], n + 1)
        BY <1>3, <2>1
    <2> HIDE DEF n
    <2>4. Good(f[k + 1], R, A) /\ Left(f[k + 1], n)
        BY <2>1, <2>2, <2>3, ReplayOneGood
    <2> QED
        BY <2>1, <2>4 DEF n
<1>4. 0 .. turns \subseteq T
    <2> HIDE DEF T
    <2> QED
        BY <1>2, <1>3, InductionUpTo
<1>5. turns \in 0 .. turns /\ turns - turns = 0
    OBVIOUS
<1> QED
    BY <1>1, <1>4, <1>5

(* accept and recv_response: whatever the replay meets, the session keeps  *)
(* its promises, and if it is still connected nothing is held back.        *)
LEMMA ConnectGood ==
    ASSUME NEW w, NEW R, NEW A, Good(w, R, A), w.state = "Connecting"
    PROVE  LET o == Connect(w)
           IN  Good(o, R, A) /\ Replayed(o) /\ o.creating = << >>
<1> DEFINE v == [w EXCEPT !.state = "Connected", !.ready = @ + 1]
           n == Len(v.pending_capsules) + Len(v.pending_datagrams)
           p == Replay(v, n)
           a == [p EXCEPT
                    !.pending_streams = << >>,
                    !.announced = @ \cup (Range(p.pending_streams) \cap p.streams)]
           q == ReplayPendingQueues(v)
           o == Connect(w)
<1>1. Good(v, R, A)
    BY ConfirmedGood, Zenon
<1>2. o = BindStreams(q) /\ q = IF p.state # "Connected" THEN p ELSE a
    BY DEF Connect, ReplayPendingQueues
<1> HIDE DEF v
<1>3. n \in Nat /\ Left(v, n)
    <2>0. v.pending_capsules \in Seq(Capsules) /\ v.pending_datagrams \in Seq(Datagrams)
        BY <1>1, Fields DEF Good
    <2>1. n \in Nat
        <3>1. Len(v.pending_capsules) \in Nat
            BY <2>0, LenOf
        <3>2. Len(v.pending_datagrams) \in Nat
            BY <2>0, LenOf
        <3>3. \A i, j \in Nat : i + j \in Nat
            OBVIOUS
        <3> QED
            BY <3>1, <3>2, <3>3, Zenon
    <2>2. n <= n
        BY <2>1
    <2> QED
        BY <2>1, <2>2, Zenon DEF Left
<1> HIDE DEF n
<1>4. Good(p, R, A) /\ Left(p, 0)
    BY <1>1, <1>3, ReplayGood
<1> HIDE DEF p
<1>5. Good(q, R, A) /\ Replayed(q)
    <2>1. CASE p.state # "Connected"
        BY <1>2, <1>4, <2>1 DEF Replayed
    <2>2. CASE p.state = "Connected"
        <3>1. Exhausted(p)
            <4>1. p.pending_capsules \in Seq(Capsules) /\ p.pending_datagrams \in Seq(Datagrams)
                BY <1>4, Fields DEF Good
            <4>2. \/ Exhausted(p)
                  \/ Len(p.pending_capsules) + Len(p.pending_datagrams) <= 0
                BY <1>4, <2>2, Zenon DEF Left
            <4>3. Len(p.pending_capsules) + Len(p.pending_datagrams) <= 0
                      => p.pending_capsules = << >> /\ p.pending_datagrams = << >>
                <5> DEFINE b == p.pending_capsules
                           d == p.pending_datagrams
                <5>1. b \in Seq(Capsules) /\ d \in Seq(Datagrams)
                    BY <4>1
                <5> HIDE DEF b, d
                <5>2. Len(b) + Len(d) <= 0 => b = << >> /\ d = << >>
                    <6>1. Len(b) \in Nat /\ Len(d) \in Nat
                        BY <5>1
                    <6>2. Len(b) + Len(d) <= 0 => Len(b) = 0 /\ Len(d) = 0
                        BY <6>1
                    <6> QED
                        BY <5>1, <6>2
                <5> QED
                    BY <5>2 DEF b, d
            <4> QED
                BY <4>2, <4>3, ZenonT(60) DEF Exhausted
        <3>2. Good(a, R, A) /\ Replayed(a)
            BY <1>4, <2>2, <3>1, AnnounceGood, Zenon
        <3>3. q = a
            BY <1>2, <2>2
        <3> HIDE DEF a, q
        <3> QED
            BY <3>2, <3>3
    <2> QED
        BY <2>1, <2>2
<1> HIDE DEF o, q, a
<1>6. Good(o, R, A) /\ o.creating = << >> /\ o.state = q.state /\ SameQueues(o, q)
    BY <1>2, <1>5, BindGood
<1>7. Replayed(o)
    BY <1>5, <1>6 DEF Replayed, Exhausted, SameQueues
<1> QED
    BY <1>6, <1>7, SMTT(30) DEF o

------------------------------------------------------------------------------
(* The invariant, action by action.                                        *)

(* A new session keeps the invariant. *)
LEMMA InitIInv == Init => IInv
<1> SUFFICES ASSUME Init PROVE IInv
    OBVIOUS
<1>1. /\ s = NewSession /\ issued = {} /\ arrived = {} /\ datagrams = 0
      /\ DatagramLimit \in Nat /\ InitialMaxStreams \in Nat
    BY SessionAssumption DEF Init
<1>2. /\ [r \in Requests |-> 0] \in [Requests -> Nat] /\ 0 \in Nat
      /\ "Connecting" \in States /\ {} \in SUBSET (PeerStreams \cup Requests)
    BY DEF States, Live
<1>3. s \in Records
    BY <1>1, <1>2, EmptyQueue DEF Records, NewSession
<1>4. Within(s)
    BY <1>1, EmptyQueue, SessionAssumption DEF Within, NewSession
<1>5. Answered(s, issued)
    BY <1>1, EmptyQueue DEF Answered, NewSession
<1>6. Paired(s, arrived)
    BY <1>1, EmptyQueue DEF Paired, NewSession
<1>7. Lifecycle(s)
    BY <1>1 DEF Lifecycle, NewSession
<1>8. Replayed(s) /\ s.creating = << >>
    BY <1>1, SMTT(30) DEF Replayed, NewSession
<1> QED
    BY <1>1, <1>3, <1>4, <1>5, <1>6, <1>7, <1>8 DEF IInv, Good


(* Requests of the application. *)
LEMMA UserStep == ASSUME IInv, User PROVE IInv'
<1>1. PICK r \in Requests : \/ \E valid \in BOOLEAN : Accept(r, valid) \/ Reject(r, valid)
                            \/ Close(r) \/ CreateStream(r) \/ ReadDatagram(r)
    BY DEF User
<1>2. /\ r \notin issued /\ issued' = issued \cup {r}
      /\ arrived' = arrived /\ datagrams' = datagrams
    BY <1>1 DEF Accept, Reject, Close, CreateStream, ReadDatagram, Issue
<1> DEFINE R == issued \cup {r}
           A == arrived
<1>3. Good(s, issued, A) /\ Replayed(s) /\ s.creating = << >>
    BY DEF IInv
<1>4. SUFFICES Good(s', R, A) /\ Replayed(s') /\ s'.creating = << >>
    BY <1>2 DEF IInv
<1>5. ASSUME NEW o, o \in {Done(s, r), Failed(s, r)}
      PROVE  /\ Good(o, R, A) /\ Replayed(o) /\ o.creating = << >>
             /\ o.state = s.state
    <2>1. Good(o, R, A) /\ o.state = s.state /\ o.creating = s.creating /\ SameQueues(o, s)
        BY <1>2, <1>3, <1>5, AnswerGood, ZenonT(60)
    <2> QED
        BY <1>3, <2>1 DEF Replayed, Exhausted, SameQueues
<1>6. ASSUME NEW st \in {"Closing", "Closed"}, s.state \in Live,
             s' = Done(Terminate(s, st), r)
      PROVE  Good(s', R, A) /\ Replayed(s') /\ s'.creating = << >>
    <2> DEFINE v == Terminate(s, st)
    <2>1. Good(v, issued, A) /\ v.state = st /\ v.creating = s.creating
        BY <1>3, <1>6, TerminateGood
    <2> HIDE DEF v
    <2>2. Good(s', R, A) /\ s'.state = v.state /\ s'.creating = v.creating
        BY <1>2, <1>6, <2>1, AnswerGood, SMTT(30) DEF v
    <2> QED
        BY <1>3, <2>1, <2>2 DEF Replayed
<1>7. ASSUME NEW valid \in BOOLEAN, Accept(r, valid)
      PROVE  Good(s', R, A) /\ Replayed(s') /\ s'.creating = << >>
    <2>1. \/ s' = Failed(s, r)
          \/ s.state = "Connecting" /\ s' = Connect(Done(s, r))
        BY <1>7 DEF Accept
    <2>2. CASE s.state = "Connecting" /\ s' = Connect(Done(s, r))
        <3> DEFINE v == Done(s, r)
        <3>1. Good(v, R, A) /\ v.state = "Connecting"
            BY <1>5, <2>2, Zenon
        <3> HIDE DEF v, R, A
        <3>2. s' = Connect(v)
            BY <2>2 DEF v
        <3> QED
            BY <3>1, <3>2, ConnectGood
    <2> QED
        BY <1>5, <2>1, <2>2, ZenonT(60)
<1>8. ASSUME NEW valid \in BOOLEAN, Reject(r, valid)
      PROVE  Good(s', R, A) /\ Replayed(s') /\ s'.creating = << >>
    <2>1. \/ s' = Failed(s, r)
          \/ s.state = "Connecting" /\ s' = Done(Terminate(s, "Closed"), r)
        BY <1>8 DEF Reject
    <2>2. "Connecting" \in Live
        BY DEF Live
    <2> QED
        BY <1>5, <1>6, <2>1, <2>2, Zenon
<1>9. CASE Close(r)
    <2>1. \/ s' = Done(s, r)
          \/ s.state \notin {"Closing", "Closed"} /\ s' = Done(Terminate(s, "Closing"), r)
        BY <1>9 DEF Close
    <2>2. s.state \notin {"Closing", "Closed"} => s.state \in Live
        BY <1>3, Fields DEF Good, States
    <2> QED
        BY <1>5, <1>6, <2>1, <2>2, ZenonT(60)
<1>10. CASE CreateStream(r)
    <2>1. \/ s' = Failed(s, r)
          \/ s.state \in Live /\ s' = [s EXCEPT !.blocked_stream_requests = Append(@, r)]
          \/ /\ s.state \in Live /\ ~(s.opened >= s.max_streams)
             /\ s' = BindStreams([s EXCEPT !.opened = @ + 1, !.creating = << r >>])
        BY <1>10 DEF CreateStream
    <2>2. CASE /\ s.state \in Live
               /\ s' = [s EXCEPT !.blocked_stream_requests = Append(@, r)]
        <3>1. /\ Good(s', R, A) /\ s'.state = s.state
              /\ s'.creating = s.creating /\ SameQueues(s', s)
            BY <1>2, <1>3, <2>2, BlockGood
        <3> QED
            BY <1>3, <3>1 DEF Replayed, Exhausted, SameQueues
    <2>3. CASE /\ s.state \in Live /\ ~(s.opened >= s.max_streams)
               /\ s' = BindStreams([s EXCEPT !.opened = @ + 1, !.creating = << r >>])
        <3> DEFINE v == [s EXCEPT !.opened = @ + 1, !.creating = << r >>]
        <3>1. Good(v, R, A) /\ v.state = s.state /\ SameQueues(v, s)
            BY <1>2, <1>3, <2>3, OpenGood, ZenonT(60)
        <3>2. s' = BindStreams(v)
            BY <2>3
        <3> HIDE DEF v, R, A
        <3>3. /\ Good(s', R, A) /\ s'.creating = << >>
              /\ s'.state = v.state /\ SameQueues(s', v)
            BY <3>1, <3>2, BindGood
        <3> QED
            BY <1>3, <3>1, <3>3, SMTT(30) DEF Replayed, Exhausted, SameQueues
    <2> QED
        BY <1>5, <2>1, <2>2, <2>3, ZenonT(60)
<1>11. CASE ReadDatagram(r)
    <2> DEFINE v == [s EXCEPT !.pending_datagrams = Tail(@),
                              !.delivered = Append(@, Head(s.pending_datagrams))]
    <2>1. \/ s' = Failed(s, r)
          \/ s.state \in Live /\ s.pending_datagrams # << >> /\ s' = Done(v, r)
          \/ /\ s.state \in Live /\ ~(s.state # "Connecting" /\ s.pending_datagrams # << >>)
             /\ s' = [s EXCEPT !.pending_datagram_requests = Append(@, r)]
        BY <1>11 DEF ReadDatagram
    <2>2. CASE s.state \in Live /\ s.pending_datagrams # << >> /\ s' = Done(v, r)
        <3>1. /\ Good(v, issued, A) /\ v.state = s.state /\ v.creating = s.creating
              /\ v.pending_capsules = s.pending_capsules
              /\ v.pending_streams = s.pending_streams
              /\ v.pending_datagram_requests = s.pending_datagram_requests
            BY <1>3, <2>2, TakeGood, Zenon
        <3>2. s' = Done(v, r)
            BY <2>2
        <3> HIDE DEF v
        <3>3. /\ Good(s', R, A) /\ s'.state = v.state
              /\ s'.creating = v.creating /\ SameQueues(s', v)
            BY <1>2, <3>1, <3>2, AnswerGood
        <3>4. s.state = "Connected" => s.pending_datagram_requests = << >>
            BY <1>3, <2>2 DEF Replayed, Exhausted
        <3> QED
            BY <1>3, <3>1, <3>3, <3>4 DEF Replayed, Exhausted, SameQueues
    <2>3. CASE /\ s.state \in Live
               /\ ~(s.state # "Connecting" /\ s.pending_datagrams # << >>)
               /\ s' = [s EXCEPT !.pending_datagram_requests = Append(@, r)]
        <3>1. /\ Good(s', R, A) /\ s'.state = s.state /\ s'.creating = s.creating
              /\ s'.pending_capsules = s.pending_capsules
              /\ s'.pending_datagrams = s.pending_datagrams
              /\ s'.pending_streams = s.pending_streams
            BY <1>2, <1>3, <2>3, WaitGood
        <3> QED
            BY <1>3, <2>3, <3>1 DEF Replayed, Exhausted
    <2> QED
        BY <1>5, <2>1, <2>2, <2>3, ZenonT(60)
<1> QED
    BY <1>1, <1>7, <1>8, <1>9, <1>10, <1>11, Zenon


(* Events from the connection. *)
LEMMA ConnectionStep == ASSUME IInv, Connection PROVE IInv'
<1> DEFINE R == issued
           A == arrived
<1>1. /\ Good(s, R, A) /\ Replayed(s) /\ s.creating = << >>
      /\ issued \subseteq Requests /\ arrived \subseteq PeerStreams
      /\ datagrams \in 0 .. DatagramLimit
    BY DEF IInv
<1>2. ASSUME issued' = issued, arrived' = arrived, datagrams' = datagrams,
             Good(s', R, A), Replayed(s'), s'.creating = << >>
      PROVE  IInv'
    BY <1>1, <1>2 DEF IInv
<1>3. s.state \in Live \/ s.state \in {"Closing", "Closed"}
    BY <1>1, Fields DEF Good, States
<1>4. CASE Confirm
    <2>1. /\ s.state = "Connecting" /\ s' = Connect(s)
          /\ issued' = issued /\ arrived' = arrived /\ datagrams' = datagrams
        BY <1>4 DEF Confirm
    <2>2. Good(s', R, A) /\ Replayed(s') /\ s'.creating = << >>
        BY <1>1, <2>1, ConnectGood
    <2> QED
        BY <1>2, <2>1, <2>2
<1>5. CASE Drain
    <2>1. /\ \/ s' = s
             \/ /\ s.state = "Connected"
                /\ s' = [s EXCEPT !.state = "Draining", !.draining = @ + 1]
          /\ issued' = issued /\ arrived' = arrived /\ datagrams' = datagrams
        BY <1>5 DEF Drain
    <2>2. CASE s.state = "Connected"
               /\ s' = [s EXCEPT !.state = "Draining", !.draining = @ + 1]
        <3>1. Good(s', R, A) /\ s'.state = "Draining" /\ s'.creating = s.creating
            BY <1>1, <2>2, DrainGood, Zenon
        <3>2. Replayed(s')
            BY <3>1 DEF Replayed
        <3> QED
            BY <1>1, <1>2, <2>1, <3>1, <3>2, SMTT(30)
    <2>3. CASE s' = s
        BY <1>1, <1>2, <2>1, <2>3
    <2> QED
        BY <2>1, <2>2, <2>3
<1>6. CASE AbortSession
    <2>1. /\ s' = Abort(s)
          /\ issued' = issued /\ arrived' = arrived /\ datagrams' = datagrams
        BY <1>6 DEF AbortSession
    <2>2. /\ Good(s', R, A) /\ s'.state \in {"Closing", "Closed"}
          /\ s'.creating = s.creating
        BY <1>1, <2>1, AbortGood
    <2>3. Replayed(s')
        BY <2>2 DEF Replayed
    <2> QED
        BY <1>1, <1>2, <2>1, <2>2, <2>3
<1>7. CASE RecvConnectClose
    <2>1. issued' = issued /\ arrived' = arrived /\ datagrams' = datagrams
        BY <1>7 DEF RecvConnectClose
    <2>2. CASE s.state = "Closed"
        <3>1. s' = s
            BY <1>7, <2>2 DEF RecvConnectClose
        <3> QED
            BY <1>1, <1>2, <2>1, <3>1
    <2>3. CASE s.state = "Closing"
        <3>1. s' = [s EXCEPT !.state = "Closed"]
            BY <1>7, <2>3 DEF RecvConnectClose
        <3>2. Good(s', R, A) /\ s'.state = "Closed" /\ s'.creating = s.creating
            BY <1>1, <2>3, <3>1, ClosedGood
        <3>3. Replayed(s')
            BY <3>2 DEF Replayed
        <3> QED
            BY <1>1, <1>2, <2>1, <3>2, <3>3
    <2>4. CASE s.state \in Live
        <3>1. s' = Terminate(s, "Closed")
            BY <1>7, <2>4 DEF RecvConnectClose, Live
        <3>2. Good(s', R, A) /\ s'.state = "Closed" /\ s'.creating = s.creating
            BY <1>1, <2>4, <3>1, TerminateGood
        <3>3. Replayed(s')
            BY <3>2 DEF Replayed
        <3> QED
            BY <1>1, <1>2, <2>1, <3>2, <3>3
    <2> QED
        BY <1>3, <2>2, <2>3, <2>4
<1>8. CASE DatagramReceived
    <2> DEFINE d == datagrams + 1
    <2>1. /\ datagrams < DatagramLimit /\ datagrams' = d /\ s' = RecvDatagram(s, d)
          /\ issued' = issued /\ arrived' = arrived
        BY <1>8 DEF DatagramReceived
    <2>2. d \in Datagrams /\ d \in 0 .. DatagramLimit
        BY <1>1, <2>1, SessionAssumption, SMTT(30) DEF Datagrams
    <2> HIDE DEF d
    <2>3. /\ Good(s', R, A) /\ s'.state = s.state /\ s'.creating = s.creating
          /\ s'.pending_capsules = s.pending_capsules
          /\ s'.pending_streams = s.pending_streams
          /\ s.state = "Connected" =>
                 \/ s'.pending_datagrams = s.pending_datagrams
                 \/ /\ s.pending_datagram_requests = << >>
                    /\ s'.pending_datagram_requests = << >>
          /\ s.pending_datagram_requests = << >> =>
                 s'.pending_datagram_requests = << >>
        BY <1>1, <2>1, <2>2, RecvDatagramGood, SMTT(30)
    <2>4. Replayed(s')
        BY <1>1, <2>1, <2>3 DEF Replayed, Exhausted
    <2> QED
        BY <1>1, <2>1, <2>2, <2>3, <2>4 DEF IInv
<1>9. ASSUME NEW c \in Capsules, CapsuleReceived(c) PROVE IInv'
    <2> DEFINE v == RecvCapsule(s, c)
    <2>1. /\ s' = BindStreams(v)
          /\ issued' = issued /\ arrived' = arrived /\ datagrams' = datagrams
        BY <1>9 DEF CapsuleReceived
    <2>2. /\ Good(v, R, A)
          /\ v.state = "Connected" => s.state = "Connected" /\ SameQueues(v, s)
        BY <1>1, RecvCapsuleGood
    <2> HIDE DEF v
    <2>3. /\ Good(s', R, A) /\ s'.creating = << >>
          /\ s'.state = v.state /\ SameQueues(s', v)
        BY <2>1, <2>2, BindGood
    <2>4. Replayed(s')
        BY <1>1, <2>2, <2>3 DEF Replayed, Exhausted, SameQueues
    <2> QED
        BY <1>2, <2>1, <2>3, <2>4
<1>10. ASSUME NEW i \in PeerStreams, HandleStreamOpened(i) PROVE IInv'
    <2>1. /\ i \notin A /\ arrived' = A \cup {i}
          /\ issued' = issued /\ datagrams' = datagrams
        BY <1>10 DEF HandleStreamOpened
    <2>2. SUFFICES Good(s', R, A \cup {i}) /\ Replayed(s') /\ s'.creating = << >>
        BY <1>1, <2>1 DEF IInv
    <2>3. CASE s' = s
        BY <1>1, <2>3, RefusedGood, Zenon
    <2>4. CASE /\ s.state = "Connecting" /\ ~(Len(s.pending_streams) >= MaxPendingStreams)
               /\ s' = [s EXCEPT !.pending_streams = Append(@, i), !.streams = @ \cup {i}]
        <3> DEFINE v == [s EXCEPT !.pending_streams = Append(@, i), !.streams = @ \cup {i}]
        <3>0. /\ Good(v, R, A \cup {i}) /\ v.state = s.state
              /\ v.creating = s.creating
            BY <1>1, <2>1, <2>4, HoldStreamGood, ZenonT(60)
        <3>1. /\ Good(s', R, A \cup {i}) /\ s'.state = s.state
              /\ s'.creating = s.creating
            <4>1. s' = v
                BY <2>4
            <4> HIDE DEF v
            <4> QED
                BY <3>0, <4>1
        <3> HIDE DEF v
        <3> QED
            BY <1>1, <2>4, <3>1 DEF Replayed
    <2>5. CASE /\ s.state \in Live
               /\ s' = [s EXCEPT !.streams = @ \cup {i}, !.announced = @ \cup {i}]
        <3> DEFINE v == [s EXCEPT !.streams = @ \cup {i}, !.announced = @ \cup {i}]
        <3>0. /\ Good(v, R, A \cup {i}) /\ v.state = s.state
              /\ v.creating = s.creating /\ SameQueues(v, s)
            BY <1>1, <2>1, <2>5, NewStreamGood, ZenonT(60)
        <3>1. /\ Good(s', R, A \cup {i}) /\ s'.state = s.state
              /\ s'.creating = s.creating /\ SameQueues(s', s)
            <4>1. s' = v
                BY <2>5
            <4> HIDE DEF v
            <4> QED
                BY <3>0, <4>1
        <3> HIDE DEF v
        <3> QED
            BY <1>1, <3>1 DEF Replayed, Exhausted, SameQueues
    <2>6. CASE s.state \notin Live
        <3>1. s' = s
            BY <1>10, <2>6 DEF HandleStreamOpened, Live
        <3> QED
            BY <2>3, <3>1
    <2>7. CASE s.state = "Connecting"
        BY <1>10, <2>3, <2>4, <2>7 DEF HandleStreamOpened, Live
    <2>8. CASE s.state \in Live /\ s.state # "Connecting"
        BY <1>10, <2>5, <2>8 DEF HandleStreamOpened
    <2> QED
        BY <2>6, <2>7, <2>8
<1>11. ASSUME NEW i \in PeerStreams \cup Requests, HandleClosed(i) PROVE IInv'
    <2>1. /\ i \in s.streams
          /\ s' = [s EXCEPT !.streams = @ \ {i},
                            !.ended = IF i \in Range(s.pending_streams) THEN @
                                      ELSE @ \cup {i}]
          /\ issued' = issued /\ arrived' = arrived /\ datagrams' = datagrams
        BY <1>11, SMTT(30) DEF HandleClosed
    <2>2. /\ Good(s', R, A) /\ s'.state = s.state
          /\ s'.creating = s.creating /\ SameQueues(s', s)
        BY <1>1, <2>1, StreamEndGood, ZenonT(60)
    <2>3. Replayed(s')
        BY <1>1, <2>2 DEF Replayed, Exhausted, SameQueues
    <2> QED
        BY <1>1, <1>2, <2>1, <2>2, <2>3
<1> QED
    BY <1>4, <1>5, <1>6, <1>7, <1>8, <1>9, <1>10, <1>11 DEF Connection

(* The invariant is inductive. *)
LEMMA StepIInv == IInv /\ [Next]_vars => IInv'
<1> SUFFICES ASSUME IInv, [Next]_vars PROVE IInv'
    OBVIOUS
<1>1. CASE UNCHANGED vars
    BY <1>1 DEF IInv, vars
<1> QED
    BY <1>1, UserStep, ConnectionStep DEF Next

(* The invariant holds in every reachable state. *)
LEMMA AlwaysIInv == Spec => []IInv
BY InitIInv, StepIInv, PTL DEF Spec

(* Every request of the application is answered once or waits once,        *)
(* whatever the session goes through: release of a create_stream request   *)
(* and the end of the session within one call, replay, close, abort.       *)
THEOREM EachRequestAnsweredOnce == Spec => []ExactlyOneAnswer
<1>1. IInv => ExactlyOneAnswer
    <2> SUFFICES ASSUME IInv, NEW r \in Requests
                 PROVE  s.done[r] + s.failed[r]
                            + Count(s.pending_datagram_requests, r)
                            + Count(s.blocked_stream_requests, r)
                        = IF r \in issued THEN 1 ELSE 0
        BY SMTT(30) DEF ExactlyOneAnswer, Queued, Count
    <2> DEFINE a == Range(s.pending_datagram_requests)
               b == Range(s.blocked_stream_requests)
    <2>1. /\ Distinct(s.pending_datagram_requests) /\ Distinct(s.blocked_stream_requests)
          /\ a \cup b \subseteq issued /\ a \cap b = {}
          /\ s.done[r] + s.failed[r] = IF r \in issued \ (a \cup b) THEN 1 ELSE 0
        BY EmptyQueue DEF IInv, Good, Answered
    <2>2. /\ Count(s.pending_datagram_requests, r) = IF r \in a THEN 1 ELSE 0
          /\ Count(s.blocked_stream_requests, r) = IF r \in b THEN 1 ELSE 0
        BY <2>1, CountIs
    <2>3. s.done[r] \in Nat /\ s.failed[r] \in Nat
        BY Fields DEF IInv, Good
    <2> HIDE DEF a, b
    <2> QED
        BY <2>1, <2>2, <2>3
<1> QED
    BY <1>1, AlwaysIInv, PTL

(* The buffers of a session stay within their limits, and are empty once   *)
(* the session is connected and replayed and again once it has ended.      *)
THEOREM BuffersAlwaysEmptied == Spec => []BuffersEmptied
<1>1. IInv => BuffersEmptied
    <2> SUFFICES ASSUME IInv PROVE BuffersEmptied
        OBVIOUS
    <2>1. TypeOK
        BY Fields DEF IInv, Good, Within, TypeOK, Datagrams
    <2>2. ReplayComplete
        BY DEF IInv, Replayed, Exhausted, ReplayComplete
    <2>3. EndedHoldsNothing
        <3>1. Lifecycle(s)
            BY Zenon DEF IInv, Good
        <3> QED
            BY <3>1, Zenon DEF Lifecycle, EndedHoldsNothing
    <2> QED
        BY <2>1, <2>2, <2>3 DEF BuffersEmptied
<1> QED
    BY <1>1, AlwaysIInv, PTL

(* The end of a stream is announced if and only if its opening was, and    *)
(* the events of the session itself come once and in order.                *)
THEOREM EventsAlwaysPaired == Spec => []EventsPaired
<1>1. IInv => EventsPaired
    BY DEF IInv, Good, Paired, Lifecycle, EventsPaired, StreamEventsPaired,
           SessionEventsOnce
<1> QED
    BY <1>1, AlwaysIInv, PTL

==============================================================================
