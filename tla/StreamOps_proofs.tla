--------------------------- MODULE StreamOps_proofs ---------------------------
(***************************************************************************)
(* What every operation of module StreamOps preserves, for all request     *)
(* ids, lengths and credits: the shape of a stream, the accounting of its  *)
(* write buffer, and that it answers each request it lets go exactly once. *)
(* The last part is about order: the buffer spells the bytes that were     *)
(* accepted and have not left, whatever write appends, a flush takes from  *)
(* the front, whole chunks or part of one, and a completion lets go.       *)
(***************************************************************************)
EXTENDS StreamOps, Integers, TLAPS

------------------------------------------------------------------------------
(* Facts about sequences and small sets.  They are proved here, and not     *)
(* taken from the library's theorem modules, because every proof below      *)
(* would carry those modules along.                                         *)

(* A sequence is a function on the numbers up to its length. *)
LEMMA SeqElements ==
    ASSUME NEW S, NEW q \in Seq(S)
    PROVE  /\ Len(q) \in Nat /\ DOMAIN q = 1 .. Len(q) /\ q \in [1 .. Len(q) -> S]
           /\ \A i \in 1 .. Len(q) : q[i] \in S
    OBVIOUS

(* Only the empty sequence has no elements. *)
LEMMA SeqEmpty ==
    ASSUME NEW S
    PROVE  /\ << >> \in Seq(S) /\ Len(<< >>) = 0
           /\ \A q \in Seq(S) : q # << >> => Len(q) \in Nat \ {0}
    OBVIOUS

(* What Append does. *)
LEMMA SeqAppend ==
    ASSUME NEW S, NEW q \in Seq(S), NEW x \in S
    PROVE  /\ Append(q, x) \in Seq(S) /\ Len(Append(q, x)) = Len(q) + 1
           /\ \A i \in 1 .. Len(q) : Append(q, x)[i] = q[i]
           /\ Append(q, x)[Len(q) + 1] = x
    OBVIOUS

(* What concatenation does. *)
LEMMA SeqConcat ==
    ASSUME NEW S, NEW p \in Seq(S), NEW q \in Seq(S)
    PROVE  /\ p \o q \in Seq(S) /\ Len(p \o q) = Len(p) + Len(q)
           /\ \A i \in 1 .. Len(p) + Len(q) :
                  (p \o q)[i] = IF i <= Len(p) THEN p[i] ELSE q[i - Len(p)]
           /\ p \o << >> = p
    OBVIOUS

(* A set of one element has cardinality 1: the recursion that defines it   *)
(* has a solution, and every solution says so.                              *)
LEMMA CardinalityOne == ASSUME NEW i PROVE Cardinality({i}) = 1
<1> DEFINE S == {i}
           Is(f) == f = [T \in SUBSET S |-> IF T = {} THEN 0
                                    ELSE 1 + f[T \ {CHOOSE x : x \in T}]]
           one == [T \in SUBSET S |-> IF T = {} THEN 0 ELSE 1]
<1>1. \A T \in SUBSET S : T = {} \/ T = {i}
    OBVIOUS
<1>2. (CHOOSE x : x \in {i}) = i
    OBVIOUS
<1>3. \A T \in SUBSET S : T # {} => T \ {CHOOSE x : x \in T} = {}
    BY <1>1, <1>2
<1>4. Is(one)
    <2>1. \A T \in SUBSET S : T # {} => one[T \ {CHOOSE x : x \in T}] = 0
        BY <1>3
    <2>2. \A T \in SUBSET S : one[T] = IF T = {} THEN 0
                                    ELSE 1 + one[T \ {CHOOSE x : x \in T}]
        BY <2>1
    <2> QED
        BY <2>2
<1> DEFINE f == CHOOSE g : Is(g)
<1>5. Is(f)
    BY <1>4, Zenon
<1>6. Cardinality(S) = f[S]
    BY DEF Cardinality
<1> HIDE DEF f
<1>7. f[{}] = 0
    BY <1>5
<1>8. f[S] = 1 + f[S \ {CHOOSE x : x \in S}]
    BY <1>5
<1> QED
    BY <1>3, <1>6, <1>7, <1>8

(* The empty set has cardinality 0. *)
LEMMA CardinalityNone == Cardinality({}) = 0
<1> DEFINE Is(f) == f = [T \in SUBSET {} |-> IF T = {} THEN 0
                                    ELSE 1 + f[T \ {CHOOSE x : x \in T}]]
           none == [T \in SUBSET {} |-> 0]
           f == CHOOSE g : Is(g)
<1>1. Is(none)
    <2>1. \A T \in SUBSET {} : T = {}
        OBVIOUS
    <2>2. \A T \in SUBSET {} : 0 = IF T = {} THEN 0
                                    ELSE 1 + none[T \ {CHOOSE x : x \in T}]
        BY <2>1
    <2> QED
        BY <2>2
<1>2. Is(f)
    BY <1>1
<1>3. Cardinality({}) = f[{}]
    BY DEF Cardinality
<1> HIDE DEF f
<1> QED
    BY <1>2, <1>3
------------------------------------------------------------------------------

(* The bytes of one send, each marked with its request. *)
LEMMA RepeatIsSeq ==
    ASSUME NEW S, NEW x, NEW n \in Nat, x \in S \/ n = 0
    PROVE  Repeat(x, n) \in Seq(S) /\ Len(Repeat(x, n)) = n
<1>1. CASE x \in S
    BY <1>1 DEF Repeat
<1>2. CASE n = 0
    <2>1. Repeat(x, n) = << >>
        BY <1>2 DEF Repeat
    <2>2. << >> \in Seq(S)
        BY SeqEmpty
    <2>3. Len(<< >>) = 0
        OBVIOUS
    <2> HIDE DEF Repeat
    <2> QED
        BY <1>2, <2>1, <2>2, <2>3, Zenon
<1> QED
    BY <1>1, <1>2

RangeOf(ids) == {ids[i] : i \in DOMAIN ids}
Distinct(ids) == \A i, j \in DOMAIN ids : ids[i] = ids[j] => i = j

(* In a sequence without repetitions an id occurs once or not at all. *)
LEMMA CountDistinct ==
    ASSUME NEW ids, NEW r, Distinct(ids)
    PROVE  Count(ids, r) = IF \E i \in DOMAIN ids : ids[i] = r THEN 1 ELSE 0
<1>1. CASE \E i \in DOMAIN ids : ids[i] = r
    <2>1. PICK i \in DOMAIN ids : ids[i] = r
        BY <1>1
    <2>2. {j \in DOMAIN ids : ids[j] = r} = {i}
        BY <2>1 DEF Distinct
    <2>3. Cardinality({i}) = 1
        BY CardinalityOne, SMTT(30)
    <2> QED
        BY <1>1, <2>2, <2>3 DEF Count
<1>2. CASE ~\E i \in DOMAIN ids : ids[i] = r
    <2>1. {j \in DOMAIN ids : ids[j] = r} = {}
        BY <1>2
    <2> QED
        BY <1>2, <2>1, CardinalityNone, Zenon DEF Count
<1> QED
    BY <1>1, <1>2

(* The running sums of a buffer's lengths; size is the last of them.  The  *)
(* sums are given by a witness, so that no recursion is needed.            *)
Sums(buffer, f) ==
    /\ f \in [0 .. Len(buffer) -> Nat]
    /\ f[0] = 0
    /\ \A i \in 1 .. Len(buffer) : f[i] = f[i - 1] + buffer[i].len
    /\ \A i, j \in 0 .. Len(buffer) : i <= j => f[i] <= f[j]

SizeIs(buffer, size) == \E f : Sums(buffer, f) /\ f[Len(buffer)] = size

(* An empty buffer has size 0. *)
LEMMA SizeOfEmpty == SizeIs(<< >>, 0)
<1> DEFINE f == [i \in 0 .. 0 |-> 0]
<1>1. Sums(<< >>, f) /\ f[0] = 0
    BY DEF Sums
<1> QED
    BY <1>1 DEF SizeIs

(* A chunk that write appends adds its length to the size. *)
LEMMA SizeOfAppend ==
    ASSUME NEW buffer \in Seq(Chunks), NEW size, SizeIs(buffer, size),
           NEW c \in Chunks
    PROVE  SizeIs(Append(buffer, c), size + c.len)
<1>1. PICK f : Sums(buffer, f) /\ f[Len(buffer)] = size
    BY DEF SizeIs
<1> DEFINE n == Len(buffer)
           new == Append(buffer, c)
           g == [i \in 0 .. n + 1 |-> IF i <= n THEN f[i] ELSE size + c.len]
<1>2. /\ n \in Nat /\ Len(new) = n + 1 /\ c.len \in Nat
      /\ new[n + 1] = c /\ \A i \in 1 .. n : new[i] = buffer[i]
    BY DEF Chunks
<1>3. size \in Nat /\ \A i \in 0 .. n : f[i] \in Nat /\ f[i] <= size
    BY <1>1, <1>2 DEF Sums
<1>4. g \in [0 .. Len(new) -> Nat] /\ g[0] = 0 /\ g[Len(new)] = size + c.len
    BY <1>1, <1>2, <1>3 DEF Sums
<1>5. \A i \in 1 .. Len(new) : g[i] = g[i - 1] + new[i].len
    BY <1>1, <1>2, <1>3 DEF Sums
<1>6. \A i, j \in 0 .. Len(new) : i <= j => g[i] <= g[j]
    BY <1>1, <1>2, <1>3 DEF Sums
<1>7. Sums(new, g)
    BY <1>4, <1>5, <1>6, Zenon DEF Sums
<1> QED
    BY <1>4, <1>7 DEF SizeIs

(* The front and the rest of a queue, by index. *)
LEMMA Queue ==
    ASSUME NEW S, NEW q \in Seq(S), q # << >>
    PROVE  /\ Len(q) \in Nat /\ Len(q) > 0 /\ DOMAIN q = 1 .. Len(q)
           /\ Head(q) = q[1] /\ q[1] \in S
           /\ Tail(q) \in Seq(S) /\ Len(Tail(q)) = Len(q) - 1
           /\ DOMAIN Tail(q) = 1 .. Len(q) - 1
           /\ \A i \in 1 .. Len(q) - 1 : Tail(q)[i] = q[i + 1]
OBVIOUS

(* A queue with its front replaced, by index. *)
LEMMA QueueFront ==
    ASSUME NEW S, NEW q \in Seq(S), q # << >>, NEW c \in S
    PROVE  /\ << c >> \o Tail(q) \in Seq(S)
           /\ Len(<< c >> \o Tail(q)) = Len(q)
           /\ DOMAIN (<< c >> \o Tail(q)) = 1 .. Len(q)
           /\ (<< c >> \o Tail(q))[1] = c
           /\ \A i \in 2 .. Len(q) : (<< c >> \o Tail(q))[i] = q[i]
BY Queue

(* The running sums of a buffer without its last chunk. *)
LEMMA SumsOfFront ==
    ASSUME NEW buffer \in Seq(Chunks), buffer # << >>, NEW f, Sums(buffer, f)
    PROVE  /\ buffer[1].len \in Nat /\ f[1] = buffer[1].len
           /\ \A i \in 0 .. Len(buffer) : f[i] \in Nat
           /\ \A i \in 1 .. Len(buffer) : f[1] <= f[i]
<1>1. Len(buffer) \in Nat /\ Len(buffer) > 0 /\ buffer[1] \in Chunks
    BY Queue
<1>2. f[1] = f[1 - 1] + buffer[1].len
    BY <1>1 DEF Sums
<1>3. buffer[1].len \in Nat /\ f[0] = 0
    BY <1>1 DEF Sums, Chunks
<1> QED
    BY <1>1, <1>2, <1>3 DEF Sums

(* Taking n bytes off the front chunk leaves the rest of the sum. *)
LEMMA SizeOfSplit ==
    ASSUME NEW buffer \in Seq(Chunks), NEW size, SizeIs(buffer, size),
           buffer # << >>, NEW n \in Nat, n <= Head(buffer).len
    PROVE  /\ size \in Nat /\ Head(buffer).len <= size
           /\ SizeIs(<< [Head(buffer) EXCEPT !.len = @ - n] >> \o Tail(buffer),
                     size - n)
<1>1. PICK f : Sums(buffer, f) /\ f[Len(buffer)] = size
    BY DEF SizeIs
<1> DEFINE c == [Head(buffer) EXCEPT !.len = @ - n]
           new == << c >> \o Tail(buffer)
           m == Len(buffer)
           g == [i \in 0 .. m |-> IF i = 0 THEN 0 ELSE f[i] - n]
<1>2. m \in Nat /\ m > 0 /\ Head(buffer) = buffer[1] /\ buffer[1] \in Chunks
    BY Queue
<1>3. c \in Chunks /\ c.len = buffer[1].len - n
    BY <1>2, SMTT(30) DEF Chunks
<1> HIDE DEF c
<1>4. /\ Len(new) = m /\ new[1] = c
      /\ \A i \in 2 .. m : new[i] = buffer[i]
    BY <1>3, QueueFront
<1>5. /\ f[0] = 0 /\ f[1] = buffer[1].len /\ n <= f[1]
      /\ \A i \in 0 .. m : f[i] \in Nat
      /\ \A i \in 1 .. m : f[1] <= f[i]
      /\ \A i \in 1 .. m : f[i] = f[i - 1] + buffer[i].len
      /\ \A i, j \in 0 .. m : i <= j => f[i] <= f[j]
    BY <1>1, <1>2, SumsOfFront, Zenon DEF Sums
<1> HIDE DEF new, m
<1>6. g \in [0 .. m -> Nat] /\ g[0] = 0 /\ g[m] = size - n
    <2>1. \A i \in 1 .. m : f[i] - n \in Nat
        BY <1>2, <1>5
    <2>2. f[m] = size
        BY <1>1 DEF m
    <2> QED
        BY <1>2, <2>1, <2>2
<1>7. \A i \in 1 .. m : g[i] = g[i - 1] + new[i].len
    <2> SUFFICES ASSUME NEW i \in 1 .. m
                 PROVE  g[i] = g[i - 1] + new[i].len
        BY Zenon
    <2>1. CASE i = 1
        BY <2>1, <1>2, <1>3, <1>4, <1>5
    <2>2. CASE i # 1
        <3>1. f[i] = f[i - 1] + buffer[i].len
            BY <1>5
        <3>2. new[i] = buffer[i] /\ i - 1 \in 1 .. m
            BY <2>2, <1>2, <1>4
        <3>3. buffer[i] \in Chunks
            BY <1>2 DEF m
        <3>4. buffer[i].len \in Nat
            BY <3>3 DEF Chunks
        <3>5. g[i] = f[i] - n /\ g[i - 1] = f[i - 1] - n
            BY <2>2, <3>2, <1>2
        <3>6. f[i] \in Nat /\ f[i - 1] \in Nat
            BY <3>2, <1>5
        <3> QED
            BY <3>1, <3>2, <3>4, <3>5, <3>6
    <2> QED
        BY <2>1, <2>2
<1>8. \A i, j \in 0 .. m : i <= j => g[i] <= g[j]
    <2> SUFFICES ASSUME NEW i \in 0 .. m, NEW j \in 0 .. m, i <= j
                 PROVE  g[i] <= g[j]
        OBVIOUS
    <2>1. f[i] <= f[j] /\ f[i] \in Nat /\ f[j] \in Nat
        BY <1>5
    <2>2. CASE i = 0
        <3>1. g[i] = 0 /\ g[j] \in Nat
            BY <1>6, <2>2
        <3> QED
            BY <3>1
    <2>3. CASE i # 0
        <3>1. g[i] = f[i] - n /\ g[j] = f[j] - n
            BY <1>2, <2>3
        <3> QED
            BY <2>1, <3>1
    <2> QED
        BY <2>2, <2>3
<1>9. Sums(new, g)
    BY <1>4, <1>6, <1>7, <1>8, Zenon DEF Sums
<1>10. size \in Nat /\ Head(buffer).len <= size
    BY <1>1, <1>2, <1>5 DEF m
<1> QED
    BY <1>4, <1>6, <1>9, <1>10 DEF SizeIs, new, c

(* Taking the whole front chunk. *)
LEMMA SizeOfTail ==
    ASSUME NEW buffer \in Seq(Chunks), NEW size, SizeIs(buffer, size),
           buffer # << >>
    PROVE  SizeIs(Tail(buffer), size - Head(buffer).len)
<1>1. PICK f : Sums(buffer, f) /\ f[Len(buffer)] = size
    BY DEF SizeIs
<1> DEFINE new == Tail(buffer)
           m == Len(buffer)
           g == [i \in 0 .. m - 1 |-> f[i + 1] - f[1]]
<1>2. /\ m \in Nat /\ m > 0 /\ Head(buffer) = buffer[1]
      /\ Len(new) = m - 1
      /\ \A i \in 1 .. m - 1 : new[i] = buffer[i + 1]
    BY Queue
<1>3. /\ f[1] = buffer[1].len
      /\ \A i \in 0 .. m : f[i] \in Nat
      /\ \A i \in 1 .. m : f[1] <= f[i]
      /\ \A i \in 1 .. m : f[i] = f[i - 1] + buffer[i].len
      /\ \A i, j \in 0 .. m : i <= j => f[i] <= f[j]
    BY <1>1, <1>2, SumsOfFront, Zenon DEF Sums
<1> HIDE DEF new, m
<1>4. g \in [0 .. m - 1 -> Nat] /\ g[0] = 0 /\ g[m - 1] = size - f[1]
    <2>1. \A i \in 0 .. m - 1 : f[i + 1] - f[1] \in Nat
        BY <1>2, <1>3
    <2>2. f[m] = size /\ (m - 1) + 1 = m /\ m - 1 \in 0 .. m - 1
        BY <1>1, <1>2 DEF m
    <2>3. f[1] \in Nat
        BY <1>2, <1>3
    <2> QED
        BY <1>2, <2>1, <2>2, <2>3
<1>5. \A i \in 1 .. m - 1 : g[i] = g[i - 1] + new[i].len
    <2> SUFFICES ASSUME NEW i \in 1 .. m - 1
                 PROVE  g[i] = g[i - 1] + new[i].len
        OBVIOUS
    <2>1. f[i + 1] = f[(i + 1) - 1] + buffer[i + 1].len
        BY <1>2, <1>3
    <2>2. buffer[i + 1] \in Chunks
        BY <1>2 DEF m
    <2>3. buffer[i + 1].len \in Nat
        BY <2>2 DEF Chunks
    <2>4. g[i] = f[i + 1] - f[1] /\ g[i - 1] = f[i] - f[1]
        BY <1>2
    <2>5. f[i + 1] \in Nat /\ f[i] \in Nat /\ f[1] \in Nat /\ (i + 1) - 1 = i
        <3>1. i + 1 \in 0 .. m /\ i \in 0 .. m /\ 1 \in 0 .. m /\ (i + 1) - 1 = i
            BY <1>2
        <3> QED
            BY <1>3, <3>1
    <2>6. new[i] = buffer[i + 1]
        BY <1>2
    <2> QED
        BY <2>1, <2>3, <2>4, <2>5, <2>6
<1>6. \A i, j \in 0 .. m - 1 : i <= j => g[i] <= g[j]
    <2> SUFFICES ASSUME NEW i \in 0 .. m - 1, NEW j \in 0 .. m - 1, i <= j
                 PROVE  g[i] <= g[j]
        OBVIOUS
    <2>1. i + 1 \in 0 .. m /\ j + 1 \in 0 .. m /\ 1 \in 0 .. m /\ i + 1 <= j + 1
        BY <1>2
    <2>2. f[i + 1] <= f[j + 1]
        BY <1>3, <2>1
    <2>3. f[i + 1] \in Nat /\ f[j + 1] \in Nat /\ f[1] \in Nat
        BY <1>3, <2>1
    <2>4. g[i] = f[i + 1] - f[1] /\ g[j] = f[j + 1] - f[1]
        OBVIOUS
    <2> QED
        BY <2>2, <2>3, <2>4
<1>7. Sums(new, g)
    BY <1>2, <1>4, <1>5, <1>6, Zenon DEF Sums
<1> QED
    BY <1>2, <1>3, <1>4, <1>7 DEF SizeIs, new, m

------------------------------------------------------------------------------
(* What holds of a stream between operations. *)
DistinctIds(queue) ==
    \A i, j \in DOMAIN queue : queue[i].id = queue[j].id => i = j

BufferInv(s) ==
    /\ SizeIs(s.write_buffer, s.write_buffer_size)
    /\ s.write_buffer_size <= MaxWriteBufferSize

QueueInv(s) ==
    /\ DistinctIds(s.write_buffer)
    /\ DistinctIds(s.pending_read_requests)
    /\ \A i \in DOMAIN s.write_buffer :
           s.write_buffer[i].id = s.pending_write_request => i = 1
    /\ Writing(s) \cap Reading(s) = {}

HalfInv(s) ==
    /\ \A i \in DOMAIN s.write_buffer :
           s.write_buffer[i].fin => i = Len(s.write_buffer)
    /\ s.send_state # "Ready" => s.write_buffer = << >>
    /\ s.send_state \in {"None", "ResetSent"} =>
           s.pending_write_request = NoRequest
    /\ s.receive_state # "Receive" => s.pending_read_requests = << >>

StreamInv(s) == s \in Streams /\ BufferInv(s) /\ QueueInv(s) /\ HalfInv(s)

(* An operation called with the requests in new answers exactly those it   *)
(* held or was given and does not hold afterwards, each once.              *)
Answers(s, new, o) ==
    /\ Held(o.stream) \subseteq Held(s) \cup new
    /\ \A r \in Requests :
           /\ Count(o.done, r) \in Nat /\ Count(o.failed, r) \in Nat
           /\ Count(o.done, r) + Count(o.failed, r) =
                  IF r \in (Held(s) \cup new) \ Held(o.stream) THEN 1 ELSE 0

(* The fields of a Stream object and their types. *)
LEMMA Fields ==
    ASSUME NEW s \in Streams
    PROVE  /\ s.send_state \in SendStates /\ s.receive_state \in ReceiveStates
           /\ s.write_buffer \in Seq(Chunks) /\ s.write_buffer_size \in Nat
           /\ s.pending_write_request \in Requests \cup {NoRequest}
           /\ s.pending_read_requests \in Seq(Reads)
BY DEF Streams

(* What is queued belongs to requests of the application. *)
LEMMA QueuedIds ==
    /\ \A q \in Seq(Chunks) : \A i \in DOMAIN q :
           q[i].id \in Requests /\ q[i].id # NoRequest
    /\ \A q \in Seq(Reads) : \A i \in DOMAIN q :
           q[i].id \in Requests /\ q[i].id # NoRequest
<1>1. \A c \in Chunks : c.id \in Requests /\ c.id # NoRequest
    BY RequestAssumption DEF Chunks
<1>2. \A c \in Reads : c.id \in Requests /\ c.id # NoRequest
    BY RequestAssumption DEF Reads
<1>3. \A q \in Seq(Chunks) : \A i \in DOMAIN q : q[i] \in Chunks
    OBVIOUS
<1>4. \A q \in Seq(Reads) : \A i \in DOMAIN q : q[i] \in Reads
    OBVIOUS
<1> QED
    BY <1>1, <1>2, <1>3, <1>4

(* No request and one request have no request twice. *)
LEMMA SmallSequences ==
    /\ Distinct(<< >>) /\ RangeOf(<< >>) = {}
    /\ \A r : Distinct(<< r >>) /\ RangeOf(<< r >>) = {r}
BY DEF Distinct, RangeOf

(* The ids drained from a queue are its requests, each once. *)
LEMMA IdsOf ==
    ASSUME NEW queue, queue \in Seq(Chunks) \/ queue \in Seq(Reads),
           DistinctIds(queue)
    PROVE  /\ Ids(queue) \in Seq(Requests) /\ Distinct(Ids(queue))
           /\ RangeOf(Ids(queue)) = {queue[i].id : i \in DOMAIN queue}
<1>1. Len(queue) \in Nat /\ DOMAIN queue = 1 .. Len(queue)
    OBVIOUS
<1>2. \A i \in DOMAIN queue : queue[i].id \in Requests
    BY QueuedIds
<1>3. Ids(queue) \in Seq(Requests)
    BY <1>1, <1>2 DEF Ids
<1> QED
    BY <1>3 DEF Ids, Distinct, DistinctIds, RangeOf

(* Two lists of different requests make one of different requests. *)
LEMMA DistinctConcat ==
    ASSUME NEW S, NEW a \in Seq(S), NEW b \in Seq(S), Distinct(a), Distinct(b),
           RangeOf(a) \cap RangeOf(b) = {}
    PROVE  Distinct(a \o b) /\ RangeOf(a \o b) = RangeOf(a) \cup RangeOf(b)
<1> DEFINE c == a \o b
           m == Len(a)
           n == Len(b)
<1>1. /\ m \in Nat /\ n \in Nat /\ DOMAIN a = 1 .. m /\ DOMAIN b = 1 .. n
      /\ DOMAIN c = 1 .. m + n
      /\ \A i \in 1 .. m : c[i] = a[i]
      /\ \A i \in 1 .. n : c[m + i] = b[i]
    OBVIOUS
<1> HIDE DEF c, m, n
<1>2. \A i \in DOMAIN c : \/ i \in DOMAIN a /\ c[i] = a[i]
                          \/ i - m \in DOMAIN b /\ c[i] = b[i - m]
    <2> TAKE i \in DOMAIN c
    <2>1. i \in 1 .. m \/ (i - m \in 1 .. n /\ i = m + (i - m))
        BY <1>1
    <2> QED
        BY <1>1, <2>1
<1>3. \A i \in DOMAIN a, j \in DOMAIN b : a[i] # b[j]
    BY DEF RangeOf
<1>4. RangeOf(c) \subseteq RangeOf(a) \cup RangeOf(b)
    BY <1>2 DEF RangeOf
<1>5. RangeOf(a) \subseteq RangeOf(c)
    BY <1>1 DEF RangeOf
<1>6. RangeOf(b) \subseteq RangeOf(c)
    <2>1. \A i \in 1 .. n : m + i \in 1 .. m + n
        BY <1>1
    <2> QED
        BY <1>1, <2>1, ZenonT(60) DEF RangeOf
<1>7. Distinct(c)
    <2> SUFFICES ASSUME NEW i \in DOMAIN c, NEW j \in DOMAIN c, c[i] = c[j]
                 PROVE  i = j
        BY DEF Distinct
    <2>1. CASE i \in DOMAIN a /\ c[i] = a[i] /\ j \in DOMAIN a /\ c[j] = a[j]
        BY <2>1, Zenon DEF Distinct
    <2>2. CASE /\ i - m \in DOMAIN b /\ c[i] = b[i - m]
               /\ j - m \in DOMAIN b /\ c[j] = b[j - m]
        <3>1. i - m = j - m
            BY <2>2, Zenon DEF Distinct
        <3> QED
            BY <1>1, <3>1
    <2> QED
        BY <1>2, <1>3, <2>1, <2>2
<1> QED
    BY <1>4, <1>5, <1>6, <1>7 DEF c

(* To show that an operation answers, compare sets. *)
LEMMA AnswersFromRanges ==
    ASSUME NEW s, NEW new, NEW o,
           Distinct(o.done), Distinct(o.failed),
           RangeOf(o.done) \cap RangeOf(o.failed) = {},
           Held(o.stream) \subseteq Held(s) \cup new,
           RangeOf(o.done) \cup RangeOf(o.failed) =
               (Held(s) \cup new) \ Held(o.stream)
    PROVE  Answers(s, new, o)
<1>1. SUFFICES ASSUME NEW r \in Requests
               PROVE  /\ Count(o.done, r) \in Nat /\ Count(o.failed, r) \in Nat
                      /\ Count(o.done, r) + Count(o.failed, r) =
                             IF r \in (Held(s) \cup new) \ Held(o.stream)
                             THEN 1 ELSE 0
    BY DEF Answers
<1>2. Count(o.done, r) = IF r \in RangeOf(o.done) THEN 1 ELSE 0
    BY CountDistinct DEF RangeOf
<1>3. Count(o.failed, r) = IF r \in RangeOf(o.failed) THEN 1 ELSE 0
    BY CountDistinct DEF RangeOf
<1>4. ~(r \in RangeOf(o.done) /\ r \in RangeOf(o.failed))
    OBVIOUS
<1>5. r \in (Held(s) \cup new) \ Held(o.stream)
          <=> r \in RangeOf(o.done) \/ r \in RangeOf(o.failed)
    OBVIOUS
<1> QED
    BY <1>2, <1>3, <1>4, <1>5

(* An operation that notifies one request answers just that one. *)
LEMMA AnswersOne ==
    ASSUME NEW s, NEW new, NEW o, NEW r,
           \/ o.done = << r >> /\ o.failed = << >>
           \/ o.done = << >> /\ o.failed = << r >>,
           Held(o.stream) \subseteq Held(s) \cup new,
           (Held(s) \cup new) \ Held(o.stream) = {r}
    PROVE  Answers(s, new, o)
<1>1. /\ Distinct(<< >>) /\ RangeOf(<< >>) = {}
      /\ Distinct(<< r >>) /\ RangeOf(<< r >>) = {r}
    BY SmallSequences
<1>2. CASE o.done = << r >> /\ o.failed = << >>
    <2>1. /\ Distinct(o.done) /\ RangeOf(o.done) = {r}
          /\ Distinct(o.failed) /\ RangeOf(o.failed) = {}
        BY <1>1, <1>2
    <2> QED
        BY <2>1, AnswersFromRanges
<1>3. CASE o.done = << >> /\ o.failed = << r >>
    <2>1. /\ Distinct(o.done) /\ RangeOf(o.done) = {}
          /\ Distinct(o.failed) /\ RangeOf(o.failed) = {r}
        BY <1>1, <1>3
    <2> QED
        BY <2>1, AnswersFromRanges
<1> QED
    BY <1>2, <1>3

(* flush_writes answers nothing, keeps every request it holds and spends   *)
(* no more than the credit.                                                *)
LEMMA FlushWritesInv ==
    ASSUME NEW s, StreamInv(s), NEW credit \in Nat
    PROVE  LET o == FlushWrites(s, credit)
           IN  /\ StreamInv(o.stream)
               /\ Held(o.stream) = Held(s)
               /\ o.done = << >> /\ o.failed = << >>
               /\ o.sent \in Nat /\ o.sent <= credit /\ o.data = o.sent
<1> DEFINE o == FlushWrites(s, credit)
           front == Head(s.write_buffer)
           rest == Tail(s.write_buffer)
           complete == front.len <= credit
           sent == IF complete THEN front.len ELSE credit
           buffer == IF complete THEN rest
                     ELSE << [front EXCEPT !.len = @ - credit] >> \o rest
           t == [s EXCEPT !.write_buffer = buffer,
                          !.write_buffer_size = @ - sent,
                          !.pending_write_request = front.id,
                          !.send_state = IF complete /\ front.fin
                                         THEN "DataSent" ELSE @]
           skip == \/ s.pending_write_request # NoRequest
                   \/ s.send_state # "Ready"
                   \/ s.write_buffer = << >>
                   \/ front.len > 0 /\ credit = 0
<1>1. CASE skip
    BY <1>1 DEF FlushWrites, Outcome
<1>2. CASE ~skip
    <2>1. /\ o.stream = t /\ o.sent = sent /\ o.data = sent
          /\ o.done = << >> /\ o.failed = << >>
        BY <1>2 DEF FlushWrites, Outcome
    <2>2. /\ s \in Streams /\ s.write_buffer \in Seq(Chunks)
          /\ s.write_buffer # << >> /\ front \in Chunks
          /\ front = s.write_buffer[1] /\ front.len \in Nat
        <3>1. s \in Streams /\ s.write_buffer \in Seq(Chunks)
            BY Fields DEF StreamInv
        <3>2. front \in Chunks /\ front = s.write_buffer[1]
            BY <1>2, <3>1, Queue
        <3>3. front.len \in Nat
            BY <3>2 DEF Chunks
        <3> QED
            BY <1>2, <3>1, <3>2, <3>3
    <2>3. sent \in Nat /\ sent <= credit /\ sent <= front.len
        BY <2>2
    <2> DEFINE wb == s.write_buffer
               k == IF complete THEN 1 ELSE 0
    <2>4. /\ buffer \in Seq(Chunks) /\ Len(buffer) = Len(wb) - k
          /\ DOMAIN buffer = 1 .. Len(wb) - k /\ DOMAIN wb = 1 .. Len(wb)
          /\ Len(wb) \in Nat /\ Len(wb) > 0
          /\ \A i \in DOMAIN buffer : /\ i + k \in DOMAIN wb
                                     /\ buffer[i].id = wb[i + k].id
                                     /\ buffer[i].fin = wb[i + k].fin
        <3>1. CASE complete
            BY <3>1, <2>2, Queue
        <3>2. CASE ~complete
            <4> DEFINE c == [front EXCEPT !.len = @ - credit]
            <4>1. c \in Chunks /\ c.id = front.id /\ c.fin = front.fin
                BY <3>2, <2>2 DEF Chunks
            <4>2. buffer = << c >> \o rest
                BY <3>2
            <4> HIDE DEF c
            <4>3. /\ buffer \in Seq(Chunks) /\ Len(buffer) = Len(wb)
                  /\ DOMAIN buffer = 1 .. Len(wb) /\ buffer[1] = c
                  /\ \A i \in 2 .. Len(wb) : buffer[i] = wb[i]
                BY <4>1, <4>2, <2>2, QueueFront, SMTT(30)
            <4>4. Len(wb) \in Nat /\ Len(wb) > 0 /\ DOMAIN wb = 1 .. Len(wb)
                BY <2>2, Queue
            <4> QED
                BY <3>2, <4>1, <4>3, <4>4, <2>2, SMTT(30)
        <3> QED
            BY <3>1, <3>2, Zenon
    <2>5. SizeIs(buffer, s.write_buffer_size - sent)
          /\ s.write_buffer_size - sent \in Nat
          /\ s.write_buffer_size - sent <= s.write_buffer_size
        <3>1. SizeIs(wb, s.write_buffer_size)
            BY DEF StreamInv, BufferInv
        <3>2. /\ s.write_buffer_size \in Nat /\ front.len <= s.write_buffer_size
              /\ SizeIs(<< [front EXCEPT !.len = @ - sent] >> \o rest,
                        s.write_buffer_size - sent)
            BY <2>2, <2>3, <3>1, SizeOfSplit, Zenon
        <3>3. SizeIs(rest, s.write_buffer_size - front.len)
            BY <2>2, <3>1, SizeOfTail
        <3>4. CASE complete
            BY <2>2, <3>2, <3>3, <3>4
        <3>5. CASE ~complete
            BY <2>2, <2>3, <3>2, <3>5
        <3> QED
            BY <3>4, <3>5
    <2>12. /\ wb = s.write_buffer /\ front = wb[1] /\ k \in {0, 1}
           /\ (complete => k = 1) /\ complete \in BOOLEAN
        BY <2>2
    <2> HIDE DEF buffer, sent, complete, k
    <2>6. /\ t \in Streams /\ t.write_buffer = buffer
          /\ t.write_buffer_size = s.write_buffer_size - sent
          /\ t.pending_write_request = front.id
          /\ t.send_state = IF complete /\ front.fin
                            THEN "DataSent" ELSE s.send_state
          /\ t.receive_state = s.receive_state
          /\ t.pending_read_requests = s.pending_read_requests
        BY <2>2, <2>4, <2>5, Zenon DEF Streams, SendStates, Chunks
    <2> HIDE DEF t, wb, front
    <2>7. front.id \in Requests /\ front.id # NoRequest
        BY <2>2, RequestAssumption DEF Chunks
    <2>8. Writing(t) = Writing(s) /\ Reading(t) = Reading(s)
        <3>1. s.pending_write_request = NoRequest
            BY <1>2
        <3>2. Writing(t) = {buffer[i].id : i \in DOMAIN buffer} \cup {front.id}
            BY <2>6, <2>7 DEF Writing
        <3>3. Writing(s) = {wb[i].id : i \in DOMAIN wb}
            BY <2>12, <3>1 DEF Writing
        <3>4. \A i \in DOMAIN wb : i = 1 \/ i - k \in DOMAIN buffer
            BY <2>4, <2>12
        <3>5. \A i \in DOMAIN wb : i # 1 => wb[i].id = buffer[i - k].id
            BY <2>4, <2>12, SMTT(30)
        <3>6. 1 \in DOMAIN wb /\ wb[1].id = front.id
            BY <2>12, <2>4
        <3>7. {buffer[i].id : i \in DOMAIN buffer} \subseteq Writing(s)
            BY <2>4, <3>3
        <3>8. Writing(s) \subseteq Writing(t)
            BY <3>2, <3>3, <3>4, <3>5, <3>6
        <3> QED
            BY <2>6, <3>2, <3>3, <3>6, <3>7, <3>8, SMTT(30) DEF Reading
    <2>9. BufferInv(t)
        BY <2>2, <2>5, <2>6, BufferAssumption DEF StreamInv, BufferInv, Streams
    <2>10. QueueInv(t)
        <3>1. QueueInv(s)
            BY DEF StreamInv
        <3>2. DistinctIds(buffer)
            <4>1. \A i, j \in DOMAIN wb : wb[i].id = wb[j].id => i = j
                BY <2>12, <3>1 DEF QueueInv, DistinctIds
            <4>2. SUFFICES ASSUME NEW i \in DOMAIN buffer,
                                  NEW j \in DOMAIN buffer,
                                  buffer[i].id = buffer[j].id
                           PROVE  i = j
                BY DEF DistinctIds
            <4>3. i + k = j + k
                BY <2>4, <4>1, <4>2
            <4> QED
                BY <2>4, <2>12, <4>3
        <3>3. \A i \in DOMAIN buffer : buffer[i].id = front.id => i = 1
            BY <2>4, <2>12, <3>1 DEF QueueInv, DistinctIds
        <3> QED
            BY <2>6, <2>8, <3>1, <3>2, <3>3 DEF QueueInv
    <2>11. HalfInv(t)
        <3>1. HalfInv(s) /\ s.send_state = "Ready"
            BY <1>2 DEF StreamInv
        <3>2. \A i \in DOMAIN buffer : buffer[i].fin => i = Len(buffer)
            <4>1. \A j \in DOMAIN wb : wb[j].fin => j = Len(wb)
                BY <2>12, <3>1 DEF HalfInv
            <4> TAKE i \in DOMAIN buffer
            <4> HAVE buffer[i].fin
            <4>2. i + k \in DOMAIN wb /\ wb[i + k].fin
                BY <2>4
            <4>3. i + k = Len(wb)
                BY <4>1, <4>2
            <4> QED
                BY <2>4, <2>12, <4>3
        <3>3. complete /\ front.fin => buffer = << >>
            <4> SUFFICES ASSUME complete, front.fin PROVE buffer = << >>
                OBVIOUS
            <4>1. Len(wb) = 1
                <5>1. 1 \in DOMAIN wb /\ wb[1].fin
                    BY <2>4, <2>12
                <5> QED
                    BY <5>1, <2>12, <3>1, Zenon DEF HalfInv
            <4>2. Len(buffer) = 0
                BY <2>4, <2>12, <4>1
            <4> QED
                BY <2>4, <4>2, SeqEmpty
        <3> QED
            BY <2>6, <3>1, <3>2, <3>3 DEF HalfInv
    <2> QED
        BY <2>1, <2>3, <2>6, <2>8, <2>9, <2>10, <2>11 DEF StreamInv, Held
<1> QED
    BY <1>1, <1>2

(* A send is over: the request leaves unless part of it is buffered. *)
LEMMA DropPendingInv ==
    ASSUME NEW s, StreamInv(s)
    PROVE  LET u == [s EXCEPT !.pending_write_request = NoRequest]
           IN  /\ StreamInv(u)
               /\ Held(u) = IF PartlySent(s) THEN Held(s)
                            ELSE Held(s) \ {s.pending_write_request}
<1> DEFINE u == [s EXCEPT !.pending_write_request = NoRequest]
           p == s.pending_write_request
<1>1. /\ s \in Streams /\ BufferInv(s) /\ QueueInv(s) /\ HalfInv(s)
      /\ s.write_buffer \in Seq(Chunks)
      /\ s.pending_read_requests \in Seq(Reads)
    BY Fields DEF StreamInv
<1>2. /\ u \in Streams /\ u.send_state = s.send_state
      /\ u.receive_state = s.receive_state
      /\ u.write_buffer = s.write_buffer
      /\ u.write_buffer_size = s.write_buffer_size
      /\ u.pending_write_request = NoRequest
      /\ u.pending_read_requests = s.pending_read_requests
    BY <1>1 DEF Streams
<1> HIDE DEF u
<1>3. \A i \in DOMAIN s.write_buffer : /\ s.write_buffer[i].id \in Requests
                                       /\ s.write_buffer[i].id # NoRequest
    BY <1>1, QueuedIds
<1>4. \A i \in DOMAIN s.pending_read_requests :
          s.pending_read_requests[i].id # NoRequest
    BY <1>1, QueuedIds
<1>5. /\ Writing(u) = {s.write_buffer[i].id : i \in DOMAIN s.write_buffer}
      /\ Reading(u) = Reading(s)
    BY <1>2 DEF Writing, Reading
<1>6. Writing(s) = Writing(u) \cup ({p} \ {NoRequest})
    BY <1>5 DEF Writing
<1>7. BufferInv(u) /\ HalfInv(u)
    BY <1>1, <1>2 DEF BufferInv, HalfInv
<1>8. QueueInv(u)
    BY <1>1, <1>2, <1>3, <1>5, <1>6 DEF QueueInv
<1>9. CASE PartlySent(s)
    <2>1. p \in Writing(u)
        BY <1>1, <1>5, <1>9, Queue DEF PartlySent
    <2> QED
        BY <1>2, <1>5, <1>6, <1>7, <1>8, <1>9, <2>1 DEF StreamInv, Held, u
<1>10. CASE ~PartlySent(s)
    <2>1. p \notin Writing(u)
        <3>1. SUFFICES ASSUME NEW i \in DOMAIN s.write_buffer,
                              s.write_buffer[i].id = p
                       PROVE  FALSE
            BY <1>5
        <3>2. i = 1
            BY <1>1, <3>1 DEF QueueInv
        <3>3. s.write_buffer # << >>
            BY <3>1
        <3> QED
            BY <1>1, <1>10, <3>1, <3>2, <3>3, Queue DEF PartlySent
    <2>2. p \notin Reading(s)
        BY <1>1, <1>4, <1>6, Zenon DEF QueueInv, Reading
    <2> QED
        BY <1>2, <1>4, <1>5, <1>6, <1>7, <1>8, <1>10, <2>1, <2>2
        DEF StreamInv, Held, u, Reading
<1> QED
    BY <1>9, <1>10

(* complete_write answers the request whose bytes are all sent, and only it. *)
LEMMA CompleteWriteInv ==
    ASSUME NEW s, StreamInv(s), NEW credit \in Nat
    PROVE  LET o == CompleteWrite(s, credit)
           IN  /\ StreamInv(o.stream)
               /\ Answers(s, {}, o)
               /\ o.sent \in Nat /\ o.sent <= credit /\ o.data = o.sent
<1> DEFINE o == CompleteWrite(s, credit)
           p == s.pending_write_request
           u == [s EXCEPT !.pending_write_request = NoRequest]
           f == FlushWrites(u, credit)
<1>1. CASE p = NoRequest
    <2>1. o = Outcome(s)
        BY <1>1 DEF CompleteWrite
    <2>2. /\ o.stream = s /\ o.sent = 0 /\ o.data = 0
          /\ o.done = << >> /\ o.failed = << >>
        BY <2>1 DEF Outcome
    <2> QED
        BY <2>2, SmallSequences, AnswersFromRanges
<1>2. CASE p # NoRequest
    <2>1. o = [f EXCEPT !.done = IF PartlySent(s) THEN << >> ELSE << p >>]
        BY <1>2 DEF CompleteWrite
    <2>2. /\ o.stream = f.stream /\ o.sent = f.sent /\ o.data = f.data
          /\ o.done = (IF PartlySent(s) THEN << >> ELSE << p >>)
          /\ o.failed = f.failed
        BY <2>1 DEF FlushWrites, Outcome
    <2>3. /\ StreamInv(u)
          /\ Held(u) = IF PartlySent(s) THEN Held(s) ELSE Held(s) \ {p}
        BY DropPendingInv
    <2> HIDE DEF u
    <2>4. /\ StreamInv(f.stream) /\ Held(f.stream) = Held(u)
          /\ f.done = << >> /\ f.failed = << >>
          /\ f.sent \in Nat /\ f.sent <= credit /\ f.data = f.sent
        BY <2>3, FlushWritesInv, Zenon
    <2> HIDE DEF f, o
    <2>5. p \in Held(s) /\ p \in Requests
        BY <1>2, Fields DEF Held, Writing, StreamInv
    <2>6. Answers(s, {}, o)
        <3>1. CASE PartlySent(s)
            BY <2>2, <2>3, <2>4, <3>1, SmallSequences, AnswersFromRanges
        <3>2. CASE ~PartlySent(s)
            <4> HIDE DEF p
            <4>1. o.done = << p >> /\ o.failed = << >> /\ o.stream = f.stream
                BY <2>2, <2>4, <3>2, Zenon
            <4>2. Held(f.stream) = Held(s) \ {p}
                BY <2>3, <2>4, <3>2, Zenon
            <4>3. /\ Held(o.stream) \subseteq Held(s) \cup {}
                  /\ (Held(s) \cup {}) \ Held(o.stream) = {p}
                BY <2>5, <4>1, <4>2
            <4> QED
                BY <4>1, <4>3, AnswersOne, Zenon
        <3> QED
            BY <3>1, <3>2
    <2> QED
        BY <2>2, <2>4, <2>6 DEF o
<1> QED
    BY <1>1, <1>2

(* A write that is taken extends the buffer. *)
LEMMA WriteTakenInv ==
    ASSUME NEW s, StreamInv(s), NEW r \in Requests, r \notin Held(s),
           NEW len \in Nat, NEW fin \in BOOLEAN, ~FinishPending(s),
           ~(s.write_buffer_size + len > MaxWriteBufferSize)
    PROVE  LET u == [s EXCEPT !.write_buffer =
                         Append(@, [id |-> r, len |-> len, fin |-> fin]),
                              !.write_buffer_size = @ + len]
           IN  StreamInv(u) /\ Held(u) = Held(s) \cup {r}
<1> DEFINE c == [id |-> r, len |-> len, fin |-> fin]
           wb == s.write_buffer
           new == Append(wb, c)
           u == [s EXCEPT !.write_buffer = new, !.write_buffer_size = @ + len]
<1>2. /\ s \in Streams /\ BufferInv(s) /\ QueueInv(s) /\ HalfInv(s)
      /\ wb \in Seq(Chunks) /\ s.write_buffer_size \in Nat
      /\ c \in Chunks /\ c.id = r /\ c.len = len /\ c.fin = fin
    BY Fields, Zenon DEF StreamInv, Chunks
<1> HIDE DEF c
<1>3. /\ new \in Seq(Chunks) /\ Len(wb) \in Nat /\ Len(new) = Len(wb) + 1
      /\ DOMAIN wb = 1 .. Len(wb) /\ DOMAIN new = 1 .. Len(wb) + 1
      /\ new[Len(wb) + 1] = c
      /\ \A i \in DOMAIN wb : new[i] = wb[i]
    BY <1>2
<1>4. SizeIs(new, s.write_buffer_size + len)
    BY <1>2, SizeOfAppend DEF BufferInv
<1> HIDE DEF new
<1>5. /\ u \in Streams /\ u.send_state = s.send_state
      /\ u.receive_state = s.receive_state
      /\ u.write_buffer = new
      /\ u.write_buffer_size = s.write_buffer_size + len
      /\ u.pending_write_request = s.pending_write_request
      /\ u.pending_read_requests = s.pending_read_requests
    <2>1. s.write_buffer_size + len \in Nat /\ new \in Seq(Chunks)
        BY <1>2, <1>3
    <2>2. s \in Streams
        BY <1>2
    <2> QED
        BY <2>1, <2>2, Zenon DEF Streams
<1> HIDE DEF u
<1>6. \A i \in DOMAIN wb : wb[i].id # r
    BY DEF Held, Writing
<1>7. r # s.pending_write_request /\ r \notin Reading(s)
    BY RequestAssumption DEF Held, Writing
<1>12. /\ \A i \in DOMAIN new : i \in DOMAIN wb \/ i = Len(wb) + 1
       /\ \A i \in DOMAIN wb : i \in DOMAIN new /\ new[i].id = wb[i].id
       /\ Len(wb) + 1 \in DOMAIN new /\ new[Len(wb) + 1].id = r
    BY <1>2, <1>3
<1>8. /\ Writing(u) = Writing(s) \cup {r} /\ Reading(u) = Reading(s)
    <2>1. {new[i].id : i \in DOMAIN new} =
              {wb[i].id : i \in DOMAIN wb} \cup {r}
        BY <1>12
    <2> QED
        BY <1>5, <2>1 DEF Writing, Reading
<1>9. BufferInv(u)
    BY <1>2, <1>4, <1>5, BufferAssumption DEF BufferInv
<1>10. QueueInv(u)
    <2>1. DistinctIds(new)
        <3>1. \A i, j \in DOMAIN wb : wb[i].id = wb[j].id => i = j
            BY <1>2 DEF QueueInv, DistinctIds
        <3> QED
            BY <1>6, <1>12, <3>1 DEF DistinctIds
    <2>2. \A i \in DOMAIN new :
              new[i].id = s.pending_write_request => i = 1
        <3>1. \A i \in DOMAIN wb : wb[i].id = s.pending_write_request => i = 1
            BY <1>2 DEF QueueInv
        <3> QED
            BY <1>7, <1>12, <3>1
    <2> QED
        BY <1>2, <1>5, <1>7, <1>8, <2>1, <2>2 DEF QueueInv
<1>11. HalfInv(u)
    <2>1. s.send_state = "Ready"
        BY DEF FinishPending
    <2>2. \A i \in DOMAIN wb : ~wb[i].fin
        <3> SUFFICES ASSUME NEW i \in DOMAIN wb, wb[i].fin PROVE FALSE
            OBVIOUS
        <3>1. i = Len(wb) /\ wb # << >>
            BY <1>2 DEF HalfInv
        <3> QED
            BY <3>1 DEF FinishPending
    <2> QED
        BY <1>2, <1>3, <1>5, <2>1, <2>2, SMTT(30) DEF HalfInv
<1> QED
    BY <1>5, <1>8, <1>9, <1>10, <1>11 DEF StreamInv, Held, u, new, c

(* write answers a request it refuses and holds one it takes. *)
LEMMA WriteInv ==
    ASSUME NEW s, StreamInv(s), NEW r \in Requests, r \notin Held(s),
           NEW len \in Nat, NEW fin \in BOOLEAN, NEW credit \in Nat
    PROVE  LET o == Write(s, r, len, fin, credit)
           IN  /\ StreamInv(o.stream)
               /\ Answers(s, {r}, o)
               /\ o.sent \in Nat /\ o.sent <= credit /\ o.data = o.sent
<1> DEFINE o == Write(s, r, len, fin, credit)
           u == [s EXCEPT !.write_buffer =
                              Append(@, [id |-> r, len |-> len, fin |-> fin]),
                          !.write_buffer_size = @ + len]
<1>1. CASE o \in {Failed(s, r), Done(s, r)}
    <2>1. /\ o.stream = s /\ o.sent = 0 /\ o.data = 0
          /\ \/ o.done = << >> /\ o.failed = << r >>
             \/ o.done = << r >> /\ o.failed = << >>
        BY <1>1 DEF Failed, Done, Outcome
    <2> HIDE DEF o
    <2>2. Answers(s, {r}, o)
        BY <2>1, AnswersOne, Zenon
    <2> QED
        BY <2>1, <2>2 DEF o
<1>2. CASE o \notin {Failed(s, r), Done(s, r)}
    <2>1. /\ ~FinishPending(s)
          /\ ~(s.write_buffer_size + len > MaxWriteBufferSize)
          /\ o = FlushWrites(u, credit)
        BY <1>2 DEF Write
    <2>2. StreamInv(u) /\ Held(u) = Held(s) \cup {r}
        BY <2>1, WriteTakenInv, Zenon
    <2> HIDE DEF u, o
    <2>3. /\ StreamInv(o.stream) /\ Held(o.stream) = Held(u)
          /\ o.done = << >> /\ o.failed = << >>
          /\ o.sent \in Nat /\ o.sent <= credit /\ o.data = o.sent
        BY <2>1, <2>2, FlushWritesInv
    <2> QED
        BY <2>2, <2>3, SmallSequences, AnswersFromRanges DEF o
<1> QED
    BY <1>1, <1>2

(* What send_reset and send_stop do: they fail the requests they drop. *)
Drops(s, o) ==
    /\ StreamInv(o.stream)
    /\ o.sent = 0 /\ o.data = 0 /\ o.done = << >>
    /\ o.failed \in Seq(Requests) /\ Distinct(o.failed)
    /\ Held(o.stream) \subseteq Held(s)
    /\ RangeOf(o.failed) = Held(s) \ Held(o.stream)

(* An early return fails no request. *)
LEMMA DropsNothing ==
    ASSUME NEW s, StreamInv(s) PROVE Drops(s, Outcome(s))
<1>1. << >> \in Seq(Requests)
    OBVIOUS
<1> QED
    BY <1>1, SmallSequences DEF Drops, Outcome

(* To fail what is dropped is to answer exactly what is dropped. *)
LEMMA DropsAnswers ==
    ASSUME NEW s, NEW o, Drops(s, o) PROVE Answers(s, {}, o)
<1>1. Distinct(o.done) /\ RangeOf(o.done) = {}
    BY SmallSequences DEF Drops
<1> QED
    BY <1>1, AnswersFromRanges DEF Drops

(* A request of its own on top: reset and stop answer their caller.        *)
LEMMA DropsForCaller ==
    ASSUME NEW s, NEW o, Drops(s, o), NEW r \in Requests, r \notin Held(s),
           NEW a, a.stream = o.stream, a.failed = o.failed, a.done = << r >>
    PROVE  Answers(s, {r}, a)
<1>1. Distinct(a.done) /\ RangeOf(a.done) = {r}
    BY SmallSequences
<1> QED
    BY <1>1, AnswersFromRanges DEF Drops

(* send_reset fails every write it takes out of the stream, once. *)
LEMMA SendResetInv ==
    ASSUME NEW s, StreamInv(s) PROVE Drops(s, SendReset(s))
<1> DEFINE o == SendReset(s)
           wb == s.write_buffer
           p == s.pending_write_request
           sending == IF p = NoRequest \/ PartlySent(s) THEN << >> ELSE << p >>
           u == [s EXCEPT !.send_state = "ResetSent", !.write_buffer = << >>,
                          !.write_buffer_size = 0,
                          !.pending_write_request = NoRequest]
<1>1. CASE SendTerminated(s)
    BY <1>1, DropsNothing DEF SendReset
<1>2. CASE ~SendTerminated(s)
    <2>1. /\ o.stream = u /\ o.sent = 0 /\ o.data = 0 /\ o.done = << >>
          /\ o.failed = sending \o Ids(wb)
        BY <1>2 DEF SendReset, Outcome
    <2>2. /\ s \in Streams /\ BufferInv(s) /\ QueueInv(s) /\ HalfInv(s)
          /\ wb \in Seq(Chunks) /\ p \in Requests \cup {NoRequest}
          /\ DistinctIds(wb) /\ DistinctIds(s.pending_read_requests)
        BY Fields DEF StreamInv, QueueInv
    <2>3. /\ u \in Streams /\ u.send_state = "ResetSent"
          /\ u.receive_state = s.receive_state
          /\ u.write_buffer = << >> /\ u.write_buffer_size = 0
          /\ u.pending_write_request = NoRequest
          /\ u.pending_read_requests = s.pending_read_requests
        <3>1. << >> \in Seq(Chunks) /\ 0 \in Nat /\ s \in Streams
            BY <2>2
        <3> QED
            BY <3>1, Zenon DEF Streams, SendStates
    <2> HIDE DEF u, o
    <2>4. Writing(u) = {} /\ Reading(u) = Reading(s)
        BY <2>3 DEF Writing, Reading
    <2>5. StreamInv(u)
        <3>1. BufferInv(u)
            BY <2>3, SizeOfEmpty, BufferAssumption DEF BufferInv
        <3>2. QueueInv(u)
            BY <2>2, <2>3, <2>4 DEF QueueInv, DistinctIds
        <3>3. HalfInv(u)
            BY <2>2, <2>3 DEF HalfInv
        <3> QED
            BY <2>3, <3>1, <3>2, <3>3 DEF StreamInv
    <2>6. /\ Ids(wb) \in Seq(Requests) /\ Distinct(Ids(wb))
          /\ RangeOf(Ids(wb)) = {wb[i].id : i \in DOMAIN wb}
        BY <2>2, IdsOf
    <2>7. PartlySent(s) => p \in RangeOf(Ids(wb))
        BY <2>2, <2>6, Queue DEF PartlySent
    <2>8. ~PartlySent(s) => p \notin RangeOf(Ids(wb))
        <3> SUFFICES ASSUME ~PartlySent(s), NEW i \in DOMAIN wb, wb[i].id = p
                     PROVE  FALSE
            BY <2>6
        <3>1. i = 1 /\ wb # << >>
            BY <2>2 DEF QueueInv
        <3> QED
            BY <2>2, <3>1, Queue DEF PartlySent
    <2>9. /\ sending \in Seq(Requests) /\ Distinct(sending)
          /\ RangeOf(sending) \cap RangeOf(Ids(wb)) = {}
          /\ RangeOf(sending) \cup RangeOf(Ids(wb)) = Writing(s)
        <3>1. CASE p = NoRequest
            BY <2>6, <3>1, SmallSequences DEF Writing
        <3>2. CASE p # NoRequest /\ PartlySent(s)
            BY <2>6, <2>7, <3>2, SmallSequences DEF Writing
        <3>3. CASE p # NoRequest /\ ~PartlySent(s)
            <4>1. /\ sending = << p >> /\ p \in Requests
                  /\ Distinct(<< p >>) /\ RangeOf(<< p >>) = {p}
                BY <2>2, <3>3, SmallSequences
            <4> QED
                BY <2>6, <2>8, <3>3, <4>1 DEF Writing
        <3> QED
            BY <3>1, <3>2, <3>3
    <2> HIDE DEF sending
    <2>10. /\ o.failed \in Seq(Requests) /\ Distinct(o.failed)
           /\ RangeOf(o.failed) = Writing(s)
        <3>1. sending \o Ids(wb) \in Seq(Requests)
            BY <2>6, <2>9
        <3>2. /\ Distinct(sending \o Ids(wb))
              /\ RangeOf(sending \o Ids(wb)) =
                     RangeOf(sending) \cup RangeOf(Ids(wb))
            BY <2>6, <2>9, DistinctConcat
        <3> QED
            BY <2>1, <2>9, <3>1, <3>2
    <2>11. Held(o.stream) = Reading(s) /\ Writing(s) \cap Reading(s) = {}
        BY <2>1, <2>2, <2>4 DEF Held, QueueInv
    <2>12. /\ Held(s) \ Held(o.stream) = Writing(s)
           /\ Held(o.stream) \subseteq Held(s)
        BY <2>11 DEF Held
    <2> QED
        BY <2>1, <2>5, <2>10, <2>12 DEF Drops, o
<1> QED
    BY <1>1, <1>2

(* The receiving half lets go of every pending read. *)
LEMMA DropReadsInv ==
    ASSUME NEW s, StreamInv(s), NEW state \in {"DataReceived", "DataRead", "ResetRead"}
    PROVE  LET u == [s EXCEPT !.receive_state = state,
                              !.pending_read_requests = << >>]
               ids == Ids(s.pending_read_requests)
           IN  /\ StreamInv(u) /\ Held(u) = Writing(s)
               /\ ids \in Seq(Requests) /\ Distinct(ids)
               /\ RangeOf(ids) = Reading(s)
               /\ Writing(s) \cap Reading(s) = {}
<1> DEFINE u == [s EXCEPT !.receive_state = state,
                          !.pending_read_requests = << >>]
<1>1. /\ s \in Streams /\ BufferInv(s) /\ QueueInv(s) /\ HalfInv(s)
      /\ s.pending_read_requests \in Seq(Reads)
      /\ DistinctIds(s.pending_read_requests)
    BY Fields DEF StreamInv, QueueInv
<1>2. /\ u \in Streams /\ u.send_state = s.send_state
      /\ u.receive_state = state
      /\ u.write_buffer = s.write_buffer
      /\ u.write_buffer_size = s.write_buffer_size
      /\ u.pending_write_request = s.pending_write_request
      /\ u.pending_read_requests = << >>
    <2>1. << >> \in Seq(Reads) /\ s \in Streams
        BY <1>1
    <2> QED
        BY <2>1, Zenon DEF Streams, ReceiveStates
<1> HIDE DEF u
<1>3. Writing(u) = Writing(s) /\ Reading(u) = {}
    BY <1>2 DEF Writing, Reading
<1>4. BufferInv(u) /\ HalfInv(u)
    BY <1>1, <1>2 DEF BufferInv, HalfInv
<1>5. QueueInv(u)
    BY <1>1, <1>2, <1>3 DEF QueueInv, DistinctIds
<1>6. RangeOf(Ids(s.pending_read_requests)) = Reading(s)
    BY <1>1, IdsOf DEF Reading
<1> QED
    BY <1>1, <1>2, <1>3, <1>4, <1>5, <1>6, IdsOf DEF StreamInv, QueueInv, Held, u

(* recv_reset fails every read it takes out of the stream, once. *)
LEMMA RecvResetInv ==
    ASSUME NEW s, StreamInv(s) PROVE Drops(s, RecvReset(s))
<1> DEFINE u == [s EXCEPT !.receive_state = "ResetRead",
                          !.pending_read_requests = << >>]
           o == RecvReset(s)
<1>1. CASE ReceiveTerminated(s)
    BY <1>1, DropsNothing DEF RecvReset
<1>2. CASE ~ReceiveTerminated(s)
    <2>1. /\ o.stream = u /\ o.sent = 0 /\ o.data = 0 /\ o.done = << >>
          /\ o.failed = Ids(s.pending_read_requests)
        BY <1>2 DEF RecvReset, Outcome
    <2> HIDE DEF o
    <2>2. /\ StreamInv(u) /\ Held(u) = Writing(s)
          /\ Ids(s.pending_read_requests) \in Seq(Requests)
          /\ Distinct(Ids(s.pending_read_requests))
          /\ RangeOf(Ids(s.pending_read_requests)) = Reading(s)
          /\ Writing(s) \cap Reading(s) = {}
        BY DropReadsInv, Zenon
    <2> HIDE DEF u
    <2>3. /\ Held(s) \ Held(u) = Reading(s) /\ Held(u) \subseteq Held(s)
        BY <2>2 DEF Held
    <2> QED
        BY <2>1, <2>2, <2>3 DEF Drops, o
<1> QED
    BY <1>1, <1>2

(* send_stop fails every read it takes out of the stream, once. *)
LEMMA SendStopInv ==
    ASSUME NEW s, StreamInv(s) PROVE Drops(s, SendStop(s))
<1> DEFINE u == [s EXCEPT !.receive_state = "ResetRead",
                          !.pending_read_requests = << >>]
           o == SendStop(s)
<1>1. CASE s.receive_state \notin {"Receive", "DataReceived"}
    BY <1>1, DropsNothing DEF SendStop
<1>2. CASE s.receive_state \in {"Receive", "DataReceived"}
    <2>1. /\ o.stream = u /\ o.sent = 0 /\ o.data = 0 /\ o.done = << >>
          /\ o.failed = Ids(s.pending_read_requests)
        BY <1>2, SMTT(30) DEF SendStop, Outcome
    <2> HIDE DEF o
    <2>2. /\ StreamInv(u) /\ Held(u) = Writing(s)
          /\ Ids(s.pending_read_requests) \in Seq(Requests)
          /\ Distinct(Ids(s.pending_read_requests))
          /\ RangeOf(Ids(s.pending_read_requests)) = Reading(s)
          /\ Writing(s) \cap Reading(s) = {}
        BY DropReadsInv, Zenon
    <2> HIDE DEF u
    <2>3. /\ Held(s) \ Held(u) = Reading(s) /\ Held(u) \subseteq Held(s)
        BY <2>2 DEF Held
    <2> QED
        BY <2>1, <2>2, <2>3 DEF Drops, o
<1> QED
    BY <1>1, <1>2

(* reset answers its caller and fails the writes it drops. *)
LEMMA ResetInv ==
    ASSUME NEW s, StreamInv(s), NEW r \in Requests, r \notin Held(s)
    PROVE  LET o == Reset(s, r)
           IN  StreamInv(o.stream) /\ Answers(s, {r}, o) /\ o.sent = 0 /\ o.data = 0
<1> DEFINE o == Reset(s, r)
<1>1. CASE s.send_state = "None"
    <2>1. /\ o.stream = s /\ o.done = << >> /\ o.failed = << r >>
          /\ o.sent = 0 /\ o.data = 0
        BY <1>1 DEF Reset, Failed, Outcome
    <2> HIDE DEF o
    <2> QED
        BY <2>1, AnswersOne, Zenon DEF o
<1>2. CASE s.send_state # "None"
    <2>1. /\ o.stream = SendReset(s).stream /\ o.failed = SendReset(s).failed
          /\ o.done = << r >> /\ o.sent = SendReset(s).sent
          /\ o.data = SendReset(s).data
        BY <1>2 DEF Reset, SendReset, Outcome
    <2>2. Drops(s, SendReset(s))
        BY SendResetInv
    <2> HIDE DEF o
    <2>3. Answers(s, {r}, o)
        BY <2>1, <2>2, DropsForCaller
    <2> QED
        BY <2>1, <2>2, <2>3 DEF Drops, o
<1> QED
    BY <1>1, <1>2

(* stop answers its caller and fails the reads it drops. *)
LEMMA StopInv ==
    ASSUME NEW s, StreamInv(s), NEW r \in Requests, r \notin Held(s)
    PROVE  LET o == Stop(s, r)
           IN  StreamInv(o.stream) /\ Answers(s, {r}, o) /\ o.sent = 0 /\ o.data = 0
<1> DEFINE o == Stop(s, r)
<1>1. CASE s.receive_state = "None"
    <2>1. /\ o.stream = s /\ o.done = << >> /\ o.failed = << r >>
          /\ o.sent = 0 /\ o.data = 0
        BY <1>1 DEF Stop, Failed, Outcome
    <2> HIDE DEF o
    <2> QED
        BY <2>1, AnswersOne, Zenon DEF o
<1>2. CASE s.receive_state # "None"
    <2>1. /\ o.stream = SendStop(s).stream /\ o.failed = SendStop(s).failed
          /\ o.done = << r >> /\ o.sent = SendStop(s).sent
          /\ o.data = SendStop(s).data
        BY <1>2 DEF Stop, SendStop, Outcome
    <2>2. Drops(s, SendStop(s))
        BY SendStopInv
    <2> HIDE DEF o
    <2>3. Answers(s, {r}, o)
        BY <2>1, <2>2, DropsForCaller
    <2> QED
        BY <2>1, <2>2, <2>3 DEF Drops, o
<1> QED
    BY <1>1, <1>2

(* abort fails what the stream holds on both halves. *)
LEMMA AbortInv ==
    ASSUME NEW s, StreamInv(s) PROVE Drops(s, Abort(s))
<1> DEFINE a == SendReset(s)
           b == SendStop(a.stream)
           o == Abort(s)
<1>1. Drops(s, a)
    BY SendResetInv
<1>2. Drops(a.stream, b)
    BY <1>1, SendStopInv DEF Drops
<1>3. /\ o.stream = b.stream /\ o.failed = a.failed \o b.failed
      /\ o.done = b.done /\ o.sent = b.sent /\ o.data = b.data
    BY Zenon DEF Abort, SendStop, Outcome
<1> HIDE DEF a, b, o
<1>4. RangeOf(a.failed) \cap RangeOf(b.failed) = {}
    BY <1>1, <1>2 DEF Drops
<1>5. /\ a.failed \o b.failed \in Seq(Requests)
    BY <1>1, <1>2 DEF Drops
<1>6. /\ Distinct(a.failed \o b.failed)
      /\ RangeOf(a.failed \o b.failed) = RangeOf(a.failed) \cup RangeOf(b.failed)
    BY <1>1, <1>2, <1>4, DistinctConcat DEF Drops
<1>7. /\ Held(b.stream) \subseteq Held(s)
      /\ Held(s) \ Held(b.stream) = RangeOf(a.failed) \cup RangeOf(b.failed)
    BY <1>1, <1>2 DEF Drops
<1>8. /\ StreamInv(b.stream) /\ b.sent = 0 /\ b.data = 0 /\ b.done = << >>
    BY <1>2 DEF Drops
<1> QED
    BY <1>3, <1>5, <1>6, <1>7, <1>8 DEF Drops, o

(* handle_data_acknowledged touches no request. *)
LEMMA DataAcknowledgedInv ==
    ASSUME NEW s, StreamInv(s)
    PROVE  LET u == HandleDataAcknowledged(s)
           IN  StreamInv(u) /\ Held(u) = Held(s)
<1> DEFINE u == [s EXCEPT !.send_state = "DataReceived"]
<1>1. /\ s \in Streams /\ BufferInv(s) /\ QueueInv(s) /\ HalfInv(s)
    BY DEF StreamInv
<1>2. /\ u \in Streams /\ u.send_state = "DataReceived"
      /\ u.receive_state = s.receive_state
      /\ u.write_buffer = s.write_buffer
      /\ u.write_buffer_size = s.write_buffer_size
      /\ u.pending_write_request = s.pending_write_request
      /\ u.pending_read_requests = s.pending_read_requests
    BY <1>1 DEF Streams, SendStates
<1> HIDE DEF u
<1>3. Writing(u) = Writing(s) /\ Reading(u) = Reading(s)
    BY <1>2 DEF Writing, Reading
<1>4. BufferInv(u) /\ QueueInv(u)
    BY <1>1, <1>2, <1>3 DEF BufferInv, QueueInv
<1>5. s.send_state = "DataSent" => HalfInv(u)
    BY <1>1, <1>2 DEF HalfInv
<1> QED
    BY <1>2, <1>3, <1>4, <1>5 DEF HandleDataAcknowledged, StreamInv, Held, u

(* read holds a request it must wait for and answers any other.            *)
LEMMA ReadInv ==
    ASSUME NEW s, StreamInv(s), NEW r \in Requests, r \notin Held(s),
           NEW max \in Nat
    PROVE  LET o == Read(s, r, max)
           IN  StreamInv(o.stream) /\ Answers(s, {r}, o)
<1> DEFINE o == Read(s, r, max)
           reads == s.pending_read_requests
           c == [id |-> r, max |-> max]
           new == Append(reads, c)
           u == [s EXCEPT !.pending_read_requests = new]
           v == [s EXCEPT !.receive_state =
                     IF @ = "DataReceived" /\ max > 0 THEN "DataRead" ELSE @]
<1>1. /\ s \in Streams /\ BufferInv(s) /\ QueueInv(s) /\ HalfInv(s)
      /\ reads \in Seq(Reads) /\ s.receive_state \in ReceiveStates
    BY Fields DEF StreamInv
<1>2. CASE s.receive_state \in {"None", "ResetRead"}
    <2>1. o.stream = s /\ o.done = << >> /\ o.failed = << r >>
        BY <1>2 DEF Read, Failed, Outcome
    <2> HIDE DEF o
    <2> QED
        BY <2>1, AnswersOne, Zenon DEF o
<1>3. CASE s.receive_state = "Receive" /\ max > 0
    <2>1. o.stream = u /\ o.done = << >> /\ o.failed = << >>
        BY <1>3 DEF Read, Outcome
    <2>2. c \in Reads /\ c.id = r
        BY <1>3 DEF Reads
    <2> HIDE DEF c
    <2>3. /\ new \in Seq(Reads) /\ Len(reads) \in Nat
          /\ DOMAIN reads = 1 .. Len(reads) /\ DOMAIN new = 1 .. Len(reads) + 1
          /\ new[Len(reads) + 1] = c
          /\ \A i \in DOMAIN reads : new[i] = reads[i]
        BY <1>1, <2>2
    <2> HIDE DEF new
    <2>4. /\ u \in Streams /\ u.send_state = s.send_state
          /\ u.receive_state = s.receive_state
          /\ u.write_buffer = s.write_buffer
          /\ u.write_buffer_size = s.write_buffer_size
          /\ u.pending_write_request = s.pending_write_request
          /\ u.pending_read_requests = new
        BY <1>1, <2>3, Zenon DEF Streams
    <2> HIDE DEF u, o
    <2>5. Writing(u) = Writing(s) /\ Reading(u) = Reading(s) \cup {r}
        <3>1. {new[i].id : i \in DOMAIN new} =
                  {reads[i].id : i \in DOMAIN reads} \cup {r}
            BY <2>2, <2>3
        <3> QED
            BY <2>4, <3>1 DEF Writing, Reading
    <2>6. DistinctIds(new)
        <3>1. \A i, j \in DOMAIN reads : reads[i].id = reads[j].id => i = j
            BY <1>1 DEF QueueInv, DistinctIds
        <3>2. \A i \in DOMAIN new : i \in DOMAIN reads \/ i = Len(reads) + 1
            BY <2>3
        <3>3. \A i \in DOMAIN reads : reads[i].id # r
            BY DEF Held, Reading
        <3>4. new[Len(reads) + 1].id = r
            BY <2>2, <2>3
        <3> QED
            BY <2>3, <3>1, <3>2, <3>3, <3>4 DEF DistinctIds
    <2>7. QueueInv(u)
        BY <1>1, <2>4, <2>5, <2>6 DEF QueueInv, Held
    <2>8. BufferInv(u) /\ HalfInv(u)
        BY <1>1, <1>3, <2>4 DEF BufferInv, HalfInv
    <2>9. StreamInv(u) /\ Held(u) = Held(s) \cup {r}
        BY <2>4, <2>5, <2>7, <2>8 DEF StreamInv, Held
    <2>10. Answers(s, {r}, o)
        BY <2>1, <2>9, SmallSequences, AnswersFromRanges
    <2> QED
        BY <2>1, <2>9, <2>10 DEF o
<1>4. CASE /\ s.receive_state \notin {"None", "ResetRead"}
           /\ ~(s.receive_state = "Receive" /\ max > 0)
    <2>1. o.stream = v /\ o.done = << r >> /\ o.failed = << >>
        BY <1>4 DEF Read, Done, Outcome
    <2>2. /\ v \in Streams /\ v.send_state = s.send_state
          /\ v.receive_state = (IF s.receive_state = "DataReceived" /\ max > 0
                                THEN "DataRead" ELSE s.receive_state)
          /\ v.write_buffer = s.write_buffer
          /\ v.write_buffer_size = s.write_buffer_size
          /\ v.pending_write_request = s.pending_write_request
          /\ v.pending_read_requests = reads
        BY <1>1 DEF Streams, ReceiveStates
    <2> HIDE DEF v, o
    <2>3. Writing(v) = Writing(s) /\ Reading(v) = Reading(s)
        BY <2>2 DEF Writing, Reading
    <2>4. BufferInv(v) /\ QueueInv(v) /\ HalfInv(v)
        BY <1>1, <2>2, <2>3 DEF BufferInv, QueueInv, HalfInv
    <2>5. StreamInv(v) /\ Held(v) = Held(s)
        BY <2>2, <2>3, <2>4 DEF StreamInv, Held
    <2>6. Answers(s, {r}, o)
        BY <2>1, <2>5, AnswersOne, Zenon
    <2> QED
        BY <2>1, <2>5, <2>6 DEF o
<1> QED
    BY <1>2, <1>3, <1>4

(* recv_data answers the oldest read, and at the end all of them.          *)
LEMMA RecvDataInv ==
    ASSUME NEW s, StreamInv(s), NEW len \in Nat, NEW fin \in BOOLEAN
    PROVE  LET o == RecvData(s, len, fin)
           IN  StreamInv(o.stream) /\ Answers(s, {}, o)
<1> DEFINE o == RecvData(s, len, fin)
           reads == s.pending_read_requests
           told_end == fin /\ reads # << >> /\ (len = 0 \/ Len(reads) > 1)
           state == IF told_end THEN "DataRead" ELSE "DataReceived"
           u == [s EXCEPT !.receive_state = state,
                          !.pending_read_requests = << >>]
           rest == Tail(reads)
           v == [s EXCEPT !.pending_read_requests = rest]
<1>1. /\ s \in Streams /\ BufferInv(s) /\ QueueInv(s) /\ HalfInv(s)
      /\ reads \in Seq(Reads)
    BY Fields DEF StreamInv
<1>2. CASE s.receive_state # "Receive" \/ (~fin /\ reads = << >>)
    <2>1. o.stream = s /\ o.done = << >> /\ o.failed = << >>
        BY <1>2 DEF RecvData, Outcome
    <2> HIDE DEF o
    <2> QED
        BY <2>1, SmallSequences, AnswersFromRanges DEF o
<1>3. CASE s.receive_state = "Receive" /\ fin
    <2>1. o.stream = u /\ o.done = Ids(reads) /\ o.failed = << >>
        BY <1>3 DEF RecvData, Outcome
    <2>2. /\ StreamInv(u) /\ Held(u) = Writing(s) /\ Distinct(Ids(reads))
          /\ RangeOf(Ids(reads)) = Reading(s)
          /\ Writing(s) \cap Reading(s) = {}
        <3>1. state \in {"DataReceived", "DataRead", "ResetRead"}
            OBVIOUS
        <3> HIDE DEF state
        <3> QED
            BY <3>1, DropReadsInv, Zenon
    <2> HIDE DEF u, o
    <2>3. /\ Held(s) \ Held(u) = Reading(s) /\ Held(u) \subseteq Held(s)
        BY <2>2 DEF Held
    <2>4. Answers(s, {}, o)
        BY <2>1, <2>2, <2>3, SmallSequences, AnswersFromRanges
    <2> QED
        BY <2>1, <2>2, <2>4 DEF o
<1>4. CASE s.receive_state = "Receive" /\ ~fin /\ reads # << >>
    <2> DEFINE r == Head(reads).id
    <2>1. o.stream = v /\ o.done = << r >> /\ o.failed = << >>
        BY <1>4 DEF RecvData, Outcome
    <2>2. /\ Len(reads) \in Nat /\ Len(reads) > 0
          /\ DOMAIN reads = 1 .. Len(reads) /\ reads[1].id = r
          /\ rest \in Seq(Reads) /\ DOMAIN rest = 1 .. Len(reads) - 1
          /\ \A i \in 1 .. Len(reads) - 1 : rest[i] = reads[i + 1]
        BY <1>1, <1>4, Queue
    <2> HIDE DEF rest, r
    <2>3. /\ v \in Streams /\ v.send_state = s.send_state
          /\ v.receive_state = s.receive_state
          /\ v.write_buffer = s.write_buffer
          /\ v.write_buffer_size = s.write_buffer_size
          /\ v.pending_write_request = s.pending_write_request
          /\ v.pending_read_requests = rest
        BY <1>1, <2>2 DEF Streams
    <2> HIDE DEF v, o
    <2>4. \A i, j \in DOMAIN reads : reads[i].id = reads[j].id => i = j
        BY <1>1 DEF QueueInv, DistinctIds
    <2>5. \A i \in DOMAIN rest : /\ i + 1 \in DOMAIN reads
                                 /\ rest[i].id = reads[i + 1].id
                                 /\ rest[i].id # r
        <3> TAKE i \in DOMAIN rest
        <3>1. /\ i + 1 \in DOMAIN reads /\ 1 \in DOMAIN reads /\ i + 1 # 1
              /\ rest[i] = reads[i + 1]
            BY <2>2, SMTT(30)
        <3> QED
            BY <2>2, <2>4, <3>1, Zenon
    <2>6. \A i \in DOMAIN reads :
              i = 1 \/ (i - 1 \in DOMAIN rest /\ reads[i].id = rest[i - 1].id)
        <3> TAKE i \in DOMAIN reads
        <3>1. i = 1 \/ (i - 1 \in DOMAIN rest /\ (i - 1) + 1 = i)
            BY <2>2
        <3> QED
            BY <2>5, <3>1
    <2>7. /\ Writing(v) = Writing(s) /\ Reading(v) = Reading(s) \ {r}
          /\ r \in Reading(s)
        <3>1. Reading(v) = {rest[i].id : i \in DOMAIN rest}
            BY <2>3 DEF Reading
        <3>2. Reading(v) \subseteq Reading(s) \ {r}
            <4>1. \A i \in DOMAIN rest : rest[i].id \in Reading(s)
                BY <2>5 DEF Reading
            <4> QED
                BY <2>5, <3>1, <4>1
        <3>3. Reading(s) \ {r} \subseteq Reading(v)
            <4>1. \A i \in DOMAIN reads : reads[i].id # r =>
                      reads[i].id \in {rest[j].id : j \in DOMAIN rest}
                BY <2>2, <2>6, SMTT(30)
            <4> QED
                BY <3>1, <4>1, Zenon DEF Reading
        <3>4. r \in Reading(s)
            BY <2>2 DEF Reading
        <3> QED
            BY <2>3, <3>2, <3>3, <3>4 DEF Writing
    <2>8. DistinctIds(rest)
        <3> SUFFICES ASSUME NEW i \in DOMAIN rest, NEW j \in DOMAIN rest,
                            rest[i].id = rest[j].id
                     PROVE  i = j
            BY DEF DistinctIds
        <3>1. i + 1 = j + 1
            BY <2>4, <2>5
        <3> QED
            BY <2>2, <3>1
    <2>9. QueueInv(v)
        BY <1>1, <2>3, <2>7, <2>8 DEF QueueInv
    <2>10. BufferInv(v) /\ HalfInv(v)
        BY <1>1, <1>4, <2>3 DEF BufferInv, HalfInv
    <2>11. StreamInv(v)
        BY <2>3, <2>9, <2>10 DEF StreamInv
    <2>12. Held(v) \subseteq Held(s) /\ Held(s) \ Held(v) = {r}
        BY <1>1, <2>7 DEF Held, QueueInv
    <2>13. Answers(s, {}, o)
        BY <2>1, <2>12, AnswersOne, Zenon
    <2> QED
        BY <2>1, <2>11, <2>13 DEF o
<1> QED
    BY <1>2, <1>3, <1>4

------------------------------------------------------------------------------
(* What an operation does to the half it works on, and that it leaves the  *)
(* other half alone.                                                       *)
SendHalf(s) == << s.send_state, s.pending_write_request >>
ReceiveHalf(s) == << s.receive_state, s.pending_read_requests >>

(* No send is started: the half is as it was, less a finished send, or reset. *)
NoSend(s, o) ==
    /\ "SendQuicData" \notin o.effects /\ o.data = 0
    /\ "ResetQuicStream" \in o.effects => o.stream.send_state = "ResetSent"
    /\ \/ SendHalf(o.stream) = SendHalf(s)
       \/ SendHalf(o.stream) = << s.send_state, NoRequest >>
       \/ SendHalf(o.stream) = << "ResetSent", NoRequest >>

(* A send is started, which only a half that is Ready does. *)
Sends(s, o) ==
    /\ o.effects = {"SendQuicData"}
    /\ s.send_state = "Ready"
    /\ o.stream.send_state \in {"Ready", "DataSent"}
    /\ o.stream.pending_write_request # NoRequest

(* flush_writes starts a send or does nothing at all. *)
LEMMA FlushWritesHalves ==
    ASSUME NEW s, StreamInv(s), NEW credit
    PROVE  LET o == FlushWrites(s, credit)
           IN  /\ \/ o = Outcome(s)
                  \/ Sends(s, o)
               /\ ReceiveHalf(o.stream) = ReceiveHalf(s)
               /\ o.stream.receive_state = s.receive_state
<1> DEFINE o == FlushWrites(s, credit)
           front == Head(s.write_buffer)
           skip == \/ s.pending_write_request # NoRequest
                   \/ s.send_state # "Ready"
                   \/ s.write_buffer = << >>
                   \/ front.len > 0 /\ credit = 0
<1>1. CASE skip
    <2>1. o = Outcome(s)
        BY <1>1 DEF FlushWrites
    <2> QED
        BY <2>1 DEF Outcome
<1>2. CASE ~skip
    <2>1. s \in Streams /\ s.write_buffer \in Seq(Chunks)
        BY Fields DEF StreamInv
    <2>2. front \in Chunks
        BY <1>2, <2>1, Queue
    <2>3. front.id # NoRequest
        BY <2>2, RequestAssumption DEF Chunks
    <2>4. /\ o.effects = {"SendQuicData"} /\ s.send_state = "Ready"
          /\ o.stream.send_state \in {"Ready", "DataSent"}
          /\ o.stream.pending_write_request = front.id
          /\ o.stream.receive_state = s.receive_state
          /\ o.stream.pending_read_requests = s.pending_read_requests
        BY <1>2, <2>1, Zenon DEF FlushWrites, Outcome, Streams
    <2> HIDE DEF o
    <2> QED
        BY <2>3, <2>4 DEF Sends, ReceiveHalf, o
<1> QED
    BY <1>1, <1>2

------------------------------------------------------------------------------
(* The bytes of the write buffer, in order.                                *)

(* f marks the ends of the buffered chunks among m bytes. *)
Marks(buffer, m, f) ==
    /\ f \in [0 .. Len(buffer) -> 0 .. m]
    /\ f[0] = 0 /\ f[Len(buffer)] = m
    /\ \A i, j \in 0 .. Len(buffer) : i <= j => f[i] <= f[j]
    /\ \A i \in 1 .. Len(buffer) : f[i] = f[i - 1] + buffer[i].len

(* Each byte after the first n belongs to the chunk it lies in. *)
Owned(buffer, acc, n, f) ==
    \A k \in 1 .. Len(acc) - n :
        \E i \in 1 .. Len(buffer) :
            k \in f[i - 1] + 1 .. f[i] /\ acc[n + k] = buffer[i].id

(* Spells in terms of its two halves. *)
LEMMA SpellsIs ==
    ASSUME NEW buffer, NEW acc, NEW n
    PROVE  Spells(buffer, acc, n) <=>
               \E f : Marks(buffer, Len(acc) - n, f) /\ Owned(buffer, acc, n, f)
BY DEF Spells, Marks, Owned

(* A write that is taken adds its chunk and its bytes. *)
LEMMA SpellsAppend ==
    ASSUME NEW buffer \in Seq(Chunks), NEW acc \in Seq(Requests), NEW n \in Nat,
           n <= Len(acc), NEW c \in Chunks, Spells(buffer, acc, n)
    PROVE  Spells(Append(buffer, c), acc \o Repeat(c.id, c.len), n)
<1> DEFINE L == Len(buffer)
           m == Len(acc) - n
           b == Append(buffer, c)
           a == acc \o Repeat(c.id, c.len)
<1>1. PICK f : Marks(buffer, m, f) /\ Owned(buffer, acc, n, f)
    BY SpellsIs
<1> DEFINE g == [i \in 0 .. L + 1 |-> IF i = L + 1 THEN m + c.len ELSE f[i]]
<1>2. /\ L \in Nat /\ m \in Nat /\ Len(acc) \in Nat
      /\ c.len \in Nat /\ c.id \in Requests
    BY DEF Chunks
<1>3. /\ Len(b) = L + 1 /\ b[L + 1] = c
      /\ \A i \in 1 .. L : b[i] = buffer[i]
    BY SeqAppend, <1>2
<1>4. Repeat(c.id, c.len) \in Seq(Requests) /\ Len(Repeat(c.id, c.len)) = c.len
    BY RepeatIsSeq, <1>2
<1>5. /\ Len(a) = Len(acc) + c.len
      /\ \A i \in 1 .. Len(acc) : a[i] = acc[i]
      /\ \A i \in Len(acc) + 1 .. Len(acc) + c.len : a[i] = c.id
    <2>1. /\ Len(a) = Len(acc) + c.len
          /\ \A i \in 1 .. Len(acc) + c.len :
                 a[i] = IF i <= Len(acc) THEN acc[i]
                        ELSE Repeat(c.id, c.len)[i - Len(acc)]
        <3> DEFINE t == Repeat(c.id, c.len)
        <3>1. t \in Seq(Requests) /\ Len(t) = c.len
            BY <1>4
        <3> HIDE DEF t
        <3>2. /\ Len(acc \o t) = Len(acc) + Len(t)
              /\ \A i \in 1 .. Len(acc) + Len(t) :
                     (acc \o t)[i] = IF i <= Len(acc) THEN acc[i]
                                     ELSE t[i - Len(acc)]
            BY <3>1, SeqConcat, Zenon
        <3> QED
            BY <3>1, <3>2 DEF t
    <2>2. \A i \in 1 .. c.len : Repeat(c.id, c.len)[i] = c.id
        BY DEF Repeat
    <2> HIDE DEF a
    <2> QED
        BY <1>2, <2>1, <2>2, SMTT(30)
<1>6. Len(a) - n = m + c.len
    BY <1>2, <1>5
<1> HIDE DEF a, b, L
<1>7. /\ f \in [0 .. L -> 0 .. m] /\ f[0] = 0 /\ f[L] = m
      /\ \A i, j \in 0 .. L : i <= j => f[i] <= f[j]
      /\ \A i \in 1 .. L : f[i] = f[i - 1] + buffer[i].len
    BY <1>1 DEF Marks, L
<1>8. \A k \in 1 .. m : \E i \in 1 .. L :
          k \in f[i - 1] + 1 .. f[i] /\ acc[n + k] = buffer[i].id
    BY <1>1, Zenon DEF Owned, L
<1>9. \A i \in 0 .. L : f[i] \in Nat /\ f[i] <= m
    BY <1>2, <1>7
<1> HIDE DEF m
<1>10. Marks(b, m + c.len, g)
    <2>1. g \in [0 .. L + 1 -> 0 .. m + c.len]
        BY <1>2, <1>9
    <2>2. g[0] = 0 /\ g[L + 1] = m + c.len
        BY <1>2, <1>7
    <2>3. \A i, j \in 0 .. L + 1 : i <= j => g[i] <= g[j]
        BY <1>2, <1>7, <1>9
    <2>4. \A i \in 1 .. L + 1 : g[i] = g[i - 1] + b[i].len
        <3> SUFFICES ASSUME NEW i \in 1 .. L + 1
                     PROVE  g[i] = g[i - 1] + b[i].len
            BY Zenon
        <3>1. CASE i = L + 1
            <4>1. i - 1 = L /\ L \in 0 .. L + 1 /\ L # L + 1
                BY <1>2, <3>1
            <4>2. g[i] = m + c.len /\ g[i - 1] = m
                BY <1>7, <3>1, <4>1
            <4> QED
                BY <1>3, <3>1, <4>2
        <3>2. CASE i # L + 1
            <4>1. i \in 1 .. L /\ i - 1 \in 0 .. L + 1 /\ i - 1 # L + 1
                BY <1>2, <3>2
            <4>2. g[i] = f[i] /\ g[i - 1] = f[i - 1]
                BY <3>2, <4>1
            <4> QED
                BY <1>3, <1>7, <4>1, <4>2
        <3> QED
            BY <3>1, <3>2
    <2> HIDE DEF g
    <2> QED
        BY <1>3, <2>1, <2>2, <2>3, <2>4 DEF Marks
<1>11. Owned(b, a, n, g)
    <2> SUFFICES ASSUME NEW k \in 1 .. m + c.len
                 PROVE  \E i \in 1 .. L + 1 :
                            k \in g[i - 1] + 1 .. g[i] /\ a[n + k] = b[i].id
        BY <1>3, <1>6, Zenon DEF Owned
    <2>1. CASE k <= m
        <3>1. PICK i \in 1 .. L :
                  k \in f[i - 1] + 1 .. f[i] /\ acc[n + k] = buffer[i].id
            BY <1>2, <1>8, <2>1
        <3>2. g[i] = f[i] /\ g[i - 1] = f[i - 1] /\ i \in 1 .. L + 1
            BY <1>2
        <3>3. n + k \in 1 .. Len(acc)
            BY <1>2, <2>1 DEF m
        <3> QED
            BY <1>3, <1>5, <3>1, <3>2, <3>3
    <2>2. CASE k > m
        <3>1. g[L] = m /\ g[L + 1] = m + c.len /\ L + 1 \in 1 .. L + 1
            BY <1>2, <1>7
        <3>2. n + k \in Len(acc) + 1 .. Len(acc) + c.len
            BY <1>2, <2>2 DEF m
        <3>3. k \in g[L] + 1 .. g[L + 1]
            BY <1>2, <3>1, <2>2
        <3>4. a[n + k] = b[L + 1].id
            BY <1>3, <1>5, <3>2
        <3> DEFINE j == L + 1
        <3>5. j - 1 = L /\ j \in 1 .. L + 1
            BY <1>2
        <3>6. k \in g[j - 1] + 1 .. g[j] /\ a[n + k] = b[j].id
            BY <3>3, <3>4, <3>5
        <3> HIDE DEF j, g
        <3> QED
            BY <3>5, <3>6
    <2>3. k <= m \/ k > m
        BY <1>2
    <2> HIDE DEF g
    <2> QED
        BY <2>1, <2>2, <2>3
<1>12. \E h : Marks(b, Len(a) - n, h) /\ Owned(b, a, n, h)
    BY <1>6, <1>10, <1>11
<1> QED
    BY <1>12, SpellsIs, Zenon DEF a, b

(* The chunks of a buffer that is not empty. *)
LEMMA FrontChunk ==
    ASSUME NEW buffer \in Seq(Chunks), buffer # << >>
    PROVE  /\ Len(buffer) \in Nat /\ Len(buffer) > 0
           /\ Head(buffer) = buffer[1]
           /\ buffer[1] \in Chunks /\ buffer[1].len \in Nat
           /\ \A i \in 1 .. Len(buffer) : buffer[i].len \in Nat
<1>1. /\ Len(buffer) \in Nat /\ Len(buffer) > 0
      /\ Head(buffer) = buffer[1] /\ buffer[1] \in Chunks
    BY Queue
<1>2. \A i \in 1 .. Len(buffer) : buffer[i] \in Chunks
    BY SeqElements
<1> QED
    BY <1>1, <1>2 DEF Chunks

(* The first bytes of a spelled buffer belong to its front chunk. *)
LEMMA SpellsFront ==
    ASSUME NEW buffer \in Seq(Chunks), buffer # << >>,
           NEW acc \in Seq(Requests), NEW n \in Nat,
           n <= Len(acc), Spells(buffer, acc, n),
           NEW d \in Nat, d <= Head(buffer).len
    PROVE  /\ n + d <= Len(acc)
           /\ \A k \in 1 .. d : acc[n + k] = Head(buffer).id
<1> DEFINE L == Len(buffer)
           m == Len(acc) - n
<1>1. PICK f : Marks(buffer, m, f) /\ Owned(buffer, acc, n, f)
    BY SpellsIs
<1>2. L \in Nat /\ L > 0 /\ Head(buffer) = buffer[1] /\ buffer[1].len \in Nat
    BY FrontChunk
<1>3. Len(acc) \in Nat /\ m \in Nat
    OBVIOUS
<1> HIDE DEF L
<1>4. /\ f \in [0 .. L -> 0 .. m] /\ f[0] = 0 /\ f[L] = m
      /\ \A i, j \in 0 .. L : i <= j => f[i] <= f[j]
      /\ \A i \in 1 .. L : f[i] = f[i - 1] + buffer[i].len
    BY <1>1 DEF Marks, L
<1>5. \A k \in 1 .. m : \E i \in 1 .. L :
          k \in f[i - 1] + 1 .. f[i] /\ acc[n + k] = buffer[i].id
    BY <1>1, Zenon DEF Owned, L
<1>6. \A i \in 0 .. L : f[i] \in Nat
    BY <1>3, <1>4
<1>7. f[1] = buffer[1].len /\ f[1] <= m
    <2>1. 1 \in 1 .. L /\ 1 \in 0 .. L /\ L \in 0 .. L /\ 1 <= L /\ 1 - 1 = 0
        BY <1>2
    <2>2. f[1] = f[0] + buffer[1].len
        BY <1>4, <2>1
    <2>3. f[1] <= f[L]
        BY <1>4, <2>1
    <2> QED
        BY <1>2, <1>4, <2>2, <2>3
<1>8. n + d <= Len(acc)
    BY <1>2, <1>3, <1>7
<1>9. ASSUME NEW k \in 1 .. d PROVE acc[n + k] = buffer[1].id
    <2>1. k \in 1 .. m
        BY <1>2, <1>3, <1>7
    <2> HIDE DEF m
    <2>2. PICK i \in 1 .. L : k \in f[i - 1] + 1 .. f[i] /\ acc[n + k] = buffer[i].id
        BY <1>5, <2>1
    <2>3. i = 1
        <3>1. SUFFICES ASSUME i > 1 PROVE FALSE
            BY <1>2
        <3>2. f[1] <= f[i - 1]
            BY <1>2, <1>4, <3>1
        <3>3. f[i - 1] \in Nat /\ f[i] \in Nat
            BY <1>2, <1>6
        <3>4. k > f[i - 1]
            BY <2>2, <3>3
        <3> QED
            BY <1>2, <1>6, <1>7, <3>2, <3>3, <3>4
    <2> QED
        BY <2>2, <2>3
<1> QED
    BY <1>2, <1>8, <1>9, Zenon

(* Part of the front chunk leaves. *)
LEMMA SpellsSplit ==
    ASSUME NEW buffer \in Seq(Chunks), buffer # << >>,
           NEW acc \in Seq(Requests), NEW n \in Nat,
           n <= Len(acc), Spells(buffer, acc, n),
           NEW d \in Nat, d <= Head(buffer).len
    PROVE  Spells(<< [Head(buffer) EXCEPT !.len = @ - d] >> \o Tail(buffer),
                  acc, n + d)
<1> DEFINE L == Len(buffer)
           m == Len(acc) - n
           c == [Head(buffer) EXCEPT !.len = @ - d]
           b == << c >> \o Tail(buffer)
<1>1. PICK f : Marks(buffer, m, f) /\ Owned(buffer, acc, n, f)
    BY SpellsIs
<1> DEFINE g == [i \in 0 .. L |-> IF i = 0 THEN 0 ELSE f[i] - d]
<1>2. /\ L \in Nat /\ L > 0 /\ Head(buffer) = buffer[1]
      /\ buffer[1].len \in Nat /\ buffer[1] \in Chunks
    BY FrontChunk
<1>3. c \in Chunks /\ c.len = buffer[1].len - d /\ c.id = buffer[1].id
    BY <1>2 DEF Chunks
<1> HIDE DEF c
<1>4. /\ Len(b) = L /\ b[1] = c /\ \A i \in 2 .. L : b[i] = buffer[i]
    BY <1>3, QueueFront
<1> HIDE DEF L, b
<1>5. Len(acc) \in Nat /\ m \in Nat
    OBVIOUS
<1>6. /\ f \in [0 .. L -> 0 .. m] /\ f[0] = 0 /\ f[L] = m
      /\ \A i, j \in 0 .. L : i <= j => f[i] <= f[j]
      /\ \A i \in 1 .. L : f[i] = f[i - 1] + buffer[i].len
    BY <1>1 DEF Marks, L
<1>7. \A k \in 1 .. m : \E i \in 1 .. L :
          k \in f[i - 1] + 1 .. f[i] /\ acc[n + k] = buffer[i].id
    BY <1>1, Zenon DEF Owned, L
<1>8. \A i \in 0 .. L : f[i] \in Nat /\ f[i] <= m
    BY <1>5, <1>6
<1>9. f[1] = buffer[1].len
    <2>1. 1 \in 1 .. L /\ 1 - 1 = 0
        BY <1>2
    <2> QED
        BY <1>2, <1>6, <2>1
<1>10. \A i \in 1 .. L : d <= f[i]
    <2> SUFFICES ASSUME NEW i \in 1 .. L PROVE d <= f[i]
        OBVIOUS
    <2>1. 1 \in 0 .. L /\ i \in 0 .. L /\ 1 <= i
        BY <1>2
    <2>2. f[1] <= f[i]
        BY <1>6, <2>1
    <2>3. f[1] \in Nat /\ f[i] \in Nat
        BY <1>8, <2>1
    <2> QED
        BY <1>2, <1>9, <2>2, <2>3
<1>11. Len(acc) - (n + d) = m - d /\ d <= m
    BY <1>2, <1>5, <1>6, <1>10
<1> HIDE DEF m
<1>12. Marks(b, m - d, g)
    <2>1. g \in [0 .. L -> 0 .. m - d]
        BY <1>2, <1>5, <1>8, <1>10, <1>11
    <2>2. g[0] = 0 /\ g[L] = m - d
        BY <1>2, <1>6
    <2>3. ASSUME NEW i \in 0 .. L, NEW j \in 0 .. L, i <= j PROVE g[i] <= g[j]
        <3>1. f[i] \in Nat /\ f[j] \in Nat /\ f[i] <= f[j]
            BY <1>6, <1>8, <2>3
        <3>2. CASE i = 0 /\ j = 0
            BY <3>2
        <3>3. CASE j # 0
            <4>1. d <= f[j] /\ g[j] = f[j] - d
                BY <1>2, <1>10, <3>3
            <4>2. g[i] = 0 \/ g[i] = f[i] - d
                OBVIOUS
            <4> QED
                BY <3>1, <4>1, <4>2
        <3> QED
            BY <1>2, <2>3, <3>2, <3>3
    <2>4. ASSUME NEW i \in 1 .. L PROVE g[i] = g[i - 1] + b[i].len
        <3>1. CASE i = 1
            <4>1. g[1] = f[1] - d /\ g[0] = 0 /\ i - 1 = 0
                BY <1>2, <3>1
            <4>2. b[1].len = f[1] - d
                BY <1>3, <1>4, <1>9
            <4>3. f[1] - d \in Int
                BY <1>2, <1>9
            <4> QED
                BY <3>1, <4>1, <4>2, <4>3
        <3>2. CASE i # 1
            <4>1. i \in 2 .. L /\ i - 1 \in 1 .. L /\ i - 1 \in 0 .. L
                BY <1>2, <3>2
            <4>2. g[i] = f[i] - d /\ g[i - 1] = f[i - 1] - d
                BY <4>1
            <4>3. f[i] = f[i - 1] + buffer[i].len /\ b[i] = buffer[i]
                BY <1>4, <1>6, <4>1
            <4>4. buffer[i].len \in Nat
                BY FrontChunk, <4>1 DEF L
            <4>5. f[i - 1] \in Nat
                BY <1>8, <4>1
            <4> HIDE DEF g
            <4> QED
                BY <4>2, <4>3, <4>4, <4>5
        <3> QED
            BY <3>1, <3>2
    <2> HIDE DEF g
    <2> QED
        BY <1>4, <2>1, <2>2, <2>3, <2>4 DEF Marks
<1>13. Owned(b, acc, n + d, g)
    <2> SUFFICES ASSUME NEW k \in 1 .. m - d
                 PROVE  \E i \in 1 .. L :
                            k \in g[i - 1] + 1 .. g[i] /\ acc[n + d + k] = b[i].id
        BY <1>4, <1>11, Zenon DEF Owned
    <2>1. d + k \in 1 .. m /\ n + (d + k) = n + d + k
        BY <1>5, <1>11
    <2>2. PICK i \in 1 .. L : d + k \in f[i - 1] + 1 .. f[i]
                              /\ acc[n + (d + k)] = buffer[i].id
        BY <1>7, <2>1, Zenon
    <2>3. b[i].id = buffer[i].id
        <3>1. i = 1 \/ i \in 2 .. L
            BY <1>2
        <3> QED
            BY <1>3, <1>4, <3>1
    <2>4. k \in g[i - 1] + 1 .. g[i]
        <3>1. g[i] = f[i] - d /\ f[i] \in Nat /\ f[i - 1] \in Nat
            BY <1>2, <1>8
        <3>2. i = 1 => g[i - 1] = 0
            BY <1>2
        <3>3. i # 1 => g[i - 1] = f[i - 1] - d
            BY <1>2
        <3>4. k <= g[i]
            <4>1. d + k <= f[i] /\ k \in Nat
                BY <1>5, <1>11, <2>2, <3>1
            <4> HIDE DEF g
            <4> QED
                BY <3>1, <4>1
        <3>5. k >= g[i - 1] + 1
            <4>1. CASE i = 1
                BY <1>5, <1>11, <3>2, <4>1
            <4>2. CASE i # 1
                BY <1>5, <1>11, <2>2, <3>1, <3>3, <4>2, SMTT(30)
            <4> QED
                BY <4>1, <4>2
        <3>6. g[i - 1] \in Int /\ g[i] \in Int
            BY <3>1, <3>2, <3>3, SMTT(30)
        <3> HIDE DEF g
        <3> QED
            BY <1>5, <1>11, <3>4, <3>5, <3>6
    <2> HIDE DEF g
    <2> QED
        BY <2>1, <2>2, <2>3, <2>4
<1>14. \E h : Marks(b, Len(acc) - (n + d), h) /\ Owned(b, acc, n + d, h)
    BY <1>11, <1>12, <1>13
<1> QED
    BY <1>14, SpellsIs DEF b, c

(* All of the front chunk leaves. *)
LEMMA SpellsTail ==
    ASSUME NEW buffer \in Seq(Chunks), buffer # << >>,
           NEW acc \in Seq(Requests), NEW n \in Nat,
           n <= Len(acc), Spells(buffer, acc, n)
    PROVE  Spells(Tail(buffer), acc, n + Head(buffer).len)
<1> DEFINE L == Len(buffer)
           m == Len(acc) - n
           d == Head(buffer).len
           b == Tail(buffer)
<1>1. PICK f : Marks(buffer, m, f) /\ Owned(buffer, acc, n, f)
    BY SpellsIs
<1> DEFINE g == [i \in 0 .. L - 1 |-> f[i + 1] - d]
<1>2. L \in Nat /\ L > 0 /\ d = buffer[1].len /\ d \in Nat
    BY FrontChunk
<1>13. Len(b) = L - 1 /\ \A i \in 1 .. L - 1 : b[i] = buffer[i + 1]
    BY Queue
<1>14. \A i \in 1 .. L : buffer[i].len \in Nat
    BY FrontChunk
<1> HIDE DEF L, b, d
<1>3. Len(acc) \in Nat /\ m \in Nat
    OBVIOUS
<1>4. /\ f \in [0 .. L -> 0 .. m] /\ f[0] = 0 /\ f[L] = m
      /\ \A i, j \in 0 .. L : i <= j => f[i] <= f[j]
      /\ \A i \in 1 .. L : f[i] = f[i - 1] + buffer[i].len
    BY <1>1 DEF Marks, L
<1>5. \A k \in 1 .. m : \E i \in 1 .. L :
          k \in f[i - 1] + 1 .. f[i] /\ acc[n + k] = buffer[i].id
    BY <1>1, Zenon DEF Owned, L
<1>6. \A i \in 0 .. L : f[i] \in Nat /\ f[i] <= m
    BY <1>3, <1>4
<1>7. f[1] = d
    <2>1. 1 \in 1 .. L /\ 1 - 1 = 0
        BY <1>2
    <2> QED
        BY <1>2, <1>4, <2>1
<1>8. \A i \in 1 .. L : d <= f[i]
    BY <1>2, <1>4, <1>6, <1>7
<1>9. Len(acc) - (n + d) = m - d /\ d <= m
    <2>1. L \in 1 .. L
        BY <1>2
    <2>2. d <= m
        BY <1>4, <1>8, <2>1
    <2> QED
        BY <1>2, <2>2
<1> HIDE DEF m
<1>10. Marks(b, m - d, g)
    <2>1. g \in [0 .. L - 1 -> 0 .. m - d]
        <3> SUFFICES ASSUME NEW i \in 0 .. L - 1 PROVE f[i + 1] - d \in 0 .. m - d
            OBVIOUS
        <3>1. i + 1 \in 1 .. L /\ i + 1 \in 0 .. L
            BY <1>2
        <3>2. d <= f[i + 1] /\ f[i + 1] \in Nat /\ f[i + 1] <= m
            BY <1>6, <1>8, <3>1
        <3> QED
            BY <1>2, <1>3, <3>2, SMTT(30)
    <2>2. g[0] = 0 /\ g[L - 1] = m - d
        <3>1. 0 \in 0 .. L - 1 /\ L - 1 \in 0 .. L - 1 /\ 0 + 1 = 1 /\ L - 1 + 1 = L
            BY <1>2
        <3>2. g[0] = f[1] - d /\ g[L - 1] = f[L] - d
            BY <3>1
        <3> QED
            BY <1>2, <1>4, <1>7, <3>2, SMTT(30)
    <2>3. ASSUME NEW i \in 0 .. L - 1, NEW j \in 0 .. L - 1, i <= j
          PROVE  g[i] <= g[j]
        <3>1. i + 1 \in 0 .. L /\ j + 1 \in 0 .. L /\ i + 1 <= j + 1
            <4>1. L \in Nat
                BY <1>2
            <4> HIDE DEF g
            <4> QED
                BY <2>3, <4>1
        <3>2. f[i + 1] <= f[j + 1] /\ f[i + 1] \in Nat /\ f[j + 1] \in Nat
            BY <1>4, <1>6, <3>1
        <3>3. g[i] = f[i + 1] - d /\ g[j] = f[j + 1] - d
            OBVIOUS
        <3> HIDE DEF g
        <3> QED
            BY <1>2, <3>2, <3>3
    <2>4. ASSUME NEW i \in 1 .. L - 1 PROVE g[i] = g[i - 1] + b[i].len
        <3>1. /\ i \in 0 .. L - 1 /\ i - 1 \in 0 .. L - 1 /\ i \in 0 .. L
              /\ i + 1 \in 1 .. L /\ i + 1 \in 0 .. L /\ i - 1 + 1 = i
              /\ i + 1 - 1 = i
            BY <1>2
        <3>2. g[i] = f[i + 1] - d /\ g[i - 1] = f[i] - d
            BY <3>1
        <3>3. f[i + 1] = f[i] + b[i].len /\ b[i].len \in Nat
            <4>1. b[i] = buffer[i + 1] /\ buffer[i + 1].len \in Nat
                BY <1>13, <1>14, <3>1
            <4>2. f[i + 1] = f[i + 1 - 1] + buffer[i + 1].len
                BY <1>4, <3>1
            <4> QED
                BY <3>1, <4>1, <4>2
        <3>4. f[i] \in Nat
            BY <1>6, <3>1
        <3> HIDE DEF g
        <3>5. (f[i] + b[i].len) - d = (f[i] - d) + b[i].len
            <4>1. d \in Nat /\ b[i].len \in Nat
                BY <1>2, <3>3
            <4> QED
                BY <3>4, <4>1
        <3> QED
            BY <3>2, <3>3, <3>5
    <2> HIDE DEF g
    <2> QED
        BY <1>13, <2>1, <2>2, <2>3, <2>4 DEF Marks
<1>11. Owned(b, acc, n + d, g)
    <2> SUFFICES ASSUME NEW k \in 1 .. m - d
                 PROVE  \E i \in 1 .. L - 1 :
                            k \in g[i - 1] + 1 .. g[i] /\ acc[n + d + k] = b[i].id
        BY <1>13, <1>9 DEF Owned
    <2> HIDE DEF g
    <2>0. d \in Nat /\ m \in Nat /\ d <= m /\ k \in Nat /\ 1 <= k /\ k <= m - d
        BY <1>2, <1>3, <1>9
    <2>1. d + k \in 1 .. m /\ n + (d + k) = n + d + k
        BY <2>0
    <2>2. PICK i \in 1 .. L : d + k \in f[i - 1] + 1 .. f[i]
                              /\ acc[n + (d + k)] = buffer[i].id
        BY <1>5, <2>1
    <2>3. f[i] \in Nat /\ f[i - 1] \in Nat
        BY <1>2, <1>6
    <2>4. i # 1
        <3>1. SUFFICES ASSUME i = 1 PROVE FALSE
            OBVIOUS
        <3>2. d + k <= f[i]
            BY <2>2, <2>3
        <3> QED
            BY <1>2, <1>3, <1>7, <1>9, <3>1, <3>2
    <2> DEFINE j == i - 1
    <2>5. /\ j \in 1 .. L - 1 /\ j + 1 = i /\ j - 1 + 1 = j
          /\ j \in 0 .. L - 1 /\ j - 1 \in 0 .. L - 1
        BY <1>2, <2>4
    <2>6. g[j] = f[i] - d /\ g[j - 1] = f[i - 1] - d
        BY <2>5 DEF g
    <2> HIDE DEF j
    <2>7. k \in g[j - 1] + 1 .. g[j]
        <3>1. d + k <= f[i] /\ d + k >= f[i - 1] + 1
            BY <2>2, <2>3
        <3>2. k \in (f[i - 1] - d) + 1 .. (f[i] - d)
            <4>1. \A x, y, z, w \in Nat : z + w <= y /\ z + w >= x + 1 =>
                      w \in (x - z) + 1 .. (y - z)
                OBVIOUS
            <4> QED
                BY <2>0, <2>3, <3>1, <4>1, Zenon
        <3> QED
            BY <2>6, <3>2, Zenon
    <2>8. b[j].id = buffer[i].id
        BY <1>13, <2>5
    <2> QED
        BY <2>1, <2>2, <2>5, <2>7, <2>8
<1>12. \E h : Marks(b, Len(acc) - (n + d), h) /\ Owned(b, acc, n + d, h)
    BY <1>9, <1>10, <1>11
<1> QED
    BY <1>12, SpellsIs DEF b, d

(* The accepted bytes acc are those on the wire w, then those buffered. *)
Order(t, acc, w) ==
    /\ Len(w) <= Len(acc)
    /\ \A i \in 1 .. Len(w) : w[i] = acc[i]
    /\ Spells(t.write_buffer, acc, Len(w))
    /\ t.write_buffer_size = Len(acc) - Len(w)

(* A send without bytes leaves the wire as it is. *)
LEMMA NothingSent ==
    ASSUME NEW w \in Seq(Requests), NEW x PROVE w \o Repeat(x, 0) = w
<1>1. Repeat(x, 0) = << >>
    BY DEF Repeat
<1> QED
    BY <1>1, SeqConcat

(* Sending the first d bytes of the front chunk moves them to the wire. *)
LEMMA WireGrows ==
    ASSUME NEW buffer \in Seq(Chunks), buffer # << >>,
           NEW acc \in Seq(Requests), NEW w \in Seq(Requests),
           Len(w) <= Len(acc), \A i \in 1 .. Len(w) : w[i] = acc[i],
           Spells(buffer, acc, Len(w)),
           NEW d \in Nat, d <= Head(buffer).len
    PROVE  LET v == w \o Repeat(Head(buffer).id, d)
           IN  /\ Len(v) = Len(w) + d /\ Len(v) <= Len(acc)
               /\ \A i \in 1 .. Len(v) : v[i] = acc[i]
<1> DEFINE q == Repeat(Head(buffer).id, d)
           v == w \o q
<1>1. Head(buffer).id \in Requests
    BY FrontChunk, Zenon DEF Chunks
<1>2. q \in Seq(Requests) /\ Len(q) = d
    BY <1>1, RepeatIsSeq
<1>3. \A k \in 1 .. d : q[k] = Head(buffer).id
    BY DEF Repeat
<1> HIDE DEF q
<1>4. /\ Len(v) = Len(w) + Len(q)
      /\ \A i \in 1 .. Len(w) + Len(q) :
             v[i] = IF i <= Len(w) THEN w[i] ELSE q[i - Len(w)]
    <2>1. w \in Seq(Requests) /\ q \in Seq(Requests)
        BY <1>2
    <2> QED
        BY <2>1, SeqConcat
<1> HIDE DEF v
<1>5. Len(w) \in Nat /\ Len(acc) \in Nat
    OBVIOUS
<1>6. /\ Len(w) + d <= Len(acc)
      /\ \A k \in 1 .. d : acc[Len(w) + k] = Head(buffer).id
    BY <1>5, SpellsFront, ZenonT(60)
<1>7. ASSUME NEW i \in 1 .. Len(w) + d PROVE v[i] = acc[i]
    <2>1. CASE i <= Len(w)
        BY <1>2, <1>4, <1>5, <2>1
    <2>2. CASE ~(i <= Len(w))
        <3>1. i - Len(w) \in 1 .. d /\ Len(w) + (i - Len(w)) = i
            BY <1>5, <2>2
        <3>2. v[i] = q[i - Len(w)]
            BY <1>2, <1>4, <2>2
        <3>3. acc[Len(w) + (i - Len(w))] = Head(buffer).id
            BY <1>6, <3>1, Zenon
        <3> QED
            BY <1>3, <3>1, <3>2, <3>3
    <2> QED
        BY <2>1, <2>2
<1> QED
    BY <1>2, <1>4, <1>6, <1>7, Zenon DEF q, v

(* flush_writes keeps the order. *)
LEMMA FlushWritesOrder ==
    ASSUME NEW t, StreamInv(t), NEW c \in Nat,
           NEW acc \in Seq(Requests), NEW w \in Seq(Requests), Order(t, acc, w)
    PROVE  LET o == FlushWrites(t, c)
           IN  Order(o.stream, acc,
                     w \o Repeat(o.stream.pending_write_request, o.data))
<1> DEFINE o == FlushWrites(t, c)
           front == Head(t.write_buffer)
           rest == Tail(t.write_buffer)
           d == IF front.len <= c THEN front.len ELSE c
           idle == \/ t.pending_write_request # NoRequest
                   \/ t.send_state # "Ready"
                   \/ t.write_buffer = << >>
                   \/ front.len > 0 /\ c = 0
<1>1. CASE idle
    <2>1. o.stream = t /\ o.data = 0
        BY <1>1 DEF FlushWrites, Outcome
    <2>2. w \o Repeat(t.pending_write_request, 0) = w
        BY NothingSent
    <2> QED
        BY <2>1, <2>2, Zenon
<1>2. CASE ~idle
    <2>1. t.write_buffer \in Seq(Chunks) /\ t.write_buffer # << >>
        BY <1>2 DEF StreamInv, Streams
    <2>2. /\ front.len \in Nat /\ t.write_buffer_size \in Nat
          /\ d \in Nat /\ d <= front.len
        BY <2>1, FrontChunk DEF StreamInv, Streams
    <2>3. /\ o.stream.write_buffer =
                 IF front.len <= c THEN rest
                 ELSE << [front EXCEPT !.len = @ - c] >> \o rest
          /\ o.stream.write_buffer_size = t.write_buffer_size - d
          /\ o.stream.pending_write_request = front.id
          /\ o.data = d
        BY <1>2, Zenon DEF FlushWrites, Outcome, StreamInv, Streams
    <2> HIDE DEF o
    <2> DEFINE v == w \o Repeat(front.id, d)
    <2>4. /\ Len(w) <= Len(acc) /\ \A i \in 1 .. Len(w) : w[i] = acc[i]
          /\ Spells(t.write_buffer, acc, Len(w))
          /\ t.write_buffer_size = Len(acc) - Len(w)
        BY DEF Order
    <2>5. /\ Len(v) = Len(w) + d /\ Len(v) <= Len(acc)
          /\ \A i \in 1 .. Len(v) : v[i] = acc[i]
        <3> HIDE DEF d
        <3> QED
            BY <2>1, <2>2, <2>4, WireGrows, ZenonT(60)
    <2> HIDE DEF v
    <2>6. Len(w) \in Nat /\ Len(acc) \in Nat
        OBVIOUS
    <2>7. Spells(o.stream.write_buffer, acc, Len(w) + d)
        <3>1. CASE front.len <= c
            <4>1. o.stream.write_buffer = rest /\ d = front.len
                BY <2>3, <3>1
            <4>2. Spells(rest, acc, Len(w) + front.len)
                BY <2>1, <2>4, <2>6, SpellsTail
            <4> QED
                BY <4>1, <4>2
        <3>2. CASE ~(front.len <= c)
            <4>1. /\ o.stream.write_buffer =
                         << [front EXCEPT !.len = @ - c] >> \o rest
                  /\ d = c
                BY <2>3, <3>2
            <4>2. Spells(<< [front EXCEPT !.len = @ - c] >> \o rest, acc, Len(w) + c)
                BY <2>1, <2>2, <2>4, <2>6, <3>2, SpellsSplit, Zenon
            <4> QED
                BY <4>1, <4>2
        <3> QED
            BY <3>1, <3>2
    <2> HIDE DEF d
    <2>8. o.stream.write_buffer_size = Len(acc) - Len(v)
        BY <2>2, <2>3, <2>4, <2>5, <2>6
    <2>9. Order(o.stream, acc, v)
        BY <2>5, <2>7, <2>8 DEF Order
    <2>10. Order(o.stream, acc,
                 w \o Repeat(o.stream.pending_write_request, o.data))
        BY <2>3, <2>9 DEF v
    <2> QED
        BY <2>10 DEF o
<1> QED
    BY <1>1, <1>2

(* write keeps the order; a write that is taken adds its bytes. *)
LEMMA WriteOrder ==
    ASSUME NEW t, StreamInv(t), NEW r \in Requests, r \notin Held(t),
           NEW len \in Nat, NEW fin \in BOOLEAN, NEW c \in Nat,
           NEW acc \in Seq(Requests), NEW w \in Seq(Requests), Order(t, acc, w)
    PROVE  LET o == Write(t, r, len, fin, c)
               taken == o.failed = << >> /\ o.done = << >>
           IN  Order(o.stream, IF taken THEN acc \o Repeat(r, len) ELSE acc,
                     w \o Repeat(o.stream.pending_write_request, o.data))
<1> DEFINE o == Write(t, r, len, fin, c)
           taken == o.failed = << >> /\ o.done = << >>
           chunk == [id |-> r, len |-> len, fin |-> fin]
           u == [t EXCEPT !.write_buffer = Append(@, chunk),
                          !.write_buffer_size = @ + len]
           refused == \/ t.send_state = "None" \/ FinishPending(t)
                      \/ t.write_buffer_size + len > MaxWriteBufferSize
<1>1. CASE refused
    <2>1. /\ o = Failed(t, r) \/ o = Done(t, r)
        BY <1>1 DEF Write
    <2>2. /\ o.stream = t /\ o.data = 0
          /\ o.failed = << r >> \/ o.done = << r >>
        BY <2>1 DEF Failed, Done, Outcome
    <2>3. w \o Repeat(t.pending_write_request, 0) = w
        BY NothingSent
    <2> HIDE DEF o
    <2>4. ~taken
        <3>1. << r >> # << >>
            OBVIOUS
        <3> QED
            BY <2>2, <3>1, Zenon
    <2>5. Order(o.stream, IF taken THEN acc \o Repeat(r, len) ELSE acc,
                w \o Repeat(o.stream.pending_write_request, o.data))
        BY <2>2, <2>3, <2>4, Zenon
    <2> QED
        BY <2>5 DEF o
<1>2. CASE ~refused
    <2>1. o = FlushWrites(u, c)
        BY <1>2 DEF Write
    <2>2. StreamInv(u)
        BY <1>2, WriteTakenInv, Zenon
    <2>3. t.write_buffer \in Seq(Chunks) /\ t.write_buffer_size \in Nat
        BY DEF StreamInv, Streams
    <2>4. u.write_buffer = Append(t.write_buffer, chunk)
          /\ u.write_buffer_size = t.write_buffer_size + len
        BY DEF StreamInv, Streams
    <2>5. chunk \in Chunks /\ chunk.id = r /\ chunk.len = len
        BY DEF Chunks
    <2> HIDE DEF chunk, u, o
    <2> DEFINE a == acc \o Repeat(r, len)
    <2>6. /\ Len(w) <= Len(acc) /\ \A i \in 1 .. Len(w) : w[i] = acc[i]
          /\ Spells(t.write_buffer, acc, Len(w))
          /\ t.write_buffer_size = Len(acc) - Len(w)
        BY DEF Order
    <2>7. Len(w) \in Nat /\ Len(acc) \in Nat
        OBVIOUS
    <2>8. Spells(u.write_buffer, a, Len(w))
        BY <2>3, <2>4, <2>5, <2>6, <2>7, SpellsAppend
    <2>9. Repeat(r, len) \in Seq(Requests) /\ Len(Repeat(r, len)) = len
        BY RepeatIsSeq
    <2>10. /\ a \in Seq(Requests) /\ Len(a) = Len(acc) + len
           /\ \A i \in 1 .. Len(acc) : a[i] = acc[i]
        <3> DEFINE q == Repeat(r, len)
        <3>1. q \in Seq(Requests) /\ Len(q) = len
            BY <2>9
        <3> HIDE DEF q
        <3>2. /\ acc \o q \in Seq(Requests) /\ Len(acc \o q) = Len(acc) + Len(q)
              /\ \A i \in 1 .. Len(acc) + Len(q) :
                     (acc \o q)[i] = IF i <= Len(acc) THEN acc[i]
                                     ELSE q[i - Len(acc)]
            BY <3>1, SeqConcat, ZenonT(60)
        <3>3. \A i \in 1 .. Len(acc) : i \in 1 .. Len(acc) + Len(q) /\ i <= Len(acc)
            BY <2>7, <3>1
        <3> QED
            BY <3>1, <3>2, <3>3 DEF q
    <2> HIDE DEF a
    <2>11. Order(u, a, w)
        <3>1. Len(w) <= Len(a) /\ u.write_buffer_size = Len(a) - Len(w)
            BY <2>4, <2>6, <2>7, <2>10
        <3>2. \A i \in 1 .. Len(w) : w[i] = a[i]
            BY <2>6, <2>7, <2>10
        <3> QED
            BY <2>8, <3>1, <3>2 DEF Order
    <2>12. Order(o.stream, a, w \o Repeat(o.stream.pending_write_request, o.data))
        BY <2>1, <2>2, <2>10, <2>11, FlushWritesOrder
    <2>13. taken
        BY <2>1, <2>2, FlushWritesInv, Zenon
    <2> QED
        BY <2>12, <2>13 DEF a, o
<1> QED
    BY <1>1, <1>2

(* complete_write keeps the order. *)
LEMMA CompleteWriteOrder ==
    ASSUME NEW t, StreamInv(t), NEW c \in Nat,
           NEW acc \in Seq(Requests), NEW w \in Seq(Requests), Order(t, acc, w)
    PROVE  LET o == CompleteWrite(t, c)
           IN  Order(o.stream, acc,
                     w \o Repeat(o.stream.pending_write_request, o.data))
<1> DEFINE o == CompleteWrite(t, c)
           u == [t EXCEPT !.pending_write_request = NoRequest]
           f == FlushWrites(u, c)
<1>1. CASE t.pending_write_request = NoRequest
    <2>1. o.stream = t /\ o.data = 0
        BY <1>1 DEF CompleteWrite, Outcome
    <2>2. w \o Repeat(t.pending_write_request, 0) = w
        BY NothingSent
    <2> QED
        BY <2>1, <2>2, Zenon
<1>2. CASE t.pending_write_request # NoRequest
    <2>1. o.stream = f.stream /\ o.data = f.data
        BY <1>2 DEF CompleteWrite, FlushWrites, Outcome
    <2>2. StreamInv(u)
        BY DropPendingInv, Zenon
    <2>3. u.write_buffer = t.write_buffer /\ u.write_buffer_size = t.write_buffer_size
        BY DEF StreamInv, Streams
    <2> HIDE DEF u
    <2>4. Order(u, acc, w)
        BY <2>3 DEF Order
    <2>5. Order(f.stream, acc, w \o Repeat(f.stream.pending_write_request, f.data))
        BY <2>2, <2>4, FlushWritesOrder
    <2> HIDE DEF f, o
    <2>6. Order(o.stream, acc, w \o Repeat(o.stream.pending_write_request, o.data))
        BY <2>1, <2>5
    <2> QED
        BY <2>6 DEF o
<1> QED
    BY <1>1, <1>2

==============================================================================
