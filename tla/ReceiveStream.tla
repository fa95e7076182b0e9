---------------------------- MODULE ReceiveStream ----------------------------
(****************************************************************************)
(* WebTransportReceiveStream: concurrent and cancelled reads of one stream. *)
(* All readers share one request to the core, the read task; a reader that  *)
(* is cancelled leaves the task running, and what it brings is given to the *)
(* next reader.  What a reader does not want goes to a buffer.              *)
(*                                                                          *)
(* Bytes are numbered in the order of the stream.  A reader runs without    *)
(* interruption until it awaits the task; running says whose turn it is.    *)
(* Reads of size zero, which take nothing, are left out.                    *)
(*                                                                          *)
(* Source: stream.py.                                                       *)
(****************************************************************************)
EXTENDS Integers, Sequences, FiniteSets, SequencesExt

CONSTANTS
    Readers,      \* tasks of the application
    Watched,      \* the readers of which ReadersReturn is checked
    Uses,         \* who reads and with which operations: pairs of sets
    Total,        \* number of bytes the peer sends
    Separators,   \* the bytes at which a line ends
    ChunkSize,    \* _READ_CHUNK_SIZE
    MaxTasks      \* bound on the requests to the core

ASSUME ReceiveStreamAssumption ==
    /\ {Total, ChunkSize, MaxTasks} \subseteq Nat
    /\ Separators \subseteq 1 .. Total
    /\ Uses \subseteq (SUBSET Readers) \X (SUBSET {"read", "exactly", "until"})

Nobody == "nobody"
NoTask == [id |-> 0, size |-> 0, outcome |-> "none", data |-> << >>]

VARIABLES
    use,        \* the member of Uses that the application keeps to
    buffer,     \* _buffer
    eof,        \* _eof
    is_closed,  \* _is_closed
    task,       \* _read_task: the request, and its outcome when there is one
    tasks,      \* requests made so far; the identity of the last one
    reader,     \* what each reader is doing
    running,    \* the reader whose turn it is
    sent,       \* bytes the core has delivered
    out,        \* history: bytes given to the application, in order
    lost,       \* history: bytes taken and given to nobody
    behind      \* history: a task alone put bytes behind later ones

vars == << use, buffer, eof, is_closed, task, tasks, reader, running, sent, out, lost,
           behind >>

(* An operation: read(max_size), readexactly(size) or readuntil(max_size).  *)
(* A size of -1 is no limit.                                                *)
Operation == [op : {"read"} \cap use[2], size : {-1, 1}]
        \cup [op : {"exactly"} \cap use[2], size : {2}]
        \cup [op : {"until"} \cap use[2], size : {-1, 1}]

Idle == [op |-> "idle", size |-> 0, acc |-> << >>, task |-> 0]

Bytes == 1 .. Total

(* Type invariant: buffer, end marks, the shared fetch task and the readers  *)
(* of WebTransportReceiveStream keep their types.                            *)
TypeOK ==
    /\ ToSet(buffer) \subseteq Bytes
    /\ eof \in BOOLEAN /\ is_closed \in BOOLEAN
    /\ task.id \in 0 .. MaxTasks
    /\ task.outcome \in {"none", "data", "error"}
    /\ tasks \in 0 .. MaxTasks
    /\ \A i \in Readers : reader[i].op \in {"idle", "read", "exactly", "until"}
    /\ running \in Readers \cup {Nobody}
    /\ sent \in 0 .. Total
    /\ lost \subseteq Bytes
    /\ behind \in BOOLEAN

Init ==
    /\ use \in Uses
    /\ buffer = << >>
    /\ eof = FALSE
    /\ is_closed = FALSE
    /\ task = NoTask
    /\ tasks = 0
    /\ reader = [i \in Readers |-> Idle]
    /\ running = Nobody
    /\ sent = 0
    /\ out = << >>
    /\ lost = {}
    /\ behind = FALSE

------------------------------------------------------------------------------
(* Sequences of bytes.                                                      *)

Take(s, n) == IF n < 0 \/ n > Len(s) THEN s ELSE SubSeq(s, 1, n)
Rest(s, n) == IF n < 0 \/ n > Len(s) THEN << >> ELSE SubSeq(s, n + 1, Len(s))

(* The end of the first line in s, or 0.                                    *)
LineEnd(s) ==
    LET ends == {k \in 1 .. Len(s) : s[k] \in Separators}
    IN IF ends = {} THEN 0 ELSE CHOOSE k \in ends : \A j \in ends : k <= j

(* The max_size that an operation passes to read().                         *)
Wanted(i) ==
    CASE reader[i].op = "read" -> reader[i].size
      [] reader[i].op = "exactly" -> reader[i].size - Len(reader[i].acc)
      [] OTHER -> ChunkSize

(* The operation ends and its caller gets data: a result, or the partial    *)
(* data of IncompleteReadError.                                             *)
Return(i, data) ==
    /\ out' = out \o data
    /\ reader' = [reader EXCEPT ![i] = Idle]
    /\ running' = Nobody
    /\ UNCHANGED lost

(* The operation ends with an exception, and what it had read is gone.      *)
Raise(i, data) ==
    /\ lost' = lost \cup ToSet(data)
    /\ reader' = [reader EXCEPT ![i] = Idle]
    /\ running' = Nobody
    /\ UNCHANGED out

(* readexactly and readuntil go round their loop.                           *)
GoOn(i, data) ==
    /\ reader' = [reader EXCEPT ![i].acc = data, ![i].task = 0]
    /\ running' = i
    /\ UNCHANGED << out, lost >>

(* A task is the only one that uses the stream.                             *)
Alone == \E i \in use[1] : use[1] = {i}

(* readuntil appends what follows the separator to the buffer, also when    *)
(* the buffer holds later bytes.                                            *)
PushBack(rest, data) ==
    /\ buffer' = rest \o data
    /\ behind' = (behind \/ (Alone /\ rest # << >> /\ data # << >>))

(* The loops of readexactly and readuntil, and read itself, when read has   *)
(* returned chunk and left rest in the buffer.                              *)
Got(i, chunk, rest) ==
    LET data == reader[i].acc \o chunk
        size == reader[i].size
        end  == LineEnd(data)
    IN \/ /\ reader[i].op = "read" \/ chunk = << >>
          /\ PushBack(rest, << >>)
          /\ Return(i, data)
       \/ /\ reader[i].op = "exactly" /\ chunk # << >>
          /\ PushBack(rest, << >>)
          /\ IF Len(data) = size THEN Return(i, data) ELSE GoOn(i, data)
       \/ /\ reader[i].op = "until" /\ chunk # << >>
          /\ CASE end > 0 /\ size >= 0 /\ end > size ->
                    PushBack(rest, << >>) /\ Raise(i, data)
               [] end > 0 /\ ~(size >= 0 /\ end > size) ->
                    PushBack(rest, Rest(data, end)) /\ Return(i, Take(data, end))
               [] end = 0 /\ size >= 0 /\ Len(data) > size ->
                    PushBack(rest, << >>) /\ Raise(i, data)
               [] OTHER ->
                    PushBack(rest, << >>) /\ GoOn(i, data)

------------------------------------------------------------------------------
(* The application calls an operation.                                      *)
Call(i, o) ==
    /\ running = Nobody
    /\ i \in use[1] /\ reader[i].op = "idle"
    /\ reader' = [reader EXCEPT ![i] = [op |-> o.op, size |-> o.size, acc |-> << >>, task |-> 0]]
    /\ running' = i
    /\ UNCHANGED << buffer, eof, is_closed, task, tasks, sent, out, lost, behind >>

(* read() finds data in the buffer.                                         *)
ReadBuffer(i) ==
    /\ running = i
    /\ buffer # << >>
    /\ Got(i, Take(buffer, Wanted(i)), Rest(buffer, Wanted(i)))
    /\ UNCHANGED << eof, is_closed, task, tasks, sent >>

(* read() after the end of the stream.                                      *)
ReadEof(i) ==
    /\ running = i
    /\ buffer = << >>
    /\ eof
    /\ Got(i, << >>, << >>)
    /\ UNCHANGED << eof, is_closed, task, tasks, sent >>

(* read() needs a new request and the stream is closed.                     *)
ReadClosed(i) ==
    /\ running = i
    /\ buffer = << >>
    /\ ~eof
    /\ task = NoTask
    /\ is_closed
    /\ Raise(i, reader[i].acc)
    /\ UNCHANGED << buffer, eof, is_closed, task, tasks, sent, behind >>

(* read() awaits the task; it creates one if there is none.                 *)
ReadAwait(i) ==
    /\ running = i
    /\ buffer = << >>
    /\ ~eof
    /\ \/ /\ task = NoTask
          /\ ~is_closed
          /\ tasks < MaxTasks
          /\ tasks' = tasks + 1
          /\ task' = [id |-> tasks + 1, size |-> Wanted(i), outcome |-> "none", data |-> << >>]
       \/ /\ task # NoTask
          /\ UNCHANGED << task, tasks >>
    /\ reader' = [reader EXCEPT ![i].task = task'.id]
    /\ running' = Nobody
    /\ UNCHANGED << buffer, eof, is_closed, sent, out, lost, behind >>

(* The task the reader awaits has an outcome and is still the current one:  *)
(* the reader takes it.                                                     *)
Resume(i) ==
    /\ running = Nobody
    /\ reader[i].task # 0
    /\ reader[i].task = task.id
    /\ task.outcome = "data"
    /\ task' = NoTask
    /\ eof' = (eof \/ task.data = << >>)
    /\ Got(i, Take(task.data, Wanted(i)), buffer \o Rest(task.data, Wanted(i)))
    /\ UNCHANGED << is_closed, tasks, sent >>

(* The outcome is an exception.                                             *)
ResumeError(i) ==
    /\ running = Nobody
    /\ reader[i].task # 0
    /\ reader[i].task = task.id
    /\ task.outcome = "error"
    /\ task' = NoTask
    /\ Raise(i, reader[i].acc)
    /\ UNCHANGED << buffer, eof, is_closed, tasks, sent, behind >>

(* Another reader took the outcome: go round the loop again.                *)
ResumeStale(i) ==
    /\ running = Nobody
    /\ reader[i].task # 0
    /\ reader[i].task # task.id
    /\ reader' = [reader EXCEPT ![i].task = 0]
    /\ running' = i
    /\ UNCHANGED << buffer, eof, is_closed, task, tasks, sent, out, lost, behind >>

CancelBug(i) ==
    /\ running = Nobody
    /\ reader[i].task # 0
    /\ Raise(i, reader[i].acc)
    /\ task' = IF task.id = reader[i].task THEN NoTask ELSE task
    /\ UNCHANGED << buffer, eof, is_closed, tasks, sent, behind >>

CancelSharedBug(i) ==
    /\ running = Nobody
    /\ reader[i].task # 0
    /\ Raise(i, reader[i].acc)
    /\ task' = IF task.id = reader[i].task /\ task.outcome = "none"
               THEN [task EXCEPT !.outcome = "cancelled"] ELSE task
    /\ UNCHANGED << buffer, eof, is_closed, tasks, sent, behind >>

(* The reader is cancelled, or the timeout of readexactly or readuntil      *)
(* fires.  The task is shielded.                                            *)
Cancel(i) ==
    /\ running = Nobody
    /\ reader[i].task # 0
    /\ Raise(i, reader[i].acc)
    /\ UNCHANGED << buffer, eof, is_closed, task, tasks, sent, behind >>

AnswerBug ==
    /\ running = Nobody
    /\ task.id # 0
    /\ task.outcome = "none"
    /\ task' = [task EXCEPT !.outcome = "data", !.data = << sent + 1, sent + 2 >>]
    /\ sent' = sent + 2
    /\ UNCHANGED << buffer, eof, is_closed, tasks, reader, running, out, lost, behind >>

(* The core answers the request: bytes, the end of the stream, or an error. *)
Answer ==
    /\ running = Nobody
    /\ task.id # 0
    /\ task.outcome = "none"
    /\ \/ \E n \in sent + 1 .. Total :
             /\ task.size < 0 \/ n - sent <= task.size
             /\ task' = [task EXCEPT !.outcome = "data",
                                     !.data = [k \in 1 .. n - sent |-> sent + k]]
             /\ sent' = n
       \/ /\ sent = Total
          /\ task' = [task EXCEPT !.outcome = "data"]
          /\ UNCHANGED sent
       \/ /\ task' = [task EXCEPT !.outcome = "error"]
          /\ UNCHANGED sent
    /\ UNCHANGED << buffer, eof, is_closed, tasks, reader, running, out, lost, behind >>

(* _handle_closed                                                           *)
HandleClosed ==
    /\ running = Nobody
    /\ ~is_closed
    /\ is_closed' = TRUE
    /\ UNCHANGED << buffer, eof, task, tasks, reader, running, sent, out, lost, behind >>

------------------------------------------------------------------------------
Turn(i) ==
    \/ ReadBuffer(i) \/ ReadEof(i) \/ ReadClosed(i) \/ ReadAwait(i)
    \/ Resume(i) \/ ResumeError(i) \/ ResumeStale(i)

Next ==
    /\ \/ \E i \in Readers : Turn(i) \/ Cancel(i) \/ \E o \in Operation : Call(i, o)
       \/ Answer
       \/ HandleClosed
    /\ UNCHANGED use

Spec == Init /\ [][Next]_vars

(* Turn(i) is enabled; MaxTasks may be what stops a reader.                 *)
Ready(i) ==
    \/ running = i /\ (buffer # << >> \/ eof \/ task # NoTask \/ is_closed \/ tasks < MaxTasks)
    \/ /\ running = Nobody /\ reader[i].task # 0
       /\ reader[i].task # task.id \/ task.outcome \in {"data", "error"}

Unanswered == running = Nobody /\ task.id # 0 /\ task.outcome = "none"

(* The event loop runs its ready tasks in turn, so that a task which is     *)
(* ready again and again runs: strong fairness.  The core answers each      *)
(* request: bytes arrive, or the stream or its session ends.  Both are      *)
(* written with the guards of the actions.                                  *)
LiveSpec ==
    /\ Spec
    /\ \A i \in Readers : <>[](~Ready(i)) \/ []<><< Turn(i) >>_vars
    /\ <>[](~Unanswered) \/ []<><< Answer >>_vars

------------------------------------------------------------------------------
(* Every byte the core delivered is in exactly one place: given to the      *)
(* application, in the buffer, in the outcome of the task, collected by     *)
(* readexactly or readuntil, or dropped with an exception.  A byte is never *)
(* returned twice and never forgotten by read() (stream.py).                *)
EachByteOnce ==
    LET collected(i) == ToSet(reader[i].acc)
        length(i)    == Len(reader[i].acc)
    IN /\ UNION ({ToSet(out), ToSet(buffer), ToSet(task.data), lost}
                 \cup {collected(i) : i \in Readers}) = 1 .. sent
       /\ Len(out) + Len(buffer) + Len(task.data) + Cardinality(lost)
            + MapThenSumSet(length, Readers) = sent

(* With read() alone, the application gets the bytes in the order of the    *)
(* stream and gets all of them: what was returned, then the buffer, then    *)
(* the outcome of the task is the stream so far, whatever readers ran       *)
(* concurrently or were cancelled (stream.py, read).                        *)
ReadInOrder == use[2] = {"read"} => out \o buffer \o task.data = [k \in 1 .. sent |-> k]

(* A task that uses the stream alone gets the bytes in order whatever it    *)
(* calls and however often it is cancelled (stream.py, readexactly and      *)
(* readuntil), unless readuntil has put bytes behind later ones: the        *)
(* outcome of a cancelled read() may be longer than the chunk it asks for.  *)
AloneInOrder ==
    Alone /\ ~behind =>
        \A i \in use[1] :
            LET held == out \o reader[i].acc \o buffer \o task.data
            IN \A j, k \in DOMAIN held : j < k => held[j] < held[k]

(* Bytes are kept: none is lost or repeated, nor out of order where only    *)
(* read() is used or only one task (stream.py, read, readexactly,           *)
(* readuntil).                                                              *)
BytesKept == TypeOK /\ EachByteOnce /\ ReadInOrder /\ AloneInOrder

(* A reader returns, also when the reader that made the request was         *)
(* cancelled or another reader took the outcome (stream.py, the check that  *)
(* the task is still the current one).  MaxTasks excuses a reader that      *)
(* needs one request more.  Readers are interchangeable.                    *)
ReadersReturn ==
    \A i \in Watched :
        (reader[i].op # "idle") ~> (reader[i].op = "idle" \/ (task = NoTask /\ tasks = MaxTasks))

==============================================================================
