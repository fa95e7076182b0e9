------------------------------- MODULE Client --------------------------------
(****************************************************************************)
(* WebTransportClient: concurrent connect() calls that share one runtime,   *)
(* the race of connection attempts to several addresses, and close().       *)
(*                                                                          *)
(* A step is what a task does between two awaits.  Rust is reduced to the   *)
(* runtimes, which open and close, and the connections in them; Runtime     *)
(* models what is inside.  A timeout of connect() and a cancellation of its *)
(* caller are the same action, which can come more than once: the timeout,  *)
(* and then the caller.                                                     *)
(*                                                                          *)
(* Source: client.py; start, connect and close of controller.py.            *)
(****************************************************************************)
EXTENDS Naturals, FiniteSets

CONSTANTS
    Callers,      \* tasks that call connect(), once each
    Count,        \* addresses that a host resolves to
    MaxRuntimes   \* bound on the runtimes started

Nobody == "nobody"

ASSUME ClientAssumption ==
    Count \in Nat \ {0} /\ MaxRuntimes \in Nat /\ Nobody \notin Callers

Attempts == Callers \X (1 .. Count)

VARIABLES
    closed,      \* _closed
    closing,     \* progress of the close task
    gathered,    \* attempts that the close task waits for
    controller,  \* _controller: the runtime in place, or 0
    lock,        \* holder of _controller_lock
    runtime,     \* state of each runtime
    starter,     \* the connect() that waits for the start of each runtime
    call,        \* progress of each connect()
    tasks,       \* the attempts that a connect() waits for
    background,  \* attempts in _background_tasks
    discarding,  \* connections that a task in _background_tasks closes
    attempt,     \* state of each attempt's task
    conn,        \* state of each attempt's connection
    via,         \* the runtime of each attempt
    abandoned,   \* history: runtimes whose caller was cancelled, and left them
    late,        \* history: runtimes put in place when close() was over
    dropped,     \* history: connections that close() took from their tasks
    refused      \* history: connections that Rust was asked in vain to close

starts == << controller, lock, runtime, starter, abandoned, late >>
ending == << closed, closing, gathered >>
life == << starts, ending >>
owners == << tasks, background, discarding, dropped, refused >>
race == << owners, attempt, conn, via >>

vars == << life, call, race >>

Ended == [at |-> "ended", next |-> 0, winner |-> 0]
At(p) == [at |-> p, next |-> 0, winner |-> 0]

(* Type invariant: the fields of WebTransportClient, its calls of connect,   *)
(* and the tasks, runtimes and connections behind them keep their types.     *)
TypeOK ==
    /\ closed \in BOOLEAN
    /\ closing \in {"none", "gather", "controller", "cancelled controller", "done",
                    "cancelled"}
    /\ gathered \subseteq Attempts
    /\ controller \in 0 .. MaxRuntimes
    /\ lock \in Callers \cup {Nobody}
    /\ runtime \in [1 .. MaxRuntimes -> {"unused", "starting", "open", "closed"}]
    /\ starter \in [1 .. MaxRuntimes -> Callers \cup {Nobody}]
    /\ call \in [Callers -> [at : {"idle", "lock", "start", "cancelled start", "resolve",
                                   "race", "session", "ended"},
                             next : 0 .. Count, winner : 0 .. Count]]
    /\ tasks \subseteq Attempts /\ background \subseteq Attempts
    /\ discarding \subseteq Attempts
    /\ attempt \in [Attempts -> {"none", "created", "connecting", "ok", "error", "cancelled"}]
    /\ conn \in [Attempts -> {"none", "pending", "open", "closed"}]
    /\ via \in [Attempts -> 0 .. MaxRuntimes]
    /\ abandoned \subseteq 1 .. MaxRuntimes /\ late \subseteq 1 .. MaxRuntimes
    /\ dropped \subseteq Attempts /\ refused \subseteq Attempts

Init ==
    /\ closed = FALSE
    /\ closing = "none" /\ gathered = {}
    /\ controller = 0
    /\ lock = Nobody
    /\ runtime = [r \in 1 .. MaxRuntimes |-> "unused"]
    /\ starter = [r \in 1 .. MaxRuntimes |-> Nobody]
    /\ call = [c \in Callers |-> At("idle")]
    /\ tasks = {} /\ background = {} /\ discarding = {}
    /\ attempt = [a \in Attempts |-> "none"]
    /\ conn = [a \in Attempts |-> "none"]
    /\ via = [a \in Attempts |-> 0]
    /\ abandoned = {} /\ late = {} /\ dropped = {} /\ refused = {}

------------------------------------------------------------------------------
(* The controller is created under the lock.                                *)

Unused == {r \in 1 .. MaxRuntimes : runtime[r] = "unused"}

(* Start a runtime: EndpointController.start runs until it awaits.          *)
Start(c) ==
    \E r \in Unused :
        /\ \A s \in Unused : r <= s
        /\ runtime' = [runtime EXCEPT ![r] = "starting"]
        /\ starter' = [starter EXCEPT ![r] = c]
        /\ lock' = c
        /\ call' = [call EXCEPT ![c] = At("start")]

NoStart == UNCHANGED << lock, runtime, starter >>

(* A lock with waiters is not free for others.                              *)
LockTaken == lock # Nobody \/ \E d \in Callers : call[d].at = "lock"

(* _establish_connection up to its first await.                             *)
Connect(c) ==
    /\ call[c].at = "idle"
    /\ \/ /\ closed
          /\ call' = [call EXCEPT ![c] = Ended]
          /\ NoStart
       \/ /\ ~closed /\ controller # 0
          /\ call' = [call EXCEPT ![c] = At("resolve")]
          /\ NoStart
       \/ /\ ~closed /\ controller = 0 /\ LockTaken
          /\ call' = [call EXCEPT ![c] = At("lock")]
          /\ NoStart
       \/ /\ ~closed /\ controller = 0 /\ ~LockTaken
          /\ Start(c)
    /\ UNCHANGED << controller, abandoned, late, ending, race >>

GetLockBug(c) ==
    /\ call[c].at = "lock"
    /\ lock = Nobody
    /\ Start(c)
    /\ UNCHANGED << controller, abandoned, late, ending, race >>

(* The lock is free: look again whether there is a controller.  There is    *)
(* no second look at _closed.                                               *)
GetLock(c) ==
    /\ call[c].at = "lock"
    /\ lock = Nobody
    /\ \/ /\ controller # 0
          /\ call' = [call EXCEPT ![c] = At("resolve")]
          /\ NoStart
       \/ /\ controller = 0
          /\ Start(c)
    /\ UNCHANGED << controller, abandoned, late, ending, race >>

(* close() can still be called, or has yet to close the controller; after   *)
(* that it returns at once.                                                 *)
CanClose == closing \in {"none", "gather", "controller", "cancelled controller"}

(* The task that starts runtime r ends.                                     *)
StartEnds(r, outcome) ==
    /\ runtime[r] = "starting"
    /\ runtime' = [runtime EXCEPT ![r] = outcome]
    /\ starter' = [starter EXCEPT ![r] = Nobody]

(* The runtime is there, and its caller puts it in place.                   *)
StartDone(c, r) ==
    /\ StartEnds(r, "open")
    /\ starter[r] = c /\ call[c].at = "start"
    /\ lock' = Nobody
    /\ controller' = r
    /\ late' = IF CanClose THEN late ELSE late \cup {r}
    /\ call' = [call EXCEPT ![c] = At("resolve")]
    /\ UNCHANGED << abandoned, ending, race >>

(* A caller that was cancelled waited for the runtime, and leaves it.       *)
StartAbandoned(c, r) ==
    /\ StartEnds(r, "open")
    /\ starter[r] = c /\ call[c].at = "cancelled start"
    /\ lock' = Nobody
    /\ abandoned' = abandoned \cup {r}
    /\ call' = [call EXCEPT ![c] = Ended]
    /\ UNCHANGED << controller, late, ending, race >>

(* The start fails and is rolled back.                                      *)
StartFails(c, r) ==
    /\ StartEnds(r, "closed")
    /\ starter[r] = c
    /\ lock' = Nobody
    /\ call' = [call EXCEPT ![c] = Ended]
    /\ UNCHANGED << controller, abandoned, late, ending, race >>

(* The end of a start that no caller waits for any more.                    *)
StartAlone(r) ==
    /\ \E outcome \in {"open", "closed"} : StartEnds(r, outcome)
    /\ starter[r] = Nobody
    /\ UNCHANGED << controller, lock, abandoned, late, ending, call, race >>

------------------------------------------------------------------------------
(* The race of the attempts.                                                *)

Of(c, S) == {a \in S : a[1] = c}
Finished(S) == {a \in S : attempt[a] \in {"ok", "error", "cancelled"}}
Succeeded(S) == {a \in S : attempt[a] = "ok"}

(* create_task(attempt(ip)) for the next address.                           *)
NextAttempt(c, n) ==
    /\ attempt' = [attempt EXCEPT ![<< c, n >>] = "created"]
    /\ call' = [call EXCEPT ![c] = [At("race") EXCEPT !.next = n]]

(* The host is resolved, and the first attempt is created.                  *)
Resolve(c) ==
    /\ call[c].at = "resolve"
    /\ NextAttempt(c, 1)
    /\ tasks' = tasks \cup {<< c, 1 >>}
    /\ UNCHANGED << life, background, discarding, dropped, refused, conn, via >>

ResolveFails(c) ==
    /\ call[c].at = "resolve"
    /\ call' = [call EXCEPT ![c] = Ended]
    /\ UNCHANGED << life, race >>

(* The coroutine attempt() up to its await.  The runtime of a controller    *)
(* that is closed refuses.                                                  *)
AttemptRuns(a) ==
    /\ attempt[a] = "created"
    /\ IF controller = 0 \/ runtime[controller] = "closed"
       THEN attempt' = [attempt EXCEPT ![a] = "error"] /\ UNCHANGED << conn, via >>
       ELSE /\ attempt' = [attempt EXCEPT ![a] = "connecting"]
            /\ conn' = [conn EXCEPT ![a] = "pending"]
            /\ via' = [via EXCEPT ![a] = controller]
    /\ UNCHANGED << life, call, owners >>

(* Rust establishes the connection; the attempt, if it is still there, gets *)
(* it.                                                                      *)
Established(a) ==
    /\ conn[a] = "pending"
    /\ conn' = [conn EXCEPT ![a] = "open"]
    /\ attempt' = [attempt EXCEPT ![a] = IF @ = "connecting" THEN "ok" ELSE @]
    /\ UNCHANGED << life, call, owners, via >>

Refused(a) ==
    /\ conn[a] = "pending"
    /\ conn' = [conn EXCEPT ![a] = "closed"]
    /\ attempt' = [attempt EXCEPT ![a] = IF @ = "connecting" THEN "error" ELSE @]
    /\ UNCHANGED << life, call, owners, via >>

(* asyncio.wait returns: an attempt is finished, or it is time for the next *)
(* address.                                                                 *)
WaitOver(c) ==
    /\ call[c].at = "race"
    /\ Finished(Of(c, tasks)) # {} \/ call[c].next < Count

(* collect(done), and what follows it up to the next await.  The order of   *)
(* a set is arbitrary: any of the successful attempts may win.  The losers  *)
(* that are finished are discarded, the others go to the background.        *)
WaitReturns(c) ==
    /\ WaitOver(c)
    /\ LET done == Finished(Of(c, tasks))
           n    == call[c].next + 1
       IN \/ \E w \in Succeeded(done) :
                /\ call' = [call EXCEPT ![c] = [At("session") EXCEPT !.winner = w[2]]]
                /\ discarding' = discarding \cup (Succeeded(done) \ {w})
                /\ tasks' = tasks \ Of(c, tasks)
                /\ background' = background \cup (Of(c, tasks) \ done)
                /\ UNCHANGED attempt
          \/ /\ Succeeded(done) = {} /\ n <= Count
             /\ NextAttempt(c, n)
             /\ tasks' = (tasks \ done) \cup {<< c, n >>}
             /\ UNCHANGED << discarding, background >>
          \/ /\ Succeeded(done) = {} /\ n > Count
             /\ tasks' = tasks \ done
             /\ call' = IF Of(c, tasks) = done THEN [call EXCEPT ![c] = Ended] ELSE call
             /\ UNCHANGED << attempt, discarding, background >>
    /\ UNCHANGED << life, dropped, refused, conn, via >>

OnAttemptDoneBug(a) ==
    /\ a \in Finished(background)
    /\ background' = background \ {a}
    /\ UNCHANGED << life, call, tasks, discarding, dropped, refused, attempt, conn, via >>

(* on_attempt_done                                                          *)
OnAttemptDone(a) ==
    /\ a \in Finished(background)
    /\ background' = background \ {a}
    /\ discarding' = discarding \cup Succeeded({a})
    /\ UNCHANGED << life, call, tasks, dropped, refused, attempt, conn, via >>

(* WebTransportConnection.close: Rust is asked to close the connection.  A  *)
(* request that it refuses, its queue being full, is logged and forgotten.  *)
CloseConnection(a) ==
    \/ conn' = [conn EXCEPT ![a] = "closed"] /\ UNCHANGED refused
    \/ /\ conn[a] = "open" /\ UNCHANGED conn
       /\ refused' = refused \cup {a}

(* A task made by discard().                                                *)
Discard(a) ==
    /\ a \in discarding
    /\ discarding' = discarding \ {a}
    /\ CloseConnection(a)
    /\ UNCHANGED << life, call, tasks, background, dropped, attempt, via >>

------------------------------------------------------------------------------
(* The end of connect().                                                    *)

(* The session is created and returned; the application has the connection. *)
SessionCreated(c) ==
    /\ call[c].at = "session"
    /\ conn[<< c, call[c].winner >>] = "open"
    /\ call' = [call EXCEPT ![c].at = "ended"]
    /\ UNCHANGED << life, race >>

(* There is no session: the finally clause closes the connection.           *)
SessionFails(c) ==
    /\ call[c].at = "session"
    /\ CloseConnection(<< c, call[c].winner >>)
    /\ call' = [call EXCEPT ![c] = Ended]
    /\ UNCHANGED << life, tasks, background, discarding, dropped, attempt, via >>

(* A caller that is cancelled a second time no longer waits for its start:  *)
(* the lock is free while the runtime is still starting.                    *)
LeaveStart(c) ==
    /\ \E r \in 1 .. MaxRuntimes :
           /\ starter[r] = c
           /\ starter' = [starter EXCEPT ![r] = Nobody]
           /\ abandoned' = abandoned \cup {r}
    /\ lock' = Nobody
    /\ UNCHANGED << controller, runtime, late >>

CancelBug(c) ==
    /\ \/ /\ call[c].at \in {"lock", "resolve", "race"}
          /\ call' = [call EXCEPT ![c] = Ended]
          /\ UNCHANGED starts
       \/ /\ call[c].at = "start"
          /\ call' = [call EXCEPT ![c].at = "cancelled start"]
          /\ UNCHANGED starts
       \/ /\ call[c].at = "cancelled start"
          /\ call' = [call EXCEPT ![c] = Ended]
          /\ LeaveStart(c)
    /\ tasks' = tasks \ Of(c, tasks)
    /\ UNCHANGED << ending, background, discarding, dropped, refused, attempt, conn, via >>

(* The timeout fires or the caller is cancelled.  The attempts go on in the *)
(* background; a start is waited for, unless this is the second time.  For  *)
(* a caller at create_session see SessionFails.                             *)
Cancel(c) ==
    /\ \/ /\ call[c].at \in {"lock", "resolve", "race"}
          /\ call' = [call EXCEPT ![c] = Ended]
          /\ UNCHANGED starts
       \/ /\ call[c].at = "start"
          /\ call' = [call EXCEPT ![c].at = "cancelled start"]
          /\ UNCHANGED starts
       \/ /\ call[c].at = "cancelled start"
          /\ call' = [call EXCEPT ![c] = Ended]
          /\ LeaveStart(c)
    /\ tasks' = tasks \ Of(c, tasks)
    /\ background' = background \cup Of(c, tasks)
    /\ UNCHANGED << ending, discarding, dropped, refused, attempt, conn, via >>

------------------------------------------------------------------------------
(* close()                                                                  *)

AfterGather == IF controller = 0 THEN "done" ELSE "controller"

(* Tasks that wait for the answer to a connection's close() are in          *)
(* _background_tasks too.                                                   *)
Discarded == {a \in Attempts : attempt[a] = "ok" /\ (conn[a] = "closed" \/ a \in refused)}

(* _close up to its first await: cancel what runs in the background.        *)
Close ==
    /\ closing = "none"
    /\ closed' = TRUE
    /\ \/ /\ background \cup discarding = {}
          /\ closing' = AfterGather
       \/ /\ background \cup discarding \cup Discarded # {}
          /\ closing' = "gather"
    /\ gathered' = background
    /\ attempt' = [a \in Attempts |->
                      IF a \in background \ Finished(background) THEN "cancelled" ELSE attempt[a]]
    /\ discarding' = {}
    /\ dropped' = discarding \cup (background \ Finished(background))
    /\ UNCHANGED << starts, call, tasks, background, refused, conn, via >>

(* What was in the background is finished.  What has come there since is    *)
(* not waited for.                                                          *)
Gathered ==
    /\ closing = "gather"
    /\ gathered \cap background = {}
    /\ closing' = AfterGather
    /\ gathered' = {}
    /\ UNCHANGED << closed, starts, call, race >>

(* The caller of close() is cancelled, and the close task with it: it       *)
(* leaves the controller in place, and if the controller is being closed,   *)
(* that goes on.  close() returns at once when it is called again.          *)
CloseCancelled ==
    /\ \/ closing = "gather" /\ closing' = "cancelled"
       \/ closing = "controller" /\ closing' = "cancelled controller"
    /\ gathered' = {}
    /\ UNCHANGED << closed, starts, call, race >>

(* EndpointController.close: the connections are closed, the requests       *)
(* answered, the runtime is released.                                       *)
CloseController ==
    /\ \/ closing = "controller" /\ closing' = "done" /\ controller' = 0
       \/ closing = "cancelled controller" /\ closing' = "cancelled" /\ UNCHANGED controller
    /\ runtime' = [runtime EXCEPT ![controller] = "closed"]
    /\ conn' = [a \in Attempts |-> IF via[a] = controller THEN "closed" ELSE conn[a]]
    /\ attempt' = [a \in Attempts |->
                      IF via[a] = controller /\ attempt[a] = "connecting" THEN "error" ELSE attempt[a]]
    /\ UNCHANGED << closed, gathered, lock, starter, abandoned, late, call, owners, via >>

------------------------------------------------------------------------------
Next ==
    \/ \E c \in Callers :
          \/ Connect(c) \/ GetLock(c) \/ Cancel(c)
          \/ \E r \in 1 .. MaxRuntimes :
                StartDone(c, r) \/ StartAbandoned(c, r) \/ StartFails(c, r)
          \/ Resolve(c) \/ ResolveFails(c) \/ WaitReturns(c)
          \/ SessionCreated(c) \/ SessionFails(c)
    \/ \E r \in 1 .. MaxRuntimes : StartAlone(r)
    \/ \E a \in Attempts :
          AttemptRuns(a) \/ Established(a) \/ Refused(a) \/ OnAttemptDone(a) \/ Discard(a)
    \/ Close \/ Gathered \/ CloseCancelled \/ CloseController

Spec == Init /\ [][Next]_vars

(* The event loop runs a task that is ready, and Rust answers an attempt:   *)
(* weak fairness of all of these together, written with their guards.       *)
Progress ==
    \/ \E a \in Attempts :
          AttemptRuns(a) \/ Established(a) \/ Refused(a) \/ OnAttemptDone(a) \/ Discard(a)
    \/ Gathered \/ CloseController

CanProgress ==
    \/ \E a \in Attempts : attempt[a] = "created" \/ conn[a] = "pending"
    \/ Finished(background) \cup discarding # {}
    \/ closing = "gather" /\ gathered \cap background = {}
    \/ closing \in {"controller", "cancelled controller"}

LiveSpec == Spec /\ ([]<>(~CanProgress) \/ []<><< Progress >>_vars)

------------------------------------------------------------------------------
(* The connection that connect() returned to the application.               *)
Returned(a) == call[a[1]].at = "ended" /\ call[a[1]].winner = a[2]

(* Somebody has the connection of attempt a and will use it or close it: an *)
(* attempt that a race waits for or that runs in the background, a task     *)
(* that closes it, the winner of a race, the application, or a close() that *)
(* has yet to close the controller.                                         *)
Owned(a) ==
    \/ a \in Succeeded(tasks \cup background) \cup discarding
    \/ call[a[1]].at = "session" /\ call[a[1]].winner = a[2]
    \/ Returned(a)
    \/ a \in dropped /\ closing # "none" /\ CanClose /\ via[a] = controller

(* Nobody will close the connection of attempt a but a later close() of     *)
(* the client: Rust refused the request to close it, or the close() that    *)
(* took it from its task was itself cancelled, and then there is none.      *)
Stranded(a) == a \in refused \/ (a \in dropped /\ closing = "cancelled")

(* Every connection that Rust has established has an owner (client.py,      *)
(* _race_addresses and _close), but for those of Stranded.                  *)
ConnectionsOwned ==
    \A a \in Attempts : conn[a] = "open" => Owned(a) \/ Stranded(a)

(* Nobody will close runtime r: its connect() was cancelled while it        *)
(* started, or put it in place when close() was over, or the close() that   *)
(* would have closed it was cancelled.                                      *)
Leaked(r) == r \in abandoned \cup late \/ (controller = r /\ closing = "cancelled")

(* A runtime that is open is the client's controller, and close() is still  *)
(* to come or has not reached it (client.py, _establish_connection and      *)
(* _close; controller.py, start), but for those of Leaked.                  *)
RuntimeOwned ==
    \A r \in 1 .. MaxRuntimes :
        runtime[r] = "open" => (controller = r /\ CanClose) \/ Leaked(r)

(* Whatever is open has an owner that will close it, or is one of the       *)
(* cases named in Stranded and Leaked (client.py, _establish_connection,    *)
(* _race_addresses, _close).                                                *)
EverythingOwned == TypeOK /\ ConnectionsOwned /\ RuntimeOwned

(* The calls of connect() share one runtime (client.py, the second test     *)
(* under the lock): beside those that cancelled calls have left, at most    *)
(* one is starting or open, also across a close().                          *)
OneRuntime ==
    \A r, s \in {q \in 1 .. MaxRuntimes : runtime[q] \in {"starting", "open"}} \ abandoned :
        r = s

(* A connection that loses the race, or whose caller has left, is closed in *)
(* the end (client.py, discard and on_attempt_done), but for those of       *)
(* Stranded.                                                                *)
LosersClosed ==
    <>[](\A a \in Attempts :
            conn[a] = "open" /\ call[a[1]].at = "ended" => Returned(a) \/ Stranded(a))

==============================================================================
