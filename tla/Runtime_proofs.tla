--------------------------- MODULE Runtime_proofs ----------------------------
(****************************************************************************)
(* Proofs about the runtime: the steps of the controller, of the executor   *)
(* and of the waker loop preserve the invariant of Reactor_proofs, as the   *)
(* reactor's do, and every step is one of the wake-up protocol.             *)
(****************************************************************************)
EXTENDS Reactor_proofs

(* The steps other than those of the reactor's handlers.                    *)

(* Most leave alone what is in the event queue and in the connections.      *)
LEMMA Quiet ==
    ASSUME IInv, WakerInv',
           UNCHANGED << known, shutdown_event, conns, waiting, news, events, phase,
                        overflow, orphans, timed_out >>,
           commands' \in Seq(Commands), Len(commands') <= CommandCapacity,
           LifeOK', SetsOK', LifeInv', PendingIsSomewhere', ReleasedHoldsNothing'
    PROVE  Kept'
<1>1. SeqInv' /\ CoreOK' /\ CoreInv' /\ LastInv' /\ KnownInv' /\ FinalCloseEvents'
  BY Parts DEF SeqInv, CoreOK, CoreInv, LastInv, KnownInv, FinalCloseEvents
<1>2. TypeOK'
  BY <1>1, NextTypes
<1> QED BY <1>1, <1>2 DEF Kept, NothingForgotten

(* A request stays where it is.                                             *)
LEMMA StillSomewhere ==
    ASSUME PendingIsSomewhere, UNCHANGED << future, requests, waiting, events, lost >>,
           InCommands \subseteq InCommands'
    PROVE  PendingIsSomewhere'
<1>1. InCore' = InCore /\ InEvents' = InEvents
  BY DEF InCore, InEvents
<1> QED BY <1>1 DEF PendingIsSomewhere

(* A command is sent.                                                       *)
LEMMA Sent ==
    ASSUME SeqInv, NEW c \in Commands, commands' = Append(commands, c)
    PROVE  /\ commands' \in Seq(Commands) /\ Len(commands') = Len(commands) + 1
           /\ InCommands \subseteq InCommands'
           /\ c.kind = "request" => c.request \in InCommands'
<1>1. /\ commands' \in Seq(Commands) /\ Len(commands') = Len(commands) + 1
      /\ Len(commands) \in Nat
      /\ \A i \in 1 .. Len(commands) : commands'[i] = commands[i]
      /\ commands'[Len(commands) + 1] = c
  BY Appended DEF SeqInv
<1>2. ASSUME NEW r \in InCommands PROVE r \in InCommands'
  <2>1. PICK i \in 1 .. Len(commands) : commands[i].kind = "request" /\ commands[i].request = r
    BY Places
  <2>2. i \in 1 .. Len(commands') /\ commands'[i] = commands[i]
    BY <1>1
  <2> QED BY <1>1, <2>1, <2>2, NextCommands
<1>3. Len(commands) + 1 \in 1 .. Len(commands')
  BY <1>1
<1>4. c.kind = "request" => c.request \in InCommands'
  BY <1>1, <1>3, NextCommands
<1> QED BY <1>1, <1>2, <1>4

(* start() and close() take turns (controller.py, _acquire_runtime and      *)
(* _release_runtime).                                                       *)
TakesTurns ==
    \/ StartLock \/ ThreadStarted \/ StartDone \/ StartFails
    \/ CloseCall \/ CloseLock \/ Join \/ Joined \/ CloseSockets

(* They preserve the invariant.                                             *)
LEMMA TakesTurnsPreserves ==
    ASSUME IInv, TakesTurns, WakerInv'
    PROVE  Kept'
<1> USE Parts
<1>1. /\ UNCHANGED << known, seen, shutdown_event, requestVars, commands, coreVars, events,
                      emitted, wakerVars, lost, overflow, histories >>
  BY DEF TakesTurns, StartLock, ThreadStarted, StartDone, StartFails, CloseCall, CloseLock,
         Join, Joined, CloseSockets, controllerVars
<1>2. LifeOK' /\ LifeInv' /\ ReleasedHoldsNothing'
  <2>1. /\ UNCHANGED << known, shutdown_event, overflow, timed_out, future, requests,
                        phase, wake, loop, emitted, events >>
        /\ is_client' = is_client
    BY <1>1 DEF requestVars, coreVars, wakerVars, histories
  <2>2. CASE StartLock
    <3>1. LifeOK'
      BY <2>1, <2>2 DEF StartLock, LifeOK
    <3>2. LifeInv' /\ ReleasedHoldsNothing'
      BY <2>1, <2>2 DEF StartLock, LifeInv, ReleasedHoldsNothing
    <3> QED BY <3>1, <3>2
  <2>3. CASE ThreadStarted
    <3>1. LifeOK'
      BY <2>1, <2>3 DEF ThreadStarted, LifeOK, controllerVars
    <3>2. LifeInv' /\ ReleasedHoldsNothing'
      BY <2>1, <2>3 DEF ThreadStarted, LifeInv, ReleasedHoldsNothing, controllerVars
    <3> QED BY <3>1, <3>2
  <2>4. CASE StartDone
    <3>1. LifeOK'
      BY <2>1, <2>4 DEF StartDone, LifeOK
    <3>2. LifeInv' /\ ReleasedHoldsNothing'
      BY <2>1, <2>4 DEF StartDone, LifeInv, ReleasedHoldsNothing
    <3> QED BY <3>1, <3>2
  <2>5. CASE StartFails
    <3>1. LifeOK'
      BY <2>1, <2>5 DEF StartFails, LifeOK
    <3>2. LifeInv' /\ ReleasedHoldsNothing'
      BY <2>1, <2>5 DEF StartFails, LifeInv, ReleasedHoldsNothing
    <3> QED BY <3>1, <3>2
  <2>6. CASE CloseCall
    <3>1. LifeOK'
      BY <2>1, <2>6 DEF CloseCall, LifeOK
    <3>2. LifeInv' /\ ReleasedHoldsNothing'
      BY <2>1, <2>6 DEF CloseCall, LifeInv, ReleasedHoldsNothing
    <3> QED BY <3>1, <3>2
  <2>7. CASE CloseLock
    <3>1. LifeOK'
      BY <2>1, <2>7 DEF CloseLock, LifeOK
    <3>2. LifeInv' /\ ReleasedHoldsNothing'
      BY <2>1, <2>7 DEF CloseLock, LifeInv, ReleasedHoldsNothing
    <3> QED BY <3>1, <3>2
  <2>8. CASE Join
    <3>1. LifeOK'
      BY <2>1, <2>8 DEF Join, LifeOK, controllerVars
    <3>2. LifeInv' /\ ReleasedHoldsNothing'
      BY <2>1, <2>8 DEF Join, LifeInv, ReleasedHoldsNothing, controllerVars
    <3> QED BY <3>1, <3>2
  <2>9. CASE Joined
    <3>1. LifeOK'
      BY <2>1, <2>9 DEF Joined, LifeOK
    <3>2. LifeInv' /\ ReleasedHoldsNothing'
      BY <2>1, <2>9 DEF Joined, LifeInv, ReleasedHoldsNothing
    <3> QED BY <3>1, <3>2
  <2>10. CASE CloseSockets
    <3>1. LifeOK'
      BY <2>1, <2>10 DEF CloseSockets, LifeOK
    <3>2. LifeInv' /\ ReleasedHoldsNothing'
      BY <2>1, <2>10 DEF CloseSockets, LifeInv, ReleasedHoldsNothing
    <3> QED BY <3>1, <3>2
  <2> QED BY <2>2, <2>3, <2>4, <2>5, <2>6, <2>7, <2>8, <2>9, <2>10 DEF TakesTurns
<1>3. SetsOK'
  BY <1>1 DEF SetsOK, requestVars, histories
<1>4. InCommands' = InCommands /\ commands' \in Seq(Commands) /\ Len(commands') <= CommandCapacity
  BY <1>1 DEF InCommands, SeqInv
<1>5. PendingIsSomewhere'
  BY <1>1, <1>4, StillSomewhere DEF requestVars, coreVars
<1> QED BY <1>1, <1>2, <1>3, <1>4, <1>5, Quiet DEF coreVars, wakerVars, histories

(* Endpoint.close() sends the shutdown command (ffi/endpoint.rs).           *)
LEMMA SendShutdownPreserves ==
    ASSUME IInv, SendShutdown, WakerInv'
    PROVE  Kept'
<1> USE Parts
<1>1. ShutdownReactor \in Commands
  BY DEF Commands
<1>2. commands' \in Seq(Commands) /\ Len(commands') = Len(commands) + 1 /\ InCommands \subseteq InCommands'
  BY <1>1, Sent DEF SendShutdown
<1>3. Len(commands') <= CommandCapacity
  <2>1. Len(commands) \in Nat /\ Len(commands) < CommandCapacity
    BY DEF SeqInv, SendShutdown
  <2> QED BY <1>2, <2>1, RuntimeAssumption
<1>4. LifeOK' /\ LifeInv' /\ ReleasedHoldsNothing' /\ SetsOK'
  <2>1. LifeOK'
    BY DEF SendShutdown, LifeOK, controllerVars, coreVars, histories
  <2>2. LifeInv'
    BY DEF SendShutdown, LifeInv, controllerVars, wakerVars
  <2>3. ReleasedHoldsNothing'
    BY DEF SendShutdown, ReleasedHoldsNothing, controllerVars, requestVars, wakerVars,
           histories
  <2>4. SetsOK'
    BY DEF SendShutdown, SetsOK, requestVars, histories
  <2> QED BY <2>1, <2>2, <2>3, <2>4
<1>5. PendingIsSomewhere'
  BY <1>2, StillSomewhere DEF SendShutdown, requestVars, coreVars
<1>6. UNCHANGED << known, shutdown_event, conns, waiting, news, events, phase,
                   overflow, orphans, timed_out >>
  BY DEF SendShutdown, coreVars, wakerVars, histories
<1> QED BY <1>2, <1>3, <1>4, <1>5, <1>6, Quiet

(* The wake-up protocol's own steps.                                        *)
WakerStep == CallWaker \/ Swap \/ Write \/ Recv \/ Drain \/ Clear \/ PollEnd

(* They preserve the invariant.                                             *)
LEMMA WakerStepPreserves ==
    ASSUME IInv, WakerStep, WakerInv'
    PROVE  Kept'
<1> USE Parts
<1>1. UNCHANGED << NotTheWaker, events >>
  BY DEF WakerStep, CallWaker, Swap, Write, Recv, Drain, Clear, PollEnd
<1>2. /\ UNCHANGED << is_closed, lock, starter, closer, endpoint, sockets, known, seen >>
      /\ UNCHANGED << shutdown_event, future, requests, executor, thread, commands >>
      /\ UNCHANGED << is_client, conns, waiting, news, lost, overflow, timed_out, orphans, events >>
  BY <1>1 DEF NotTheWaker, controllerVars, requestVars, coreVars, histories
<1>3. LifeOK' /\ SetsOK' /\ commands' \in Seq(Commands) /\ Len(commands') <= CommandCapacity
  BY <1>2 DEF LifeOK, SetsOK, SeqInv
<1>4. PendingIsSomewhere'
  BY <1>2, StillSomewhere DEF InCommands
<1>5. phase' = phase /\ LifeInv' /\ ReleasedHoldsNothing'
  <2>1. CASE CallWaker
    BY <1>2, <2>1 DEF CallWaker, W!CallWaker, LifeInv, ReleasedHoldsNothing
  <2>2. CASE Swap
    BY <1>2, <2>2 DEF Swap, W!Swap, LifeInv, ReleasedHoldsNothing
  <2>3. CASE Write
    BY <1>2, <2>3 DEF Write, W!Write, LifeInv, ReleasedHoldsNothing
  <2>4. CASE Recv
    BY <1>2, <2>4 DEF Recv, W!Recv, LifeInv, ReleasedHoldsNothing
  <2>5. CASE Drain
    BY <1>2, <2>5 DEF Drain, W!Drain, LifeInv, ReleasedHoldsNothing
  <2>6. CASE Clear
    BY <1>2, <2>6 DEF Clear, W!Clear, LifeInv, ReleasedHoldsNothing
  <2>7. CASE PollEnd
    BY <1>2, <2>7 DEF PollEnd, W!PollEnd, LifeInv, ReleasedHoldsNothing
  <2> QED BY <2>1, <2>2, <2>3, <2>4, <2>5, <2>6, <2>7 DEF WakerStep
<1> QED BY <1>2, <1>3, <1>4, <1>5, Quiet

(* The release of the runtime (controller.py, _release_runtime).  After the *)
(* shutdown event nothing is left to close, because that event is the last  *)
(* one and every connection was closed before it.                           *)
LEMMA NoneKnown ==
    ASSUME IInv, shutdown_event
    PROVE  known = {} \/ overflow
<1> SUFFICES ASSUME ~overflow, NEW h \in known PROVE FALSE
  BY Zenon
<1>1. phase = "done" /\ events = << >> /\ h \in Handles
  BY Parts DEF LastInv, SetsOK
<1>2. conns[h] # "open"
  BY <1>1, Parts DEF CoreInv
<1>3. PICK i \in 1 .. Len(events) : Marks(events[i], h)
  BY <1>1, <1>2, Parts DEF KnownInv
<1>4. Len(events) = 0
  BY <1>1
<1> QED BY <1>3, <1>4

(* The release preserves the invariant, whatever ends its wait.             *)
LEMMA ReleasePreserves ==
    ASSUME IInv, ReleaseUnstarted \/ ReleaseAfterEvent \/ ReleaseAfterTimeout, WakerInv'
    PROVE  Kept'
<1> USE Parts
<1>1. ReleaseAll
  BY DEF ReleaseUnstarted, ReleaseAfterEvent, ReleaseAfterTimeout
<1>2. /\ UNCHANGED << is_closed, starter, endpoint, sockets, seen, shutdown_event, executor >>
      /\ UNCHANGED << thread, commands, is_client, conns, waiting, news, events, emitted >>
      /\ UNCHANGED << phase, wake, lost, overflow >>
      /\ orphans' = known /\ known' = {} /\ requests' = {}
      /\ lock' = "close" /\ closer' = "stopping" /\ loop' = "stopped"
  BY <1>1 DEF ReleaseAll, FailAll, coreVars
<1>3. /\ timed_out' \in BOOLEAN /\ (timed_out => timed_out')
      /\ closer \in {"lock", "joining", "event"} /\ starter # "creating"
      /\ timed_out' \/ known = {} \/ overflow
      /\ timed_out' \/ (thread => phase = "done" /\ wake = "no")
  <2>1. CASE ReleaseUnstarted
    <3>1. closer = "lock" /\ lock = "free" /\ ~endpoint /\ timed_out' = timed_out
      BY <2>1 DEF ReleaseUnstarted
    <3>2. ~thread /\ starter # "creating" /\ known = {}
      BY <3>1 DEF LifeInv
    <3> QED BY <3>1, <3>2 DEF LifeOK
  <2>2. CASE ReleaseAfterEvent
    <3>1. closer = "event" /\ shutdown_event /\ timed_out' = timed_out
      BY <2>2 DEF ReleaseAfterEvent
    <3>2. starter # "creating" /\ phase = "done" /\ wake = "no"
      BY <3>1 DEF LifeInv
    <3> QED BY <3>1, <3>2, NoneKnown DEF LifeOK
  <2>3. CASE ReleaseAfterTimeout
    <3>1. closer \in {"joining", "event"} /\ timed_out' = TRUE
      BY <2>3 DEF ReleaseAfterTimeout
    <3>2. starter # "creating"
      BY <3>1 DEF LifeInv
    <3> QED BY <3>1, <3>2
  <2> QED BY <2>1, <2>2, <2>3
<1>4. /\ future' \in [Requests -> Futures]
      /\ \A r \in Requests : future'[r] # "pending"
  <2>1. future' = [r \in Requests |-> IF r \in requests /\ future[r] = "pending"
                                      THEN "failed" ELSE future[r]]
    BY <1>1 DEF ReleaseAll, FailAll
  <2>2. \A r \in Requests : future[r] \in Futures /\ (future[r] = "pending" => r \in requests)
    BY DEF SetsOK, PendingIsSomewhere
  <2> QED BY <2>1, <2>2 DEF Futures
<1>5. LifeOK' /\ SetsOK'
  <2>1. LifeOK'
    BY <1>2, <1>3 DEF LifeOK
  <2>2. SetsOK'
    BY <1>2, <1>4 DEF SetsOK
  <2> QED BY <2>1, <2>2
<1>6. SeqInv' /\ CoreOK' /\ CoreInv' /\ LastInv'
  BY <1>2 DEF SeqInv, CoreOK, CoreInv, LastInv
<1>7. KnownInv'
  BY <1>2 DEF KnownInv
<1>8. TypeOK'
  BY <1>2, <1>5, <1>6, NextTypes
<1>9. LifeInv'
  BY <1>2, <1>3 DEF LifeInv
<1>10. PendingIsSomewhere' /\ ReleasedHoldsNothing'
  BY <1>2, <1>3, <1>4 DEF PendingIsSomewhere, ReleasedHoldsNothing
<1>11. FinalCloseEvents'
  BY <1>2, <1>3 DEF FinalCloseEvents
<1> QED BY <1>6, <1>7, <1>8, <1>9, <1>10, <1>11 DEF Kept, NothingForgotten

(* The application makes a request, cancels it, and evicts it (pending.py). *)
LEMMA RequestPreserves ==
    ASSUME IInv, NEW r \in Requests, NEW h \in Handles \cup {NoHandle}, Request(r, h), WakerInv'
    PROVE  Kept'
<1> USE Parts
<1>1. /\ UNCHANGED << is_closed, lock, starter, closer, endpoint, sockets, known, seen >>
      /\ UNCHANGED << shutdown_event, executor, thread, is_client, conns, waiting, news >>
      /\ UNCHANGED << events, emitted, phase, wake, loop, lost, overflow, timed_out, orphans >>
  BY DEF Request, controllerVars, coreVars, wakerVars, histories
<1>2. LifeOK' /\ LifeInv'
  <2>1. LifeOK'
    BY <1>1 DEF LifeOK
  <2>2. LifeInv'
    BY <1>1 DEF LifeInv
  <2> QED BY <2>1, <2>2
<1>3. CASE /\ future' = [future EXCEPT ![r] = "failed"]
           /\ UNCHANGED << requests, commands >>
  <2>1. /\ \A q \in Requests : future'[q] = "pending" => future[q] = "pending"
        /\ future' \in [Requests -> Futures]
    BY <1>3 DEF SetsOK, Futures
  <2>2. SetsOK' /\ commands' \in Seq(Commands) /\ Len(commands') <= CommandCapacity
    BY <1>1, <1>3, <2>1 DEF SetsOK, SeqInv
  <2>3. InCommands' = InCommands /\ InCore' = InCore /\ InEvents' = InEvents
    BY <1>1, <1>3 DEF InCommands, InCore, InEvents
  <2>4. PendingIsSomewhere'
    BY <1>1, <1>3, <2>1, <2>3 DEF PendingIsSomewhere
  <2>5. ReleasedHoldsNothing'
    BY <1>1, <1>3, <2>1 DEF ReleasedHoldsNothing
  <2> QED BY <1>1, <1>2, <2>2, <2>4, <2>5, Quiet
<1>4. CASE /\ ~Refused
           /\ future' = [future EXCEPT ![r] = "pending"]
           /\ requests' = requests \cup {r}
           /\ commands' = Append(commands, Command(r, h))
  <2>1. /\ \A q \in Requests : future'[q] = "pending" => future[q] = "pending" \/ q = r
        /\ future' \in [Requests -> Futures]
    BY <1>4 DEF SetsOK, Futures
  <2>2. Command(r, h) \in Commands /\ Command(r, h).kind = "request" /\ Command(r, h).request = r
    BY DEF Command, Commands
  <2>3. /\ commands' \in Seq(Commands) /\ Len(commands') = Len(commands) + 1
        /\ InCommands \subseteq InCommands' /\ r \in InCommands'
    BY <1>4, <2>2, Sent
  <2>4. SetsOK' /\ Len(commands') <= CommandCapacity
    <3>1. SetsOK'
      BY <1>1, <1>4, <2>1 DEF SetsOK
    <3>2. Len(commands) \in Nat /\ Len(commands) # CommandCapacity
      BY <1>4, SMTT(30) DEF SeqInv, Refused
    <3> QED BY <2>3, <3>1, <3>2, RuntimeAssumption
  <2>5. InCore' = InCore /\ InEvents' = InEvents
    BY <1>1, Zenon DEF InCore, InEvents
  <2>6. PendingIsSomewhere'
    BY <1>1, <1>4, <2>1, <2>3, <2>5, SMTT(30) DEF PendingIsSomewhere
  <2>7. ReleasedHoldsNothing'
    <3>1. endpoint /\ ~(phase = "done" /\ wake = "no")
      BY <1>4 DEF Refused
    <3>2. closer \in {"stopping", "released"} => timed_out
      BY <3>1 DEF LifeInv, ReleasedHoldsNothing
    <3> QED BY <1>1, <3>2, Zenon DEF ReleasedHoldsNothing
  <2> QED BY <1>1, <1>2, <2>3, <2>4, <2>6, <2>7, Quiet
<1> QED BY <1>3, <1>4 DEF Request

(* A request that its caller gives up (pending.py, the done callback).      *)
LEMMA GiveUpPreserves ==
    ASSUME IInv, NEW r \in Requests, Cancel(r) \/ Evict(r), WakerInv'
    PROVE  Kept'
<1> USE Parts
<1>1. /\ UNCHANGED << is_closed, lock, starter, closer, endpoint, sockets, known, seen >>
      /\ UNCHANGED << shutdown_event, executor, thread, is_client, conns, waiting, news, commands >>
      /\ UNCHANGED << events, emitted, phase, wake, loop, lost, overflow, timed_out, orphans >>
  BY DEF Cancel, Evict, controllerVars, coreVars, wakerVars, histories
<1>2. LifeOK' /\ LifeInv'
  <2>1. LifeOK'
    BY <1>1 DEF LifeOK
  <2>2. LifeInv'
    BY <1>1 DEF LifeInv
  <2> QED BY <2>1, <2>2
<1>3. /\ future' \in [Requests -> Futures] /\ requests' \subseteq requests
      /\ \A q \in Requests : future'[q] = "pending" =>
            future[q] = "pending" /\ (q \in requests => q \in requests')
  <2>1. CASE Cancel(r)
    BY <2>1 DEF Cancel, SetsOK, Futures
  <2>2. CASE Evict(r)
    BY <2>2, Zenon DEF Evict, SetsOK
  <2> QED BY <2>1, <2>2
<1>4. SetsOK' /\ commands' \in Seq(Commands) /\ Len(commands') <= CommandCapacity
  BY <1>1, <1>3, Zenon DEF SetsOK, SeqInv
<1>5. InCommands' = InCommands /\ InCore' = InCore /\ InEvents' = InEvents
  BY <1>1 DEF InCommands, InCore, InEvents
<1>6. PendingIsSomewhere' /\ ReleasedHoldsNothing'
  <2>1. PendingIsSomewhere'
    BY <1>1, <1>3, <1>5 DEF PendingIsSomewhere
  <2>2. ReleasedHoldsNothing'
    BY <1>1, <1>3 DEF ReleasedHoldsNothing
  <2> QED BY <2>1, <2>2, Zenon
<1> QED BY <1>1, <1>2, <1>4, <1>6, Quiet

(* QUIC has drained a closed connection (transport/endpoint.rs).            *)
LEMMA DrainedPreserves ==
    ASSUME IInv, NEW h \in Handles, Drained(h), WakerInv'
    PROVE  Kept'
<1> USE Parts
<1>1. /\ UNCHANGED << is_closed, lock, starter, closer, endpoint, sockets, known, seen >>
      /\ UNCHANGED << shutdown_event, executor, thread, is_client, waiting, news, commands >>
      /\ UNCHANGED << events, emitted, phase, wake, loop, lost, overflow, timed_out, orphans >>
      /\ UNCHANGED << future, requests >>
  BY DEF Drained, NotTheCore, controllerVars, requestVars, histories
<1>2. /\ conns' \in [Handles -> {"none", "open", "closed"}]
      /\ \A g \in Handles : conns'[g] = "open" <=> conns[g] = "open"
  BY DEF Drained, CoreOK
<1>3. LifeOK' /\ SetsOK' /\ LifeInv'
  <2>1. LifeOK'
    BY <1>1 DEF LifeOK
  <2>2. SetsOK'
    BY <1>1 DEF SetsOK
  <2>3. LifeInv'
    BY <1>1, Zenon DEF LifeInv
  <2> QED BY <2>1, <2>2, <2>3
<1>4. SeqInv' /\ CoreOK' /\ LastInv'
  BY <1>1, <1>2, Zenon DEF SeqInv, CoreOK, LastInv
<1>5. CoreInv' /\ KnownInv'
  BY <1>1, <1>2, Zenon DEF CoreInv, KnownInv
<1>6. PendingIsSomewhere'
  BY <1>1, StillSomewhere, Zenon DEF InCommands
<1>7. ReleasedHoldsNothing' /\ FinalCloseEvents'
  BY <1>1, Zenon DEF ReleasedHoldsNothing, FinalCloseEvents
<1>8. TypeOK'
  BY <1>1, <1>3, <1>4, NextTypes
<1> QED BY <1>3, <1>4, <1>5, <1>6, <1>7, <1>8 DEF Kept, NothingForgotten

(* The last event of the reactor (reactor.rs, notify_shutdown).             *)
LEMMA NotifyShutdownPreserves ==
    ASSUME IInv, NotifyShutdown, WakerInv'
    PROVE  Kept'
<1> USE Parts
<1>1. /\ UNCHANGED << is_closed, lock, starter, closer, endpoint, sockets, known, seen >>
      /\ UNCHANGED << shutdown_event, executor, thread, is_client, conns, waiting, news, commands >>
      /\ UNCHANGED << emitted, loop, lost, timed_out, orphans, future, requests >>
      /\ phase = "closing" /\ phase' = "done" /\ wake' = "swap"
      /\ \/ events' = Append(events, ReactorShutdown) /\ UNCHANGED overflow
         \/ overflow' = TRUE /\ UNCHANGED events
  BY DEF NotifyShutdown, controllerVars, requestVars, coreVars, histories
<1>2. /\ events' \in Seq(Events) /\ Len(events) \in Nat
      /\ \A i \in 1 .. Len(events) : events'[i] = events[i]
      /\ \/ /\ overflow' = overflow /\ Len(events') = Len(events) + 1
            /\ events'[Len(events) + 1] = ReactorShutdown
         \/ overflow' = TRUE /\ events' = events
  <2>1. events \in Seq(Events) /\ Len(events) \in Nat
    BY DEF SeqInv
  <2>2. CASE overflow' = TRUE /\ UNCHANGED events
    BY ONLY <2>1, <2>2
  <2>3. CASE events' = Append(events, ReactorShutdown) /\ UNCHANGED overflow
    <3> DEFINE x == ReactorShutdown
    <3>1. x \in Events
      BY ShutdownEvent
    <3> HIDE DEF x
    <3>2. /\ Append(events, x) \in Seq(Events) /\ Len(Append(events, x)) = Len(events) + 1
          /\ \A i \in 1 .. Len(events) : Append(events, x)[i] = events[i]
          /\ Append(events, x)[Len(events) + 1] = x
      BY ONLY <2>1, <3>1, Appended
    <3>3. events' = Append(events, x) /\ overflow' = overflow
      BY <2>3 DEF x
    <3>4. x = ReactorShutdown
      BY DEF x
    <3> QED BY ONLY <2>1, <3>2, <3>3, <3>4
  <2> QED BY ONLY <1>1, <2>2, <2>3, Zenon
<1>3. /\ Len(events') \in Nat /\ Len(events) <= Len(events')
      /\ \A i \in 1 .. Len(events) : i \in 1 .. Len(events')
  BY <1>2
<1>4. thread /\ ~shutdown_event /\ executor # "returned"
  BY <1>1 DEF LifeInv, LastInv
<1>5. LifeOK' /\ SetsOK' /\ LifeInv'
  <2>1. overflow' \in BOOLEAN
    BY <1>2, Zenon DEF LifeOK
  <2>2. LifeOK'
    BY <1>1, <2>1 DEF LifeOK
  <2>3. SetsOK'
    BY <1>1 DEF SetsOK
  <2>4. LifeInv'
    BY <1>1, <1>4, Zenon DEF LifeInv
  <2> QED BY <2>2, <2>3, <2>4
<1>6. SeqInv' /\ CoreOK' /\ CoreInv'
  BY <1>1, <1>2, Zenon DEF SeqInv, CoreOK, CoreInv
<1>7. LastInv'
  <2>1. ASSUME NEW i \in 1 .. Len(events'), events'[i].kind = "shutdown"
        PROVE  i = Len(events')
    <3>1. CASE i \in 1 .. Len(events)
      BY <1>1, <1>2, <2>1, <3>1 DEF LastInv
    <3>2. CASE i \notin 1 .. Len(events)
      BY <1>2, <1>3, <3>2
    <3> QED BY <3>1, <3>2
  <2> QED BY <1>1, <1>4, <2>1, Zenon DEF LastInv
<1>8. KnownInv'
  <2> SUFFICES ASSUME ~overflow', NEW h \in Handles, conns'[h] # "open"
               PROVE  /\ h \in known' => \E i \in 1 .. Len(events') : Marks(events'[i], h)
                      /\ \A i \in 1 .. Len(events') :
                            /\ Marks(events'[i], h)
                            /\ \A j \in i + 1 .. Len(events') : ~Marks(events'[j], h)
                            => events'[i].kind # "spawned"
    BY Zenon DEF KnownInv
  <2>1. ~overflow /\ conns[h] # "open" /\ known' = known
    BY <1>1, <1>2
  <2>2. ASSUME h \in known'
        PROVE  \E i \in 1 .. Len(events') : Marks(events'[i], h)
    <3>1. PICK i \in 1 .. Len(events) : Marks(events[i], h)
      BY <2>1, <2>2, Zenon DEF KnownInv
    <3> QED BY <1>2, <1>3, <3>1
  <2>3. ASSUME NEW i \in 1 .. Len(events'), Marks(events'[i], h),
               \A j \in i + 1 .. Len(events') : ~Marks(events'[j], h)
        PROVE  events'[i].kind # "spawned"
    <3>1. CASE i \in 1 .. Len(events)
      <4>1. \A j \in i + 1 .. Len(events) :
                j \in i + 1 .. Len(events') /\ events'[j] = events[j]
        BY <1>2, <1>3, <3>1
      <4>2. Marks(events[i], h) /\ \A j \in i + 1 .. Len(events) : ~Marks(events[j], h)
        BY <1>2, <2>3, <3>1, <4>1
      <4> QED BY <1>2, <2>1, <3>1, <4>2, Zenon DEF KnownInv
    <3>2. CASE i \notin 1 .. Len(events)
      <4>1. events'[i] = ReactorShutdown
        BY <1>2, <1>3, <3>2
      <4> QED BY <4>1, ShutdownEvent
    <3> QED BY <3>1, <3>2, Zenon
  <2> QED BY <2>2, <2>3, Zenon
<1>9. PendingIsSomewhere'
  <2>1. InCommands' = InCommands /\ InCore' = InCore
    BY <1>1, Zenon DEF InCommands, InCore
  <2>2. ASSUME NEW r \in InEvents PROVE r \in InEvents'
    <3>1. PICK i \in 1 .. Len(events) : r \in events[i].answers
      BY Places
    <3> QED BY <1>2, <1>3, <3>1, NextEvents, Zenon
  <2> QED BY <1>1, <2>1, <2>2, Zenon DEF PendingIsSomewhere
<1>10. ReleasedHoldsNothing' /\ FinalCloseEvents'
  <2>1. ReleasedHoldsNothing'
    BY <1>1, <1>4 DEF ReleasedHoldsNothing
  <2>2. FinalCloseEvents'
    BY <1>1 DEF FinalCloseEvents
  <2> QED BY <2>1, <2>2, Zenon
<1>11. TypeOK'
  BY <1>1, <1>5, <1>6, NextTypes
<1> QED BY <1>5, <1>6, <1>7, <1>8, <1>9, <1>10, <1>11 DEF Kept, NothingForgotten

(* An event is handled (controller.py, _process_runtime_event).             *)
LEMMA PollPreserves ==
    ASSUME IInv, Poll, WakerInv'
    PROVE  Kept'
<1> USE Parts
<1> DEFINE e == Head(events)
<1>1. /\ UNCHANGED << is_closed, lock, starter, closer, endpoint, sockets >>
      /\ UNCHANGED << executor, thread, is_client, conns, waiting, news, commands >>
      /\ UNCHANGED << emitted, phase, wake, loop, lost, overflow, timed_out, orphans >>
      /\ loop = "poll" /\ events # << >> /\ events' = Tail(events)
      /\ shutdown_event' = (shutdown_event \/ e.kind = "shutdown")
      /\ requests' = requests \ e.answers
  BY DEF Poll, Complete, controllerVars, coreVars, wakerVars, histories
<1>2. /\ future' = [r \in Requests |->
                       IF r \in e.answers \cap requests /\ future[r] = "pending"
                       THEN "answered" ELSE future[r]]
      /\ known' = CASE e.kind = "spawned" -> known \cup {e.handle}
                    [] e.closed -> known \ {e.handle}
                    [] OTHER -> known
      /\ seen' = IF e.kind = "spawned" THEN seen \cup {e.handle} ELSE seen
  BY Zenon DEF Poll, Complete
<1>3. /\ events' \in Seq(Events) /\ Len(events') = Len(events) - 1 /\ Len(events) \in Nat \ {0}
      /\ \A i \in 1 .. Len(events) - 1 : events'[i] = events[i + 1]
      /\ e = events[1] /\ e \in Events
  BY <1>1, Taken, Zenon DEF SeqInv
<1> HIDE DEF e
<1>4. /\ e.kind = "spawned" => e.handle \in Handles /\ ~e.closed
      /\ e.closed \in BOOLEAN
  BY <1>3 DEF Events, EventSet
<1>5. /\ e.kind = "spawned" => known' = known \cup {e.handle}
      /\ e.kind # "spawned" /\ e.closed => known' = known \ {e.handle}
      /\ e.kind # "spawned" /\ ~e.closed => known' = known
  <2>1. ASSUME e.kind = "spawned" PROVE known' = known \cup {e.handle}
    BY ONLY <1>2, <1>4, <2>1, Zenon
  <2>2. ASSUME e.kind # "spawned", e.closed PROVE known' = known \ {e.handle}
    BY ONLY <1>2, <2>2, Zenon
  <2>3. ASSUME e.kind # "spawned", ~e.closed PROVE known' = known
    BY ONLY <1>2, <2>3, Zenon
  <2> QED BY <2>1, <2>2, <2>3, Zenon
<1>6. known' \subseteq Handles /\ seen' \subseteq Handles
  BY <1>2, <1>4, <1>5 DEF SetsOK
<1>7. /\ future' \in [Requests -> Futures]
      /\ \A r \in Requests : future'[r] = "pending" =>
            future[r] = "pending" /\ r \in requests' /\ r \notin e.answers
  <2>1. \A r \in Requests : future[r] \in Futures /\ (future[r] = "pending" => r \in requests)
    BY DEF SetsOK, PendingIsSomewhere
  <2> QED BY <1>1, <1>2, <2>1 DEF Futures
<1>8. LifeOK' /\ SetsOK'
  <2>1. LifeOK'
    BY <1>1 DEF LifeOK
  <2>2. SetsOK'
    BY <1>1, <1>6, <1>7, Zenon DEF SetsOK
  <2> QED BY <2>1, <2>2, Zenon
<1>9. thread /\ closer \notin {"stopping", "released"} /\ ~shutdown_event
  BY <1>1 DEF LifeInv, LastInv
<1>10. LifeInv' /\ ReleasedHoldsNothing' /\ FinalCloseEvents'
  <2>1. LifeInv'
    BY <1>1, <1>9, Zenon DEF LifeInv
  <2>2. ReleasedHoldsNothing'
    BY <1>1, <1>9, Zenon DEF ReleasedHoldsNothing
  <2>3. FinalCloseEvents'
    BY <1>1, Zenon DEF FinalCloseEvents
  <2> QED BY <2>1, <2>2, <2>3, Zenon
<1>11. SeqInv' /\ CoreOK' /\ CoreInv'
  BY <1>1, <1>3, Zenon DEF SeqInv, CoreOK, CoreInv
<1>12. LastInv'
  <2>1. ASSUME NEW i \in 1 .. Len(events'), events'[i].kind = "shutdown"
        PROVE  i = Len(events') /\ phase' = "done"
    <3>1. i + 1 \in 1 .. Len(events) /\ events'[i] = events[i + 1]
      BY <1>3
    <3>2. i + 1 = Len(events) /\ phase = "done"
      BY <2>1, <3>1 DEF LastInv
    <3>3. i = Len(events')
      BY ONLY <1>3, <3>2, i \in 1 .. Len(events')
    <3> QED BY <1>1, <3>2, <3>3, Zenon
  <2>2. ASSUME shutdown_event'
        PROVE  phase' = "done" /\ events' = << >>
    <3>1. e.kind = "shutdown"
      BY <1>1, <1>9, <2>2, Zenon
    <3>2. events[1].kind = "shutdown" /\ 1 \in 1 .. Len(events)
      BY ONLY <1>3, <3>1
    <3>3. 1 = Len(events) /\ phase = "done"
      BY <3>2, Zenon DEF LastInv
    <3>4. Len(events') = 0
      <4>1. Len(events') = 1 - 1
        BY ONLY <1>3, <3>3, Zenon
      <4> QED BY ONLY <4>1
    <3>5. events' = << >>
      BY ONLY <1>3, <3>4, Elements
    <3> QED BY <1>1, <3>3, <3>5
  <2> QED BY <2>1, <2>2, Zenon DEF LastInv
<1>13. PendingIsSomewhere'
  <2> SUFFICES ASSUME NEW r \in Requests, future'[r] = "pending"
               PROVE  r \in requests' /\ r \in InCommands' \cup InCore' \cup InEvents' \cup lost'
    BY Zenon DEF PendingIsSomewhere
  <2>1. InCommands' = InCommands /\ InCore' = InCore
    BY <1>1, Zenon DEF InCommands, InCore
  <2>2. r \in InCommands \cup InCore \cup InEvents \cup lost
    BY <1>7, Zenon DEF PendingIsSomewhere
  <2>3. ASSUME r \in InEvents PROVE r \in InEvents'
    <3>1. PICK i \in 1 .. Len(events) : r \in events[i].answers
      BY <2>3, Places, Zenon
    <3>2. i # 1
      BY <1>3, <1>7, <3>1, Zenon
    <3>3. i - 1 \in 1 .. Len(events) - 1 /\ (i - 1) + 1 = i
      BY <1>3, <3>2
    <3>4. i - 1 \in 1 .. Len(events') /\ events'[i - 1] = events[i]
      BY <1>3, <3>3, Zenon
    <3> QED BY <1>3, <3>1, <3>4, NextEvents, Zenon
  <2> QED BY <1>1, <1>7, <2>1, <2>2, <2>3, Zenon
<1>14. KnownInv'
  <2> SUFFICES ASSUME ~overflow', NEW h \in Handles, conns'[h] # "open"
               PROVE  /\ h \in known' => \E i \in 1 .. Len(events') : Marks(events'[i], h)
                      /\ \A i \in 1 .. Len(events') :
                            /\ Marks(events'[i], h)
                            /\ \A j \in i + 1 .. Len(events') : ~Marks(events'[j], h)
                            => events'[i].kind # "spawned"
    BY DEF KnownInv
  <2>1. ~overflow /\ conns[h] # "open"
    BY <1>1, Zenon
  <2>2. ASSUME NEW i \in 2 .. Len(events)
        PROVE  i - 1 \in 1 .. Len(events') /\ events'[i - 1] = events[i]
    <3>1. i - 1 \in 1 .. Len(events) - 1 /\ (i - 1) + 1 = i
      BY <1>3
    <3> QED BY <1>3, <3>1, Zenon
  <2>3. ASSUME h \in known'
        PROVE  \E i \in 1 .. Len(events') : Marks(events'[i], h)
    <3>1. ASSUME NEW i \in 2 .. Len(events), Marks(events[i], h)
          PROVE  \E k \in 1 .. Len(events') : Marks(events'[k], h)
      BY <2>2, <3>1, Zenon
    <3>2. CASE Marks(e, h)
      <4>1. e.kind = "spawned"
        BY <1>4, <1>5, <2>3, <3>2, Zenon DEF Marks
      <4>2. 1 \in 1 .. Len(events) /\ 1 + 1 = 2
        BY <1>3
      <4>3. \E j \in 2 .. Len(events) : Marks(events[j], h)
        BY <1>3, <2>1, <3>2, <4>1, <4>2, Zenon DEF KnownInv
      <4> QED BY <3>1, <4>3, Zenon
    <3>3. CASE ~Marks(e, h)
      <4>1. h \in known
        BY <1>4, <1>5, <2>3, <3>3, Zenon DEF Marks
      <4>2. PICK i \in 1 .. Len(events) : Marks(events[i], h)
        BY <2>1, <4>1, Zenon DEF KnownInv
      <4>3. i \in 2 .. Len(events)
        BY <1>3, <3>3, <4>2
      <4> QED BY <3>1, <4>2, <4>3, Zenon
    <3> QED BY <3>2, <3>3, Zenon
  <2>4. ASSUME NEW i \in 1 .. Len(events'), Marks(events'[i], h),
               \A j \in i + 1 .. Len(events') : ~Marks(events'[j], h)
        PROVE  events'[i].kind # "spawned"
    <3>1. i + 1 \in 1 .. Len(events) /\ events'[i] = events[i + 1]
      BY <1>3
    <3>2. ASSUME NEW j \in (i + 1) + 1 .. Len(events)
          PROVE  ~Marks(events[j], h)
      <4>1. j \in 2 .. Len(events) /\ j - 1 \in i + 1 .. Len(events')
        BY <1>3
      <4> QED BY <2>2, <2>4, <4>1, Zenon
    <3> QED BY <2>1, <2>4, <3>1, <3>2, Zenon DEF KnownInv
  <2> QED BY <2>3, <2>4
<1>15. TypeOK'
  BY <1>1, <1>8, <1>11, NextTypes, Zenon
<1> QED BY <1>10, <1>11, <1>12, <1>13, <1>14, <1>15, Zenon DEF Kept, NothingForgotten

------------------------------------------------------------------------------
(* Every step is a step of the wake-up protocol or leaves it alone: the     *)
(* refinement, step by step.                                                *)
NotAWakeUp ==
    \/ TakesTurns \/ SendShutdown
    \/ \E h \in Handles : Drained(h)
    \/ \E r \in Requests :
          (\E h \in Handles \cup {NoHandle} : Request(r, h)) \/ Cancel(r) \/ Evict(r)

(* The steps of the runtime, by what they are to the wake-up protocol.      *)
LEMMA NextIs ==
    Next <=> \/ CoreAction \/ WakerStep \/ NotAWakeUp \/ NotifyShutdown \/ Poll
             \/ ReleaseUnstarted \/ ReleaseAfterEvent \/ ReleaseAfterTimeout
BY Zenon DEF Next, Controller, Reactor, WakerLoop, Application, CoreAction, WakerStep,
             NotAWakeUp, TakesTurns

(* The handlers push events, or break the loop.                             *)
LEMMA CoreWakes ==
    ASSUME IInv, NEW es \in Seq(Events), CoreStep(es)
    PROVE  [W!Next]_(W!vars)
<1>1. /\ events \in Seq(Events) /\ Len(events) \in Nat /\ Len(events) <= Capacity
      /\ emitted \in BOOLEAN /\ overflow \in BOOLEAN
  BY Parts, WakerTypes, RuntimeAssumption DEF SeqInv, LifeOK
<1>2. Emit(es)
  BY DEF CoreStep
<1>3. /\ events' \in Seq(Events)
      /\ Len(events) <= Len(events') /\ Len(events') <= Capacity
      /\ emitted' = (emitted \/ Len(events') > Len(events))
  BY ONLY <1>1, <1>2, es \in Seq(Events), Emitted, Zenon
<1>4. /\ phase = "running" /\ wake = "no" /\ phase' \in {"running", "closing"}
      /\ UNCHANGED << wake, signaled, bytes, loop >>
  BY Zenon DEF CoreStep, Running, NotTheCore
<1>5. Len(events') \in Nat /\ Capacity \in Nat
  BY <1>3, RuntimeAssumption
<1>6. CASE phase' = "closing"
  <2>1. Len(events') \in Len(events) .. Capacity
    BY <1>1, <1>3, <1>5
  <2>2. emitted' = IF Len(events') > Len(events) THEN TRUE ELSE emitted
    BY <1>1, <1>3, Zenon
  <2>3. W!Break
    BY <1>4, <1>6, <2>1, <2>2 DEF W!Break
  <2> QED BY <2>3 DEF W!Next
<1>7. CASE phase' = "running" /\ Len(events') > Len(events)
  <2>1. Len(events') \in Len(events) + 1 .. Capacity /\ emitted' = TRUE
    <3>1. Len(events') \in Len(events) + 1 .. Capacity
      BY ONLY <1>1, <1>3, <1>5, <1>7
    <3>2. emitted' = TRUE
      BY ONLY <1>3, <1>7, Zenon
    <3> QED BY <3>1, <3>2
  <2>2. W!Push
    BY <1>4, <1>7, <2>1 DEF W!Push
  <2> QED BY <2>2 DEF W!Next
<1>8. CASE phase' = "running" /\ ~(Len(events') > Len(events))
  <2>1. Len(events') = Len(events) /\ emitted' = emitted
    BY <1>1, <1>3, <1>5, <1>8
  <2> QED BY <1>4, <1>8, <2>1 DEF W!vars
<1> QED BY <1>4, <1>6, <1>7, <1>8

(* The runtime implements the wake-up protocol, step by step.               *)
LEMMA StepWakes ==
    ASSUME IInv, [Next]_vars
    PROVE  [W!Next]_(W!vars)
<1>1. CASE CoreAction
  <2>1. CoreOK /\ CoreInv /\ SeqInv
    BY Parts
  <2>2. PICK es \in Seq(Events) : CoreStep(es)
    BY <1>1, <2>1, CoreSteps
  <2> QED BY <2>2, CoreWakes
<1>2. CASE WakerStep
  <2>1. W!CallWaker \/ W!Swap \/ W!Write \/ W!Recv \/ W!Drain \/ W!Clear \/ W!PollEnd
    BY <1>2, Zenon DEF WakerStep, CallWaker, Swap, Write, Recv, Drain, Clear, PollEnd
  <2> QED BY <2>1 DEF W!Next
<1>3. CASE NotAWakeUp
  <2>1. UNCHANGED << events, emitted, phase, wake, signaled, bytes, loop >>
    BY <1>3, Zenon DEF NotAWakeUp, TakesTurns, SendShutdown, Drained, Request, Cancel, Evict,
                StartLock, ThreadStarted, StartDone, StartFails, CloseCall, CloseLock,
                Join, Joined, CloseSockets, wakerVars, NotTheCore
  <2> QED BY <2>1, Zenon DEF W!vars
<1>4. CASE NotifyShutdown
  <2>1. events \in Seq(Events) /\ ReactorShutdown \in Events
    BY Parts, ShutdownEvent DEF SeqInv
  <2>2. Len(Append(events, ReactorShutdown)) = Len(events) + 1
    BY <2>1, Appended
  <2>3. Len(events') = IF Len(events) < Capacity THEN Len(events) + 1 ELSE Len(events)
    BY <1>4, <2>2 DEF NotifyShutdown
  <2>4. W!NotifyShutdown
    BY <1>4, <2>3 DEF NotifyShutdown, W!NotifyShutdown
  <2> QED BY <2>4, Zenon DEF W!Next
<1>5. CASE Poll
  <2>1. events \in Seq(Events) /\ events # << >> /\ events' = Tail(events)
    BY <1>5, Parts DEF SeqInv, Poll
  <2>2. Len(events') = Len(events) - 1 /\ Len(events) > 0
    BY <2>1, Taken
  <2>3. W!Pop
    BY <1>5, <2>2 DEF Poll, wakerVars, W!Pop
  <2> QED BY <2>3 DEF W!Next
<1>6. CASE ReleaseUnstarted \/ ReleaseAfterEvent \/ ReleaseAfterTimeout
  <2>1. ReleaseAll
    BY <1>6 DEF ReleaseUnstarted, ReleaseAfterEvent, ReleaseAfterTimeout
  <2>2. /\ UNCHANGED << events, emitted, phase, wake, signaled, bytes >> /\ loop' = "stopped"
        /\ loop = "waiting" \/ loop = "stopped"
    BY <2>1 DEF ReleaseAll, LoopAwaits
  <2>3. CASE loop = "waiting"
    BY <2>2, <2>3 DEF W!Next, W!Cancel
  <2>4. CASE loop = "stopped"
    BY <2>2, <2>4 DEF W!vars
  <2> QED BY <2>2, <2>3, <2>4
<1>7. CASE UNCHANGED vars
  BY <1>7 DEF vars, wakerVars, W!vars
<1> QED BY <1>1, <1>2, <1>3, <1>4, <1>5, <1>6, <1>7, NextIs

(* So its invariant holds.                                                  *)
LEMMA StepWakerInv ==
    ASSUME IInv, [Next]_vars
    PROVE  WakerInv'
<1>1. [W!Next]_(W!vars)
  BY StepWakes
<1>2. WakerInv
  BY Parts
<1> QED BY <1>1, <1>2, WakerInvStep

(* The invariant is inductive.                                              *)
LEMMA InitIInv == Init => IInv
<1> SUFFICES ASSUME Init PROVE IInv
  OBVIOUS
<1>1. WakerInv
  <2>1. W!CapacityAssumption /\ W!Init
    BY RuntimeAssumption DEF Init, W!CapacityAssumption
  <2> QED BY <2>1, WakerInvInit
<1>2. SeqInv
  BY DEF Init, SeqInv
<1>3. LifeOK /\ SetsOK /\ CoreOK
  <2>1. LifeOK
    BY Zenon DEF Init, LifeOK
  <2>2. SetsOK
    BY DEF Init, SetsOK, Futures
  <2>3. CoreOK
    BY RuntimeAssumption DEF Init, CoreOK
  <2> QED BY <2>1, <2>2, <2>3
<1>4. TypeOK
  <2>1. W!TypeOK /\ Len(commands) <= CommandCapacity
    BY <1>1, WakerTypes, RuntimeAssumption DEF Init
  <2> QED BY <1>2, <1>3, <2>1, TypeParts
<1>5. phase = "running" /\ wake = "no" /\ loop = "waiting" /\ emitted = FALSE
  BY DEF Init, W!Init
<1>6. LifeInv
  BY <1>5, Zenon DEF Init, LifeInv
<1>7. CoreInv
  BY <1>5, Zenon DEF Init, CoreInv
<1>8. LastInv /\ KnownInv
  BY DEF Init, LastInv, KnownInv
<1>9. PendingIsSomewhere /\ ReleasedHoldsNothing /\ FinalCloseEvents
  BY DEF Init, PendingIsSomewhere, ReleasedHoldsNothing, FinalCloseEvents
<1> QED BY <1>1, <1>2, <1>4, <1>6, <1>7, <1>8, <1>9 DEF IInv, NothingForgotten

(* Every step preserves the invariant.                                      *)
LEMMA StepIInv == IInv /\ [Next]_vars => IInv'
<1> SUFFICES ASSUME IInv, [Next]_vars PROVE IInv'
  OBVIOUS
<1>1. WakerInv'
  BY StepWakerInv
<1>2. Kept'
  <2>1. CASE CoreAction
    <3>1. CoreOK /\ CoreInv /\ SeqInv
      BY Parts
    <3>2. PICK es \in Seq(Events) : CoreStep(es)
      BY <2>1, <3>1, CoreSteps
    <3> QED BY <1>1, <3>2, CoreStepPreserves
  <2>2. CASE WakerStep
    BY <1>1, <2>2, WakerStepPreserves
  <2>3. CASE NotAWakeUp
    BY <1>1, <2>3, TakesTurnsPreserves, SendShutdownPreserves, DrainedPreserves,
       RequestPreserves, GiveUpPreserves, Zenon DEF NotAWakeUp
  <2>4. CASE NotifyShutdown
    BY <1>1, <2>4, NotifyShutdownPreserves
  <2>5. CASE Poll
    BY <1>1, <2>5, PollPreserves
  <2>6. CASE ReleaseUnstarted \/ ReleaseAfterEvent \/ ReleaseAfterTimeout
    BY <1>1, <2>6, ReleasePreserves, Zenon
  <2>7. CASE UNCHANGED vars
    <3>1. /\ UNCHANGED << known, seen, shutdown_event, conns, waiting, news, events, phase >>
          /\ UNCHANGED << overflow, orphans, timed_out, commands, future, requests, lost >>
          /\ UNCHANGED << is_closed, lock, starter, closer, endpoint, sockets, executor >>
          /\ UNCHANGED << thread, is_client, wake, loop, emitted >>
      BY <2>7 DEF vars, controllerVars, requestVars, coreVars, wakerVars, histories
    <3>2. LifeOK' /\ SetsOK' /\ LifeInv' /\ ReleasedHoldsNothing'
      <4>1. LifeOK'
        BY <3>1, Parts DEF LifeOK
      <4>2. LifeInv'
        BY <3>1, Parts, Zenon DEF LifeInv
      <4>3. SetsOK' /\ ReleasedHoldsNothing'
        BY <3>1, Parts, Zenon DEF SetsOK, ReleasedHoldsNothing
      <4> QED BY <4>1, <4>2, <4>3, Zenon
    <3>3. PendingIsSomewhere'
      BY <3>1, Parts, StillSomewhere, Zenon DEF InCommands
    <3>4. commands' \in Seq(Commands) /\ Len(commands') <= CommandCapacity
      BY <3>1, Parts DEF SeqInv
    <3> QED BY <1>1, <3>1, <3>2, <3>3, <3>4, Quiet, Zenon
  <2> QED BY <2>1, <2>2, <2>3, <2>4, <2>5, <2>6, <2>7, NextIs
<1> QED BY <1>1, <1>2 DEF IInv, Kept

(* The invariant always holds.                                              *)
LEMMA AlwaysIInv == Spec => []IInv
BY InitIInv, StepIInv, PTL DEF Spec

------------------------------------------------------------------------------
(* Nothing is forgotten: a pending request is in the command channel, in a  *)
(* connection or in the event queue, unless a full queue dropped its        *)
(* answer; the release of the runtime leaves no future pending and comes    *)
(* after the last close event (controller.py, pending.py, channel.rs); for  *)
(* every number of requests and connections and every capacity.             *)
THEOREM NoRequestForgotten == Spec => []NothingForgotten
<1>1. IInv => NothingForgotten
  BY DEF IInv
<1> QED BY <1>1, AlwaysIInv, PTL

(* Reactor, socket pair and loop implement the wake-up protocol of module   *)
(* Waker (reactor.rs, run; waker.rs, wake; controller.py, _run_waker_loop). *)
THEOREM RuntimeImplementsWaker == Spec => ImplementsWaker
<1>1. Init => W!Init
  BY DEF Init
<1>2. IInv /\ [Next]_vars => [W!Next]_(W!vars)
  BY StepWakes
<1> QED BY <1>1, <1>2, AlwaysIInv, PTL DEF Spec, ImplementsWaker, W!Spec

(* So an event of the reactor is never left in the queue without a wake-up  *)
(* on its way to the loop that polls it.                                    *)
THEOREM NoEventLeftAsleep == Spec => []W!NoLostWakeUp
<1>1. IInv => W!NoLostWakeUp
  BY DEF IInv, WakerInv
<1> QED BY <1>1, AlwaysIInv, PTL

==============================================================================
