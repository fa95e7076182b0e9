-------------------------------- MODULE Waker --------------------------------
(****************************************************************************)
(* How the reactor's thread tells the asyncio thread that there are runtime *)
(* events.  Events go into a bounded queue; a flag, shared by both threads, *)
(* and a byte in a socket pair wake the loop that reads them.  The flag     *)
(* saves writes: only the wake-up that finds it clear writes a byte.  Every *)
(* access to the queue, the flag or the socket is a step of its own, so the *)
(* two threads interleave as they do in the program.                        *)
(*                                                                          *)
(* Sources: ffi/waker.rs, runtime/channel.rs, runtime/reactor.rs,           *)
(* _controller/controller.py.                                               *)
(****************************************************************************)
EXTENDS Naturals

CONSTANT Capacity            \* EVENT_CHANNEL_CAPACITY

(* What a queue of events needs. *)
CapacityAssumption == Capacity \in Nat \ {0}

VARIABLES
    queue,       \* number of events in the event queue
    emitted,     \* events_emitted of the reactor
    phase,       \* the reactor's run(): its loop, its epilogue, its end
    wake,        \* a call of the waker in progress: none, at the swap, at the write
    signaled,    \* the flag
    bytes,       \* bytes in the socket pair
    loop         \* _run_waker_loop: the step it is at

vars == << queue, emitted, phase, wake, signaled, bytes, loop >>

(* Type invariant: event queue, flag, socket and the two loops keep their    *)
(* types, and the event queue its capacity.                                  *)
TypeOK ==
    /\ queue \in 0 .. Capacity
    /\ emitted \in BOOLEAN
    /\ phase \in {"running", "closing", "done"}
    /\ wake \in {"no", "swap", "write"}
    /\ signaled \in BOOLEAN
    /\ bytes \in Nat
    /\ loop \in {"waiting", "drain", "clear", "poll", "stopped"}

Init ==
    /\ queue = 0
    /\ emitted = FALSE
    /\ phase = "running"
    /\ wake = "no"
    /\ signaled = FALSE
    /\ bytes = 0
    /\ loop = "waiting"

------------------------------------------------------------------------------
(* The reactor's thread.                                                    *)

(* A handler emits events.  A full queue drops an event; a handler whose    *)
(* events are all dropped changes nothing.                                  *)
Push ==
    /\ phase = "running"
    /\ wake = "no"
    /\ queue' \in (queue + 1) .. Capacity
    /\ emitted' = TRUE
    /\ UNCHANGED << phase, wake, signaled, bytes, loop >>

(* End of an iteration, or of run(), with events emitted: call the waker.   *)
CallWaker ==
    /\ phase # "done"
    /\ wake = "no"
    /\ emitted
    /\ wake' = "swap"
    /\ emitted' = FALSE
    /\ UNCHANGED << queue, phase, signaled, bytes, loop >>

(* The shutdown command: its handler emits events and the loop of run() is  *)
(* left without the wake-up of an iteration's end.                          *)
Break ==
    /\ phase = "running"
    /\ wake = "no"
    /\ queue' \in queue .. Capacity
    /\ emitted' = IF queue' > queue THEN TRUE ELSE emitted
    /\ phase' = "closing"
    /\ UNCHANGED << wake, signaled, bytes, loop >>

(* notify_shutdown: the last event, if it fits, and always a wake-up.       *)
NotifyShutdown ==
    /\ phase = "closing"
    /\ wake = "no"
    /\ ~emitted
    /\ queue' = IF queue < Capacity THEN queue + 1 ELSE queue
    /\ phase' = "done"
    /\ wake' = "swap"
    /\ UNCHANGED << emitted, signaled, bytes, loop >>

(* wake: swap the flag; only the first to set it goes on to write.          *)
Swap ==
    /\ wake = "swap"
    /\ signaled' = TRUE
    /\ wake' = IF signaled THEN "no" ELSE "write"
    /\ UNCHANGED << queue, emitted, phase, bytes, loop >>

(* wake: write one byte.                                                    *)
Write ==
    /\ wake = "write"
    /\ bytes' = bytes + 1
    /\ wake' = "no"
    /\ UNCHANGED << queue, emitted, phase, signaled, loop >>

------------------------------------------------------------------------------
(* The asyncio thread.                                                      *)

(* sock_recv returns what is in the socket.                                 *)
Recv ==
    /\ loop = "waiting"
    /\ bytes > 0
    /\ bytes' = 0
    /\ loop' = "drain"
    /\ UNCHANGED << queue, emitted, phase, wake, signaled >>

(* recv until the socket is empty.                                          *)
Drain ==
    /\ loop = "drain"
    /\ loop' = IF bytes = 0 THEN "clear" ELSE "drain"
    /\ bytes' = 0
    /\ UNCHANGED << queue, emitted, phase, wake, signaled >>

(* waker.clear()                                                            *)
Clear ==
    /\ loop = "clear"
    /\ signaled' = FALSE
    /\ loop' = "poll"
    /\ UNCHANGED << queue, emitted, phase, wake, bytes >>

(* poll_runtime_events: pop until the queue is found empty.                 *)
Pop ==
    /\ loop = "poll"
    /\ queue > 0
    /\ queue' = queue - 1
    /\ UNCHANGED << emitted, phase, wake, signaled, bytes, loop >>

PollEnd ==
    /\ loop = "poll"
    /\ queue = 0
    /\ loop' = "waiting"
    /\ UNCHANGED << queue, emitted, phase, wake, signaled, bytes >>

(* The release of the runtime cancels the loop where it awaits.             *)
Cancel ==
    /\ loop = "waiting"
    /\ loop' = "stopped"
    /\ UNCHANGED << queue, emitted, phase, wake, signaled, bytes >>

------------------------------------------------------------------------------
Next ==
    \/ Push \/ CallWaker \/ Break \/ NotifyShutdown \/ Swap \/ Write
    \/ Recv \/ Drain \/ Clear \/ Pop \/ PollEnd \/ Cancel

Spec == Init /\ [][Next]_vars

------------------------------------------------------------------------------
(* The flag is set exactly while one wake-up is on its way: about to be     *)
(* written, in the socket, or read and not yet cleared.  So there is never  *)
(* more than one byte, the socket cannot fill up, and the write whose       *)
(* WouldBlock the waker ignores never fails (waker.rs, wake).               *)
OneWakeUpOnItsWay ==
    /\ bytes <= 1
    /\ (bytes = 1) => wake # "write" /\ loop \notin {"drain", "clear"}
    /\ (wake = "write") => loop \notin {"drain", "clear"}
    /\ signaled <=> (bytes = 1 \/ wake = "write" \/ loop \in {"drain", "clear"})

(* No wake-up is lost: an event in the queue is always going to be polled,  *)
(* because the loop is on its way to the poll, a byte is in the socket, or  *)
(* the reactor has yet to write one (reactor.rs, run; controller.py,        *)
(* _run_waker_loop: drain, clear, poll, in this order).                     *)
NoLostWakeUp ==
    (loop # "stopped" /\ queue > 0) =>
        \/ loop \in {"drain", "clear", "poll"}
        \/ bytes > 0
        \/ wake \in {"swap", "write"}
        \/ emitted

==============================================================================
