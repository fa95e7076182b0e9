--------------------------- MODULE Reactor_proofs ----------------------------
(****************************************************************************)
(* The runtime's invariant, for every set of requests, every number of      *)
(* connections and every capacity of the two channels; the wake-up protocol *)
(* by itself; and the handlers of the reactor, which preserve the invariant.*)
(*                                                                          *)
(* The steps of the three threads are steps of the wake-up protocol, so     *)
(* that what holds of it holds here.  That no request is forgotten, and     *)
(* that the release finds nothing left to close, needs an invariant over    *)
(* both channels: what the queued events will make of the set of known      *)
(* connections (KnownInv), that the shutdown event is the last (LastInv),   *)
(* that a connection which is not open holds no request (CoreInv), and how  *)
(* start() and close() take turns (LifeInv).                                *)
(****************************************************************************)
EXTENDS Runtime, TLAPS

(* What is in the channels.                                                 *)
Events == {e \in EventSet : e.kind = "spawned" => e.handle \in Handles /\ ~e.closed}
Commands == [kind : {"request"}, request : Requests, handle : Handles \cup {NoHandle}]
                \cup {ShutdownReactor}

SeqInv == events \in Seq(Events) /\ commands \in Seq(Commands)

(* start() and close() take turns under the lock; a thread that has not     *)
(* started has emitted nothing; what Endpoint.close() joined is over.       *)
LifeInv ==
    /\ lock = "start" <=> starter = "creating"
    /\ endpoint <=> starter = "done"
    /\ endpoint => thread
    /\ thread => starter \in {"creating", "done"}
    /\ is_closed <=> closer # "idle"
    /\ closer \in {"joining", "event", "stopping"} => lock = "close"
    /\ closer \in {"stopping", "released"} => loop = "stopped" /\ starter # "creating"
    /\ closer = "event" => executor = "returned"
    /\ executor = "returned" => phase = "done" /\ wake = "no"
    /\ ~thread => /\ events = << >> /\ known = {} /\ ~emitted
                  /\ wake = "no" /\ phase = "running"

(* A connection that is not open holds no request, and none is open once    *)
(* the loop of run() is left.                                               *)
CoreInv ==
    \A h \in Handles :
        /\ conns[h] # "open" => waiting[h] = {}
        /\ phase # "running" => conns[h] # "open"

(* The shutdown event is the last one.                                      *)
LastInv ==
    /\ \A i \in 1 .. Len(events) :
           events[i].kind = "shutdown" => i = Len(events) /\ phase = "done"
    /\ shutdown_event => phase = "done" /\ events = << >>

(* An event that changes whether h is known.                                *)
Marks(e, h) == e.handle = h /\ (e.kind = "spawned" \/ e.closed)

(* A connection that is known, or will be once the queue is polled, is      *)
(* open, unless an event was dropped.                                       *)
KnownInv ==
    ~overflow => \A h \in Handles : conns[h] # "open" =>
        /\ h \in known => \E i \in 1 .. Len(events) : Marks(events[i], h)
        /\ \A i \in 1 .. Len(events) :
               Marks(events[i], h) /\ (\A j \in i + 1 .. Len(events) : ~Marks(events[j], h))
                   => events[i].kind # "spawned"

(* The invariant of the wake-up protocol.                                   *)
WakerInv == W!CapacityAssumption /\ W!TypeOK /\ W!OneWakeUpOnItsWay /\ W!NoLostWakeUp

(* The inductive invariant.                                                 *)
IInv ==
    /\ NothingForgotten /\ WakerInv
    /\ SeqInv /\ LifeInv /\ CoreInv /\ LastInv /\ KnownInv

------------------------------------------------------------------------------
(* The wake-up protocol by itself.  NoLostWakeUp is not inductive: that a   *)
(* wake-up suppressed by the flag is harmless needs OneWakeUpOnItsWay,      *)
(* which says where the wake-up that set the flag is.                       *)

(* The initial state: an empty queue, a clear flag, an empty socket.        *)
LEMMA WakerInvInit == W!CapacityAssumption /\ W!Init => WakerInv
<1> SUFFICES ASSUME W!CapacityAssumption, W!Init PROVE WakerInv
  OBVIOUS
<1>1. 0 \in 0 .. Capacity /\ 0 \in Nat /\ 0 <= 1 /\ ~(0 = 1) /\ ~(0 > 0)
  BY DEF W!CapacityAssumption
<1>2. W!TypeOK
  BY <1>1, Zenon DEF W!Init, W!TypeOK
<1>3. W!OneWakeUpOnItsWay
  BY <1>1, Zenon DEF W!Init, W!OneWakeUpOnItsWay
<1>4. W!NoLostWakeUp
  BY <1>1 DEF W!Init, W!NoLostWakeUp
<1> QED BY <1>2, <1>3, <1>4 DEF WakerInv

(* The steps of the reactor's thread preserve the invariant.                *)
LEMMA ReactorWakes ==
    ASSUME WakerInv,
           W!Push \/ W!CallWaker \/ W!Break \/ W!NotifyShutdown \/ W!Swap \/ W!Write
    PROVE  WakerInv'
<1> USE DEF WakerInv, W!TypeOK, W!OneWakeUpOnItsWay, W!NoLostWakeUp, W!CapacityAssumption
<1>1. CASE W!Push
  BY <1>1 DEF W!Push
<1>2. CASE W!CallWaker
  BY <1>2, Zenon DEF W!CallWaker
<1>3. CASE W!Break
  <2>1. /\ Len(events)' \in Len(events) .. Capacity /\ phase' = "closing"
        /\ UNCHANGED << wake, signaled, bytes, loop >>
    BY <1>3 DEF W!Break
  <2>2. CASE Len(events)' > Len(events)
    <3>1. emitted' = TRUE
      BY <1>3, <2>2 DEF W!Break
    <3> QED BY <2>1, <3>1
  <2>3. CASE ~(Len(events)' > Len(events))
    <3>1. Len(events)' = Len(events)
      BY <2>1, <2>3
    <3>2. emitted' = emitted
      BY <1>3, <2>3, Zenon DEF W!Break
    <3> QED BY <2>1, <3>1, <3>2
  <2> QED BY <2>2, <2>3
<1>4. CASE W!NotifyShutdown
  BY <1>4 DEF W!NotifyShutdown
<1>5. CASE W!Swap
  BY <1>5 DEF W!Swap
<1>6. CASE W!Write
  BY <1>6 DEF W!Write
<1> QED BY <1>1, <1>2, <1>3, <1>4, <1>5, <1>6

(* The steps of the asyncio thread preserve the invariant.                  *)
LEMMA LoopWakes ==
    ASSUME WakerInv,
           W!Recv \/ W!Drain \/ W!Clear \/ W!Pop \/ W!PollEnd \/ W!Cancel
    PROVE  WakerInv'
<1> USE DEF WakerInv, W!TypeOK, W!OneWakeUpOnItsWay, W!NoLostWakeUp, W!CapacityAssumption
<1>1. CASE W!Recv
  BY <1>1 DEF W!Recv
<1>2. CASE W!Drain
  BY <1>2 DEF W!Drain
<1>3. CASE W!Clear
  BY <1>3, Zenon DEF W!Clear
<1>4. CASE W!Pop
  BY <1>4 DEF W!Pop
<1>5. CASE W!PollEnd
  BY <1>5 DEF W!PollEnd
<1>6. CASE W!Cancel
  BY <1>6 DEF W!Cancel
<1> QED BY <1>1, <1>2, <1>3, <1>4, <1>5, <1>6

(* Every step preserves it.                                                 *)
LEMMA WakerInvStep == WakerInv /\ [W!Next]_(W!vars) => WakerInv'
<1> SUFFICES ASSUME WakerInv, [W!Next]_(W!vars) PROVE WakerInv'
  OBVIOUS
<1>1. CASE W!Next
  BY <1>1, ReactorWakes, LoopWakes DEF W!Next
<1>2. CASE UNCHANGED W!vars
  BY <1>2 DEF W!vars, WakerInv, W!TypeOK, W!OneWakeUpOnItsWay, W!NoLostWakeUp,
              W!CapacityAssumption
<1> QED BY <1>1, <1>2

(* No wake-up is lost (reactor.rs run, waker.rs wake, controller.py         *)
(* _run_waker_loop), for every capacity of the queue.                       *)
THEOREM WakeUpNeverLost == W!CapacityAssumption /\ W!Spec => []W!NoLostWakeUp
<1>1. WakerInv => W!NoLostWakeUp
  BY DEF WakerInv
<1> QED BY <1>1, WakerInvInit, WakerInvStep, PTL DEF W!Spec

(* At most one byte is in the socket pair and the flag is set exactly while *)
(* a wake-up is on its way, for every capacity of the queue.                *)
THEOREM AtMostOneWakeUp == W!CapacityAssumption /\ W!Spec => []W!OneWakeUpOnItsWay
<1>1. WakerInv => W!OneWakeUpOnItsWay
  BY DEF WakerInv
<1> QED BY <1>1, WakerInvInit, WakerInvStep, PTL DEF W!Spec

------------------------------------------------------------------------------
(* Sequences.                                                               *)

(* The elements of a sequence.                                              *)
LEMMA Elements ==
    ASSUME NEW S, NEW s \in Seq(S)
    PROVE  /\ Len(s) \in Nat /\ DOMAIN s = 1 .. Len(s)
           /\ \A i \in 1 .. Len(s) : s[i] \in S
           /\ s = << >> <=> Len(s) = 0
           /\ \A x : x \in Range(s) <=> \E i \in 1 .. Len(s) : x = s[i]
BY DEF Range

(* The front of a sequence, which Emit keeps.                               *)
LEMMA FrontOf ==
    ASSUME NEW S, NEW s \in Seq(S), NEW n \in 0 .. Len(s)
    PROVE  /\ SubSeq(s, 1, n) \in Seq(S) /\ Len(SubSeq(s, 1, n)) = n
           /\ \A i \in 1 .. n : SubSeq(s, 1, n)[i] = s[i]
OBVIOUS

(* The rest of it, which Emit drops.                                        *)
LEMMA RestOf ==
    ASSUME NEW S, NEW s \in Seq(S), NEW n \in 0 .. Len(s)
    PROVE  \A x : x \in Range(SubSeq(s, n + 1, Len(s)))
                    <=> \E i \in n + 1 .. Len(s) : x = s[i]
<1> DEFINE r == SubSeq(s, n + 1, Len(s))
<1>1. DOMAIN r = 1 .. Len(s) - n /\ \A i \in 1 .. Len(s) - n : r[i] = s[i + n]
  OBVIOUS
<1>2. \A i \in n + 1 .. Len(s) : i - n \in 1 .. Len(s) - n /\ s[i] = r[i - n]
  BY <1>1
<1>3. \A i \in 1 .. Len(s) - n : i + n \in n + 1 .. Len(s) /\ r[i] = s[i + n]
  BY <1>1
<1> HIDE DEF r
<1>4. \A x : x \in Range(r) <=> \E i \in 1 .. Len(s) - n : x = r[i]
  BY <1>1 DEF Range
<1>5. ASSUME NEW x
      PROVE  x \in Range(r) <=> \E i \in n + 1 .. Len(s) : x = s[i]
  <2>1. ASSUME NEW i \in 1 .. Len(s) - n, x = r[i]
        PROVE  \E j \in n + 1 .. Len(s) : x = s[j]
    BY <1>3, <2>1, Zenon
  <2>2. ASSUME NEW i \in n + 1 .. Len(s), x = s[i]
        PROVE  \E j \in 1 .. Len(s) - n : x = r[j]
    BY <1>2, <2>2
  <2> QED BY <1>4, <2>1, <2>2, Zenon
<1> QED BY <1>5 DEF r

(* Two sequences in one.                                                    *)
LEMMA Concat ==
    ASSUME NEW S, NEW s \in Seq(S), NEW t \in Seq(S)
    PROVE  /\ s \o t \in Seq(S) /\ Len(s \o t) = Len(s) + Len(t)
           /\ \A i \in 1 .. Len(s) : (s \o t)[i] = s[i]
           /\ \A i \in Len(s) + 1 .. Len(s) + Len(t) : (s \o t)[i] = t[i - Len(s)]
OBVIOUS

(* Taking the first element, and appending one.                             *)
LEMMA Taken ==
    ASSUME NEW S, NEW s \in Seq(S), s # << >>
    PROVE  /\ Tail(s) \in Seq(S) /\ Len(Tail(s)) = Len(s) - 1 /\ Len(s) \in Nat \ {0}
           /\ \A i \in 1 .. Len(s) - 1 : Tail(s)[i] = s[i + 1]
           /\ Head(s) = s[1] /\ Head(s) \in S
OBVIOUS

(* One more element, as a sender appends it.                                *)
LEMMA Appended ==
    ASSUME NEW S, NEW s \in Seq(S), NEW x \in S
    PROVE  /\ Append(s, x) \in Seq(S) /\ Len(Append(s, x)) = Len(s) + 1
           /\ \A i \in 1 .. Len(s) : Append(s, x)[i] = s[i]
           /\ Append(s, x)[Len(s) + 1] = x
OBVIOUS

(* All elements of a set, in some order.                                    *)
LEMMA Listed ==
    ASSUME NEW S, NEW f \in Orders(S)
    PROVE  /\ f \in Seq(S)
           /\ \A x \in S : \E i \in 1 .. Len(f) : f[i] = x
<1>1. PICK n \in 0 .. Cardinality(S) : f \in Bijection(1 .. n, S)
  BY DEF Orders
<1>2. /\ f \in [1 .. n -> S]
      /\ \A x \in S : \E i \in 1 .. n : f[i] = x
  BY <1>1 DEF Bijection, Injection, Surjection
<1>3. n \in Nat
  OBVIOUS
<1>4. f \in Seq(S) /\ Len(f) = n
  BY <1>2, <1>3
<1> QED BY <1>2, <1>4

(* Emit appends what fits, announces it, and records what does not fit      *)
(* (channel.rs, push; reactor.rs, events_emitted).                          *)
LEMMA Emitted ==
    ASSUME events \in Seq(Events), Len(events) <= Capacity,
           emitted \in BOOLEAN, overflow \in BOOLEAN,
           NEW es \in Seq(Events), Emit(es)
    PROVE  /\ events' \in Seq(Events)
           /\ Len(events) <= Len(events') /\ Len(events') <= Capacity
           /\ \A i \in 1 .. Len(events) : events'[i] = events[i]
           /\ \A i \in Len(events) + 1 .. Len(events') :
                  /\ i - Len(events) \in 1 .. Len(es)
                  /\ events'[i] = es[i - Len(events)]
           /\ emitted' = (emitted \/ Len(events') > Len(events))
           /\ overflow' \in BOOLEAN /\ (overflow => overflow')
           /\ ~overflow' => Len(events') = Len(events) + Len(es)
           /\ lost \subseteq lost'
           /\ lost' \subseteq lost \cup UNION {es[i].answers : i \in 1 .. Len(es)}
           /\ \A i \in 1 .. Len(es) : Len(events) + i <= Len(events') \/ es[i].answers \subseteq lost'
<1> USE RuntimeAssumption
<1> DEFINE room == Capacity - Len(events)
           n == IF room < Len(es) THEN room ELSE Len(es)
           kept == SubSeq(es, 1, n)
           dropped == Range(SubSeq(es, Len(kept) + 1, Len(es)))
<1>1. Len(events) \in Nat /\ Len(es) \in Nat
  OBVIOUS
<1>2. n \in 0 .. Len(es) /\ Len(events) + n <= Capacity
  BY <1>1
<1>3. /\ events' = events \o kept
      /\ emitted' = (emitted \/ kept # << >>)
      /\ lost' = lost \cup UNION {e.answers : e \in dropped}
      /\ overflow' = (overflow \/ dropped # {})
  BY DEF Emit
<1> HIDE DEF n
<1>4. kept \in Seq(Events) /\ Len(kept) = n /\ \A i \in 1 .. n : kept[i] = es[i]
  BY <1>2, FrontOf, Zenon
<1>5. \A x : x \in dropped <=> \E i \in n + 1 .. Len(es) : x = es[i]
  <2>1. dropped = Range(SubSeq(es, n + 1, Len(es)))
    BY <1>4, Zenon
  <2>2. \A x : x \in Range(SubSeq(es, n + 1, Len(es))) <=> \E i \in n + 1 .. Len(es) : x = es[i]
    BY <1>2, RestOf, Zenon
  <2> QED BY <2>1, <2>2, Zenon
<1> HIDE DEF kept, dropped
<1>6. /\ events' \in Seq(Events) /\ Len(events') = Len(events) + n
      /\ \A i \in 1 .. Len(events) : events'[i] = events[i]
      /\ \A i \in Len(events) + 1 .. Len(events) + n : events'[i] = kept[i - Len(events)]
  <2> DEFINE both == events \o kept
  <2>1. /\ both \in Seq(Events) /\ Len(both) = Len(events) + Len(kept)
        /\ \A i \in 1 .. Len(events) : both[i] = events[i]
        /\ \A i \in Len(events) + 1 .. Len(events) + Len(kept) :
               both[i] = kept[i - Len(events)]
    BY <1>4, Concat, ZenonT(60)
  <2>2. events' = both /\ Len(kept) = n
    BY <1>3, <1>4, Zenon
  <2> HIDE DEF both
  <2> QED BY <2>1, <2>2
<1>7. \A i \in Len(events) + 1 .. Len(events') :
          i - Len(events) \in 1 .. n /\ i - Len(events) \in 1 .. Len(es)
  BY <1>1, <1>2, <1>6
<1>8. \A i \in Len(events) + 1 .. Len(events') : events'[i] = es[i - Len(events)]
  BY <1>4, <1>6, <1>7
<1>9. kept # << >> <=> Len(events') > Len(events)
  BY <1>1, <1>2, <1>4, <1>6
<1>10. ~overflow' => n = Len(es)
  <2>1. SUFFICES ASSUME n # Len(es) PROVE dropped # {}
    BY <1>3, <2>1, Zenon
  <2>2. Len(es) \in n + 1 .. Len(es)
    BY <1>1, <1>2, <2>1
  <2> QED BY <1>5, <2>2, Zenon
<1>11. \A i \in n + 1 .. Len(es) : es[i] \in dropped
  BY <1>5
<1>12. \A e \in dropped : e.answers \subseteq lost'
  BY <1>3
<1>13. \A i \in 1 .. Len(es) : Len(events) + i <= Len(events') \/ i \in n + 1 .. Len(es)
  BY <1>1, <1>2, <1>6
<1>14. \A e \in dropped : \E i \in 1 .. Len(es) : e = es[i]
  BY <1>1, <1>2, <1>5
<1>15. lost' \subseteq lost \cup UNION {es[i].answers : i \in 1 .. Len(es)}
  BY <1>3, <1>14
<1>16. Len(events) <= Len(events') /\ Len(events') <= Capacity
  BY <1>1, <1>2, <1>6
<1>17. \A i \in 1 .. Len(es) : Len(events) + i <= Len(events') \/ es[i].answers \subseteq lost'
  BY <1>11, <1>12, <1>13
<1>18. /\ emitted' = (emitted \/ Len(events') > Len(events))
       /\ overflow' \in BOOLEAN /\ (overflow => overflow')
  BY <1>3, <1>9
<1>19. ~overflow' => Len(events') = Len(events) + Len(es)
  BY <1>6, <1>10, Zenon
<1> QED BY <1>3, <1>6, <1>7, <1>8, <1>15, <1>16, <1>17, <1>18, <1>19

------------------------------------------------------------------------------
(* The type invariant in parts; what is in the channels follows from SeqInv *)
(* and the wake-up protocol has its own.                                    *)
LifeOK ==
    /\ is_closed \in BOOLEAN /\ endpoint \in BOOLEAN /\ shutdown_event \in BOOLEAN
    /\ lock \in {"free", "start", "close"}
    /\ starter \in {"idle", "creating", "done", "failed"}
    /\ closer \in {"idle", "lock", "joining", "event", "stopping", "released"}
    /\ sockets \in {"none", "open", "closed"}
    /\ executor \in {"idle", "send", "join", "returned"}
    /\ thread \in BOOLEAN /\ is_client \in BOOLEAN
    /\ overflow \in BOOLEAN /\ timed_out \in BOOLEAN

SetsOK ==
    /\ known \subseteq Handles /\ seen \subseteq Handles /\ orphans \subseteq Handles
    /\ requests \subseteq Requests /\ lost \subseteq Requests
    /\ future \in [Requests -> Futures]

CoreOK ==
    /\ conns \in [Handles -> {"none", "open", "closed"}]
    /\ waiting \in [Handles -> SUBSET Requests]
    /\ news \in 0 .. MaxNews

(* The type invariant, in parts.                                            *)
LEMMA TypeParts ==
    ASSUME SeqInv
    PROVE  TypeOK <=> /\ LifeOK /\ SetsOK /\ CoreOK
                      /\ Len(commands) <= CommandCapacity
                      /\ W!TypeOK
<1>1. Range(events) \subseteq EventSet
  BY Elements DEF SeqInv, Events
<1> QED BY <1>1, Zenon DEF TypeOK, LifeOK, SetsOK, CoreOK

(* The wake-up protocol's own types.                                        *)
LEMMA WakerTypes ==
    ASSUME WakerInv
    PROVE  /\ W!TypeOK /\ Len(events) \in 0 .. Capacity /\ emitted \in BOOLEAN
           /\ phase \in {"running", "closing", "done"} /\ wake \in {"no", "swap", "write"}
           /\ loop \in {"waiting", "drain", "clear", "poll", "stopped"}
BY DEF WakerInv, W!TypeOK

(* The events that the reactor emits.                                       *)
LEMMA FailedEvent ==
    ASSUME NEW r \in Requests
    PROVE  Failed(r) \in Events /\ Failed(r).answers = {r} /\ Failed(r).kind = "failed"
BY DEF Failed, Events, EventSet

(* The events that handlers emit: answers of a connection that stays open,  *)
LEMMA EffectsEvent ==
    ASSUME NEW h \in Handles, NEW rs \in SUBSET Requests
    PROVE  LET e == Effects(h, rs, FALSE) IN
           e \in Events /\ e.answers = rs /\ e.handle = h /\ e.kind = "effects"
BY DEF Effects, Events, EventSet

(* the last answers of a connection that ends,                              *)
LEMMA ClosedEvent ==
    ASSUME NEW h \in Handles, NEW rs \in SUBSET Requests
    PROVE  LET e == Effects(h, rs, TRUE) IN
           e \in Events /\ e.answers = rs /\ e.handle = h /\ e.kind = "effects" /\ e.closed
BY DEF Effects, Events, EventSet

(* a new connection,                                                        *)
LEMMA SpawnedEvent ==
    ASSUME NEW h \in Handles
    PROVE  /\ Spawned(h) \in Events /\ Spawned(h).answers = {}
           /\ Spawned(h).handle = h /\ Spawned(h).kind = "spawned"
BY DEF Spawned, Events, EventSet

(* and the end of the reactor.                                              *)
LEMMA ShutdownEvent ==
    /\ ReactorShutdown \in Events /\ ReactorShutdown.kind = "shutdown"
    /\ ReactorShutdown.answers = {} /\ ~ReactorShutdown.closed
BY DEF ReactorShutdown, Events, EventSet

(* Where a request can be, by position in the channels.                     *)
LEMMA Places ==
    ASSUME SeqInv
    PROVE  /\ \A r : r \in InCommands <=> \E i \in 1 .. Len(commands) :
                        commands[i].kind = "request" /\ commands[i].request = r
           /\ \A r : r \in InEvents <=> \E i \in 1 .. Len(events) : r \in events[i].answers
           /\ \A r : r \in InCore <=> \E h \in Handles : r \in waiting[h]
<1>1. \A c : c \in Range(commands) <=> \E i \in 1 .. Len(commands) : c = commands[i]
  BY Elements DEF SeqInv
<1>2. \A e : e \in Range(events) <=> \E i \in 1 .. Len(events) : e = events[i]
  BY Elements DEF SeqInv
<1>3. \A r : r \in InCommands <=> \E i \in 1 .. Len(commands) :
                commands[i].kind = "request" /\ commands[i].request = r
  BY <1>1 DEF InCommands
<1>4. \A r : r \in InEvents <=> \E i \in 1 .. Len(events) : r \in events[i].answers
  BY <1>2 DEF InEvents
<1>5. \A r : r \in InCore <=> \E h \in Handles : r \in waiting[h]
  BY DEF InCore
<1> QED BY <1>3, <1>4, <1>5

(* The same after a step.                                                   *)
LEMMA NextCommands ==
    ASSUME commands' \in Seq(Commands)
    PROVE  \A r : r \in InCommands' <=> \E i \in 1 .. Len(commands') :
                     commands'[i].kind = "request" /\ commands'[i].request = r
<1>1. \A c : c \in Range(commands') <=> \E i \in 1 .. Len(commands') : c = commands'[i]
  BY Elements
<1> QED BY <1>1 DEF InCommands

(* The same of the next state: the event queue,                             *)
LEMMA NextEvents ==
    ASSUME events' \in Seq(Events)
    PROVE  \A r : r \in InEvents' <=> \E i \in 1 .. Len(events') : r \in events'[i].answers
<1>1. \A e : e \in Range(events') <=> \E i \in 1 .. Len(events') : e = events'[i]
  BY Elements
<1> QED BY <1>1 DEF InEvents

(* and the connections.                                                     *)
LEMMA NextCore ==
    \A r : r \in InCore' <=> \E h \in Handles : r \in waiting'[h]
BY DEF InCore

------------------------------------------------------------------------------
(* What a handler of the reactor does: it emits events, of which none ends  *)
(* the runtime; a connection that it closes is reported; and a request that *)
(* it takes from the channel or from a connection goes to a connection or   *)
(* into an event.                                                           *)
CoreStep(es) ==
    /\ Running /\ Emit(es) /\ UNCHANGED NotTheCore
    /\ CoreOK'
    /\ commands' \in Seq(Commands) /\ Len(commands') <= Len(commands)
    /\ phase' \in {"running", "closing"}
    /\ \A i \in 1 .. Len(es) : es[i].kind # "shutdown"
    /\ \A h \in Handles :
          /\ conns'[h] # "open" => waiting'[h] = {}
          /\ phase' # "running" => conns'[h] # "open"
          /\ conns'[h] # "open" /\ conns[h] = "open" =>
                \E i \in 1 .. Len(es) : Marks(es[i], h)
          /\ conns'[h] # "open" =>
                \A i \in 1 .. Len(es) : Marks(es[i], h) => es[i].kind # "spawned"
    /\ \A r \in InCommands \cup InCore :
          \/ r \in InCommands' \cup InCore'
          \/ \E i \in 1 .. Len(es) : r \in es[i].answers

(* One event.                                                               *)
LEMMA Single ==
    ASSUME NEW e \in Events
    PROVE  << e >> \in Seq(Events) /\ Len(<< e >>) = 1 /\ << e >>[1] = e
OBVIOUS

(* The command that the reactor takes leaves the channel.                   *)
LEMMA TakenRequest ==
    ASSUME SeqInv, TakeCommand("request")
    PROVE  /\ Head(commands).request \in Requests
           /\ Head(commands).handle \in Handles \cup {NoHandle}
           /\ commands' \in Seq(Commands) /\ Len(commands') <= Len(commands)
           /\ \A r \in InCommands : r \in InCommands' \/ r = Head(commands).request
<1>1. commands # << >> /\ commands' = Tail(commands) /\ Head(commands).kind = "request"
  BY DEF TakeCommand
<1>2. /\ Tail(commands) \in Seq(Commands) /\ Len(Tail(commands)) = Len(commands) - 1
      /\ Len(commands) \in Nat \ {0}
      /\ \A i \in 1 .. Len(commands) - 1 : Tail(commands)[i] = commands[i + 1]
      /\ Head(commands) = commands[1] /\ Head(commands) \in Commands
  BY <1>1, Taken DEF SeqInv
<1> DEFINE c == Head(commands)
<1> HIDE DEF c
<1>3. c \in Commands /\ c.kind = "request"
  BY <1>1, <1>2 DEF c
<1>4. c.request \in Requests /\ c.handle \in Handles \cup {NoHandle}
  BY <1>3 DEF Commands, ShutdownReactor
<1>5. ASSUME NEW r \in InCommands, r # c.request
      PROVE  r \in InCommands'
  <2>1. PICK i \in 1 .. Len(commands) : commands[i].kind = "request" /\ commands[i].request = r
    BY Places
  <2>2. i # 1
    BY <1>2, <1>5, <2>1 DEF c
  <2>3. i - 1 \in 1 .. Len(commands') /\ commands'[i - 1] = commands[i]
    BY <1>1, <1>2, <2>2
  <2>4. commands' \in Seq(Commands)
    BY <1>1, <1>2
  <2>5. commands'[i - 1].kind = "request" /\ commands'[i - 1].request = r
    BY <2>1, <2>3
  <2> QED BY <2>3, <2>4, <2>5, NextCommands
<1>6. commands' \in Seq(Commands) /\ Len(commands') <= Len(commands)
  BY <1>1, <1>2
<1> QED BY <1>4, <1>5, <1>6 DEF c

(* The shutdown command is taken: no request leaves the channel.            *)
LEMMA TakenShutdown ==
    ASSUME SeqInv, TakeCommand("shutdown")
    PROVE  /\ commands' \in Seq(Commands) /\ Len(commands') <= Len(commands)
           /\ \A r \in InCommands : r \in InCommands'
<1>1. commands # << >> /\ commands' = Tail(commands) /\ Head(commands).kind = "shutdown"
  BY DEF TakeCommand
<1>2. /\ Tail(commands) \in Seq(Commands) /\ Len(Tail(commands)) = Len(commands) - 1
      /\ Len(commands) \in Nat \ {0}
      /\ \A i \in 1 .. Len(commands) - 1 : Tail(commands)[i] = commands[i + 1]
      /\ Head(commands) = commands[1]
  BY <1>1, Taken DEF SeqInv
<1>3. ASSUME NEW r \in InCommands
      PROVE  r \in InCommands'
  <2>1. PICK i \in 1 .. Len(commands) : commands[i].kind = "request" /\ commands[i].request = r
    BY Places
  <2>2. i # 1
    BY <1>1, <1>2, <2>1
  <2>3. i - 1 \in 1 .. Len(commands') /\ commands'[i - 1] = commands[i]
    BY <1>1, <1>2, <2>2
  <2>4. commands' \in Seq(Commands)
    BY <1>1, <1>2
  <2>5. commands'[i - 1].kind = "request" /\ commands'[i - 1].request = r
    BY <2>1, <2>3
  <2> QED BY <2>3, <2>4, <2>5, NextCommands
<1>4. commands' \in Seq(Commands) /\ Len(commands') <= Len(commands)
  BY <1>1, <1>2
<1> QED BY <1>3, <1>4

(* A handler that reports one event e about connection h, and adds request  *)
(* r, if any, to what is to be answered.                                    *)
LEMMA OneReport ==
    ASSUME CoreOK, CoreInv, CoreOK', SeqInv, Running, UNCHANGED << NotTheCore, phase >>,
           NEW e \in Events, Emit(<< e >>), e.kind # "shutdown",
           commands' \in Seq(Commands), Len(commands') <= Len(commands),
           NEW R, \A r \in InCommands : r \in InCommands' \cup R,
           NEW h \in Handles,
           \A g \in Handles \ {h} : conns'[g] = conns[g] /\ waiting'[g] = waiting[g],
           waiting[h] \cup R \subseteq waiting'[h] \cup e.answers,
           conns'[h] # "open" => waiting'[h] = {},
           conns'[h] # "open" /\ conns[h] = "open" => Marks(e, h),
           e.kind = "spawned" => e.handle = h /\ conns'[h] = "open"
    PROVE  CoreStep(<< e >>)
<1>1. << e >> \in Seq(Events) /\ Len(<< e >>) = 1 /\ << e >>[1] = e
  BY Single
<1> DEFINE es == << e >>
<1>2. Emit(es)
  OBVIOUS
<1> HIDE DEF es
<1>3. es \in Seq(Events) /\ \A i : i \in 1 .. Len(es) <=> i = 1
  BY <1>1 DEF es
<1>4. es[1] = e
  BY <1>1 DEF es
<1>5. phase = "running" /\ phase' = "running"
  BY DEF Running
<1>6. ASSUME NEW g \in Handles
      PROVE  /\ conns'[g] # "open" => waiting'[g] = {}
             /\ phase' # "running" => conns'[g] # "open"
             /\ conns'[g] # "open" /\ conns[g] = "open" =>
                   \E i \in 1 .. Len(es) : Marks(es[i], g)
             /\ conns'[g] # "open" =>
                   \A i \in 1 .. Len(es) : Marks(es[i], g) => es[i].kind # "spawned"
  <2>1. CASE g = h
    BY <1>3, <1>4, <1>5, <2>1, Zenon
  <2>2. CASE g # h
    BY <1>3, <1>4, <1>5, <2>2, SMTT(30) DEF CoreInv, Marks
  <2> QED BY <2>1, <2>2
<1>7. ASSUME NEW r \in InCommands \cup InCore
      PROVE  \/ r \in InCommands' \cup InCore'
             \/ \E i \in 1 .. Len(es) : r \in es[i].answers
  <2>1. r \in InCommands' \/ r \in InCore' \/ r \in e.answers
    <3>1. CASE r \in InCommands
      BY <3>1, NextCore
    <3>2. CASE r \in InCore
      <4>1. PICK g \in Handles : r \in waiting[g]
        BY <3>2 DEF InCore
      <4>2. CASE g = h
        BY <4>1, <4>2, NextCore
      <4>3. CASE g # h
        BY <4>1, <4>3, NextCore
      <4> QED BY <4>2, <4>3
    <3> QED BY <3>1, <3>2
  <2> QED BY <1>3, <1>4, <2>1
<1>8. UNCHANGED NotTheCore
  OBVIOUS
<1>9. \A i \in 1 .. Len(es) : es[i].kind # "shutdown"
  BY <1>3, <1>4, Zenon
<1>10. CoreStep(es)
  BY <1>2, <1>5, <1>6, <1>7, <1>8, <1>9 DEF CoreStep
<1> QED BY <1>10 DEF es

(* A request that is answered at once, whatever the connection.             *)
LEMMA FailedReport ==
    ASSUME CoreOK, CoreInv, SeqInv, Running, UNCHANGED << NotTheCore, phase >>,
           UNCHANGED << conns, waiting, news >>,
           NEW r, NEW e \in Events, Emit(<< e >>), e.answers = {r}, e.kind \in {"failed", "effects"},
           commands' \in Seq(Commands), Len(commands') <= Len(commands),
           \A q \in InCommands : q \in InCommands' \cup {r}
    PROVE  CoreStep(<< e >>)
<1>1. << e >> \in Seq(Events) /\ Len(<< e >>) = 1 /\ << e >>[1] = e
  BY Single
<1> DEFINE es == << e >>
<1>2. Emit(es)
  OBVIOUS
<1> HIDE DEF es
<1>3. es \in Seq(Events) /\ \A i : i \in 1 .. Len(es) <=> i = 1
  BY <1>1 DEF es
<1>4. es[1] = e
  BY <1>1 DEF es
<1>5. phase = "running" /\ phase' = "running"
  BY DEF Running
<1>6. \A g \in Handles :
          /\ conns'[g] # "open" => waiting'[g] = {} /\ conns[g] # "open"
          /\ \A i \in 1 .. Len(es) : es[i].kind # "spawned" /\ es[i].kind # "shutdown"
  BY <1>3, <1>4 DEF CoreInv
<1>7. ASSUME NEW q \in InCommands \cup InCore
      PROVE  \/ q \in InCommands' \cup InCore'
             \/ \E i \in 1 .. Len(es) : q \in es[i].answers
  <2>1. q \in InCommands' \/ q \in InCore' \/ q \in e.answers
    BY DEF InCore
  <2> QED BY <1>3, <1>4, <2>1
<1>8. CoreOK' /\ UNCHANGED NotTheCore
  BY DEF CoreOK
<1>9. \A i \in 1 .. Len(es) : es[i].kind # "shutdown"
  BY <1>3, <1>4
<1>10. CoreStep(es)
  BY <1>2, <1>5, <1>6, <1>7, <1>8, <1>9 DEF CoreStep
<1> QED BY <1>10 DEF es

(* An answer of an open connection is such a report.                        *)
LEMMA AnswerReports ==
    ASSUME CoreOK, CoreInv, SeqInv, Running, UNCHANGED << NotTheCore, phase, news >>,
           commands' \in Seq(Commands), Len(commands') <= Len(commands),
           NEW h \in Handles, conns[h] = "open",
           NEW R \in SUBSET Requests, \A r \in InCommands : r \in InCommands' \cup R,
           Answer(h, waiting[h] \cup R)
    PROVE  \E es \in Seq(Events) : CoreStep(es)
<1> DEFINE rs == waiting[h] \cup R
<1>1. rs \in SUBSET Requests
  BY DEF CoreOK
<1>2. ASSUME NEW a \in SUBSET rs, a # {},
             waiting' = [waiting EXCEPT ![h] = rs \ a], conns' = conns,
             Emit(<< Effects(h, a, FALSE) >>)
      PROVE  \E es \in Seq(Events) : CoreStep(es)
  <2> DEFINE e == Effects(h, a, FALSE)
  <2>1. e \in Events /\ e.answers = a /\ e.kind = "effects"
    <3>1. a \in SUBSET Requests
      BY <1>1
    <3> QED BY ONLY <3>1, EffectsEvent, h \in Handles, ZenonT(60)
  <2>2. Emit(<< e >>)
    BY <1>2
  <2> HIDE DEF e, rs
  <2>3. waiting'[h] = rs \ a /\ \A g \in Handles \ {h} : waiting'[g] = waiting[g]
    BY <1>2 DEF CoreOK
  <2>4. CoreOK'
    BY <1>1, <1>2 DEF CoreOK
  <2>5. waiting[h] \cup R \subseteq waiting'[h] \cup e.answers
    BY <2>1, <2>3 DEF rs
  <2>6. CoreStep(<< e >>)
    <3>1. conns'[h] = "open" /\ \A g \in Handles \ {h} : conns'[g] = conns[g]
      BY <1>2
    <3>2. e.kind # "shutdown" /\ e.kind # "spawned"
      BY <2>1, <3>1
    <3>3. \A g \in Handles \ {h} : conns'[g] = conns[g] /\ waiting'[g] = waiting[g]
      BY <2>3, <3>1
    <3>4. UNCHANGED << NotTheCore, phase >>
      OBVIOUS
    <3> QED BY <2>1, <2>2, <2>4, <2>5, <3>1, <3>2, <3>3, <3>4, OneReport, ZenonT(60)
  <2> QED BY <2>1, <2>6, Single, Zenon
<1>3. ASSUME waiting' = [waiting EXCEPT ![h] = {}], conns' = [conns EXCEPT ![h] = "closed"],
             Emit(<< Effects(h, rs, TRUE) >>)
      PROVE  \E es \in Seq(Events) : CoreStep(es)
  <2> DEFINE e == Effects(h, rs, TRUE)
  <2>1. e \in Events /\ e.answers = rs /\ e.kind = "effects" /\ e.handle = h /\ e.closed
    BY <1>1, ClosedEvent, ZenonT(60)
  <2>2. Emit(<< e >>)
    BY <1>3
  <2> HIDE DEF e, rs
  <2>3. /\ waiting'[h] = {} /\ conns'[h] = "closed"
        /\ \A g \in Handles \ {h} : conns'[g] = conns[g] /\ waiting'[g] = waiting[g]
    BY <1>3 DEF CoreOK
  <2>4. CoreOK'
    BY <1>3 DEF CoreOK
  <2>5. waiting[h] \cup R \subseteq waiting'[h] \cup e.answers
    BY <2>1 DEF rs
  <2>6. Marks(e, h)
    BY <2>1, Zenon DEF Marks
  <2>7. CoreStep(<< e >>)
    BY <2>1, <2>2, <2>3, <2>4, <2>5, <2>6, OneReport, ZenonT(60)
  <2> QED BY <2>1, <2>7, Single, Zenon
<1>4. ASSUME waiting' = [waiting EXCEPT ![h] = rs \ {}], conns' = conns, Emit(<< >>)
      PROVE  \E es \in Seq(Events) : CoreStep(es)
  <2> HIDE DEF rs
  <2>1. waiting'[h] = rs /\ \A g \in Handles \ {h} : waiting'[g] = waiting[g]
    BY <1>4 DEF CoreOK
  <2>2. CoreOK'
    BY <1>1, <1>4 DEF CoreOK
  <2> DEFINE es == << >>
  <2>3. es \in Seq(Events) /\ \A i : i \notin 1 .. Len(es)
    OBVIOUS
  <2>4. Emit(es)
    BY <1>4
  <2> HIDE DEF es
  <2>5. phase = "running" /\ phase' = "running"
    BY DEF Running
  <2>6. \A g \in Handles : conns'[g] # "open" => waiting'[g] = {} /\ conns[g] # "open"
    BY <1>4, <2>1 DEF CoreInv
  <2>7. ASSUME NEW r \in InCommands \cup InCore
        PROVE  r \in InCommands' \cup InCore'
    <3>1. R \subseteq InCore'
      BY <2>1, NextCore DEF rs
    <3>2. InCore \subseteq InCore'
      <4> SUFFICES ASSUME NEW q \in InCore PROVE q \in InCore'
        OBVIOUS
      <4>1. PICK g \in Handles : q \in waiting[g]
        BY DEF InCore
      <4>2. q \in waiting'[g]
        BY <2>1, <4>1 DEF rs
      <4> QED BY <4>2, NextCore
    <3> QED BY <3>1, <3>2
  <2>8. CoreStep(es)
    BY <2>2, <2>3, <2>4, <2>5, <2>6, <2>7, Zenon DEF CoreStep
  <2> QED BY <2>3, <2>8
<1> HIDE DEF rs
<1>5. \/ \E a \in SUBSET rs : /\ waiting' = [waiting EXCEPT ![h] = rs \ a]
                              /\ conns' = conns
                              /\ Emit(IF a = {} THEN << >> ELSE << Effects(h, a, FALSE) >>)
      \/ /\ waiting' = [waiting EXCEPT ![h] = {}]
         /\ conns' = [conns EXCEPT ![h] = "closed"]
         /\ Emit(<< Effects(h, rs, TRUE) >>)
  BY Zenon DEF Answer, rs
<1>6. ASSUME NEW a \in SUBSET rs, waiting' = [waiting EXCEPT ![h] = rs \ a], conns' = conns,
             Emit(IF a = {} THEN << >> ELSE << Effects(h, a, FALSE) >>)
      PROVE  \E es \in Seq(Events) : CoreStep(es)
  <2>1. CASE a = {}
    <3>1. Emit(<< >>)
      BY <1>6, <2>1, Zenon
    <3> QED BY <1>4, <1>6, <2>1, <3>1
  <2>2. CASE a # {}
    <3>1. Emit(<< Effects(h, a, FALSE) >>)
      BY <1>6, <2>2, Zenon
    <3> QED BY <1>2, <1>6, <2>2, <3>1, Zenon
  <2> QED BY <2>1, <2>2
<1> QED BY <1>3, <1>5, <1>6, Zenon

(* A connection request fails or spawns a connection (transport/endpoint.rs,*)
(* connect).                                                                *)
LEMMA CreateConnectionStep ==
    ASSUME CoreOK, CoreInv, SeqInv, CreateConnection
    PROVE  \E es \in Seq(Events) : CoreStep(es)
<1>1. TakeCommand("request") /\ Running /\ UNCHANGED << NotTheCore, phase >>
  BY DEF CreateConnection, TakeCommand
<1> DEFINE r == Head(commands).request
<1>2. /\ r \in Requests
      /\ commands' \in Seq(Commands) /\ Len(commands') <= Len(commands)
      /\ \A q \in InCommands : q \in InCommands' \cup {r}
  BY <1>1, TakenRequest
<1>3. \/ Emit(<< Failed(r) >>) /\ UNCHANGED << conns, waiting, news >>
      \/ \E h \in Handles :
            /\ conns[h] = "none" /\ UNCHANGED news
            /\ conns' = [conns EXCEPT ![h] = "open"]
            /\ waiting' = [waiting EXCEPT ![h] = {r}]
            /\ Emit(<< Spawned(h) >>)
  BY Zenon DEF CreateConnection
<1> HIDE DEF r
<1>4. CASE Emit(<< Failed(r) >>) /\ UNCHANGED << conns, waiting, news >>
  <2> DEFINE e == Failed(r)
  <2>1. e \in Events /\ e.answers = {r} /\ e.kind = "failed"
    BY ONLY <1>2, FailedEvent
  <2>2. Emit(<< e >>)
    BY <1>4
  <2> HIDE DEF e
  <2>3. CoreStep(<< e >>)
    BY <1>1, <1>2, <1>4, <2>1, <2>2, FailedReport, Zenon
  <2> QED BY <2>1, <2>3, Single, ZenonT(60)
<1>5. ASSUME NEW h \in Handles, conns[h] = "none", UNCHANGED news,
             conns' = [conns EXCEPT ![h] = "open"],
             waiting' = [waiting EXCEPT ![h] = {r}],
             Emit(<< Spawned(h) >>)
      PROVE  \E es \in Seq(Events) : CoreStep(es)
  <2> DEFINE e == Spawned(h)
  <2>1. e \in Events /\ e.answers = {} /\ e.handle = h /\ e.kind = "spawned"
    BY ONLY h \in Handles, SpawnedEvent
  <2>2. Emit(<< e >>)
    BY <1>5
  <2> HIDE DEF e
  <2>3. /\ waiting'[h] = {r} /\ conns'[h] = "open" /\ waiting[h] = {}
        /\ \A g \in Handles \ {h} : conns'[g] = conns[g] /\ waiting'[g] = waiting[g]
    BY <1>5 DEF CoreOK, CoreInv
  <2>4. CoreOK'
    BY <1>2, <1>5 DEF CoreOK
  <2>5. waiting[h] \cup {r} \subseteq waiting'[h] \cup e.answers
    BY <2>3
  <2>6. CoreStep(<< e >>)
    <3>1. e.kind # "shutdown" /\ e.handle = h
      BY <2>1
    <3>2. conns'[h] = "open"
      BY <2>3
    <3> QED BY <1>1, <1>2, <2>1, <2>2, <2>3, <2>4, <2>5, <3>1, <3>2, OneReport, Zenon
  <2> QED BY <2>1, <2>6, Single, Zenon
<1> QED BY <1>3, <1>4, <1>5, Zenon

(* A request for a connection: unknown, closed, or open                     *)
(* (transport/endpoint.rs, handle_protocol_event).                          *)
LEMMA ProtocolEventStep ==
    ASSUME CoreOK, CoreInv, SeqInv, HandleProtocolEvent
    PROVE  \E es \in Seq(Events) : CoreStep(es)
<1>1. /\ TakeCommand("request") /\ Running /\ UNCHANGED << NotTheCore, phase, news >>
      /\ Head(commands).handle # NoHandle
  BY DEF HandleProtocolEvent, TakeCommand
<1> DEFINE r == Head(commands).request
           h == Head(commands).handle
<1>2. /\ r \in Requests /\ h \in Handles
      /\ commands' \in Seq(Commands) /\ Len(commands') <= Len(commands)
      /\ \A q \in InCommands : q \in InCommands' \cup {r}
  BY <1>1, TakenRequest
<1>3. \/ Emit(<< Failed(r) >>) /\ UNCHANGED << conns, waiting >>
      \/ Emit(<< Effects(h, {r}, FALSE) >>) /\ UNCHANGED << conns, waiting >>
      \/ conns[h] = "open" /\ Answer(h, waiting[h] \cup {r})
  BY DEF HandleProtocolEvent
<1> HIDE DEF r, h
<1>4. CASE Emit(<< Failed(r) >>) /\ UNCHANGED << conns, waiting >>
  <2> DEFINE e == Failed(r)
  <2>1. e \in Events /\ e.answers = {r} /\ e.kind = "failed"
    BY ONLY <1>2, FailedEvent
  <2>2. Emit(<< e >>)
    BY <1>4
  <2> HIDE DEF e
  <2>3. CoreStep(<< e >>)
    BY <1>1, <1>2, <1>4, <2>1, <2>2, FailedReport, Zenon
  <2> QED BY <2>1, <2>3, Single, Zenon
<1>5. CASE Emit(<< Effects(h, {r}, FALSE) >>) /\ UNCHANGED << conns, waiting >>
  <2> DEFINE e == Effects(h, {r}, FALSE)
  <2>1. e \in Events /\ e.answers = {r} /\ e.kind = "effects"
    <3>1. {r} \in SUBSET Requests
      BY <1>2
    <3> QED BY ONLY <1>2, <3>1, EffectsEvent, ZenonT(60)
  <2>2. Emit(<< e >>)
    BY <1>5
  <2> HIDE DEF e
  <2>3. CoreStep(<< e >>)
    BY <1>1, <1>2, <1>5, <2>1, <2>2, FailedReport, Zenon
  <2> QED BY <2>1, <2>3, Single, Zenon
<1>6. CASE conns[h] = "open" /\ Answer(h, waiting[h] \cup {r})
  <2>1. {r} \in SUBSET Requests
    BY <1>2
  <2> QED BY <1>1, <1>2, <1>6, <2>1, AnswerReports, Zenon
<1> QED BY <1>3, <1>4, <1>5, <1>6

(* What QUIC brings to a connection, and what a server accepts              *)
(* (transport/endpoint.rs, handle_datagram and handle_timeout).             *)
LEMMA QuicStep ==
    ASSUME CoreOK, CoreInv, SeqInv, NEW h \in Handles, Quic(h) \/ Accept(h)
    PROVE  \E es \in Seq(Events) : CoreStep(es)
<1> USE RuntimeAssumption
<1>1. Running /\ UNCHANGED << NotTheCore, phase, commands >>
  BY DEF Quic, Accept
<1> DEFINE R == {}
<1>2. /\ commands' \in Seq(Commands) /\ Len(commands') <= Len(commands)
      /\ \A q \in InCommands : q \in InCommands' \cup R
  BY <1>1, Elements DEF SeqInv, InCommands
<1>3. CASE /\ news < MaxNews /\ news' = news + 1 /\ Emit(<< Effects(h, {}, FALSE) >>)
           /\ UNCHANGED << conns, waiting >>
  <2> DEFINE e == Effects(h, {}, FALSE)
  <2>1. e \in Events /\ e.answers = {} /\ e.kind = "effects"
    <3>1. {} \in SUBSET Requests
      OBVIOUS
    <3> QED BY ONLY h \in Handles, <3>1, EffectsEvent, ZenonT(60)
  <2>2. Emit(<< e >>)
    BY <1>3
  <2> HIDE DEF e
  <2>3. CoreOK'
    BY <1>3 DEF CoreOK
  <2>4. /\ \A g \in Handles \ {h} : conns'[g] = conns[g] /\ waiting'[g] = waiting[g]
        /\ waiting[h] \cup R \subseteq waiting'[h] \cup e.answers
        /\ conns'[h] # "open" => waiting'[h] = {}
        /\ conns'[h] = conns[h]
    BY <1>3 DEF CoreInv
  <2>5. CoreStep(<< e >>)
    <3>1. /\ UNCHANGED << NotTheCore, phase >> /\ e \in Events /\ e.kind # "shutdown"
          /\ conns'[h] # "open" => waiting'[h] = {}
          /\ conns'[h] # "open" /\ conns[h] = "open" => Marks(e, h)
          /\ e.kind = "spawned" => e.handle = h /\ conns'[h] = "open"
      BY <1>1, <2>1, <2>4
    <3> HIDE DEF R
    <3>2. CoreOK /\ CoreInv /\ SeqInv /\ h \in Handles
      OBVIOUS
    <3> QED BY ONLY <1>1, <1>2, <2>2, <2>3, <2>4, <3>1, <3>2, OneReport, ZenonT(60)
  <2> QED BY <2>1, <2>5, Single, Zenon
<1>4. CASE conns[h] = "open" /\ Answer(h, waiting[h]) /\ UNCHANGED news
  <2>1. {} \in SUBSET Requests /\ waiting[h] \cup {} = waiting[h]
    OBVIOUS
  <2>2. Answer(h, waiting[h] \cup {})
    BY <1>4, <2>1
  <2> QED BY <1>1, <1>2, <1>4, <2>1, <2>2, AnswerReports, Zenon
<1>5. CASE Accept(h)
  <2> DEFINE e == Spawned(h)
  <2>1. e \in Events /\ e.answers = {} /\ e.handle = h /\ e.kind = "spawned"
    BY ONLY h \in Handles, SpawnedEvent
  <2>2. /\ Emit(<< e >>) /\ conns' = [conns EXCEPT ![h] = "open"] /\ UNCHANGED waiting
        /\ news < MaxNews /\ news' = news + 1
    BY <1>5 DEF Accept
  <2> HIDE DEF e
  <2>3. CoreOK'
    BY <2>2 DEF CoreOK
  <2>4. /\ \A g \in Handles \ {h} : conns'[g] = conns[g] /\ waiting'[g] = waiting[g]
        /\ waiting[h] \cup R \subseteq waiting'[h] \cup e.answers
        /\ conns'[h] = "open"
    BY <2>2 DEF CoreOK
  <2>5. CoreStep(<< e >>)
    <3>1. /\ UNCHANGED << NotTheCore, phase >> /\ e \in Events /\ e.kind # "shutdown"
          /\ conns'[h] # "open" => waiting'[h] = {}
          /\ conns'[h] # "open" /\ conns[h] = "open" => Marks(e, h)
          /\ e.kind = "spawned" => e.handle = h /\ conns'[h] = "open"
      BY <1>1, <2>1, <2>4
    <3> HIDE DEF R
    <3>2. CoreOK /\ CoreInv /\ SeqInv /\ h \in Handles
      OBVIOUS
    <3> QED BY ONLY <1>1, <1>2, <2>2, <2>3, <2>4, <3>1, <3>2, OneReport, ZenonT(60)
  <2> QED BY <2>1, <2>5, Single, Zenon
<1> QED BY <1>3, <1>4, <1>5 DEF Quic

(* The shutdown command ends every open connection                          *)
(* (transport/endpoint.rs, shutdown).                                       *)
LEMMA ShutdownStep ==
    ASSUME CoreOK, CoreInv, SeqInv, Shutdown
    PROVE  \E es \in Seq(Events) : CoreStep(es)
<1> DEFINE open == {h \in Handles : conns[h] = "open"}
<1>1. /\ TakeCommand("shutdown") /\ Running /\ UNCHANGED << NotTheCore, news >>
      /\ conns' = [h \in Handles |-> IF conns[h] = "open" THEN "closed" ELSE conns[h]]
      /\ waiting' = [h \in Handles |-> {}]
      /\ phase' = "closing"
  BY DEF Shutdown, TakeCommand
<1>2. PICK order \in Orders(open) :
          Emit([i \in DOMAIN order |-> Effects(order[i], waiting[order[i]], TRUE)])
  BY Zenon DEF Shutdown
<1> HIDE DEF open
<1>3. /\ order \in Seq(open)
      /\ \A x \in open : \E i \in 1 .. Len(order) : order[i] = x
  BY Listed, Zenon
<1> DEFINE es == [i \in DOMAIN order |-> Effects(order[i], waiting[order[i]], TRUE)]
<1>4. DOMAIN order = 1 .. Len(order) /\ Len(order) \in Nat
  BY <1>3
<1>5. \A i \in 1 .. Len(order) : order[i] \in open /\ order[i] \in Handles
  BY <1>3 DEF open
<1>6. \A i \in 1 .. Len(order) : waiting[order[i]] \in SUBSET Requests
  BY <1>5 DEF CoreOK
<1>7. ASSUME NEW i \in 1 .. Len(order)
      PROVE  LET e == Effects(order[i], waiting[order[i]], TRUE) IN
             /\ e \in Events /\ e.answers = waiting[order[i]] /\ e.handle = order[i]
             /\ e.kind = "effects" /\ e.closed
  <2> DEFINE h == order[i]
             rs == waiting[order[i]]
  <2>1. h \in Handles /\ rs \in SUBSET Requests
    BY <1>5, <1>6, Zenon
  <2> HIDE DEF h, rs
  <2>2. LET e == Effects(h, rs, TRUE) IN
        e \in Events /\ e.answers = rs /\ e.handle = h /\ e.kind = "effects" /\ e.closed
    BY <2>1, ClosedEvent, Zenon
  <2> QED BY <2>2, Zenon DEF h, rs
<1>8. /\ es \in [1 .. Len(order) -> Events]
      /\ \A i \in 1 .. Len(order) :
             /\ es[i].answers = waiting[order[i]] /\ es[i].handle = order[i]
             /\ es[i].kind = "effects" /\ es[i].closed
  BY <1>4, <1>7, Zenon
<1>9. Emit(es)
  BY <1>2
<1> HIDE DEF es
<1>10. es \in Seq(Events) /\ Len(es) = Len(order)
  BY <1>4, <1>8
<1>11. ASSUME NEW h \in Handles, conns[h] = "open"
       PROVE  \E i \in 1 .. Len(es) : Marks(es[i], h) /\ es[i].answers = waiting[h]
  <2>1. PICK i \in 1 .. Len(order) : order[i] = h
    BY <1>3, <1>11 DEF open
  <2>2. Marks(es[i], h) /\ es[i].answers = waiting[h]
    BY <1>8, <2>1 DEF Marks
  <2> QED BY <1>10, <2>2
<1>12. \A h \in Handles : conns'[h] # "open" /\ waiting'[h] = {}
  BY <1>1 DEF CoreOK
<1>13. CoreOK'
  BY <1>1 DEF CoreOK
<1>14. \A i \in 1 .. Len(es) : es[i].kind # "shutdown" /\ es[i].kind # "spawned"
  BY <1>8, <1>10
<1>15. /\ commands' \in Seq(Commands) /\ Len(commands') <= Len(commands)
       /\ \A r \in InCommands : r \in InCommands'
  BY <1>1, TakenShutdown
<1>16. ASSUME NEW r \in InCore
       PROVE  \E i \in 1 .. Len(es) : r \in es[i].answers
  <2>1. PICK h \in Handles : r \in waiting[h]
    BY DEF InCore
  <2>2. conns[h] = "open"
    BY <2>1 DEF CoreInv
  <2>3. PICK i \in 1 .. Len(es) : es[i].answers = waiting[h]
    BY <1>11, <2>2
  <2> QED BY <2>1, <2>3
<1>17. UNCHANGED NotTheCore /\ phase' \in {"running", "closing"}
  BY <1>1
<1>18. CoreStep(es)
  BY <1>1, <1>9, <1>11, <1>12, <1>13, <1>14, <1>15, <1>16, <1>17, Zenon DEF CoreStep
<1> QED BY <1>10, <1>18

(* So is every handler.                                                     *)
CoreAction ==
    \/ CreateConnection \/ HandleProtocolEvent \/ Shutdown
    \/ \E h \in Handles : Quic(h) \/ Accept(h)

(* Every handler of the reactor is such a step.                             *)
LEMMA CoreSteps ==
    ASSUME CoreOK, CoreInv, SeqInv, CoreAction
    PROVE  \E es \in Seq(Events) : CoreStep(es)
BY CreateConnectionStep, ProtocolEventStep, ShutdownStep, QuicStep, Zenon DEF CoreAction

------------------------------------------------------------------------------
(* A step of the reactor's handlers preserves the invariant.  That the      *)
(* wake-up protocol does is shown below, once for all steps.                *)
Kept == NothingForgotten /\ SeqInv /\ LifeInv /\ CoreInv /\ LastInv /\ KnownInv

(* The type invariant after a step, from its parts.                         *)
LEMMA NextTypes ==
    ASSUME SeqInv', LifeOK', SetsOK', CoreOK', Len(commands') <= CommandCapacity, WakerInv'
    PROVE  TypeOK'
<1>1. events' \in Seq(Events)
  BY DEF SeqInv
<1>2. \A x : x \in Range(events') <=> \E i \in 1 .. Len(events') : x = events'[i]
  BY <1>1, Elements
<1>3. Range(events') \subseteq EventSet
  BY <1>1, <1>2 DEF Events
<1>4. (W!TypeOK)'
  BY DEF WakerInv, W!TypeOK
<1> QED BY <1>3, <1>4, Zenon DEF TypeOK, LifeOK, SetsOK, CoreOK

(* What the invariant says of the state, in the parts that the steps use.   *)
LEMMA Parts ==
    ASSUME IInv
    PROVE  /\ LifeOK /\ SetsOK /\ CoreOK /\ Len(commands) <= CommandCapacity
           /\ SeqInv /\ LifeInv /\ CoreInv /\ LastInv /\ KnownInv /\ WakerInv
           /\ PendingIsSomewhere /\ ReleasedHoldsNothing /\ FinalCloseEvents
<1>1. SeqInv /\ TypeOK
  BY DEF IInv, NothingForgotten
<1>2. LifeOK /\ SetsOK /\ CoreOK /\ Len(commands) <= CommandCapacity
  BY <1>1, TypeParts
<1> QED BY <1>2 DEF IInv, NothingForgotten

(* What a handler does to the event queue.                                  *)
LEMMA CoreEmits ==
    ASSUME IInv, NEW es \in Seq(Events), CoreStep(es)
    PROVE  /\ events' \in Seq(Events) /\ Len(events) \in Nat /\ Len(events') \in Nat
           /\ Len(events) <= Len(events') /\ Len(es) \in Nat
           /\ \A i \in 1 .. Len(events) : events'[i] = events[i]
           /\ \A i \in Len(events) + 1 .. Len(events') :
                  i - Len(events) \in 1 .. Len(es) /\ events'[i] = es[i - Len(events)]
           /\ overflow' \in BOOLEAN /\ (overflow => overflow')
           /\ ~overflow' => Len(events') = Len(events) + Len(es)
           /\ lost \subseteq lost' /\ lost' \subseteq Requests
           /\ \A i \in 1 .. Len(es) : \/ Len(events) + i <= Len(events')
                                      \/ es[i].answers \subseteq lost'
<1>1. /\ events \in Seq(Events) /\ Len(events) \in Nat /\ Len(events) <= Capacity
      /\ emitted \in BOOLEAN /\ overflow \in BOOLEAN /\ lost \subseteq Requests
  BY Parts, WakerTypes, RuntimeAssumption DEF SeqInv, LifeOK, SetsOK
<1>2. Emit(es)
  BY DEF CoreStep
<1>3. /\ events' \in Seq(Events)
      /\ Len(events) <= Len(events') /\ Len(events') <= Capacity
      /\ \A i \in 1 .. Len(events) : events'[i] = events[i]
      /\ \A i \in Len(events) + 1 .. Len(events') :
             /\ i - Len(events) \in 1 .. Len(es)
             /\ events'[i] = es[i - Len(events)]
      /\ overflow' \in BOOLEAN /\ (overflow => overflow')
      /\ ~overflow' => Len(events') = Len(events) + Len(es)
      /\ lost \subseteq lost'
      /\ lost' \subseteq lost \cup UNION {es[i].answers : i \in 1 .. Len(es)}
      /\ \A i \in 1 .. Len(es) : Len(events) + i <= Len(events') \/ es[i].answers \subseteq lost'
  BY ONLY <1>1, <1>2, es \in Seq(Events), Emitted, Zenon
<1>4. \A i \in 1 .. Len(es) : es[i].answers \subseteq Requests
  BY DEF Events, EventSet
<1>5. lost' \subseteq Requests
  BY <1>1, <1>3, <1>4
<1>6. Len(events') \in Nat /\ Len(es) \in Nat
  BY <1>3
<1> QED BY <1>1, <1>3, <1>5, <1>6

(* A handler of the reactor preserves the invariant.                        *)
LEMMA CoreStepPreserves ==
    ASSUME IInv, NEW es \in Seq(Events), CoreStep(es), WakerInv'
    PROVE  Kept'
<1> USE Parts
<1>1. Running /\ UNCHANGED NotTheCore
  BY DEF CoreStep
<1>2. /\ thread /\ phase = "running" /\ wake = "no"
      /\ thread' = thread /\ wake' = wake /\ UNCHANGED << executor, closer, known, orphans, timed_out >>
      /\ UNCHANGED << future, requests, shutdown_event, loop >>
  BY <1>1 DEF Running, NotTheCore, controllerVars, requestVars, histories
<1>3. SeqInv'
  <2>1. events' \in Seq(Events)
    BY CoreEmits, Zenon
  <2>2. commands' \in Seq(Commands)
    BY Zenon DEF CoreStep
  <2> QED BY <2>1, <2>2, Zenon DEF SeqInv
<1>4. CoreInv' /\ CoreOK'
  BY DEF CoreStep, CoreInv
<1>5. LifeOK' /\ SetsOK'
  BY <1>1, CoreEmits DEF LifeOK, SetsOK, NotTheCore, controllerVars, requestVars, histories
<1>6. TypeOK'
  <2>1. Len(commands') <= CommandCapacity
    <3>1. Len(commands') <= Len(commands)
      BY DEF CoreStep
    <3>2. Len(commands') \in Nat /\ Len(commands) \in Nat
      BY <1>3 DEF SeqInv
    <3> QED BY <3>1, <3>2, RuntimeAssumption
  <2> QED BY <1>3, <1>4, <1>5, <2>1, NextTypes
<1>7. LifeInv'
  BY <1>1, <1>2 DEF LifeInv, NotTheCore, controllerVars
<1>8. LastInv'
  <2>1. ASSUME NEW i \in 1 .. Len(events') PROVE events'[i].kind # "shutdown"
    <3>1. CASE i \in 1 .. Len(events)
      BY <1>2, <3>1, CoreEmits DEF LastInv
    <3>2. CASE i \in Len(events) + 1 .. Len(events')
      <4>1. i - Len(events) \in 1 .. Len(es) /\ events'[i] = es[i - Len(events)]
        BY <3>2, CoreEmits
      <4>2. \A k \in 1 .. Len(es) : es[k].kind # "shutdown"
        BY DEF CoreStep
      <4> QED BY <4>1, <4>2
    <3>3. i \in 1 .. Len(events) \/ i \in Len(events) + 1 .. Len(events')
      BY CoreEmits
    <3> QED BY <3>1, <3>2, <3>3
  <2>2. ~shutdown_event'
    BY <1>2 DEF LastInv
  <2> QED BY <2>1, <2>2 DEF LastInv
<1>9. PendingIsSomewhere'
  <2> SUFFICES ASSUME NEW r \in Requests, future'[r] = "pending"
               PROVE  /\ r \in requests'
                      /\ r \in InCommands' \/ r \in InCore' \/ r \in InEvents' \/ r \in lost'
    BY DEF PendingIsSomewhere
  <2>1. r \in requests /\ (r \in InCommands \cup InCore \/ r \in InEvents \/ r \in lost)
    BY <1>2 DEF PendingIsSomewhere
  <2>2. CASE r \in lost
    BY <1>2, <2>1, <2>2, CoreEmits
  <2>3. CASE r \in InEvents
    <3>1. PICK i \in 1 .. Len(events) : r \in events[i].answers
      BY <2>3, Places
    <3>2. i \in 1 .. Len(events') /\ events'[i] = events[i]
      BY CoreEmits
    <3> QED BY <1>2, <2>1, <3>1, <3>2, CoreEmits, NextEvents
  <2>4. CASE r \in InCommands \cup InCore
    <3>1. CASE r \in InCommands' \cup InCore'
      BY <1>2, <2>1, <3>1
    <3>2. ASSUME NEW i \in 1 .. Len(es), r \in es[i].answers
          PROVE  r \in InEvents' \/ r \in lost'
      <4>1. CASE es[i].answers \subseteq lost'
        BY <3>2, <4>1
      <4>2. CASE Len(events) + i <= Len(events')
        <5>1. Len(events) + i \in Len(events) + 1 .. Len(events')
          BY <4>2, CoreEmits
        <5>2. Len(events) + i \in 1 .. Len(events') /\ (Len(events) + i) - Len(events) = i
          BY <4>2, CoreEmits
        <5>3. events'[Len(events) + i] = es[i]
          BY <5>1, <5>2, CoreEmits, SMTT(30)
        <5> QED BY <3>2, <5>2, <5>3, CoreEmits, NextEvents
      <4> QED BY <4>1, <4>2, CoreEmits
    <3>3. \/ r \in InCommands' \cup InCore'
          \/ \E i \in 1 .. Len(es) : r \in es[i].answers
      BY <2>4 DEF CoreStep
    <3> QED BY <1>2, <2>1, <3>1, <3>2, <3>3
  <2> QED BY <2>1, <2>2, <2>3, <2>4
<1>10. ReleasedHoldsNothing'
  BY <1>2 DEF ReleasedHoldsNothing
<1>11. FinalCloseEvents'
  BY <1>2, CoreEmits DEF FinalCloseEvents
<1>12. KnownInv'
  <2> SUFFICES ASSUME ~overflow', NEW h \in Handles, conns'[h] # "open"
               PROVE  /\ h \in known' => \E i \in 1 .. Len(events') : Marks(events'[i], h)
                      /\ \A i \in 1 .. Len(events') :
                            /\ Marks(events'[i], h)
                            /\ \A j \in i + 1 .. Len(events') : ~Marks(events'[j], h)
                            => events'[i].kind # "spawned"
    BY DEF KnownInv
  <2>1. ~overflow /\ Len(events') = Len(events) + Len(es)
    BY CoreEmits
  <2>2. ASSUME NEW i \in 1 .. Len(es)
        PROVE  /\ Len(events) + i \in 1 .. Len(events')
               /\ Len(events) + i \in Len(events) + 1 .. Len(events')
               /\ events'[Len(events) + i] = es[i]
    <3>1. /\ Len(events) + i \in 1 .. Len(events')
          /\ Len(events) + i \in Len(events) + 1 .. Len(events')
          /\ (Len(events) + i) - Len(events) = i
      BY <2>1, CoreEmits
    <3> QED BY <3>1, CoreEmits
  <2>3. conns[h] = "open" => \E i \in 1 .. Len(es) : Marks(es[i], h)
    BY DEF CoreStep
  <2>4. ASSUME h \in known'
        PROVE  \E i \in 1 .. Len(events') : Marks(events'[i], h)
    <3>1. CASE conns[h] = "open"
      BY <2>2, <2>3, <3>1
    <3>2. CASE conns[h] # "open"
      <4>1. PICK i \in 1 .. Len(events) : Marks(events[i], h)
        BY <1>2, <2>1, <2>4, <3>2 DEF KnownInv
      <4>2. i \in 1 .. Len(events') /\ events'[i] = events[i]
        BY CoreEmits
      <4> QED BY <4>1, <4>2
    <3> QED BY <3>1, <3>2
  <2>5. ASSUME NEW i \in 1 .. Len(events'), Marks(events'[i], h),
               \A j \in i + 1 .. Len(events') : ~Marks(events'[j], h)
        PROVE  events'[i].kind # "spawned"
    <3>1. CASE i \in Len(events) + 1 .. Len(events')
      <4>1. i - Len(events) \in 1 .. Len(es) /\ events'[i] = es[i - Len(events)]
        BY <3>1, CoreEmits
      <4> QED BY <2>5, <4>1 DEF CoreStep
    <3>2. CASE i \in 1 .. Len(events)
      <4>1. \A k \in 1 .. Len(es) : Len(events) + k \in i + 1 .. Len(events')
        BY <2>1, <3>2, CoreEmits
      <4>2. conns[h] # "open"
        BY <2>2, <2>3, <2>5, <4>1, Zenon
      <4>3. \A j \in i + 1 .. Len(events) :
                j \in i + 1 .. Len(events') /\ events'[j] = events[j]
        BY <3>2, CoreEmits
      <4>4. Marks(events[i], h) /\ \A j \in i + 1 .. Len(events) : ~Marks(events[j], h)
        BY <2>5, <3>2, <4>3, CoreEmits
      <4>5. events[i].kind # "spawned"
        BY <2>1, <3>2, <4>2, <4>4, SMTT(30) DEF KnownInv
      <4> QED BY <3>2, <4>5, CoreEmits
    <3>3. i \in 1 .. Len(events) \/ i \in Len(events) + 1 .. Len(events')
      BY CoreEmits
    <3> QED BY <3>1, <3>2, <3>3
  <2> QED BY <2>4, <2>5
<1> QED BY <1>3, <1>4, <1>6, <1>7, <1>8, <1>9, <1>10, <1>11, <1>12 DEF Kept, NothingForgotten
==============================================================================
