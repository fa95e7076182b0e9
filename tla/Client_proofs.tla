---------------------------- MODULE Client_proofs ----------------------------
(***************************************************************************)
(* Whatever a client has open has an owner or is one of the named leaks,   *)
(* and its calls share one runtime, for every number of concurrent         *)
(* connect() calls, of addresses and of runtimes.                          *)
(*                                                                         *)
(* Neither is inductive.  A connection is established by Rust, which is no *)
(* step of the client: RaceInv says where an attempt is until then, and    *)
(* that what close() took from its task is in the runtime that it is about *)
(* to close.  A runtime is started under the lock, which a cancelled call  *)
(* can give up while the start goes on: StartInv says that a runtime which *)
(* somebody waits for is the only one, that the lock is held exactly that  *)
(* long, and that all others are in place or were left behind; CloseInv    *)
(* says what close() leaves in place.                                      *)
(***************************************************************************)
EXTENDS Client, TLAPS

InStart(q) == q.at \in {"start", "cancelled start"}

(* A runtime by itself.                                                    *)
StartOK(r) ==
    /\ runtime[r] = "starting" => starter[r] # Nobody \/ r \in abandoned
    /\ starter[r] # Nobody => /\ runtime[r] = "starting" /\ r \notin abandoned
                              /\ lock = starter[r] /\ controller = 0
    /\ r \in abandoned => runtime[r] # "unused" /\ controller # r
    /\ runtime[r] = "open" => controller = r \/ r \in abandoned

(* Who holds the lock waits for the start of a runtime, and only one start *)
(* is waited for.                                                          *)
StartInv ==
    /\ \A c \in Callers : InStart(call[c]) <=> lock = c
    /\ \A r \in 1 .. MaxRuntimes : StartOK(r)
    /\ \A r, s \in 1 .. MaxRuntimes :
           starter[r] # Nobody /\ starter[s] # Nobody => r = s

(* A close() that is over leaves no controller but one that came late.     *)
CloseInv ==
    /\ closing = "done" /\ controller # 0 => controller \in late
    /\ closing \in {"controller", "cancelled controller"} => controller # 0

(* The call has not come to this attempt.                                  *)
Ahead(a) ==
    \/ call[a[1]].at \in {"idle", "lock", "start", "cancelled start", "resolve"}
    \/ call[a[1]].at = "race" /\ a[2] > call[a[1]].next

(* Where an attempt is, and its connection.                                *)
AttemptInv(a) ==
    /\ Ahead(a) => attempt[a] = "none"
    /\ a \in tasks \cup background => attempt[a] # "none"
    /\ attempt[a] \in {"created", "connecting"} => a \in tasks \cup background
    /\ attempt[a] \in {"none", "created"} => conn[a] = "none"
    /\ attempt[a] \in {"connecting", "ok"} => conn[a] # "none"
    /\ a \in discarding => attempt[a] = "ok"
    /\ call[a[1]].at = "session" /\ call[a[1]].winner = a[2] => attempt[a] = "ok"
    /\ conn[a] = "pending" => attempt[a] \in {"connecting", "cancelled"}
    /\ attempt[a] = "error" => conn[a] \in {"none", "closed"}
    /\ attempt[a] = "cancelled" => a \in dropped
    /\ a \in dropped => closing # "none" /\ attempt[a] \in {"ok", "cancelled"}
    /\ a \in dropped /\ closing = "done" => conn[a] \in {"none", "closed"}
    /\ conn[a] = "none" <=> via[a] = 0
    /\ CanClose /\ via[a] # 0 => via[a] = controller

(* The connection of an attempt, as in ConnectionsOwned.                   *)
Accounted(a) == conn[a] = "open" => Owned(a) \/ Stranded(a)

RaceInv ==
    /\ \A c \in Callers : call[c].at = "session" => call[c].winner # 0
    /\ \A a \in Attempts : AttemptInv(a) /\ Accounted(a)

(* The inductive invariant.                                                *)
IInv == TypeOK /\ StartInv /\ CloseInv /\ RaceInv

------------------------------------------------------------------------------
(* What a call becomes when it moves, field by field.                      *)
LEMMA Fields ==
    \A p, n, w :
        /\ At(p).at = p /\ At(p).next = 0 /\ At(p).winner = 0
        /\ [At(p) EXCEPT !.next = n] = [at |-> p, next |-> n, winner |-> 0]
        /\ [At(p) EXCEPT !.winner = w] = [at |-> p, next |-> 0, winner |-> w]
        /\ Ended = At("ended")
BY DEF At, Ended

(* Only the call that moves changes.                                       *)
LEMMA CallMoves ==
    ASSUME TypeOK, NEW c \in Callers, NEW v, call' = [call EXCEPT ![c] = v]
    PROVE  \A d \in Callers : call'[d] = IF d = c THEN v ELSE call[d]
BY DEF TypeOK

(* The fields of a call.                                                   *)
LEMMA CallType ==
    ASSUME TypeOK, NEW c \in Callers
    PROVE  /\ call[c].at \in {"idle", "lock", "start", "cancelled start", "resolve",
                              "race", "session", "ended"}
           /\ call[c].next \in 0 .. Count
           /\ call[c].winner \in 0 .. Count
           /\ \A p : /\ [call[c] EXCEPT !.at = p].at = p
                     /\ [call[c] EXCEPT !.at = p].next = call[c].next
                     /\ [call[c] EXCEPT !.at = p].winner = call[c].winner
<1>1. call[c] \in [at : {"idle", "lock", "start", "cancelled start", "resolve",
                         "race", "session", "ended"},
                   next : 0 .. Count, winner : 0 .. Count]
  BY DEF TypeOK
<1> DEFINE q == call[c]
<1> HIDE DEF q
<1>2. \A p : /\ [q EXCEPT !.at = p].at = p
            /\ [q EXCEPT !.at = p].next = q.next
            /\ [q EXCEPT !.at = p].winner = q.winner
  BY <1>1 DEF q
<1> QED BY <1>1, <1>2 DEF q

(* An attempt is a caller and the number of an address.                    *)
LEMMA Pairs ==
    /\ \A a \in Attempts : a[1] \in Callers /\ a[2] \in 1 .. Count /\ a = << a[1], a[2] >>
    /\ \A c \in Callers, n \in 1 .. Count : << c, n >> \in Attempts
    /\ \A c, n : << c, n >>[1] = c /\ << c, n >>[2] = n
BY DEF Attempts

(* One call moves, to one of these places.                                 *)
Moves(c, to) ==
    /\ call'[c].at \in to
    /\ \A d \in Callers : d # c => call'[d] = call[d]

(* What an assignment to one call does.                                    *)
LEMMA MovesTo ==
    ASSUME TypeOK, NEW c \in Callers, NEW v, call' = [call EXCEPT ![c] = v], NEW to, v.at \in to
    PROVE  call'[c] = v /\ Moves(c, to)
<1>1. \A d \in Callers : call'[d] = IF d = c THEN v ELSE call[d]
  BY CallMoves, ZenonT(40)
<1>2. call'[c] = v /\ \A d \in Callers : d # c => call'[d] = call[d]
  BY <1>1, Zenon
<1> QED BY <1>2, Zenon DEF Moves

(* Where the steps of connect() and of its end take a call (client.py).    *)
LEMMA CallGoes ==
    ASSUME TypeOK, NEW c \in Callers
    PROVE  /\ Start(c) => Moves(c, {"start"})
           /\ (Connect(c) \/ GetLock(c)) /\ ~Start(c) => Moves(c, {"resolve", "lock", "ended"})
           /\ \A r : StartDone(c, r) => Moves(c, {"resolve"})
           /\ \A r : StartAbandoned(c, r) \/ StartFails(c, r) => Moves(c, {"ended"})
           /\ ResolveFails(c) \/ SessionFails(c) => Moves(c, {"ended"})
<1>1. ASSUME NEW p, call' = [call EXCEPT ![c] = At(p)]
      PROVE  \A to : p \in to => Moves(c, to)
  <2>1. At(p).at = p
    BY Fields, Zenon
  <2> QED BY <1>1, <2>1, MovesTo, Zenon
<1>2. Start(c) => call' = [call EXCEPT ![c] = At("start")]
  BY DEF Start
<1>3. (Connect(c) \/ GetLock(c)) /\ ~Start(c) =>
          \E p \in {"resolve", "lock", "ended"} : call' = [call EXCEPT ![c] = At(p)]
  BY Fields DEF Connect, GetLock
<1>4. \A r : StartDone(c, r) => call' = [call EXCEPT ![c] = At("resolve")]
  BY Zenon DEF StartDone
<1>5. \A r : StartAbandoned(c, r) \/ StartFails(c, r) => call' = [call EXCEPT ![c] = At("ended")]
  BY Fields, Zenon DEF StartAbandoned, StartFails
<1>6. ResolveFails(c) \/ SessionFails(c) => call' = [call EXCEPT ![c] = At("ended")]
  BY Fields, Zenon DEF ResolveFails, SessionFails
<1>7. Start(c) => Moves(c, {"start"})
  BY <1>1, <1>2, Zenon
<1>8. (Connect(c) \/ GetLock(c)) /\ ~Start(c) => Moves(c, {"resolve", "lock", "ended"})
  BY <1>1, <1>3, Zenon
<1>9. \A r : StartDone(c, r) => Moves(c, {"resolve"})
  BY <1>1, <1>4, Zenon
<1>10. \A r : StartAbandoned(c, r) \/ StartFails(c, r) => Moves(c, {"ended"})
  BY <1>1, <1>5, Zenon
<1>11. ResolveFails(c) \/ SessionFails(c) => Moves(c, {"ended"})
  BY <1>1, <1>6, Zenon
<1> QED BY <1>7, <1>8, <1>9, <1>10, <1>11, Zenon

(* The session is returned, with the winner.                               *)
LEMMA SessionGoes ==
    ASSUME TypeOK, NEW c \in Callers, SessionCreated(c)
    PROVE  Moves(c, {"ended"}) /\ call'[c].winner = call[c].winner
<1> DEFINE v == [call[c] EXCEPT !.at = "ended"]
<1>1. call' = [call EXCEPT ![c] = v]
  BY DEF SessionCreated
<1>2. v.at = "ended" /\ v.winner = call[c].winner
  BY CallType, ZenonT(40)
<1> HIDE DEF v
<1>3. v.at \in {"ended"}
  BY <1>2, Zenon
<1> QED BY <1>1, <1>2, <1>3, MovesTo, Zenon

(* A call that is cancelled in its start waits, once; all others end.      *)
LEMMA CancelGoes ==
    ASSUME TypeOK, NEW c \in Callers, Cancel(c)
    PROVE  \/ /\ call[c].at \in {"lock", "resolve", "race"} /\ UNCHANGED starts
              /\ Moves(c, {"ended"})
           \/ /\ call[c].at = "start" /\ UNCHANGED starts
              /\ Moves(c, {"cancelled start"})
           \/ /\ call[c].at = "cancelled start" /\ LeaveStart(c)
              /\ Moves(c, {"ended"})
<1> DEFINE v == [call[c] EXCEPT !.at = "cancelled start"]
<1>1. v.at = "cancelled start"
  BY CallType, ZenonT(40)
<1>2. \/ /\ call[c].at \in {"lock", "resolve", "race"} /\ UNCHANGED starts
         /\ call' = [call EXCEPT ![c] = Ended]
      \/ /\ call[c].at = "start" /\ UNCHANGED starts
         /\ call' = [call EXCEPT ![c] = v]
      \/ /\ call[c].at = "cancelled start" /\ LeaveStart(c)
         /\ call' = [call EXCEPT ![c] = Ended]
  BY DEF Cancel
<1> HIDE DEF v
<1>3. Ended.at = "ended"
  BY Fields
<1>4. call' = [call EXCEPT ![c] = Ended] => Moves(c, {"ended"})
  <2>1. Ended.at \in {"ended"}
    BY <1>3, Zenon
  <2> QED BY <2>1, MovesTo, Zenon
<1>5. call' = [call EXCEPT ![c] = v] => Moves(c, {"cancelled start"})
  <2>1. v.at \in {"cancelled start"}
    BY <1>1, Zenon
  <2> QED BY <2>1, MovesTo, Zenon
<1> QED BY <1>2, <1>4, <1>5, Zenon

(* The next attempt of a race.                                             *)
LEMMA NextGoes ==
    ASSUME TypeOK, NEW c \in Callers, NEW n, NextAttempt(c, n)
    PROVE  Moves(c, {"race"}) /\ call'[c].next = n
<1> DEFINE v == [At("race") EXCEPT !.next = n]
<1>1. call' = [call EXCEPT ![c] = v]
  BY DEF NextAttempt
<1>2. v.at = "race" /\ v.next = n
  BY Fields
<1> HIDE DEF v
<1>3. v.at \in {"race"}
  BY <1>2, Zenon
<1> QED BY <1>1, <1>2, <1>3, MovesTo, Zenon

(* A winner.                                                               *)
LEMMA WinnerGoes ==
    ASSUME TypeOK, NEW c \in Callers, NEW n,
           call' = [call EXCEPT ![c] = [At("session") EXCEPT !.winner = n]]
    PROVE  Moves(c, {"session"}) /\ call'[c].winner = n
<1> DEFINE v == [At("session") EXCEPT !.winner = n]
<1>1. call' = [call EXCEPT ![c] = v]
  OBVIOUS
<1>2. v.at = "session" /\ v.winner = n
  BY Fields
<1> HIDE DEF v
<1>3. v.at \in {"session"}
  BY <1>2, Zenon
<1> QED BY <1>1, <1>2, <1>3, MovesTo, Zenon

(* A return of asyncio.wait.                                               *)
LEMMA WaitGoes ==
    ASSUME TypeOK, NEW c \in Callers, WaitReturns(c)
    PROVE  call' = call \/ Moves(c, {"race", "session", "ended"})
<1>1. \/ call' = call
      \/ \E n : NextAttempt(c, n)
      \/ \E n : call' = [call EXCEPT ![c] = [At("session") EXCEPT !.winner = n]]
      \/ call' = [call EXCEPT ![c] = Ended]
  BY DEF WaitReturns
<1>2. ASSUME NEW p \in {"race", "session", "ended"}, Moves(c, {p})
      PROVE  Moves(c, {"race", "session", "ended"})
  BY <1>2 DEF Moves
<1>3. call' = [call EXCEPT ![c] = Ended] => Moves(c, {"ended"})
  <2>1. Ended.at \in {"ended"}
    BY Fields
  <2> QED BY <2>1, MovesTo, Zenon
<1> QED BY <1>1, <1>2, <1>3, NextGoes, WinnerGoes, Zenon

------------------------------------------------------------------------------
(* The steps that leave the lock, the controller and the runtimes alone.   *)
Quiet ==
    \/ \E c \in Callers :
          \/ Resolve(c) \/ ResolveFails(c) \/ WaitReturns(c)
          \/ SessionCreated(c) \/ SessionFails(c)
          \/ Cancel(c) /\ call[c].at # "cancelled start"
    \/ \E a \in Attempts :
          AttemptRuns(a) \/ Established(a) \/ Refused(a) \/ OnAttemptDone(a) \/ Discard(a)
    \/ Close \/ Gathered \/ CloseCancelled

(* In such a step no call enters or leaves its start, except to be         *)
(* cancelled in it (client.py, connect).                                   *)
LEMMA QuietStarts ==
    ASSUME TypeOK, Quiet
    PROVE  UNCHANGED starts /\ \A c \in Callers : InStart(call'[c]) <=> InStart(call[c])
<1>1. ASSUME NEW c \in Callers, NEW to, Moves(c, to),
             \/ InStart(call[c]) /\ to = {"cancelled start"}
             \/ ~InStart(call[c]) /\ to \subseteq {"race", "session", "ended"}
      PROVE  \A d \in Callers : InStart(call'[d]) <=> InStart(call[d])
  BY <1>1 DEF Moves, InStart
<1>2. ASSUME NEW c \in Callers,
             Resolve(c) \/ ResolveFails(c) \/ SessionCreated(c) \/ SessionFails(c) \/ WaitReturns(c)
      PROVE  UNCHANGED starts /\ ~InStart(call[c])
  BY <1>2
  DEF Resolve, ResolveFails, SessionCreated, SessionFails, WaitReturns, WaitOver, life, InStart
<1>3. ASSUME NEW c \in Callers,
             Resolve(c) \/ ResolveFails(c) \/ SessionCreated(c) \/ SessionFails(c)
      PROVE  \E to \in {{"race"}, {"ended"}} : Moves(c, to)
  <2>1. Resolve(c) => NextAttempt(c, 1)
    BY DEF Resolve
  <2> QED BY <1>3, <2>1, CallGoes, SessionGoes, NextGoes, Zenon
<1>4. ASSUME NEW c \in Callers,
             \/ Resolve(c) \/ ResolveFails(c) \/ WaitReturns(c)
             \/ SessionCreated(c) \/ SessionFails(c)
      PROVE  \A d \in Callers : InStart(call'[d]) <=> InStart(call[d])
  <2>1. CASE call' = call
    BY <2>1, Zenon
  <2>2. CASE Moves(c, {"race", "session", "ended"}) \/ Moves(c, {"race"}) \/ Moves(c, {"ended"})
    BY <1>1, <1>2, <1>4, <2>2
  <2> QED BY <1>3, <1>4, <2>1, <2>2, WaitGoes, Zenon
<1>5. ASSUME NEW c \in Callers, Cancel(c), call[c].at # "cancelled start"
      PROVE  UNCHANGED starts /\ \A d \in Callers : InStart(call'[d]) <=> InStart(call[d])
  <2>1. CASE /\ call[c].at \in {"lock", "resolve", "race"} /\ UNCHANGED starts
             /\ Moves(c, {"ended"})
    <3>1. ~InStart(call[c]) /\ {"ended"} \subseteq {"race", "session", "ended"}
      BY <2>1 DEF InStart
    <3> QED BY <1>1, <2>1, <3>1
  <2>2. CASE /\ call[c].at = "start" /\ UNCHANGED starts
             /\ Moves(c, {"cancelled start"})
    <3>1. InStart(call[c])
      BY <2>2 DEF InStart
    <3> QED BY <1>1, <2>2, <3>1
  <2> QED BY <1>5, <2>1, <2>2, CancelGoes, Zenon
<1>6. ASSUME NEW a \in Attempts,
             AttemptRuns(a) \/ Established(a) \/ Refused(a) \/ OnAttemptDone(a) \/ Discard(a)
      PROVE  UNCHANGED << starts, call >>
  BY <1>6 DEF AttemptRuns, Established, Refused, OnAttemptDone, Discard, life
<1>7. ASSUME Close \/ Gathered \/ CloseCancelled
      PROVE  UNCHANGED << starts, call >>
  BY <1>7 DEF Close, Gathered, CloseCancelled
<1>8. UNCHANGED << starts, call >> =>
          UNCHANGED starts /\ \A c \in Callers : InStart(call'[c]) <=> InStart(call[c])
  BY Zenon
<1> QED BY <1>2, <1>4, <1>5, <1>6, <1>7, <1>8, Zenon DEF Quiet

(* A runtime that starts is the only one that somebody waits for, and what *)
(* is open is in place or was left behind (client.py,                      *)
(* _establish_connection; controller.py, start).                           *)
LEMMA StartStep ==
    ASSUME TypeOK, StartInv, CloseInv, [Next]_vars
    PROVE  StartInv'
<1> USE ClientAssumption
<1> DEFINE R == 1 .. MaxRuntimes
<1>1. ASSUME UNCHANGED starts, \A c \in Callers : InStart(call'[c]) <=> InStart(call[c])
      PROVE  StartInv'
  BY <1>1, Zenon DEF starts, StartInv, StartOK
<1>2. CASE Quiet
  BY <1>1, <1>2, QuietStarts, Zenon
<1>3. CASE UNCHANGED vars
  BY <1>1, <1>3, Zenon DEF vars, life
<1>4. ASSUME NEW c \in Callers, Start(c), lock = Nobody, controller = 0,
             UNCHANGED << controller, abandoned >>
      PROVE  StartInv'
  <2>1. PICK r \in Unused : /\ runtime' = [runtime EXCEPT ![r] = "starting"]
                            /\ starter' = [starter EXCEPT ![r] = c]
                            /\ lock' = c
    BY <1>4, Zenon DEF Start
  <2>2. r \in R /\ runtime[r] = "unused"
    BY DEF Unused
  <2>3. \A s \in R : starter[s] = Nobody /\ StartOK(s)
    BY <1>4, Zenon DEF StartInv, StartOK, TypeOK
  <2>4. \A s \in R : /\ runtime'[s] = IF s = r THEN "starting" ELSE runtime[s]
                     /\ starter'[s] = IF s = r THEN c ELSE Nobody
    BY <2>1, <2>3 DEF TypeOK
  <2>5. c # Nobody
    OBVIOUS
  <2>6. \A d \in Callers : InStart(call'[d]) <=> lock' = d
    <3>1. \A d \in Callers : ~InStart(call[d])
      BY <1>4 DEF StartInv
    <3>2. Moves(c, {"start"})
      BY <1>4, CallGoes, Zenon
    <3> QED BY <2>1, <3>1, <3>2 DEF Moves, InStart
  <2>7. ASSUME NEW s \in R PROVE StartOK(s)'
    <3>1. StartOK(s) /\ starter[s] = Nobody
      BY <2>3
    <3>2. CASE s # r
      BY <1>4, <2>4, <3>1, <3>2 DEF StartOK
    <3>3. CASE s = r
      <4>1. r \notin abandoned
        BY <2>2, <3>1, <3>3 DEF StartOK
      <4> QED BY <1>4, <2>1, <2>2, <2>4, <2>5, <3>3, <4>1 DEF StartOK
    <3> QED BY <3>2, <3>3
  <2> QED BY <2>4, <2>6, <2>7 DEF StartInv
<1>5. ASSUME NEW c \in Callers, Connect(c) \/ GetLock(c)
      PROVE  StartInv'
  <2>1. UNCHANGED << controller, abandoned, late >>
    BY <1>5 DEF Connect, GetLock
  <2>2. call[c].at \in {"idle", "lock"}
    BY <1>5 DEF Connect, GetLock
  <2>3. CASE Start(c)
    <3>1. lock' = c /\ c # Nobody
      BY <2>3 DEF Start
    <3>2. lock # c
      BY <2>2 DEF StartInv, InStart
    <3>3. lock = Nobody /\ controller = 0
      BY <1>5, <3>1, <3>2 DEF Connect, GetLock, LockTaken, NoStart
    <3> QED BY <1>4, <2>1, <2>3, <3>3
  <2>4. CASE ~Start(c)
    <3>1. UNCHANGED << lock, runtime, starter >>
      BY <1>5, <2>4 DEF Connect, GetLock, NoStart
    <3>2. Moves(c, {"resolve", "lock", "ended"})
      BY <1>5, <2>4, CallGoes, Zenon
    <3>3. \A d \in Callers : InStart(call'[d]) <=> InStart(call[d])
      BY <2>2, <3>2 DEF Moves, InStart
    <3> QED BY <1>1, <2>1, <3>1, <3>3 DEF starts
  <2> QED BY <2>3, <2>4
<1>6. ASSUME NEW c \in Callers, NEW r \in R, starter[r] = c,
             starter' = [starter EXCEPT ![r] = Nobody], lock' = Nobody,
             NEW to, Moves(c, to), to \in {{"resolve"}, {"ended"}},
             \/ /\ runtime' = [runtime EXCEPT ![r] = "open"]
                /\ controller' = r /\ abandoned' = abandoned
             \/ /\ runtime' = [runtime EXCEPT ![r] = "open"]
                /\ controller' = controller /\ abandoned' = abandoned \cup {r}
             \/ /\ runtime' = [runtime EXCEPT ![r] = "closed"]
                /\ controller' = controller /\ abandoned' = abandoned
             \/ /\ runtime' = runtime
                /\ controller' = controller /\ abandoned' = abandoned \cup {r}
      PROVE  StartInv'
  <2>1. StartOK(r) /\ c # Nobody
    BY DEF StartInv
  <2>2. runtime[r] = "starting" /\ r \notin abandoned /\ lock = c /\ controller = 0
    BY <1>6, <2>1 DEF StartOK
  <2>3. \A s \in R : starter[s] # Nobody => s = r
    BY <1>6, <2>1 DEF StartInv
  <2>4. \A s \in R : starter'[s] = Nobody
    BY <1>6, <2>3 DEF TypeOK
  <2>5. \A d \in Callers : InStart(call'[d]) <=> lock' = d
    <3>1. \A d \in Callers : InStart(call[d]) <=> lock = d
      BY Zenon DEF StartInv
    <3>2. ~InStart(call'[c]) /\ \A d \in Callers : d # c => call'[d] = call[d]
      BY <1>6 DEF Moves, InStart
    <3> QED BY <1>6, <2>2, <3>1, <3>2
  <2>6. ASSUME NEW s \in R PROVE StartOK(s)'
    <3>1. StartOK(s)
      BY DEF StartInv
    <3>2. CASE s # r
      <4>1. runtime'[s] = runtime[s] /\ (s \in abandoned' <=> s \in abandoned)
        BY <1>6, <3>2 DEF TypeOK
      <4>2. starter[s] = Nobody
        BY <2>3, <3>2, Zenon
      <4>3. controller' \in {0, r}
        BY <1>6, <2>2
      <4> QED BY <2>2, <2>4, <3>1, <3>2, <4>1, <4>2, <4>3 DEF StartOK
    <3>3. CASE s = r
      <4>1. /\ starter'[s] = Nobody
            /\ \/ runtime'[s] = "open" /\ controller' = s /\ s \notin abandoned'
               \/ runtime'[s] \in {"open", "starting"} /\ controller' = 0 /\ s \in abandoned'
               \/ runtime'[s] = "closed" /\ controller' = 0 /\ s \notin abandoned'
        BY <1>6, <2>2, <2>4, <3>3 DEF TypeOK
      <4> QED BY <4>1 DEF StartOK
    <3> QED BY <3>2, <3>3
  <2> QED BY <2>4, <2>5, <2>6 DEF StartInv
<1>7. ASSUME NEW c \in Callers, NEW r \in R,
             StartDone(c, r) \/ StartAbandoned(c, r) \/ StartFails(c, r)
      PROVE  StartInv'
  <2>1. /\ starter[r] = c /\ starter' = [starter EXCEPT ![r] = Nobody] /\ lock' = Nobody
        /\ \/ /\ runtime' = [runtime EXCEPT ![r] = "open"]
              /\ controller' = r /\ abandoned' = abandoned
           \/ /\ runtime' = [runtime EXCEPT ![r] = "open"]
              /\ controller' = controller /\ abandoned' = abandoned \cup {r}
           \/ /\ runtime' = [runtime EXCEPT ![r] = "closed"]
              /\ controller' = controller /\ abandoned' = abandoned
    BY <1>7, Zenon DEF StartDone, StartAbandoned, StartFails, StartEnds
  <2>2. Moves(c, {"resolve"}) \/ Moves(c, {"ended"})
    BY <1>7, CallGoes, Zenon
  <2> QED BY <1>6, <2>1, <2>2, ZenonT(60)
<1>8. ASSUME NEW c \in Callers, Cancel(c), call[c].at = "cancelled start"
      PROVE  StartInv'
  <2>1. LeaveStart(c) /\ Moves(c, {"ended"})
    BY <1>8, CancelGoes
  <2>2. PICK r \in R : /\ starter[r] = c
                       /\ starter' = [starter EXCEPT ![r] = Nobody]
                       /\ abandoned' = abandoned \cup {r}
    BY <2>1, Zenon DEF LeaveStart
  <2>3. lock' = Nobody /\ UNCHANGED << controller, runtime >>
    BY <2>1 DEF LeaveStart
  <2> QED BY <1>6, <2>1, <2>2, <2>3, ZenonT(60)
<1>9. ASSUME NEW r \in R, StartAlone(r)
      PROVE  StartInv'
  <2>1. /\ runtime[r] = "starting" /\ starter[r] = Nobody
        /\ starter' = [starter EXCEPT ![r] = Nobody]
        /\ \E x \in {"open", "closed"} : runtime' = [runtime EXCEPT ![r] = x]
        /\ UNCHANGED << controller, lock, abandoned, call >>
    BY <1>9, Zenon DEF StartAlone, StartEnds
  <2>2. starter' = starter
    BY <2>1 DEF TypeOK
  <2>3. ASSUME NEW s \in R PROVE StartOK(s)'
    <3>1. StartOK(s)
      BY DEF StartInv
    <3>2. \/ s # r /\ runtime'[s] = runtime[s]
          \/ s = r /\ runtime'[s] \in {"open", "closed"}
      BY <2>1 DEF TypeOK
    <3> QED BY <2>1, <2>2, <3>1, <3>2 DEF StartOK
  <2>4. \A d \in Callers : InStart(call'[d]) <=> lock' = d
    BY <2>1 DEF StartInv
  <2>5. \A s, t \in R : starter'[s] # Nobody /\ starter'[t] # Nobody => s = t
    BY <2>2 DEF StartInv
  <2> QED BY <2>3, <2>4, <2>5 DEF StartInv
<1>10. ASSUME CloseController
       PROVE  StartInv'
  <2>1. /\ controller # 0 /\ controller' \in {0, controller}
        /\ runtime' = [runtime EXCEPT ![controller] = "closed"]
        /\ UNCHANGED << lock, starter, abandoned, call >>
    BY <1>10, Zenon DEF CloseController, CloseInv
  <2>2. controller \in R
    <3>1. controller \in 0 .. MaxRuntimes
      BY DEF TypeOK
    <3> QED BY <2>1, <3>1
  <2>3. ASSUME NEW s \in R PROVE StartOK(s)'
    <3>1. StartOK(s)
      BY DEF StartInv
    <3>2. runtime'[s] = IF s = controller THEN "closed" ELSE runtime[s]
      BY <2>1 DEF TypeOK
    <3>3. starter[s] = Nobody
      BY <2>1, <3>1 DEF StartOK
    <3> QED BY <2>1, <2>2, <3>1, <3>2, <3>3 DEF StartOK
  <2>4. \A d \in Callers : InStart(call'[d]) <=> lock' = d
    BY <2>1 DEF StartInv
  <2>5. \A s, t \in R : starter'[s] # Nobody /\ starter'[t] # Nobody => s = t
    BY <2>1 DEF StartInv
  <2> QED BY <2>3, <2>4, <2>5 DEF StartInv
<1> QED BY <1>2, <1>3, <1>5, <1>7, <1>8, <1>9, <1>10 DEF Next, Quiet

(* Only a connect() that was starting a runtime meanwhile puts one in      *)
(* place of a closed client (client.py, _close).                           *)
LEMMA CloseStep ==
    ASSUME TypeOK, StartInv, CloseInv, [Next]_vars
    PROVE  CloseInv'
<1>1. CASE Close \/ Gathered \/ CloseCancelled
  BY <1>1, Zenon DEF Close, Gathered, CloseCancelled, AfterGather, starts, CloseInv
<1>2. CASE CloseController
  BY <1>2, Zenon DEF CloseController, CloseInv
<1>3. ASSUME UNCHANGED << closing, controller, late >>
      PROVE  CloseInv'
  BY <1>3, Zenon DEF CloseInv
<1>4. ASSUME NEW c \in Callers, NEW r \in 1 .. MaxRuntimes, StartDone(c, r)
      PROVE  CloseInv'
  <2>1. /\ closing' = closing /\ controller' = r
        /\ late' = IF CanClose THEN late ELSE late \cup {r}
    BY <1>4 DEF StartDone, ending
  <2>2. r # 0
    OBVIOUS
  <2>3. closing = "done" => r \in late'
    BY <2>1 DEF CanClose
  <2> QED BY <2>1, <2>2, <2>3, Zenon DEF CloseInv
<1>5. ASSUME NEW c \in Callers, NEW r \in 1 .. MaxRuntimes,
             StartAbandoned(c, r) \/ StartFails(c, r) \/ StartAlone(r)
      PROVE  UNCHANGED << closing, controller, late >>
  BY <1>5, Zenon DEF StartAbandoned, StartFails, StartAlone, ending
<1>6. ASSUME NEW c \in Callers, Connect(c) \/ GetLock(c) \/ Cancel(c)
      PROVE  UNCHANGED << closing, controller, late >>
  BY <1>6 DEF Connect, GetLock, Cancel, LeaveStart, ending, starts
<1>7. ASSUME NEW c \in Callers,
             Resolve(c) \/ ResolveFails(c) \/ WaitReturns(c) \/ SessionCreated(c) \/ SessionFails(c)
      PROVE  UNCHANGED << closing, controller, late >>
  BY <1>7 DEF Resolve, ResolveFails, WaitReturns, SessionCreated, SessionFails,
              life, ending, starts
<1>8. ASSUME NEW a \in Attempts,
             AttemptRuns(a) \/ Established(a) \/ Refused(a) \/ OnAttemptDone(a) \/ Discard(a)
      PROVE  UNCHANGED << closing, controller, late >>
  BY <1>8 DEF AttemptRuns, Established, Refused, OnAttemptDone, Discard, life, ending, starts
<1>9. UNCHANGED vars => UNCHANGED << closing, controller, late >>
  BY DEF vars, life, ending, starts
<1>10. ASSUME NEW r \in 1 .. MaxRuntimes, StartAlone(r)
       PROVE  UNCHANGED << closing, controller, late >>
  BY <1>10, Zenon DEF StartAlone, ending
<1> QED BY <1>1, <1>2, <1>3, <1>4, <1>5, <1>6, <1>7, <1>8, <1>9, <1>10, Zenon DEF Next

(* The runtimes that are open are owned or leaked, and all but the leaked  *)
(* ones are the same.                                                      *)
LEMMA StartInvOwned ==
    ASSUME TypeOK, StartInv, CloseInv
    PROVE  RuntimeOwned /\ OneRuntime
<1>1. ASSUME NEW r \in 1 .. MaxRuntimes, runtime[r] = "open"
      PROVE  (controller = r /\ CanClose) \/ Leaked(r)
  <2>1. controller = r \/ r \in abandoned
    BY <1>1, Zenon DEF StartInv, StartOK
  <2>2. CASE r \in abandoned
    BY <2>2 DEF Leaked
  <2>3. CASE controller = r
    <3>1. CanClose \/ closing = "cancelled" \/ closing = "done"
      BY DEF TypeOK, CanClose
    <3>2. closing = "done" => r \in late
      BY <2>3 DEF CloseInv
    <3> QED BY <2>3, <3>1, <3>2 DEF Leaked
  <2> QED BY <2>1, <2>2, <2>3
<1>2. RuntimeOwned
  BY <1>1, Zenon DEF RuntimeOwned
<1>3. ASSUME NEW r \in 1 .. MaxRuntimes, NEW s \in 1 .. MaxRuntimes,
             runtime[r] \in {"starting", "open"}, r \notin abandoned,
             runtime[s] \in {"starting", "open"}, s \notin abandoned
      PROVE  r = s
  <2>1. StartOK(r) /\ StartOK(s)
    BY DEF StartInv
  <2>2. runtime[r] = "starting" => starter[r] # Nobody /\ controller = 0
    BY <1>3, <2>1 DEF StartOK
  <2>3. runtime[s] = "starting" => starter[s] # Nobody /\ controller = 0
    BY <1>3, <2>1 DEF StartOK
  <2>4. runtime[r] = "open" => controller = r /\ controller # 0
    BY <1>3, <2>1 DEF StartOK
  <2>5. runtime[s] = "open" => controller = s /\ controller # 0
    BY <1>3, <2>1 DEF StartOK
  <2>6. starter[r] # Nobody /\ starter[s] # Nobody => r = s
    BY DEF StartInv
  <2> QED BY <1>3, <2>2, <2>3, <2>4, <2>5, <2>6
<1>4. OneRuntime
  BY <1>3 DEF OneRuntime
<1> QED BY <1>2, <1>4

------------------------------------------------------------------------------
(* A step in which only calls move: a call that has not come to its race   *)
(* stays ahead of it or ends, a race ends, a session is returned.  The     *)
(* attempts of a call that leaves its race are handed to the background.   *)
LEMMA CallsMove ==
    ASSUME TypeOK, RaceInv,
           UNCHANGED << closing, discarding, dropped, refused, attempt, conn, via >>,
           tasks' \cup background' = tasks \cup background,
           controller' = controller \/ (controller = 0 /\ controller' # 0),
           \A c \in Callers :
              \/ call'[c] = call[c]
              \/ /\ call[c].at \in {"idle", "lock", "start", "cancelled start", "resolve"}
                 /\ call'[c].at \notin {"race", "session"}
              \/ call[c].at = "race" /\ call'[c].at = "ended"
              \/ /\ call[c].at = "session" /\ call'[c].at = "ended"
                 /\ call'[c].winner = call[c].winner
    PROVE  RaceInv'
<1>1. ASSUME NEW a \in Attempts
      PROVE  AttemptInv(a)' /\ Accounted(a)'
  <2>1. a[1] \in Callers /\ AttemptInv(a) /\ Accounted(a)
    BY Pairs DEF RaceInv
  <2>2. Ahead(a)' => Ahead(a)
    BY <2>1 DEF Ahead
  <2>3. CanClose' = CanClose
    BY DEF CanClose
  <2>4. AttemptInv(a)'
    BY <2>1, <2>2, <2>3 DEF AttemptInv
  <2>5. Returned(a) => Returned(a)'
    BY <2>1 DEF Returned
  <2>6. call[a[1]].at = "session" /\ call[a[1]].winner = a[2] =>
            \/ call'[a[1]].at = "session" /\ call'[a[1]].winner = a[2]
            \/ Returned(a)'
    BY <2>1 DEF Returned
  <2>7. conn[a] = "open" /\ CanClose /\ via[a] = controller => controller' = controller
    BY <2>1 DEF AttemptInv
  <2>8. a \in Succeeded(tasks \cup background) => a \in Succeeded(tasks \cup background)'
    BY DEF Succeeded
  <2>9. Stranded(a) => Stranded(a)'
    BY DEF Stranded
  <2>10. conn[a] = "open" /\ Owned(a) => Owned(a)'
    BY <2>3, <2>5, <2>6, <2>7, <2>8 DEF Owned
  <2>11. Accounted(a)'
    BY <2>1, <2>9, <2>10 DEF Accounted
  <2> QED BY <2>4, <2>11
<1>2. (\A c \in Callers : call[c].at = "session" => call[c].winner # 0)'
  BY DEF RaceInv
<1> QED BY <1>1, <1>2 DEF RaceInv

(* The steps in which only calls move (client.py, _establish_connection    *)
(* and connect).                                                           *)
LEMMA CallSteps ==
    ASSUME TypeOK, StartInv, RaceInv, NEW c \in Callers,
           \/ Connect(c) \/ GetLock(c) \/ ResolveFails(c) \/ SessionCreated(c) \/ Cancel(c)
           \/ \E r \in 1 .. MaxRuntimes :
                 StartDone(c, r) \/ StartAbandoned(c, r) \/ StartFails(c, r)
    PROVE  RaceInv'
<1> DEFINE Still == UNCHANGED << closing, discarding, dropped, refused, attempt, conn, via >>
           Early == {"idle", "lock", "start", "cancelled start", "resolve"}
<1>1. ASSUME Still, tasks' \cup background' = tasks \cup background,
             controller' = controller \/ (controller = 0 /\ controller' # 0),
             NEW to, Moves(c, to),
             \/ call[c].at \in Early
                /\ to \in {{"start"}, {"resolve", "lock", "ended"}, {"resolve"},
                           {"cancelled start"}, {"ended"}}
             \/ call[c].at = "race" /\ to = {"ended"}
             \/ call[c].at = "session" /\ to = {"ended"} /\ call'[c].winner = call[c].winner
      PROVE  RaceInv'
  <2>1. \A d \in Callers :
              \/ call'[d] = call[d]
              \/ call[d].at \in Early /\ call'[d].at \notin {"race", "session"}
              \/ call[d].at = "race" /\ call'[d].at = "ended"
              \/ /\ call[d].at = "session" /\ call'[d].at = "ended"
                 /\ call'[d].winner = call[d].winner
    BY <1>1, ZenonT(60) DEF Moves
  <2> QED BY <1>1, <2>1, CallsMove, ZenonT(60)
<1>2. ASSUME Still, UNCHANGED << tasks, background, controller >>, call[c].at \in Early,
             NEW to, Moves(c, to),
             to \in {{"start"}, {"resolve", "lock", "ended"}, {"resolve"}, {"ended"}}
      PROVE  RaceInv'
  BY <1>1, <1>2
<1>3. CASE Connect(c) \/ GetLock(c)
  <2>1. Still /\ UNCHANGED << tasks, background, controller >> /\ call[c].at \in Early
    BY <1>3 DEF Connect, GetLock, race, owners, ending
  <2>2. Moves(c, {"start"}) \/ Moves(c, {"resolve", "lock", "ended"})
    BY <1>3, CallGoes, Zenon
  <2> QED BY <1>2, <2>1, <2>2, ZenonT(60)
<1>4. CASE ResolveFails(c)
  <2>1. Still /\ UNCHANGED << tasks, background, controller >> /\ call[c].at \in Early
    BY <1>4 DEF ResolveFails, race, owners, life, ending, starts
  <2>2. Moves(c, {"ended"})
    BY <1>4, CallGoes, Zenon
  <2> QED BY <1>2, <2>1, <2>2
<1>5. ASSUME NEW r \in 1 .. MaxRuntimes, StartDone(c, r) \/ StartAbandoned(c, r) \/ StartFails(c, r)
      PROVE  RaceInv'
  <2>1. Still /\ UNCHANGED << tasks, background >> /\ starter[r] = c
    BY <1>5 DEF StartDone, StartAbandoned, StartFails, race, owners, ending
  <2>2. controller = 0 /\ lock = c
    BY <2>1, ClientAssumption, ZenonT(60) DEF StartInv, StartOK
  <2>3. call[c].at \in Early
    BY <2>2 DEF StartInv, InStart
  <2>4. controller' = controller \/ controller' # 0
    <3>1. r # 0
      OBVIOUS
    <3> QED BY <1>5, <3>1, Zenon DEF StartDone, StartAbandoned, StartFails
  <2>5. Moves(c, {"resolve"}) \/ Moves(c, {"ended"})
    BY <1>5, CallGoes, Zenon
  <2> QED BY <1>1, <2>1, <2>2, <2>3, <2>4, <2>5
<1>6. CASE SessionCreated(c)
  <2>1. Still /\ UNCHANGED << tasks, background, controller >> /\ call[c].at = "session"
    BY <1>6, ZenonT(60) DEF SessionCreated, race, owners, life, ending, starts
  <2>2. Moves(c, {"ended"}) /\ call'[c].winner = call[c].winner
    BY <1>6, SessionGoes, ZenonT(60)
  <2> QED BY <1>1, <2>1, <2>2, ZenonT(60)
<1>7. CASE Cancel(c)
  <2>1. Still /\ tasks' \cup background' = tasks \cup background
    <3>1. Still
      BY <1>7, Zenon DEF Cancel, ending
    <3>2. /\ tasks' = tasks \ Of(c, tasks) /\ background' = background \cup Of(c, tasks)
          /\ Of(c, tasks) \subseteq tasks
      BY <1>7, Zenon DEF Cancel, Of
    <3> QED BY <3>1, <3>2
  <2>2. UNCHANGED controller
    BY <1>7 DEF Cancel, LeaveStart, starts
  <2>3. \/ call[c].at \in {"lock", "resolve", "race"} /\ Moves(c, {"ended"})
        \/ call[c].at = "start" /\ Moves(c, {"cancelled start"})
        \/ call[c].at = "cancelled start" /\ Moves(c, {"ended"})
    BY <1>7, CancelGoes, Zenon
  <2> QED BY <1>1, <2>1, <2>2, <2>3, ZenonT(60)
<1> QED BY <1>3, <1>4, <1>5, <1>6, <1>7, ZenonT(60)

(* Other steps in which neither an attempt nor a call moves.               *)
LEMMA StartAloneStep ==
    ASSUME TypeOK, RaceInv, NEW r \in 1 .. MaxRuntimes, StartAlone(r)
    PROVE  RaceInv'
<1>1. /\ UNCHANGED << closing, discarding, dropped, refused, attempt, conn, via, controller, call >>
      /\ tasks' \cup background' = tasks \cup background
  BY Zenon DEF StartAlone, race, owners, ending
<1> QED BY <1>1, CallsMove

(* The request to close the connection of an attempt.                      *)
LEMMA CloseRequest ==
    ASSUME TypeOK, NEW a \in Attempts, CloseConnection(a), NEW b \in Attempts
    PROVE  /\ b # a => conn'[b] = conn[b] /\ (b \in refused' <=> b \in refused)
           /\ conn'[a] = "closed" \/ (conn[a] = "open" /\ conn'[a] = "open" /\ a \in refused')
           /\ refused \subseteq refused'
BY DEF CloseConnection, TypeOK

(* The steps of an attempt, of its connection and of the tasks in the      *)
(* background (client.py, attempt, on_attempt_done and discard).           *)
LEMMA AttemptSteps ==
    ASSUME TypeOK, RaceInv, NEW a \in Attempts,
           AttemptRuns(a) \/ Established(a) \/ Refused(a) \/ OnAttemptDone(a) \/ Discard(a)
    PROVE  RaceInv'
<1>1. UNCHANGED << closing, controller, call, tasks, dropped >>
  BY DEF AttemptRuns, Established, Refused, OnAttemptDone, Discard, life, owners, ending, starts
<1>2. ASSUME NEW b \in Attempts
      PROVE  AttemptInv(b)' /\ Accounted(b)'
  <2>1. AttemptInv(b) /\ Accounted(b) /\ AttemptInv(a) /\ Accounted(a)
    BY ZenonT(60) DEF RaceInv
  <2>2. Ahead(b)' = Ahead(b) /\ CanClose' = CanClose /\ Returned(b)' = Returned(b)
    BY <1>1 DEF Ahead, CanClose, Returned
  <2>3. CASE AttemptRuns(a)
    <3>1. UNCHANGED << background, discarding, refused >> /\ attempt[a] = "created"
      BY <2>3 DEF AttemptRuns, owners
    <3>2. CASE UNCHANGED << conn, via >> /\ attempt'[b] = IF b = a THEN "error" ELSE attempt[b]
      <4>1. AttemptInv(b)'
        BY <1>1, <2>1, <2>2, <3>1, <3>2 DEF AttemptInv
      <4>2. Accounted(b)'
        BY <1>1, <2>1, <2>2, <3>1, <3>2, ZenonT(60)
        DEF AttemptInv, Accounted, Owned, Stranded, Succeeded
      <4> QED BY <4>1, <4>2
    <3>3. CASE /\ attempt'[b] = IF b = a THEN "connecting" ELSE attempt[b]
               /\ conn'[b] = IF b = a THEN "pending" ELSE conn[b]
               /\ via'[b] = IF b = a THEN controller ELSE via[b]
               /\ controller # 0
      <4>1. AttemptInv(b)'
        BY <1>1, <2>1, <2>2, <3>1, <3>3, ZenonT(60) DEF AttemptInv
      <4>2. Accounted(b)'
        BY <1>1, <2>1, <2>2, <3>1, <3>3, ZenonT(60) DEF AttemptInv, Accounted, Owned, Stranded, Succeeded
      <4> QED BY <4>1, <4>2
    <3> QED BY <2>3, <3>2, <3>3, ZenonT(40) DEF AttemptRuns, TypeOK
  <2>4. CASE Established(a)
    <3>1. /\ attempt'[b] = IF b = a /\ attempt[a] = "connecting" THEN "ok" ELSE attempt[b]
          /\ conn'[b] = IF b = a THEN "open" ELSE conn[b]
          /\ conn[a] = "pending"
          /\ UNCHANGED << via, background, discarding, refused >>
      BY <2>4 DEF Established, TypeOK, owners
    <3>2. AttemptInv(b)'
      BY <1>1, <2>1, <2>2, <3>1, ZenonT(60) DEF AttemptInv
    <3>3. ASSUME b # a
          PROVE  Accounted(b)'
      BY <1>1, <2>1, <2>2, <3>1, <3>3, ZenonT(60) DEF Accounted, Owned, Stranded, Succeeded
    <3>4. ASSUME b = a /\ attempt[a] = "connecting"
          PROVE  Accounted(b)'
      BY <1>1, <2>1, <3>1, <3>4, ZenonT(60) DEF AttemptInv, Accounted, Owned, Succeeded
    <3>5. ASSUME b = a /\ attempt[a] = "cancelled"
          PROVE  Accounted(b)'
      <4>1. a \in dropped /\ closing # "none" /\ closing # "done"
        BY <2>1, <3>1, <3>5 DEF AttemptInv
      <4>2. closing = "cancelled" \/ CanClose
        BY <4>1 DEF TypeOK, CanClose
      <4>3. CanClose => via[a] = controller
        BY <2>1, <3>1, ZenonT(60) DEF AttemptInv
      <4>4. Owned(b)' \/ Stranded(b)'
        BY <1>1, <2>2, <3>1, <3>5, <4>1, <4>2, <4>3, ZenonT(60) DEF Owned, Stranded
      <4> QED BY <4>4, ZenonT(60) DEF Accounted
    <3>6. Accounted(b)'
      BY <2>1, <3>1, <3>3, <3>4, <3>5, ZenonT(60) DEF AttemptInv
    <3> QED BY <3>2, <3>6
  <2>5. CASE Refused(a)
    <3>1. /\ attempt'[b] = IF b = a /\ attempt[a] = "connecting" THEN "error" ELSE attempt[b]
          /\ conn'[b] = IF b = a THEN "closed" ELSE conn[b]
          /\ conn[a] = "pending"
          /\ UNCHANGED << via, background, discarding, refused >>
      BY <2>5 DEF Refused, TypeOK, owners
    <3>2. AttemptInv(b)'
      BY <1>1, <2>1, <2>2, <3>1, ZenonT(60) DEF AttemptInv
    <3>3. Accounted(b)'
      BY <1>1, <2>1, <2>2, <3>1, ZenonT(60) DEF Accounted, Owned, Stranded, Succeeded
    <3> QED BY <3>2, <3>3
  <2>6. CASE OnAttemptDone(a)
    <3>1. /\ UNCHANGED << attempt, conn, via, refused >>
          /\ attempt[a] \in {"ok", "error", "cancelled"}
          /\ background' = background \ {a}
          /\ discarding' = discarding \cup {d \in {a} : attempt[d] = "ok"}
      BY <2>6, Zenon DEF OnAttemptDone, Finished, Succeeded
    <3>2. AttemptInv(b)'
      BY <1>1, <2>1, <2>2, <3>1, Zenon DEF AttemptInv
    <3>3. b \in Succeeded(tasks \cup background) \cup discarding =>
              b \in Succeeded(tasks \cup background)' \cup discarding'
      BY <1>1, <3>1 DEF Succeeded
    <3>4. Accounted(b)'
      BY <1>1, <2>1, <2>2, <3>1, <3>3, ZenonT(60) DEF Accounted, Owned, Stranded
    <3> QED BY <3>2, <3>4
  <2>7. CASE Discard(a)
    <3>1. /\ a \in discarding /\ discarding' = discarding \ {a}
          /\ UNCHANGED << attempt, via, background >> /\ CloseConnection(a)
      BY <2>7 DEF Discard
    <3>2. /\ b # a => conn'[b] = conn[b] /\ (b \in refused' <=> b \in refused)
          /\ conn'[a] = "closed" \/ (conn[a] = "open" /\ conn'[a] = "open" /\ a \in refused')
      BY <3>1, CloseRequest, ZenonT(60)
    <3>3. AttemptInv(b)'
      BY <1>1, <2>1, <2>2, <3>1, <3>2, ZenonT(60) DEF AttemptInv
    <3>4. Accounted(b)'
      BY <1>1, <2>1, <2>2, <3>1, <3>2 DEF Accounted, Owned, Stranded, Succeeded
    <3> QED BY <3>3, <3>4
  <2> QED BY <2>3, <2>4, <2>5, <2>6, <2>7
<1>3. (\A c \in Callers : call[c].at = "session" => call[c].winner # 0)'
  BY <1>1, ZenonT(60) DEF RaceInv
<1> QED BY <1>2, <1>3, ZenonT(60) DEF RaceInv

(* The race: the first attempt, a return of asyncio.wait, a session that   *)
(* fails (client.py, _race_addresses and connect).                         *)
LEMMA RaceSteps ==
    ASSUME TypeOK, RaceInv, NEW c \in Callers,
           Resolve(c) \/ WaitReturns(c) \/ SessionFails(c)
    PROVE  RaceInv'
<1> USE ClientAssumption
<1>0. \A k, m \in 1 .. Count : m > k => m # k /\ m >= k
  OBVIOUS
<1>1. UNCHANGED << closing, controller, via, dropped >>
  BY DEF Resolve, WaitReturns, SessionFails, life, ending, starts
<1>2. ASSUME NEW b \in Attempts
      PROVE  AttemptInv(b)' /\ Accounted(b)'
  <2>1. AttemptInv(b) /\ Accounted(b) /\ CanClose' = CanClose
    BY <1>1 DEF RaceInv, CanClose
  <2>2. b[1] \in Callers /\ b[2] \in 1 .. Count /\ b = << b[1], b[2] >>
    BY Pairs
  <2>3. ASSUME NEW n \in 1 .. Count, NextAttempt(c, n),
               UNCHANGED << conn, background, discarding, refused >>,
               \/ call[c].at = "resolve" /\ n = 1
               \/ call[c].at = "race" /\ n = call[c].next + 1,
               NEW D \in SUBSET tasks, tasks' = (tasks \ D) \cup {<< c, n >>},
               \A d \in D : attempt[d] \in {"error", "cancelled"}
        PROVE  AttemptInv(b)' /\ Accounted(b)'
    <3>1. attempt'[b] = IF b = << c, n >> THEN "created" ELSE attempt[b]
      BY <2>3 DEF NextAttempt, TypeOK
    <3>3. Moves(c, {"race"}) /\ call'[c].next = n
      BY <2>3, NextGoes
    <3>4. /\ b[1] = c => call'[b[1]].at = "race" /\ call'[b[1]].next = n
          /\ b[1] # c => call'[b[1]] = call[b[1]]
      BY <2>2, <3>3 DEF Moves
    <3>5. b = << c, n >> => b[1] = c /\ b[2] = n
      BY Pairs
    <3>6. call[c].next \in 0 .. Count
      BY CallType
    <3> DEFINE x == call[c].next
    <3> HIDE DEF x
    <3>11. call[c].at = "race" => \A m \in 1 .. Count : m >= n => m > x
      <4>1. x \in 0 .. Count
        BY <3>6 DEF x
      <4>2. call[c].at = "race" => n = x + 1
        BY <2>3 DEF x
      <4> QED BY <4>1, <4>2
    <3>7. b = << c, n >> => Ahead(b)
      <4>1. n >= n
        BY <2>3
      <4>2. call[c].at = "race" => n > call[c].next
        BY <2>3, <3>11, <4>1 DEF x
      <4> QED BY <2>3, <3>5, <4>2 DEF Ahead
    <3>8. Ahead(b)' => Ahead(b) /\ b # << c, n >>
      <4>1. CASE b[1] # c
        BY <3>4, <3>5, <4>1 DEF Ahead
      <4>2. CASE b[1] = c
        <5>1. Ahead(b)' => b[2] > n
          BY <3>4, <4>2 DEF Ahead
        <5>2. b[2] > n => b[2] # n /\ b[2] >= n
          BY <1>0, <2>2, <2>3, Zenon
        <5> QED BY <2>2, <2>3, <3>5, <3>11, <4>2, <5>1, <5>2 DEF Ahead, x
      <4> QED BY <4>1, <4>2
    <3>9. AttemptInv(b)'
      BY <1>1, <2>1, <2>3, <3>1, <3>4, <3>7, <3>8, ZenonT(60) DEF AttemptInv
    <3>12. b \in Succeeded(tasks \cup background) \cup discarding =>
              b \in Succeeded(tasks \cup background)' \cup discarding'
      <4>1. b \in Succeeded(tasks \cup background) => b # << c, n >>
        BY <2>1, <3>7 DEF Succeeded, AttemptInv
      <4> QED BY <2>3, <3>1, <4>1 DEF Succeeded
    <3>13. call[b[1]].at \in {"session", "ended"} => call'[b[1]] = call[b[1]]
      BY <2>3, <3>4
    <3>14. Owned(b) => Owned(b)'
      BY <1>1, <2>1, <3>12, <3>13, ZenonT(60) DEF Owned, Returned
    <3>15. Stranded(b) => Stranded(b)'
      BY <1>1, <2>3, ZenonT(60) DEF Stranded
    <3>10. Accounted(b)'
      BY <2>1, <2>3, <3>14, <3>15 DEF Accounted
    <3> QED BY <3>9, <3>10
  <2>4. CASE Resolve(c)
    <3>1. /\ NextAttempt(c, 1) /\ UNCHANGED << conn, background, discarding, refused >>
          /\ call[c].at = "resolve" /\ tasks' = (tasks \ {}) \cup {<< c, 1 >>}
      BY <2>4 DEF Resolve
    <3>2. 1 \in 1 .. Count /\ {} \in SUBSET tasks
      OBVIOUS
    <3> QED BY <2>3, <3>1, <3>2, Zenon
  <2>5. CASE WaitReturns(c)
    <3> DEFINE done == Finished(Of(c, tasks))
               n == call[c].next + 1
    <3>1. call[c].at = "race" /\ UNCHANGED << conn, refused >>
      BY <2>5 DEF WaitReturns, WaitOver
    <3>2. ASSUME NEW w \in Succeeded(done),
                 call' = [call EXCEPT ![c] = [At("session") EXCEPT !.winner = w[2]]],
                 discarding' = discarding \cup (Succeeded(done) \ {w}),
                 tasks' = tasks \ Of(c, tasks),
                 background' = background \cup (Of(c, tasks) \ done),
                 UNCHANGED attempt
          PROVE  AttemptInv(b)' /\ Accounted(b)'
      <4>1. w \in Attempts /\ w[1] = c /\ attempt[w] = "ok"
        BY DEF Succeeded, Finished, Of, TypeOK
      <4>2. Moves(c, {"session"}) /\ call'[c].winner = w[2]
        BY <3>2, WinnerGoes, ZenonT(60)
      <4>4. /\ b[1] = c => call'[b[1]].at = "session" /\ call'[b[1]].winner = w[2]
            /\ b[1] # c => call'[b[1]] = call[b[1]]
        BY <2>2, <4>2 DEF Moves
      <4>5. b[1] = c /\ b[2] = w[2] => b = w
        BY <2>2, <4>1, Pairs, ZenonT(60)
      <4>6. Ahead(b)' => Ahead(b)
        BY <4>4 DEF Ahead
      <4>7. /\ b \in tasks' \cup background' => b \in tasks \cup background
            /\ b \in (tasks \cup background) \ (tasks' \cup background') =>
                   /\ b[1] = c /\ attempt[b] \in {"ok", "error", "cancelled"}
                   /\ attempt[b] = "ok" => b = w \/ b \in discarding'
            /\ b \in discarding' => b \in discarding \/ attempt[b] = "ok"
            /\ b \in discarding => b \in discarding'
        BY <3>2 DEF Succeeded, Finished, Of
      <4>8. AttemptInv(b)'
        BY <1>1, <2>1, <3>1, <3>2, <4>1, <4>4, <4>5, <4>6, <4>7 DEF AttemptInv
      <4>10. b \in Succeeded(tasks \cup background) \cup discarding =>
                 \/ b \in Succeeded(tasks \cup background)' \cup discarding'
                 \/ b = w
        BY <3>2, <4>7 DEF Succeeded
      <4>11. b = w => call'[b[1]].at = "session" /\ call'[b[1]].winner = b[2]
        BY <4>1, <4>4
      <4>12. call[b[1]].at \in {"session", "ended"} => call'[b[1]] = call[b[1]]
        BY <3>1, <4>4, ZenonT(60)
      <4>13. Owned(b) => Owned(b)'
        BY <1>1, <2>1, <4>10, <4>11, <4>12 DEF Owned, Returned
      <4>14. Stranded(b) => Stranded(b)'
        BY <1>1, <3>1 DEF Stranded
      <4>9. Accounted(b)'
        BY <2>1, <3>1, <4>13, <4>14 DEF Accounted
      <4> QED BY <4>8, <4>9
    <3>3. ASSUME Succeeded(done) = {}
          PROVE  \A d \in done : attempt[d] \in {"error", "cancelled"}
      BY <3>3 DEF Succeeded, Finished
    <3>4. done \in SUBSET tasks
      BY DEF Finished, Of
    <3>5. CASE /\ Succeeded(done) = {} /\ n <= Count
               /\ NextAttempt(c, n)
               /\ tasks' = (tasks \ done) \cup {<< c, n >>}
               /\ UNCHANGED << discarding, background >>
      <4>1. n \in 1 .. Count
        <5>1. call[c].next \in 0 .. Count
          BY CallType
        <5> QED BY <3>5, <5>1
      <4> HIDE DEF done
      <4> QED BY <2>3, <3>1, <3>3, <3>4, <3>5, <4>1, ZenonT(60)
    <3>6. CASE /\ Succeeded(done) = {}
               /\ tasks' = tasks \ done
               /\ call' = IF Of(c, tasks) = done THEN [call EXCEPT ![c] = Ended] ELSE call
               /\ UNCHANGED << attempt, discarding, background >>
      <4>1. \A d \in done : attempt[d] \in {"error", "cancelled"}
        BY <3>3, <3>6
      <4>2. call'[b[1]] = call[b[1]] \/ (b[1] = c /\ call'[b[1]].at = "ended")
        <5>1. CASE call' = call
          BY <5>1
        <5>2. CASE call' = [call EXCEPT ![c] = Ended]
          <6>1. \A d \in Callers : call'[d] = IF d = c THEN Ended ELSE call[d]
            BY <5>2, CallMoves, Zenon
          <6> QED BY <2>2, <6>1, Fields
        <5> QED BY <3>6, <5>1, <5>2
      <4> HIDE DEF done
      <4>3. Ahead(b)' => Ahead(b)
        BY <4>2, ZenonT(40) DEF Ahead
      <4>4. AttemptInv(b)'
        <5>1. /\ b \in tasks' \cup background' => b \in tasks \cup background
              /\ attempt[b] \in {"created", "connecting"} /\ b \in tasks \cup background =>
                     b \in tasks' \cup background'
          BY <3>4, <3>6, <4>1
        <5>2. call'[b[1]].at = "session" => call'[b[1]] = call[b[1]]
          BY <4>2
        <5>3. UNCHANGED << attempt, discarding, conn >>
          BY <3>1, <3>6, Zenon
        <5> QED BY <1>1, <2>1, <4>3, <5>1, <5>2, <5>3, SMTT(30) DEF AttemptInv
      <4>6. b \in Succeeded(tasks \cup background) => b \in Succeeded(tasks \cup background)'
        BY <3>6, <4>1 DEF Succeeded
      <4>7. call[b[1]].at \in {"session", "ended"} => call'[b[1]] = call[b[1]]
        BY <3>1, <3>6, <4>2, ZenonT(60)
      <4>8. Owned(b) => Owned(b)'
        BY <1>1, <2>1, <3>6, <4>6, <4>7, ZenonT(60) DEF Owned, Returned
      <4>9. Stranded(b) => Stranded(b)'
        BY <1>1, <3>1 DEF Stranded
      <4>5. Accounted(b)'
        BY <2>1, <3>1, <4>8, <4>9 DEF Accounted
      <4> QED BY <4>4, <4>5
    <3> QED BY <2>5, <3>2, <3>5, <3>6 DEF WaitReturns
  <2>6. CASE SessionFails(c)
    <3> DEFINE w == << c, call[c].winner >>
    <3>1. /\ call[c].at = "session" /\ CloseConnection(w)
          /\ UNCHANGED << tasks, background, discarding, attempt >>
      BY <2>6 DEF SessionFails
    <3>2. Moves(c, {"ended"})
      BY <2>6, CallGoes, Zenon
    <3>3. b[1] = c => call'[b[1]].at = "ended"
      BY <3>2 DEF Moves
    <3>4. b[1] # c => call'[b[1]] = call[b[1]]
      BY <2>2, <3>2 DEF Moves
    <3>5. w[1] = c /\ w[2] = call[c].winner
      BY Pairs
    <3>6. b = w <=> b[1] = c /\ call[b[1]].winner = b[2]
      BY <2>2, <3>5
    <3>11. w \in Attempts
      <4>1. call[c].winner \in 0 .. Count /\ call[c].winner # 0
        BY <3>1, CallType DEF RaceInv
      <4>2. call[c].winner \in 1 .. Count
        BY <4>1
      <4> QED BY <4>2, Pairs, Zenon
    <3> HIDE DEF w
    <3>7. /\ b # w => conn'[b] = conn[b] /\ (b \in refused' <=> b \in refused)
          /\ conn'[w] = "closed" \/ (conn[w] = "open" /\ conn'[w] = "open" /\ w \in refused')
      BY <3>1, <3>11, CloseRequest
    <3>8. Ahead(b)' => Ahead(b)
      BY <3>3, <3>4, ZenonT(40) DEF Ahead
    <3>12. b = w => attempt[b] = "ok" /\ conn[b] # "none"
      BY <2>1, <3>1, <3>6 DEF AttemptInv
    <3>13. conn'[b] = conn[b] \/ (attempt[b] = "ok" /\ conn'[b] = "closed" /\ conn[b] # "none")
      BY <3>7, <3>12
    <3>14. call'[b[1]].at = "session" => call'[b[1]] = call[b[1]]
      BY <3>3, <3>4, ZenonT(60)
    <3>9. AttemptInv(b)'
      BY <1>1, <2>1, <3>1, <3>8, <3>13, <3>14, SMTT(30) DEF AttemptInv
    <3>10. Accounted(b)'
      <4>1. CASE b = w
        <5>1. conn'[b] = "open" => b \in refused'
          BY <3>7, <4>1
        <5> QED BY <3>9, <5>1 DEF Accounted, Stranded
      <4>2. CASE b # w
        <5>1. /\ call[b[1]].at = "session" /\ call[b[1]].winner = b[2] => b[1] # c
              /\ Returned(b) => b[1] # c
          BY <3>1, <3>6, <4>2 DEF Returned
        <5>2. Returned(b) => Returned(b)'
          BY <3>4, <5>1 DEF Returned
        <5>3. /\ call[b[1]].at = "session" /\ call[b[1]].winner = b[2] =>
                     call'[b[1]].at = "session" /\ call'[b[1]].winner = b[2]
          BY <3>4, <5>1
        <5>4. b \in Succeeded(tasks \cup background)' <=> b \in Succeeded(tasks \cup background)
          BY <3>1, ZenonT(60) DEF Succeeded
        <5>5. Owned(b) => Owned(b)'
          BY <1>1, <2>1, <3>1, <5>2, <5>3, <5>4 DEF Owned
        <5>6. Stranded(b) => Stranded(b)'
          BY <1>1, <3>7, <4>2 DEF Stranded
        <5> QED BY <2>1, <3>7, <3>9, <4>2, <5>5, <5>6, ZenonT(60) DEF Accounted
      <4> QED BY <4>1, <4>2
    <3> QED BY <3>9, <3>10
  <2> QED BY <2>4, <2>5, <2>6
<1>3. ASSUME NEW d \in Callers, call'[d].at = "session"
      PROVE  call'[d].winner # 0
  <2>1. CASE call'[d] = call[d]
    BY <1>3, <2>1, ZenonT(60) DEF RaceInv
  <2>2. ASSUME NEW to, Moves(c, to), "session" \notin to
        PROVE  call'[d] = call[d]
    BY <1>3, <2>2 DEF Moves
  <2>3. CASE Resolve(c) \/ SessionFails(c)
    <3>1. Resolve(c) => NextAttempt(c, 1)
      BY DEF Resolve
    <3>2. Moves(c, {"race"}) \/ Moves(c, {"ended"})
      BY <2>3, <3>1, CallGoes, NextGoes, Zenon
    <3> QED BY <2>1, <2>2, <3>2
  <2>4. CASE WaitReturns(c)
    <3>1. \/ call' = call
          \/ \E n : NextAttempt(c, n)
          \/ \E w \in Attempts : call' = [call EXCEPT ![c] = [At("session") EXCEPT !.winner = w[2]]]
          \/ call' = [call EXCEPT ![c] = Ended]
      BY <2>4 DEF WaitReturns, Succeeded, Finished, Of, TypeOK
    <3>2. ASSUME NEW w \in Attempts,
                 call' = [call EXCEPT ![c] = [At("session") EXCEPT !.winner = w[2]]]
          PROVE  call'[d].winner # 0
      <4>1. Moves(c, {"session"}) /\ call'[c].winner = w[2]
        BY <3>2, WinnerGoes, ZenonT(60)
      <4>2. w[2] \in 1 .. Count
        BY Pairs
      <4>3. w[2] # 0
        BY <4>2
      <4>4. d # c => call'[d] = call[d]
        BY <4>1 DEF Moves
      <4> QED BY <2>1, <4>1, <4>3, <4>4
    <3>3. call' = [call EXCEPT ![c] = Ended] => Moves(c, {"ended"})
      <4>1. Ended.at \in {"ended"}
        BY Fields
      <4> QED BY <4>1, MovesTo, Zenon
    <3>4. (\E n : NextAttempt(c, n)) => Moves(c, {"race"})
      BY NextGoes, Zenon
    <3>5. "session" \notin {"ended"} /\ "session" \notin {"race"}
      OBVIOUS
    <3> QED BY <2>1, <2>2, <3>1, <3>2, <3>3, <3>4, <3>5, Zenon
  <2> QED BY <2>3, <2>4, ZenonT(60)
<1> QED BY <1>2, <1>3 DEF RaceInv

(* close(): what runs in the background is cancelled, then the controller  *)
(* closes what is left (client.py, _close).                                *)
LEMMA CloseSteps ==
    ASSUME TypeOK, CloseInv, RaceInv,
           Close \/ Gathered \/ CloseCancelled \/ CloseController
    PROVE  RaceInv'
<1>1. UNCHANGED << call, tasks, background, via, refused >>
  BY DEF Close, Gathered, CloseCancelled, CloseController, race, owners
<1>2. ASSUME NEW b \in Attempts
      PROVE  AttemptInv(b)' /\ Accounted(b)'
  <2>1. AttemptInv(b) /\ Accounted(b)
    BY DEF RaceInv
  <2>2. Ahead(b)' = Ahead(b) /\ Returned(b)' = Returned(b)
    BY <1>1 DEF Ahead, Returned
  <2>3. CASE Close
    <3>1. /\ closing = "none" /\ UNCHANGED << controller, conn >>
          /\ discarding' = {}
          /\ closing' \in {"gather", "controller", "done"}
          /\ closing' = "done" => controller = 0
          /\ attempt'[b] = IF b \in background /\ attempt[b] \notin {"ok", "error", "cancelled"}
                           THEN "cancelled" ELSE attempt[b]
          /\ b \in dropped' <=>
                 \/ b \in discarding
                 \/ b \in background /\ attempt[b] \notin {"ok", "error", "cancelled"}
      BY <2>3, ZenonT(60) DEF Close, AfterGather, Finished, starts
    <3>2. CanClose /\ (CanClose' \/ closing' = "done") /\ closing' # "none" /\ b \notin dropped
      BY <2>1, <3>1 DEF CanClose, AttemptInv
    <3>3. via[b] # 0 => via[b] = controller
      BY <2>1, <3>2 DEF AttemptInv
    <3>4. AttemptInv(b)'
      BY <1>1, <2>1, <2>2, <3>1, <3>2, <3>3, Zenon DEF AttemptInv
    <3>5. conn[b] = "open" => CanClose' /\ via[b] = controller
      BY <2>1, <3>1, <3>2, <3>3 DEF AttemptInv
    <3>6. b \in Succeeded(tasks \cup background) => b \in Succeeded(tasks \cup background)'
      BY <1>1, <3>1, ZenonT(60) DEF Succeeded
    <3>7. conn[b] = "open" /\ Owned(b) => Owned(b)'
      BY <1>1, <2>2, <3>1, <3>2, <3>5, <3>6 DEF Owned
    <3>8. Stranded(b) => Stranded(b)'
      BY <1>1, <3>1 DEF Stranded
    <3>9. Accounted(b)'
      BY <2>1, <3>1, <3>7, <3>8 DEF Accounted
    <3> QED BY <3>4, <3>9, ZenonT(60)
  <2>4. CASE Gathered
    <3>1. /\ closing = "gather" /\ UNCHANGED << controller, conn, attempt, discarding, dropped >>
          /\ closing' \in {"controller", "done"}
          /\ closing' = "done" => controller = 0
      BY <2>4 DEF Gathered, AfterGather, race, owners, starts
    <3>2. CanClose /\ (CanClose' \/ closing' = "done") /\ closing' # "none"
      BY <3>1 DEF CanClose
    <3>3. closing' = "done" => conn[b] = "none"
      BY <2>1, <3>1, <3>2, ZenonT(60) DEF AttemptInv
    <3>4. AttemptInv(b)'
      BY <1>1, <2>1, <2>2, <3>1, <3>2, <3>3, ZenonT(60) DEF AttemptInv
    <3>5. Accounted(b)'
      BY <1>1, <2>1, <2>2, <3>1, <3>2, <3>3 DEF Accounted, Owned, Stranded, Succeeded
    <3> QED BY <3>4, <3>5
  <2>5. CASE CloseCancelled
    <3>1. /\ UNCHANGED << controller, conn, attempt, discarding, dropped >>
          /\ closing \in {"gather", "controller"}
          /\ closing' \in {"cancelled", "cancelled controller"}
      BY <2>5 DEF CloseCancelled, race, owners, starts
    <3>2. CanClose /\ (CanClose' \/ closing' = "cancelled") /\ closing' # "none"
      BY <3>1 DEF CanClose
    <3>4. AttemptInv(b)'
      BY <1>1, <2>1, <2>2, <3>1, <3>2 DEF AttemptInv
    <3>5. Accounted(b)'
      BY <1>1, <2>1, <2>2, <3>1, <3>2 DEF Accounted, Owned, Stranded, Succeeded
    <3> QED BY <3>4, <3>5
  <2>6. CASE CloseController
    <3>1. /\ closing \in {"controller", "cancelled controller"}
          /\ closing' \in {"done", "cancelled"}
          /\ conn'[b] = IF via[b] = controller THEN "closed" ELSE conn[b]
          /\ attempt'[b] = IF via[b] = controller /\ attempt[b] = "connecting"
                           THEN "error" ELSE attempt[b]
          /\ UNCHANGED << discarding, dropped >>
      BY <2>6 DEF CloseController, owners
    <3>2. controller # 0 /\ CanClose /\ ~CanClose'
      BY <3>1 DEF CloseInv, CanClose
    <3>3. conn'[b] = IF via[b] = 0 THEN "none" ELSE "closed"
      BY <2>1, <3>1, <3>2 DEF AttemptInv
    <3>4. attempt[b] = "connecting" => via[b] = controller
      BY <2>1, <3>2, ZenonT(60) DEF AttemptInv
    <3>5. AttemptInv(b)'
      BY <1>1, <2>1, <2>2, <3>1, <3>2, <3>3, <3>4, ZenonT(60) DEF AttemptInv
    <3>6. Accounted(b)'
      BY <3>3, ZenonT(60) DEF Accounted
    <3> QED BY <3>5, <3>6
  <2> QED BY <2>3, <2>4, <2>5, <2>6
<1>3. (\A c \in Callers : call[c].at = "session" => call[c].winner # 0)'
  BY <1>1 DEF RaceInv
<1> QED BY <1>2, <1>3, ZenonT(60) DEF RaceInv

------------------------------------------------------------------------------
(* The three parts of the type invariant.                                  *)
Calls == [at : {"idle", "lock", "start", "cancelled start", "resolve",
                "race", "session", "ended"},
          next : 0 .. Count, winner : 0 .. Count]

LifeOK ==
    /\ closed \in BOOLEAN
    /\ closing \in {"none", "gather", "controller", "cancelled controller", "done",
                    "cancelled"}
    /\ gathered \subseteq Attempts
    /\ controller \in 0 .. MaxRuntimes
    /\ lock \in Callers \cup {Nobody}
    /\ runtime \in [1 .. MaxRuntimes -> {"unused", "starting", "open", "closed"}]
    /\ starter \in [1 .. MaxRuntimes -> Callers \cup {Nobody}]
    /\ abandoned \subseteq 1 .. MaxRuntimes /\ late \subseteq 1 .. MaxRuntimes

RaceOK ==
    /\ tasks \subseteq Attempts /\ background \subseteq Attempts
    /\ discarding \subseteq Attempts
    /\ attempt \in [Attempts -> {"none", "created", "connecting", "ok", "error", "cancelled"}]
    /\ conn \in [Attempts -> {"none", "pending", "open", "closed"}]
    /\ via \in [Attempts -> 0 .. MaxRuntimes]
    /\ dropped \subseteq Attempts /\ refused \subseteq Attempts

(* The type invariant, in parts.                                            *)
LEMMA TypeParts == TypeOK <=> LifeOK /\ RaceOK /\ call \in [Callers -> Calls]
BY Zenon DEF TypeOK, LifeOK, RaceOK, Calls

(* The records that calls become.                                          *)
LEMMA NewCalls ==
    /\ \A p \in {"resolve", "lock", "start", "ended"} : At(p) \in Calls
    /\ \A n \in 0 .. Count : /\ [At("race") EXCEPT !.next = n] \in Calls
                             /\ [At("session") EXCEPT !.winner = n] \in Calls
    /\ Ended \in Calls
    /\ \A q \in Calls : /\ [q EXCEPT !.at = "ended"] \in Calls
                        /\ [q EXCEPT !.at = "cancelled start"] \in Calls
<1>1. 0 \in 0 .. Count
  BY ClientAssumption
<1>2. \A p \in {"resolve", "lock", "start", "ended"} : At(p) \in Calls
  BY <1>1 DEF At, Calls
<1>3. Ended \in Calls
  BY <1>1 DEF Ended, Calls
<1>4. \A n \in 0 .. Count : /\ [at |-> "race", next |-> n, winner |-> 0] \in Calls
                            /\ [at |-> "session", next |-> 0, winner |-> n] \in Calls
  BY <1>1 DEF Calls
<1>5. \A n \in 0 .. Count : /\ [At("race") EXCEPT !.next = n] \in Calls
                            /\ [At("session") EXCEPT !.winner = n] \in Calls
  BY <1>4, Fields, ZenonT(40)
<1>6. \A q \in Calls : /\ [q EXCEPT !.at = "ended"] \in Calls
                       /\ [q EXCEPT !.at = "cancelled start"] \in Calls
  BY DEF Calls
<1> QED BY <1>2, <1>3, <1>5, <1>6

(* The calls keep their type.                                              *)
LEMMA CallTypeStep ==
    ASSUME TypeOK, [Next]_vars
    PROVE  call' \in [Callers -> Calls]
<1> USE ClientAssumption
<1>1. call \in [Callers -> Calls]
  BY TypeParts
<1>2. ASSUME NEW c \in Callers, NEW v \in Calls, call' = [call EXCEPT ![c] = v]
      PROVE  call' \in [Callers -> Calls]
  BY <1>1, <1>2
<1>3. ASSUME NEW c \in Callers,
             \/ Connect(c) \/ GetLock(c) \/ ResolveFails(c) \/ SessionFails(c)
             \/ \E r \in 1 .. MaxRuntimes :
                   StartDone(c, r) \/ StartAbandoned(c, r) \/ StartFails(c, r)
      PROVE  call' \in [Callers -> Calls]
  <2>1. \/ \E p \in {"resolve", "lock", "start", "ended"} : call' = [call EXCEPT ![c] = At(p)]
        \/ call' = [call EXCEPT ![c] = Ended]
    BY <1>3, Zenon
    DEF Connect, GetLock, StartDone, StartAbandoned, StartFails, ResolveFails, SessionFails, Start
  <2> QED BY <1>2, <2>1, NewCalls, Zenon
<1>4. ASSUME NEW c \in Callers, Resolve(c)
      PROVE  call' \in [Callers -> Calls]
  <2>1. call' = [call EXCEPT ![c] = [At("race") EXCEPT !.next = 1]] /\ 1 \in 0 .. Count
    BY <1>4 DEF Resolve, NextAttempt
  <2> QED BY <1>2, <2>1, NewCalls, Zenon
<1>5. ASSUME NEW c \in Callers, SessionCreated(c) \/ Cancel(c)
      PROVE  call' \in [Callers -> Calls]
  <2>1. \/ call' = [call EXCEPT ![c] = Ended]
        \/ call' = [call EXCEPT ![c] = [call[c] EXCEPT !.at = "ended"]]
        \/ call' = [call EXCEPT ![c] = [call[c] EXCEPT !.at = "cancelled start"]]
    BY <1>5 DEF SessionCreated, Cancel
  <2>2. call[c] \in Calls
    BY <1>1
  <2> QED BY <1>2, <2>1, <2>2, NewCalls, Zenon
<1>6. ASSUME NEW c \in Callers, WaitReturns(c)
      PROVE  call' \in [Callers -> Calls]
  <2>1. \A w \in Succeeded(Finished(Of(c, tasks))) : w[2] \in 0 .. Count
    <3>1. \A w \in Succeeded(Finished(Of(c, tasks))) : w \in Attempts
      BY DEF Succeeded, Finished, Of, TypeOK
    <3>2. \A w \in Attempts : w[2] \in 0 .. Count
      <4>1. 1 .. Count \subseteq 0 .. Count
        OBVIOUS
      <4> QED BY <4>1, Pairs, Zenon
    <3> QED BY <3>1, <3>2
  <2>2. call[c].next + 1 <= Count => call[c].next + 1 \in 0 .. Count
    <3>1. call[c].next \in 0 .. Count
      BY CallType
    <3> QED BY <3>1
  <2>3. \/ call' = call
        \/ call' = [call EXCEPT ![c] = Ended]
        \/ \E n \in 0 .. Count : call' = [call EXCEPT ![c] = [At("session") EXCEPT !.winner = n]]
        \/ \E n \in 0 .. Count : call' = [call EXCEPT ![c] = [At("race") EXCEPT !.next = n]]
    BY <1>6, <2>1, <2>2 DEF WaitReturns, NextAttempt
  <2> QED BY <1>1, <1>2, <2>3, NewCalls, Zenon
<1>7. ASSUME NEW a \in Attempts,
             AttemptRuns(a) \/ Established(a) \/ Refused(a) \/ OnAttemptDone(a) \/ Discard(a)
      PROVE  call' = call
  BY <1>7, ZenonT(60) DEF AttemptRuns, Established, Refused, OnAttemptDone, Discard
<1>8. Close \/ Gathered \/ CloseCancelled \/ CloseController \/ UNCHANGED vars => call' = call
  BY DEF Close, Gathered, CloseCancelled, CloseController, vars
<1>9. ASSUME NEW r \in 1 .. MaxRuntimes, StartAlone(r)
      PROVE  call' = call
  BY <1>9, Zenon DEF StartAlone
<1> QED BY <1>1, <1>3, <1>4, <1>5, <1>6, <1>7, <1>8, <1>9 DEF Next

(* Lock, controller, runtimes and the progress of close() keep their types.*)
LEMMA LifeTypeStep ==
    ASSUME TypeOK, [Next]_vars
    PROVE  LifeOK'
<1> USE ClientAssumption
<1>1. LifeOK
  BY TypeParts
<1>2. ASSUME UNCHANGED ending, NEW r \in 1 .. MaxRuntimes, NEW c \in Callers,
             controller' \in {controller, r}, lock' \in {lock, c, Nobody},
             runtime' = runtime \/ \E x \in {"starting", "open", "closed"} :
                                       runtime' = [runtime EXCEPT ![r] = x],
             starter' = starter \/ \E x \in {c, Nobody} : starter' = [starter EXCEPT ![r] = x],
             abandoned' \subseteq abandoned \cup {r}, late' \subseteq late \cup {r}
      PROVE  LifeOK'
  <2>1. runtime' \in [1 .. MaxRuntimes -> {"unused", "starting", "open", "closed"}]
    BY <1>1, <1>2 DEF LifeOK
  <2>2. starter' \in [1 .. MaxRuntimes -> Callers \cup {Nobody}]
    <3>1. starter \in [1 .. MaxRuntimes -> Callers \cup {Nobody}]
      BY <1>1, Zenon DEF LifeOK
    <3>2. c \in Callers \cup {Nobody} /\ Nobody \in Callers \cup {Nobody}
      BY Zenon
    <3>3. ASSUME NEW x \in Callers \cup {Nobody}, starter' = [starter EXCEPT ![r] = x]
          PROVE  starter' \in [1 .. MaxRuntimes -> Callers \cup {Nobody}]
      BY <3>1, <3>3, Zenon
    <3> QED BY <1>2, <3>1, <3>2, <3>3, Zenon
  <2>3. controller' \in 0 .. MaxRuntimes
    <3>1. r \in 0 .. MaxRuntimes
      OBVIOUS
    <3> QED BY <1>1, <1>2, <3>1, Zenon DEF LifeOK
  <2>4. /\ lock' \in Callers \cup {Nobody}
        /\ abandoned' \subseteq 1 .. MaxRuntimes /\ late' \subseteq 1 .. MaxRuntimes
    BY <1>1, <1>2 DEF LifeOK
  <2> QED BY <1>1, <1>2, <2>1, <2>2, <2>3, <2>4 DEF LifeOK, ending
<1>3. ASSUME UNCHANGED starts, closed' \in BOOLEAN, gathered' \subseteq Attempts,
             closing' \in {"none", "gather", "controller", "cancelled controller", "done",
                           "cancelled"}
      PROVE  LifeOK'
  BY <1>1, <1>3, Zenon DEF LifeOK, starts
<1>4. UNCHANGED life => LifeOK'
  BY <1>1, Zenon DEF life, ending, starts, LifeOK
<1>5. ASSUME NEW c \in Callers, Connect(c) \/ GetLock(c)
      PROVE  LifeOK'
  <2>1. UNCHANGED << controller, abandoned, late, ending >>
    BY <1>5 DEF Connect, GetLock
  <2>2. CASE UNCHANGED << lock, runtime, starter >>
    BY <1>4, <2>1, <2>2 DEF life, starts
  <2>3. CASE Start(c)
    <3>1. PICK r \in Unused : /\ runtime' = [runtime EXCEPT ![r] = "starting"]
                              /\ starter' = [starter EXCEPT ![r] = c]
                              /\ lock' = c
      BY <2>3, Zenon DEF Start
    <3>2. r \in 1 .. MaxRuntimes
      BY DEF Unused
    <3> QED BY <1>2, <2>1, <3>1, <3>2, ZenonT(60)
  <2> QED BY <1>5, <2>2, <2>3 DEF Connect, GetLock, NoStart
<1>6. ASSUME NEW c \in Callers, NEW r \in 1 .. MaxRuntimes,
             StartDone(c, r) \/ StartAbandoned(c, r) \/ StartFails(c, r)
      PROVE  LifeOK'
  <2>1. /\ UNCHANGED ending /\ lock' = Nobody
        /\ starter' = [starter EXCEPT ![r] = Nobody]
        /\ runtime' = [runtime EXCEPT ![r] = "open"] \/ runtime' = [runtime EXCEPT ![r] = "closed"]
        /\ controller' = controller \/ controller' = r
        /\ abandoned' = abandoned \/ abandoned' = abandoned \cup {r}
        /\ late' = late \/ late' = late \cup {r}
    BY <1>6, Zenon DEF StartDone, StartAbandoned, StartFails, StartEnds
  <2> QED BY <1>2, <2>1, ZenonT(60)
<1>7. ASSUME NEW r \in 1 .. MaxRuntimes, StartAlone(r)
      PROVE  LifeOK'
  <2>1. /\ UNCHANGED << controller, lock, abandoned, late, ending >>
        /\ starter' = [starter EXCEPT ![r] = Nobody]
        /\ runtime' = [runtime EXCEPT ![r] = "open"] \/ runtime' = [runtime EXCEPT ![r] = "closed"]
    BY <1>7, Zenon DEF StartAlone, StartEnds
  <2>2. runtime' \in [1 .. MaxRuntimes -> {"unused", "starting", "open", "closed"}]
    BY <1>1, <2>1 DEF LifeOK
  <2>3. starter' \in [1 .. MaxRuntimes -> Callers \cup {Nobody}]
    BY <1>1, <2>1 DEF LifeOK
  <2> QED BY <1>1, <2>1, <2>2, <2>3, Zenon DEF LifeOK, ending
<1>8. ASSUME NEW c \in Callers, Cancel(c)
      PROVE  LifeOK'
  <2>1. UNCHANGED ending
    BY <1>8, Zenon DEF Cancel
  <2>2. CASE UNCHANGED starts
    BY <1>4, <2>1, <2>2 DEF life
  <2>3. CASE LeaveStart(c)
    <3>1. PICK r \in 1 .. MaxRuntimes : /\ starter' = [starter EXCEPT ![r] = Nobody]
                                        /\ abandoned' = abandoned \cup {r}
      BY <2>3, Zenon DEF LeaveStart
    <3>2. lock' = Nobody /\ UNCHANGED << controller, runtime, late >>
      BY <2>3, Zenon DEF LeaveStart
    <3> QED BY <1>2, <2>1, <3>1, <3>2, ZenonT(60)
  <2> QED BY <1>8, <2>2, <2>3, Zenon DEF Cancel
<1>9. ASSUME NEW c \in Callers,
             Resolve(c) \/ ResolveFails(c) \/ WaitReturns(c) \/ SessionCreated(c) \/ SessionFails(c)
      PROVE  UNCHANGED life
  BY <1>9, Zenon DEF Resolve, ResolveFails, WaitReturns, SessionCreated, SessionFails
<1>10. ASSUME NEW a \in Attempts,
              AttemptRuns(a) \/ Established(a) \/ Refused(a) \/ OnAttemptDone(a) \/ Discard(a)
       PROVE  UNCHANGED life
  BY <1>10, Zenon DEF AttemptRuns, Established, Refused, OnAttemptDone, Discard
<1>11. ASSUME Close \/ Gathered \/ CloseCancelled
       PROVE  LifeOK'
  <2>1. background \subseteq Attempts /\ closed \in BOOLEAN
    BY Zenon DEF TypeOK
  <2>2. /\ UNCHANGED starts /\ closed' \in BOOLEAN /\ gathered' \subseteq Attempts
        /\ closing' \in {"none", "gather", "controller", "cancelled controller", "done",
                         "cancelled"}
    BY <1>11, <2>1, Zenon DEF Close, Gathered, CloseCancelled, AfterGather
  <2> QED BY <1>3, <2>2
<1>12. ASSUME CloseController
       PROVE  LifeOK'
  <2>1. /\ closing' \in {"done", "cancelled"} /\ controller' \in {0, controller}
        /\ runtime' = [runtime EXCEPT ![controller] = "closed"]
        /\ UNCHANGED << closed, gathered, lock, starter, abandoned, late >>
    BY <1>12, Zenon DEF CloseController
  <2>2. runtime' \in [1 .. MaxRuntimes -> {"unused", "starting", "open", "closed"}]
    BY <1>1, <2>1, Zenon DEF LifeOK
  <2>3. 0 \in 0 .. MaxRuntimes
    OBVIOUS
  <2>4. controller' \in 0 .. MaxRuntimes
    BY <1>1, <2>1, <2>3, Zenon DEF LifeOK
  <2> QED BY <1>1, <2>1, <2>2, <2>4, Zenon DEF LifeOK
<1>13. UNCHANGED vars => UNCHANGED life
  BY Zenon DEF vars
<1> QED BY <1>4, <1>5, <1>6, <1>7, <1>8, <1>9, <1>10, <1>11, <1>12, <1>13, Zenon DEF Next

(* Attempts, connections and the sets of tasks keep their types.           *)
LEMMA RaceTypeStep ==
    ASSUME TypeOK, RaceInv, [Next]_vars
    PROVE  RaceOK'
<1> USE ClientAssumption
<1>1. RaceOK
  BY TypeParts
<1>2. ASSUME NEW c \in Callers,
             \/ Connect(c) \/ GetLock(c) \/ ResolveFails(c) \/ SessionCreated(c)
             \/ \E r \in 1 .. MaxRuntimes :
                   StartDone(c, r) \/ StartAbandoned(c, r) \/ StartFails(c, r)
      PROVE  UNCHANGED race
  BY <1>2, Zenon
  DEF Connect, GetLock, StartDone, StartAbandoned, StartFails, ResolveFails, SessionCreated
<1>10. ASSUME NEW a \in Attempts, CloseConnection(a),
              UNCHANGED << tasks, background, dropped, attempt, via >>,
              discarding' \subseteq discarding
       PROVE  RaceOK'
  <2>1. conn' \in [Attempts -> {"none", "pending", "open", "closed"}]
    BY <1>1, <1>10, Zenon DEF RaceOK, CloseConnection
  <2>2. refused' \subseteq Attempts /\ discarding' \subseteq Attempts
    BY <1>1, <1>10, Zenon DEF RaceOK, CloseConnection
  <2> QED BY <1>1, <1>10, <2>1, <2>2, Zenon DEF RaceOK
<1>3. ASSUME NEW c \in Callers, Cancel(c) \/ SessionFails(c)
      PROVE  RaceOK'
  <2>1. CASE Cancel(c)
    <3>1. /\ tasks' = tasks \ Of(c, tasks) /\ background' = background \cup Of(c, tasks)
          /\ Of(c, tasks) \subseteq tasks
          /\ UNCHANGED << discarding, dropped, refused, attempt, conn, via >>
      BY <2>1, Zenon DEF Cancel, Of
    <3> QED BY <1>1, <3>1, Zenon DEF RaceOK
  <2>2. CASE SessionFails(c)
    <3>1. call[c].winner \in 0 .. Count /\ call[c].winner # 0
      BY <2>2, CallType DEF RaceInv, SessionFails
    <3>2. call[c].winner \in 1 .. Count
      BY <3>1
    <3>3. << c, call[c].winner >> \in Attempts
      BY <3>2, Pairs, Zenon
    <3>4. /\ CloseConnection(<< c, call[c].winner >>)
          /\ UNCHANGED << tasks, background, discarding, dropped, attempt, via >>
      BY <2>2, Zenon DEF SessionFails
    <3> QED BY <1>10, <3>3, <3>4, Zenon
  <2> QED BY <1>3, <2>1, <2>2
<1>4. ASSUME NEW c \in Callers, NEW n \in 1 .. Count, NextAttempt(c, n),
             UNCHANGED << background, discarding, dropped, refused, conn, via >>,
             tasks' \subseteq tasks \cup {<< c, n >>}
      PROVE  RaceOK'
  <2>1. << c, n >> \in Attempts
    BY Pairs
  <2>2. attempt' = [attempt EXCEPT ![<< c, n >>] = "created"]
    BY <1>4 DEF NextAttempt
  <2> DEFINE b == << c, n >>
  <2> HIDE DEF b
  <2>3. attempt' \in [Attempts -> {"none", "created", "connecting", "ok", "error", "cancelled"}]
    BY <1>1, <2>1, <2>2 DEF RaceOK, b
  <2>4. tasks' \subseteq Attempts
    BY <1>1, <1>4, <2>1 DEF RaceOK, b
  <2> QED BY <1>1, <1>4, <2>3, <2>4, Zenon DEF RaceOK
<1>5. ASSUME NEW c \in Callers, Resolve(c)
      PROVE  RaceOK'
  <2>1. /\ NextAttempt(c, 1) /\ 1 \in 1 .. Count
        /\ UNCHANGED << background, discarding, dropped, refused, conn, via >>
        /\ tasks' \subseteq tasks \cup {<< c, 1 >>}
    BY <1>5 DEF Resolve
  <2> QED BY <1>4, <2>1
<1>6. ASSUME NEW c \in Callers, WaitReturns(c)
      PROVE  RaceOK'
  <2> DEFINE m == call[c].next + 1
  <2>1. call[c].next \in 0 .. Count /\ UNCHANGED << dropped, refused, conn, via >>
    BY <1>6, CallType DEF WaitReturns
  <2>2. m <= Count => m \in 1 .. Count
    BY <2>1
  <2>3. CASE /\ m <= Count /\ NextAttempt(c, m) /\ UNCHANGED << background, discarding >>
             /\ tasks' \subseteq tasks \cup {<< c, m >>}
    <3> HIDE DEF m
    <3> QED BY <1>4, <2>1, <2>2, <2>3
  <2>4. CASE /\ UNCHANGED attempt /\ tasks' \subseteq tasks
             /\ background' \subseteq background \cup tasks
             /\ discarding' \subseteq discarding \cup tasks
    BY <1>1, <2>1, <2>4 DEF RaceOK
  <2> HIDE DEF m
  <2>5. \A S : Finished(S) \subseteq S /\ Succeeded(S) \subseteq S /\ Of(c, S) \subseteq S
    BY DEF Finished, Succeeded, Of
  <2> QED BY <1>6, <2>3, <2>4, <2>5 DEF WaitReturns, m
<1>7. ASSUME NEW a \in Attempts,
             AttemptRuns(a) \/ Established(a) \/ Refused(a) \/ OnAttemptDone(a) \/ Discard(a)
      PROVE  RaceOK'
  <2>1. CASE AttemptRuns(a)
    <3>1. controller \in 0 .. MaxRuntimes
      BY DEF TypeOK
    <3>2. UNCHANGED owners
      BY <2>1 DEF AttemptRuns
    <3>3. /\ attempt' \in [Attempts -> {"none", "created", "connecting", "ok", "error",
                                        "cancelled"}]
          /\ conn' \in [Attempts -> {"none", "pending", "open", "closed"}]
          /\ via' \in [Attempts -> 0 .. MaxRuntimes]
      BY <1>1, <2>1, <3>1 DEF AttemptRuns, RaceOK
    <3> QED BY <1>1, <3>2, <3>3, Zenon DEF RaceOK, owners
  <2>2. CASE Established(a)
    BY <1>1, <2>2 DEF Established, RaceOK, owners
  <2>3. CASE Refused(a)
    BY <1>1, <2>3 DEF Refused, RaceOK, owners
  <2>4. CASE OnAttemptDone(a)
    BY <1>1, <2>4 DEF OnAttemptDone, Succeeded, RaceOK
  <2>5. CASE Discard(a)
    <3>1. /\ CloseConnection(a) /\ UNCHANGED << tasks, background, dropped, attempt, via >>
          /\ discarding' \subseteq discarding
      BY <2>5 DEF Discard
    <3> QED BY <1>10, <3>1
  <2> QED BY <1>7, <2>1, <2>2, <2>3, <2>4, <2>5
<1>8. ASSUME Close \/ Gathered \/ CloseCancelled \/ CloseController
      PROVE  RaceOK'
  <2>1. CASE Close
    <3>1. attempt' \in [Attempts -> {"none", "created", "connecting", "ok", "error", "cancelled"}]
      BY <1>1, <2>1 DEF Close, RaceOK
    <3>2. /\ discarding' = {} /\ dropped' \subseteq discarding \cup background
          /\ UNCHANGED << tasks, background, refused, conn, via >>
      BY <2>1 DEF Close
    <3> QED BY <1>1, <3>1, <3>2, Zenon DEF RaceOK
  <2>2. CASE Gathered \/ CloseCancelled
    BY <1>1, <2>2 DEF Gathered, CloseCancelled, race, owners, RaceOK
  <2>3. CASE CloseController
    BY <1>1, <2>3 DEF CloseController, owners, RaceOK
  <2> QED BY <1>8, <2>1, <2>2, <2>3
<1>9. UNCHANGED race => RaceOK'
  BY <1>1, Zenon DEF race, owners, RaceOK
<1>11. ASSUME NEW r \in 1 .. MaxRuntimes, StartAlone(r)
       PROVE  UNCHANGED race
  BY <1>11, Zenon DEF StartAlone
<1>12. UNCHANGED vars => UNCHANGED race
  BY Zenon DEF vars
<1> QED BY <1>2, <1>3, <1>5, <1>6, <1>7, <1>8, <1>9, <1>11, <1>12, Zenon DEF Next

------------------------------------------------------------------------------
(* The initial state: no call, no runtime, no connection.                  *)
LEMMA InitIInv == Init => IInv
<1> SUFFICES ASSUME Init PROVE IInv
  OBVIOUS
<1> USE ClientAssumption
<1>1. LifeOK /\ RaceOK
  <2>1. 0 \in 0 .. MaxRuntimes
    OBVIOUS
  <2>2. LifeOK
    BY <2>1, Zenon DEF Init, LifeOK
  <2>3. RaceOK
    BY <2>1 DEF Init, RaceOK
  <2> QED BY <2>2, <2>3
<1>2. At("idle") \in Calls /\ At("idle").at = "idle"
  BY DEF At, Calls
<1>3. call = [c \in Callers |-> At("idle")]
  BY DEF Init
<1>4. call \in [Callers -> Calls] /\ \A c \in Callers : call[c].at = "idle"
  BY <1>2, <1>3
<1>5. TypeOK
  BY <1>1, <1>4, TypeParts
<1>6. \A r \in 1 .. MaxRuntimes : runtime[r] = "unused" /\ starter[r] = Nobody
  BY DEF Init
<1>7. /\ lock = Nobody /\ controller = 0 /\ closing = "none"
      /\ abandoned = {} /\ dropped = {}
      /\ tasks = {} /\ background = {} /\ discarding = {}
  BY DEF Init
<1>8. \A a \in Attempts : attempt[a] = "none" /\ conn[a] = "none" /\ via[a] = 0
  BY DEF Init
<1>9. StartInv
  BY <1>4, <1>6, <1>7 DEF StartInv, StartOK, InStart
<1>10. CloseInv
  BY <1>7, ZenonT(60) DEF CloseInv
<1>11. ASSUME NEW a \in Attempts PROVE AttemptInv(a) /\ Accounted(a)
  <2>1. call[a[1]].at = "idle"
    BY <1>4, Pairs
  <2> QED BY <1>7, <1>8, <2>1 DEF AttemptInv, Accounted
<1>12. RaceInv
  BY <1>4, <1>11 DEF RaceInv
<1> QED BY <1>5, <1>9, <1>10, <1>12 DEF IInv

(* Every step preserves the invariant.                                     *)
LEMMA StepIInv == IInv /\ [Next]_vars => IInv'
<1> SUFFICES ASSUME IInv, [Next]_vars PROVE IInv'
  OBVIOUS
<1>1. TypeOK /\ StartInv /\ CloseInv /\ RaceInv
  BY DEF IInv
<1>2. LifeOK' /\ RaceOK' /\ call' \in [Callers -> Calls]
  BY <1>1, LifeTypeStep, RaceTypeStep, CallTypeStep
<1>3. TypeOK'
  BY <1>2, Zenon DEF TypeOK, LifeOK, RaceOK, Calls
<1>4. StartInv' /\ CloseInv'
  BY <1>1, StartStep, CloseStep
<1>5. RaceInv'
  <2>1. CASE UNCHANGED vars
    <3>1. /\ UNCHANGED << closing, discarding, dropped, refused, attempt, conn, via,
                          controller, call >>
          /\ tasks' \cup background' = tasks \cup background
      BY <2>1, Zenon DEF vars, life, starts, ending, race, owners
    <3> QED BY <1>1, <3>1, CallsMove
  <2>2. CASE Next
    <3>1. ASSUME NEW c \in Callers,
                 \/ Connect(c) \/ GetLock(c) \/ ResolveFails(c) \/ SessionCreated(c) \/ Cancel(c)
                 \/ \E r \in 1 .. MaxRuntimes :
                       StartDone(c, r) \/ StartAbandoned(c, r) \/ StartFails(c, r)
          PROVE  RaceInv'
      BY <1>1, <3>1, CallSteps
    <3>2. ASSUME NEW c \in Callers, Resolve(c) \/ WaitReturns(c) \/ SessionFails(c)
          PROVE  RaceInv'
      BY <1>1, <3>2, RaceSteps
    <3>3. ASSUME NEW a \in Attempts,
                 AttemptRuns(a) \/ Established(a) \/ Refused(a) \/ OnAttemptDone(a) \/ Discard(a)
          PROVE  RaceInv'
      BY <1>1, <3>3, AttemptSteps
    <3>4. ASSUME Close \/ Gathered \/ CloseCancelled \/ CloseController
          PROVE  RaceInv'
      BY <1>1, <3>4, CloseSteps
    <3>5. ASSUME NEW r \in 1 .. MaxRuntimes, StartAlone(r)
          PROVE  RaceInv'
      BY <1>1, <3>5, StartAloneStep
    <3> QED BY <2>2, <3>1, <3>2, <3>3, <3>4, <3>5, Zenon DEF Next
  <2> QED BY <2>1, <2>2, ZenonT(60)
<1> QED BY <1>3, <1>4, <1>5 DEF IInv

(* Whatever a client has open has an owner that will close it or is one of *)
(* the named leaks: every established connection and every open runtime    *)
(* (client.py, _establish_connection, _race_addresses, _close;             *)
(* controller.py, start and close), for every number of calls, addresses   *)
(* and runtimes.                                                           *)
THEOREM NothingUnowned == Spec => []EverythingOwned
<1>1. IInv => EverythingOwned
  BY StartInvOwned DEF IInv, EverythingOwned, RaceInv, ConnectionsOwned, Accounted
<1> QED BY <1>1, InitIInv, StepIInv, PTL DEF Spec

(* The calls of connect() share one runtime: beside those that cancelled   *)
(* calls have left behind, at most one is starting or open, whatever       *)
(* close() does meanwhile (client.py, the second test under the lock).     *)
THEOREM RuntimeShared == Spec => []OneRuntime
<1>1. IInv => OneRuntime
  BY StartInvOwned DEF IInv
<1> QED BY <1>1, InitIInv, StepIInv, PTL DEF Spec

==============================================================================
