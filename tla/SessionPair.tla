----------------------------- MODULE SessionPair -----------------------------
(****************************************************************************)
(* One session at both its ends: a client and a server that run this code,  *)
(* and the CONNECT stream between them: how the session is established,     *)
(* refused, drained and closed at one end and how the other learns of it.   *)
(*                                                                          *)
(* Each direction of the CONNECT stream carries frames in order; a reset    *)
(* destroys what has not been read, and STOP_SENDING travels by itself.     *)
(* One read delivers any number of frames, which are all handled before     *)
(* anything else.  Flow control between the ends is in SessionData and      *)
(* SessionStreams; its capsules are CREDIT here, since they matter to an    *)
(* end that is closed.                                                      *)
(*                                                                          *)
(* Sources: session.rs, connection.rs, engine.rs, h3.rs and                 *)
(* transport/connection.rs.                                                 *)
(****************************************************************************)
EXTENDS Naturals, SequencesExt

CONSTANTS
    Codes,      \* error codes an application closes with
    MaxCredit   \* bound: flow-control capsules of one end

ASSUME SessionPairAssumption ==
    /\ Codes \cap {"none", "clean", "self", "reset", "stop"} = {}
    /\ MaxCredit \in Nat

VARIABLES
    ep,         \* the two ends
    asked,      \* the code with which an end closed an established session
    credits     \* number of CREDIT capsules sent

vars == <<ep, asked, credits>>

Ends == {"client", "server"}
Other(e) == IF e = "client" THEN "server" ELSE "client"

Established == {"Connected", "Draining"}
Live == {"Connecting"} \cup Established
Ended == {"Closing", "Closed", "Gone"}

NewEnd ==
    [state |-> "none",          \* of the session; Gone once it is pruned
     requested |-> FALSE,       \* pending_session_requests of the client
     pending |-> << >>,         \* pending_capsules
     told |-> "none",           \* the code in SessionClosed, or self
     headers |-> FALSE,         \* headers_processed in HTTP/3
     h3 |-> FALSE,              \* HTTP/3 knows the stream and reads it
     half |-> "open",           \* the sending half of the CONNECT stream
     out |-> << >>,             \* frames sent and not read yet
     stop |-> FALSE]            \* STOP_SENDING sent and not received yet

Init ==
    /\ ep = [e \in Ends |-> NewEnd]
    /\ asked = [e \in Ends |-> "none"]
    /\ credits = [e \in Ends |-> 0]

------------------------------------------------------------------------------
(* Effects on the CONNECT stream.  QUIC refuses to write to a half that has *)
(* ended, and to reset one whose data has all arrived.                      *)
Put(w, f) == IF w.half # "open" THEN w ELSE [w EXCEPT !.out = Append(@, f)]

Finish(w) == [Put(w, <<"FIN">>) EXCEPT !.half = IF @ = "open" THEN "finished" ELSE @]

Reset(w) ==
    IF w.half = "reset" \/ (w.half = "finished" /\ w.out = << >>) THEN w
    ELSE [w EXCEPT !.half = "reset", !.out = Append(@, <<"RESET">>)]

Stop(w) == [w EXCEPT !.stop = TRUE, !.h3 = FALSE]

------------------------------------------------------------------------------
(* The session. *)

End(w, state, told) ==
    [w EXCEPT !.state = state, !.told = told, !.pending = << >>]

\* Fault: the peer is not told.
AbortBug(w, told) == IF w.state \notin Live THEN w ELSE End(w, "Closed", told)

Abort(w, told) ==
    IF w.state \notin Live THEN w ELSE Reset(End(w, "Closed", told))

RecvCapsule(w, f) ==
    CASE w.state = "Connecting" -> [w EXCEPT !.pending = Append(@, f)]
      [] w.state = "Closed" -> Reset(w)
      [] w.state \in Established /\ f[1] = "CLOSE" -> Finish(End(w, "Closed", f[2]))
      [] w.state = "Connected" /\ f[1] = "DRAIN" -> [w EXCEPT !.state = "Draining"]
      [] OTHER -> w

(* The capsules kept while Connecting, until one takes the session out of   *)
(* Connected.                                                               *)
Replay(w) ==
    FoldLeft(LAMBDA acc, f :
                 IF acc.state # "Connected" THEN acc
                 ELSE RecvCapsule([acc EXCEPT !.pending = Tail(@)], f),
             w, w.pending)

Confirm(w) ==
    IF w.state # "Connecting" THEN w ELSE Replay([w EXCEPT !.state = "Connected"])

RecvConnectClose(w) ==
    CASE w.state = "Closing" -> [w EXCEPT !.state = "Closed"]
      [] w.state \in Live -> End(w, "Closed", "clean")
      [] OTHER -> w

------------------------------------------------------------------------------
(* What HTTP/3, the engine and the connection make of a frame. *)

(* The server makes a session of the request.                               *)
RecvRequest(w) == [w EXCEPT !.headers = TRUE, !.state = "Connecting"]

(* The response: a session that was created optimistically is confirmed or  *)
(* aborted; otherwise it is created now, or the stream is given up.         *)
RecvResponse(w, f) ==
    LET seen == [w EXCEPT !.headers = TRUE, !.requested = FALSE]
    IN  CASE f[1] = "OK" ->
               IF w.state = "none" THEN [seen EXCEPT !.state = "Connected"]
               ELSE Confirm(seen)
          [] OTHER ->
               IF w.state = "none" THEN Reset(Stop(seen)) ELSE Abort(seen, "self")

(* Capsules before the headers are skipped; one that meets a closed session *)
(* makes the engine stop the stream.                                        *)
CapsuleReceived(w, f) ==
    LET received == RecvCapsule(w, f)
    IN  CASE ~w.headers -> w
          [] received.state = "Closed" /\ received.h3 -> Stop(received)
          [] OTHER -> received

Handle(w, f) ==
    CASE f[1] = "REQUEST" -> RecvRequest(w)
      [] f[1] \in {"OK", "BAD", "REFUSED"} -> RecvResponse(w, f)
      [] f[1] = "FIN" -> RecvConnectClose(w)
      [] f[1] = "RESET" -> Abort(w, "reset")
      [] OTHER -> CapsuleReceived(w, f)

(* One read: some of the frames, or a reset, which overtakes them.  At the  *)
(* end of the stream HTTP/3 forgets it before the frames are handled.       *)
Read(e) ==
    LET o == Other(e)
        sent == ep[o].out
        ends == {n \in 1..Len(sent) : sent[n][1] \in {"FIN", "RESET"}}
    IN  /\ ep[e].h3 \/ (e = "server" /\ ~ep[e].headers)
        /\ \/ \E n \in 1..Len(sent) :
                 /\ \A k \in 1..n : sent[k][1] # "RESET"
                 /\ ep' = [ep EXCEPT
                       ![o].out = SubSeq(sent, n + 1, Len(sent)),
                       ![e] = FoldLeft(Handle, [@ EXCEPT !.h3 = (1..n) \cap ends = {}],
                                       SubSeq(sent, 1, n))]
           \/ /\ ep[o].half = "reset" /\ sent # << >>
              /\ ep' = [ep EXCEPT ![o].out = << >>,
                                  ![e] = Handle([@ EXCEPT !.h3 = FALSE], <<"RESET">>)]
        /\ UNCHANGED <<asked, credits>>

(* STOP_SENDING for the CONNECT stream aborts the session. *)
RecvStopSending(e) ==
    /\ ep[Other(e)].stop
    /\ ep' = [ep EXCEPT ![Other(e)].stop = FALSE, ![e] = Abort(@, "stop")]
    /\ UNCHANGED <<asked, credits>>

------------------------------------------------------------------------------
(* Requests of the applications. *)

CreateSession(optimistic) ==
    /\ ep["client"] = NewEnd
    /\ ep' = [ep EXCEPT !["client"] =
                 Put([@ EXCEPT !.requested = TRUE, !.h3 = TRUE,
                               !.state = IF optimistic THEN "Connecting" ELSE "none"],
                     <<"REQUEST">>)]
    /\ UNCHANGED <<asked, credits>>

Accept(response) ==
    /\ ep["server"].state = "Connecting"
    /\ ep' = [ep EXCEPT !["server"] = Confirm(Put(@, <<response>>))]
    /\ UNCHANGED <<asked, credits>>

Reject ==
    /\ ep["server"].state = "Connecting"
    /\ ep' = [ep EXCEPT !["server"] = End(Finish(Put(@, <<"REFUSED">>)), "Closed", "self")]
    /\ UNCHANGED <<asked, credits>>

\* Fault: the code is not sent.
CloseBug(e, code) ==
    /\ ep[e].state \in Live
    /\ ep' = [ep EXCEPT ![e] = End(Finish(@), "Closing", "self")]
    /\ asked' = [asked EXCEPT ![e] = IF ep[e].state \in Established THEN code ELSE @]
    /\ UNCHANGED credits

(* Without code and reason the end of the stream says it all.               *)
Close(e, code) ==
    /\ ep[e].state \in Live
    /\ ep' = [ep EXCEPT ![e] =
                 End(Finish(IF code = "clean" THEN @ ELSE Put(@, <<"CLOSE", code>>)),
                     "Closing", "self")]
    /\ asked' = [asked EXCEPT ![e] = IF ep[e].state \in Established THEN code ELSE @]
    /\ UNCHANGED credits

Drain(e) ==
    /\ ep[e].state = "Connected"
    /\ ep' = [ep EXCEPT ![e] = Put([@ EXCEPT !.state = "Draining"], <<"DRAIN">>)]
    /\ UNCHANGED <<asked, credits>>

(* A flow-control capsule, also of an end that waits for its confirmation.  *)
SendCredit(e) ==
    /\ credits[e] < MaxCredit
    /\ ep[e].state \in Live
    /\ ep' = [ep EXCEPT ![e] = Put(@, <<"CREDIT">>)]
    /\ credits' = [credits EXCEPT ![e] = @ + 1]
    /\ UNCHANGED asked

(* Closed sessions are removed from time to time. *)
PruneResources(e) ==
    /\ ep[e].state = "Closed"
    /\ ep' = [ep EXCEPT ![e].state = "Gone"]
    /\ UNCHANGED <<asked, credits>>

Next ==
    \/ \E optimistic \in BOOLEAN : CreateSession(optimistic)
    \/ \E response \in {"OK", "BAD"} : Accept(response)
    \/ Reject
    \/ \E e \in Ends :
          \/ Read(e) \/ RecvStopSending(e) \/ Drain(e) \/ SendCredit(e)
          \/ PruneResources(e)
          \/ \E code \in Codes \cup {"clean"} : Close(e, code)

Spec == Init /\ [][Next]_vars

(* The network delivers and the reactor handles what it delivers.  Nothing  *)
(* is assumed of the applications.                                          *)
LiveSpec == Spec /\ \A e \in Ends : WF_vars(Read(e)) /\ WF_vars(RecvStopSending(e))
                                    /\ WF_vars(PruneResources(e))

------------------------------------------------------------------------------
(* The two ends are in states of the code, and a session that has not ended *)
(* has told nobody of its end.                                              *)
TypeOK ==
    /\ \A e \in Ends :
          /\ ep[e].state \in {"none"} \cup Live \cup Ended
          /\ ep[e].half \in {"open", "finished", "reset"}
          /\ (ep[e].told = "none") <=> (ep[e].state \in {"none"} \cup Live)

(* The application of the other end is told the very code with which an     *)
(* established session was closed, unless it ended the session itself:      *)
(* neither a reset nor the end of the stream overtakes the CLOSE_SESSION    *)
(* capsule (session.rs, close and recv_capsule).                            *)
CodeArrives ==
    TypeOK /\ \A e \in Ends :
        asked[Other(e)] # "none" /\ ep[e].state \in Ended /\ ep[e].told # "self"
            => ep[e].told = asked[Other(e)]

(* When one end is over the other one is, for good: closing, rejecting and  *)
(* aborting all reach the peer, in whatever state they find it.             *)
EndIsLearnt ==
    \A e \in Ends : (ep[e].state \in Ended) ~> [](ep[Other(e)].state \notin Live)

(* An established session that was closed with a code is Closed some time   *)
(* and then pruned; until then it counts towards the limit of sessions      *)
(* (session.rs, close; connection.rs, prune_resources).  Closed without a   *)
(* code, or reset by the other end while it is Closing, it stays Closing:   *)
(* recv_connect_close answers nothing, and abort passes over it.            *)
ClosingEnds ==
    \A e \in Ends : (ep[e].state = "Closing" /\ asked[e] \in Codes)
                      ~> (ep[e].state = "Gone" \/ ep[Other(e)].half = "reset")

(* When one end drains, the other does not stay Connected.                  *)
DrainIsLearnt ==
    \A e \in Ends : (ep[e].state = "Draining") ~> (ep[Other(e)].state # "Connected")

(* Whatever one end does to the session, the other learns of it: of its end *)
(* for good, of its draining, and a session that was closed with a code     *)
(* goes away at both (session.rs, close, drain, abort, recv_capsule).       *)
EndsReachBoth == EndIsLearnt /\ DrainIsLearnt /\ ClosingEnds

==============================================================================
