-------------------------------- MODULE Credit --------------------------------
(***************************************************************************)
(* What session flow control promises, for bytes and for streams alike:    *)
(* one endpoint spends units (bytes sent, streams opened) up to the        *)
(* highest limit it has accepted; the other counts the units it receives   *)
(* and the units it is done with, and advertises in capsules a limit of a  *)
(* window more than that.  When it advertises is left open.  The modules   *)
(* SessionData and SessionStreams implement this specification.            *)
(***************************************************************************)
EXTENDS Naturals, Sequences

CONSTANTS Initial,   \* the limit both endpoints start from
          Window,      \* what the receiver keeps available
          SpendLimit   \* bound: units spent in all

(* What the theorems assume; the modules that implement this one assume it  *)
(* of the constants they put in its place.                                  *)
CreditAssumption == Initial \in Nat /\ Window \in Nat

VARIABLES sent,        \* units spent
          limit,       \* highest limit the spender has accepted
          grants,      \* advertised limits on their way
          received,    \* units that arrived
          consumed,    \* units the receiver is done with
          granted      \* highest limit advertised

vars == << sent, limit, grants, received, consumed, granted >>

Init == /\ sent = 0 /\ limit = Initial /\ grants = << >>
        /\ received = 0 /\ consumed = 0 /\ granted = Initial

Send == /\ sent' \in sent + 1 .. limit /\ sent' <= SpendLimit
        /\ UNCHANGED << limit, grants, received, consumed, granted >>

(* The spender accepts a limit, and may spend from it at once. *)
Accept ==
    /\ grants # << >>
    /\ limit' = Head(grants)
    /\ grants' = Tail(grants)
    /\ sent' \in sent .. limit' /\ sent' <= SpendLimit
    /\ UNCHANGED << received, consumed, granted >>

(* A limit is advertised only when it is higher than the last one. *)
Replenish(done) ==
    \/ UNCHANGED << granted, grants >>
    \/ /\ done + Window > granted
       /\ granted' = done + Window
       /\ grants' = Append(grants, granted')

(* Units arrive, the receiver is done with some, or is asked for credit. *)
Receive ==
    /\ received' \in received .. sent
    /\ consumed' \in consumed .. received'
    /\ Replenish(consumed')
    /\ UNCHANGED << sent, limit >>

Next == Send \/ Accept \/ Receive

Spec == Init /\ [][Next]_vars

------------------------------------------------------------------------------
(* Type invariant: counters and limits of session flow control are naturals. *)
TypeOK == /\ sent \in Nat /\ limit \in Nat /\ grants \in Seq(Nat)
          /\ received \in Nat /\ consumed \in Nat /\ granted \in Nat

(* What the spender has spent is within the limit the receiver enforces,   *)
(* also while capsules are on their way: the receiver of a conforming peer *)
(* never ends the session for exceeded flow control.                       *)
WithinGranted == sent <= granted

(* Every advertised limit is higher than the one the spender has when it   *)
(* arrives, so the spender never ends the session for a limit that does    *)
(* not increase.                                                           *)
LimitsIncrease ==
    \A i \in DOMAIN grants :
        grants[i] > (IF i = 1 THEN limit ELSE grants[i - 1])

(* The units a receiver may have to hold are bounded by its configuration. *)
OutstandingBounded == sent - consumed <= (IF Initial > Window THEN Initial ELSE Window)
==============================================================================
