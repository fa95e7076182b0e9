----------------------------- MODULE MCHandles -----------------------------
(* An instance of Handles for TLC: a client's connection with two sessions;  *)
(* a server's with a session whose streams two consumers share.              *)
EXTENDS Handles, TLC

CONSTANTS s1, s2, l1, p1, p2, c1, c2, c3

MCSessionOf == l1 :> s1 @@ p1 :> s1 @@ p2 :> s1
MCDirectionOf == p1 :> "bidi" @@ p2 :> "bidi"
MCQueueOf == c1 :> <<s1, "bidi">> @@ c2 :> <<s1, "bidi">> @@ c3 :> <<None, "session">>

MCUses ==
    {[is_client |-> TRUE, sessions |-> {s1, s2}, streams |-> {}, consumers |-> {}, graceful |-> TRUE],
     [is_client |-> FALSE, sessions |-> {s1}, streams |-> {l1, p1, p2}, consumers |-> {c1, c2, c3},
      graceful |-> FALSE],
     [is_client |-> FALSE, sessions |-> {s1}, streams |-> {p1}, consumers |-> {c1, c2, c3},
      graceful |-> TRUE]}

=============================================================================
