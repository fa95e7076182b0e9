--------------------------- MODULE MCReceiveStream ---------------------------
(* Instances of ReceiveStream for TLC: three tasks that call read(), or two *)
(* that use all operations, or one that does.                               *)
EXTENDS ReceiveStream

CONSTANTS a, b, c

AllOperations == {"read", "exactly", "until"}

MCUses ==
    {<< {a, b, c}, {"read"} >>, << {a, b}, AllOperations >>, << {a}, AllOperations >>}
==============================================================================
