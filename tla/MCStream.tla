------------------------------- MODULE MCStream -------------------------------
(* Module Stream on a small instance, and the error codes of its resets    *)
(* and stops.                                                              *)
EXTENDS Stream, ErrorCodes
==============================================================================
