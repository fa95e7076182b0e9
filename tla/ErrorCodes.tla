----------------------------- MODULE ErrorCodes -----------------------------
(***************************************************************************)
(* The error code of a stream reset or stop on its way from one            *)
(* application to the other.  HTTP/3 reserves every 31st code, so the 32   *)
(* bit application codes are spread over a range of HTTP/3 codes that      *)
(* leaves the reserved ones out (utils.rs), and a peer may send any code   *)
(* at all.  FirstCode and MaxCode are parameters: the code's own values,   *)
(* 0x52E4A40FA8DB and 2^32 - 1, exceed TLC's integers.  The theorems hold  *)
(* for these values too.                                                   *)
(***************************************************************************)
EXTENDS Integers

CONSTANTS
    FirstCode,  \* ERR_WT_APPLICATION_ERROR_FIRST
    MaxCode,    \* u32::MAX
    MaxAsked,   \* bound: the largest code an application passes
    MaxForeign  \* bound: the largest HTTP/3 code of a peer

ReservedOffset == 33
ReservedModulo == 31
MapDivisor == 30

\* ERR_WT_APPLICATION_ERROR_LAST
LastCode == FirstCode + MaxCode + (MaxCode \div MapDivisor)

\* The first code of the range follows a reserved one: in the code,
\* (0x52E4A40FA8DB - 0x21) % 0x1F = 1.
ASSUME ErrorCodesAssumption ==
    /\ FirstCode \in Nat /\ FirstCode >= ReservedOffset
    /\ (FirstCode - ReservedOffset) % ReservedModulo = 1
    /\ {MaxCode, MaxAsked, MaxForeign} \subseteq Nat

NoCode == -1

Reserved(w) == (w - ReservedOffset) % ReservedModulo = 0

webtransport_code_to_http_code(code) == FirstCode + code + (code \div MapDivisor)

\* The answer of the conversion back, which must fit 32 bits.
AsCode(n) == IF n > MaxCode THEN NoCode ELSE n

http_code_to_webtransport_code(w) ==
    IF w < FirstCode \/ w > LastCode \/ Reserved(w) THEN NoCode
    ELSE AsCode((w - FirstCode) - ((w - FirstCode) \div ReservedModulo))

\* reset_stream and stop_stream: a code of more than 32 bits is sent as the first.
Sent(code) ==
    IF code <= MaxCode THEN webtransport_code_to_http_code(code) ELSE FirstCode

\* What recv_reset and recv_stop_sending tell the peer's application is the code
\* that was passed to reset_stream or stop_stream, up to the largest one; a code
\* of more than 32 bits arrives as 0.  So no code that HTTP/3 reserves is sent,
\* which would arrive as none.
RoundTrip ==
    \A code \in 0..MaxAsked :
        http_code_to_webtransport_code(Sent(code)) = IF code <= MaxCode THEN code ELSE 0

\* A code of any peer that http_code_to_webtransport_code accepts is the one
\* this implementation would have sent for the result: no two codes of a peer
\* are reported as the same application code.
NoCodeTwice ==
    \A w \in 0..MaxForeign :
        LET got == http_code_to_webtransport_code(w)
        IN  got # NoCode => got \in 0..MaxCode /\ webtransport_code_to_http_code(got) = w
=============================================================================
