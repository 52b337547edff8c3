----------------------------- MODULE ProxyPeek -----------------------------
(***************************************************************************)
(* The two dialogues of truefix-transport's proxy.rs that look for a       *)
(* header with TcpStream::peek before they consume it: the PROXY header of *)
(* an accepted connection (peek_proxy_header under PROXY_HEADER_TIMEOUT)   *)
(* and the answer to HTTP CONNECT (connect_http, under connect_timeout     *)
(* where one is configured).  The buffer starts at PeekBuf and doubles up  *)
(* to MaxLen while it is full.                                             *)
(***************************************************************************)
EXTENDS Naturals

CONSTANTS
  PeekBuf, MaxLen,  \* PROXY_HEADER_PEEK_BUF, PROXY_HEADER_MAX_LEN and twins
  MaxBytes          \* bound: what the other side sends before it waits

ASSUME ProxyPeekAssumption ==
  /\ PeekBuf \in Nat \ {0} /\ MaxLen \in Nat /\ PeekBuf <= MaxLen
  /\ MaxBytes \in Nat

VARIABLES
  dialogue,  \* "proxy" or "connect", and has it a timeout; never changes
  total,     \* bytes the other side sends in all; never changes
  header,    \* where its header ends, 0 for none; never changes
  arrived,   \* bytes in the socket's buffer so far
  eof,       \* the other side has closed
  buf_len,
  outcome,   \* "peeking", "header", "none", "too_long", "closed", "timeout"
  consumed   \* bytes taken from the socket

PeekVars == <<dialogue, total, header, arrived, eof, buf_len, outcome, consumed>>

PeekTypeOK ==
  /\ dialogue \in [kind: {"proxy", "connect"}, timeout: BOOLEAN]
  /\ total \in 0..MaxBytes /\ header \in 0..total /\ arrived \in 0..total
  /\ eof \in BOOLEAN /\ buf_len \in PeekBuf..MaxLen
  /\ outcome \in {"peeking", "header", "none", "too_long", "closed", "timeout"}
  /\ consumed \in 0..total

PeekInit ==
  /\ dialogue \in [kind: {"proxy"}, timeout: {TRUE}]
                  \cup [kind: {"connect"}, timeout: BOOLEAN]
  /\ total \in 0..MaxBytes /\ header \in 0..total
  /\ arrived = 0 /\ eof = FALSE /\ buf_len = PeekBuf
  /\ outcome = "peeking" /\ consumed = 0

\* Some more bytes arrive, in segments of any size.
Arrive ==
  /\ arrived < total
  /\ \E n \in (arrived + 1)..total : arrived' = n
  /\ UNCHANGED <<dialogue, total, header, eof, buf_len, outcome, consumed>>

Close ==
  /\ arrived = total /\ ~eof
  /\ eof' = TRUE
  /\ UNCHANGED <<dialogue, total, header, arrived, buf_len, outcome, consumed>>

\* What one peek sees; it waits for a byte or the end of the stream.
Peeked == IF arrived < buf_len THEN arrived ELSE buf_len
PeekReturns == outcome = "peeking" /\ (arrived > 0 \/ eof)
Complete == header > 0 /\ header <= Peeked

Ends(how) ==
  /\ outcome' = how
  /\ UNCHANGED <<dialogue, total, header, arrived, eof, buf_len, consumed>>

\* Faulty variant: everything that was peeked is read.
TakesPeeked ==
  /\ PeekReturns /\ Complete
  /\ outcome' = "header" /\ consumed' = Peeked
  /\ UNCHANGED <<dialogue, total, header, arrived, eof, buf_len>>

\* A complete header: exactly its bytes are read.
TakeHeader ==
  /\ PeekReturns /\ Complete
  /\ outcome' = "header" /\ consumed' = header
  /\ UNCHANGED <<dialogue, total, header, arrived, eof, buf_len>>

\* connect_http takes an empty peek for the end of the connection.
SeesClose ==
  /\ PeekReturns /\ ~Complete /\ dialogue.kind = "connect" /\ Peeked = 0
  /\ Ends("closed")

\* A full buffer of the largest size without a header.
GivesUp ==
  /\ PeekReturns /\ ~Complete /\ Peeked = buf_len /\ buf_len >= MaxLen
  /\ Ends(IF dialogue.kind = "proxy" THEN "none" ELSE "too_long")

Grow ==
  /\ PeekReturns /\ ~Complete /\ Peeked = buf_len /\ buf_len < MaxLen
  /\ buf_len' = IF buf_len * 2 < MaxLen THEN buf_len * 2 ELSE MaxLen
  /\ UNCHANGED <<dialogue, total, header, arrived, eof, outcome, consumed>>

\* A partly filled buffer means "not yet": it sleeps 5 ms and peeks again,
\* which changes nothing (the stuttering steps).  The timeout ends it.
TimesOut ==
  /\ outcome = "peeking" /\ dialogue.timeout
  /\ Ends("timeout")

PeekStep == TakeHeader \/ SeesClose \/ GivesUp \/ Grow \/ TimesOut

PeekNext == Arrive \/ Close \/ PeekStep
PeekSpec == PeekInit /\ [][PeekNext]_PeekVars

-----------------------------------------------------------------------------
\* What follows the header (the FIX stream, the tunnelled bytes) is untouched,
\* and without a header nothing at all is taken from the socket.
ConsumesExactlyHeader ==
  consumed = IF outcome = "header" THEN header ELSE 0

\* NEW-12: a header of up to MaxLen bytes is never given up for its size, in
\* however many segments it comes.
LegalHeaderAccepted ==
  (header > 0 /\ header <= MaxLen) => outcome \notin {"none", "too_long", "closed"}

\* The dialogue comes to an end: bounded by the timeout, by the header, by the
\* size limit or by a proxy that closes without a byte.
DialogueEnds ==
  (dialogue.timeout \/ (arrived = total /\ header > 0 /\ header <= MaxLen)
     \/ (eof /\ (total = 0 \/ total >= MaxLen)))
    ~> outcome # "peeking"

\* The header is taken whole and alone, and every legal one is taken.
HeaderTaken == PeekTypeOK /\ ConsumesExactlyHeader /\ LegalHeaderAccepted
=============================================================================
