------------------------------ MODULE HttpConn ------------------------------
(***************************************************************************)
(* The fiber of one connection of http_server.cpp: it reads into buf,      *)
(* gives what is not parsed yet to the parser, calls the handler, which    *)
(* reads the body through pipe_t, and keeps what is left for the next      *)
(* request.  The parser is told that no request has a body, and is not     *)
(* paused behind the headers: it goes on, into the same request_context,   *)
(* up to a byte that no request can begin with.                            *)
(*                                                                         *)
(* The client's bytes are numbered from 1; hcBuf holds the numbers of the  *)
(* bytes in buf[0..bep).  A header field is a pointer into buf.            *)
(***************************************************************************)
EXTENDS Naturals, Sequences, FiniteSetsExt

CONSTANTS HcReqs,   \* requests the client sends
          HcHead,   \* longest headers
          HcBody,   \* longest body
          HcCap     \* size of buf

ASSUME HcAssumption == HcReqs \in Nat /\ HcHead \in Nat /\ HcBody \in Nat /\ HcCap \in Nat

VARIABLES
    hcSize,   \* request -> [h, b]: length of its headers and of its body
    hcAt,     \* request -> the bytes in front of it
    hcWhole,  \* the handlers read their bodies to the end
    hcWaits,  \* the client sends nothing behind a request without a body
              \* until the request is answered
    hcPc,     \* "new", "loop", "parse", "handler", "closed"
    hcRd,     \* bytes taken from the socket
    hcBuf,    \* buf[0..bep)
    hcBsp,    \* bsp
    hcHdr,    \* offsets in buf of the header bytes parsed so far
    hcGot,    \* body bytes the handler has got
    hcDone,   \* requests handled
    hcLen,    \* content_length of the request being handled
    hcLast,   \* the request is an upgrade, or not kept alive
    hcHib,    \* the pipe is hibernating
    hcOdd     \* the parser has taken bytes for a request that are not

hcSent == <<hcSize, hcAt, hcWhole, hcWaits>>
hcVars == <<hcSent, hcPc, hcRd, hcBuf, hcBsp, hcHdr, hcGot, hcDone, hcLen, hcLast, hcHib, hcOdd>>

HeadOf(i) == [k \in 1..hcSize[i].h |-> hcAt[i] + k]
BodyOf(i) == [k \in 1..hcSize[i].b |-> hcAt[i] + hcSize[i].h + k]
Total == hcAt[HcReqs + 1]

(* The request that byte n belongs to.                                     *)
Owner(n) == CHOOSE i \in 1..HcReqs : hcAt[i] < n /\ n <= hcAt[i + 1]
IsHead(n) == n <= hcAt[Owner(n)] + hcSize[Owner(n)].h
EndsHead(n) == n = hcAt[Owner(n)] + hcSize[Owner(n)].h

(* buf[k] is a byte of a body, or begins a request in its middle.          *)
Foreign(k) ==
    \/ ~IsHead(hcBuf[k])
    \/ k = 1 /\ hcAt[Owner(hcBuf[1])] + 1 # hcBuf[1]

HcInit ==
    /\ hcSize \in [1..HcReqs -> [h : 1..HcHead, b : 0..HcBody]]
    /\ hcAt \in [1..(HcReqs + 1) -> 0..(HcReqs * (HcHead + HcBody))]
    /\ hcAt[1] = 0 /\ \A i \in 1..HcReqs : hcAt[i + 1] = hcAt[i] + hcSize[i].h + hcSize[i].b
    /\ hcWhole \in BOOLEAN /\ hcWaits \in BOOLEAN
    /\ hcPc = "new" /\ hcRd = 0 /\ hcBuf = <<>> /\ hcBsp = 0 /\ hcHdr = <<>>
    /\ hcGot = <<>> /\ hcDone = 0 /\ hcLen = 0 /\ hcLast = FALSE
    /\ hcHib = FALSE /\ hcOdd = FALSE

HcStart ==
    /\ hcPc = "new" /\ hcPc' = "loop"
    /\ UNCHANGED <<hcSent, hcRd, hcBuf, hcBsp, hcHdr, hcGot, hcDone, hcLen, hcLast, hcHib, hcOdd>>

(* What the client has sent ends at Total, or, when it waits, behind a     *)
(* request without a body that is not answered yet.                        *)
Sent(r) ==
    /\ r <= Total
    /\ hcWaits => \A i \in (hcDone + 1)..HcReqs : hcSize[i].b = 0 => r <= hcAt[i + 1]

(* Reads only when everything in buf is parsed; then the pipe is not       *)
(* hibernating any more.                                                   *)
ReadMore(n) ==
    /\ hcPc = "loop" /\ hcPc' = "parse"
    /\ IF hcBsp = Len(hcBuf) THEN n \in 1..(HcCap - Len(hcBuf)) /\ Sent(hcRd + n)
                             ELSE n = 0
    /\ hcBuf' = hcBuf \o [k \in 1..n |-> hcRd + k]
    /\ hcRd' = hcRd + n /\ hcHib' = FALSE
    /\ UNCHANGED <<hcSent, hcBsp, hcHdr, hcGot, hcDone, hcLen, hcLast, hcOdd>>

(* The parser goes through the bytes from bsp to taken; each request that  *)
(* ends there is complete.  It stops at the end of buf, at a foreign byte, *)
(* if that does not happen to look like a request, and behind a request    *)
(* that is the connection's last.  Without a complete request, bytes that  *)
(* are left are invalid, and headers that fill buf are too long.           *)
Parse ==
    /\ hcPc = "parse"
    /\ \E taken \in hcBsp..Len(hcBuf), last \in BOOLEAN :
         LET new == (hcBsp + 1)..taken
             complete == {k \in new : EndsHead(hcBuf[k])}
             odd == \E k \in new : Foreign(k)
         IN /\ IF last THEN \E k \in complete : complete = {k} /\ \A j \in (k+1)..taken : Foreign(j)
                       ELSE taken < Len(hcBuf) /\ ~odd => Foreign(taken + 1)
            /\ hcBsp' = taken
            /\ hcHdr' = hcHdr \o [k \in 1..(taken - hcBsp) |-> hcBsp + k]
            /\ hcPc' = IF complete # {} THEN "handler"
                       ELSE IF taken < Len(hcBuf) \/ taken = HcCap THEN "closed" ELSE "loop"
            /\ hcLen' = IF complete # {} THEN hcSize[Owner(hcBuf[Max(complete)])].b ELSE 0
            /\ hcLast' = last /\ hcOdd' = (hcOdd \/ odd)
    /\ UNCHANGED <<hcSent, hcRd, hcBuf, hcGot, hcDone, hcHib>>

(* pipe_t::read: first from buf, then from the socket.                     *)
ReadBody(n) ==
    /\ hcPc = "handler" /\ n > 0 /\ Len(hcGot) + n <= hcLen
    /\ \/ /\ hcBsp < Len(hcBuf) /\ hcBsp + n <= Len(hcBuf)
          /\ hcGot' = hcGot \o SubSeq(hcBuf, hcBsp + 1, hcBsp + n)
          /\ hcBsp' = hcBsp + n /\ UNCHANGED hcRd
       \/ /\ hcBsp = Len(hcBuf) /\ Sent(hcRd + n)
          /\ hcGot' = hcGot \o [k \in 1..n |-> hcRd + k]
          /\ hcRd' = hcRd + n /\ UNCHANGED hcBsp
    /\ UNCHANGED <<hcSent, hcPc, hcBuf, hcHdr, hcDone, hcLen, hcLast, hcHib, hcOdd>>

(* Mutant: what is left is not moved to the front.                         *)
NotMoved == hcBuf

(* What is not parsed yet goes to the front of buf.                        *)
Moved == SubSeq(hcBuf, hcBsp + 1, Len(hcBuf))

(* The handler returns and the connection is kept alive.                   *)
KeepAlive ==
    /\ hcPc = "handler" /\ ~hcLast /\ (hcWhole => Len(hcGot) = hcLen)
    /\ hcPc' = "loop" /\ hcBuf' = Moved /\ hcBsp' = 0 /\ hcHdr' = <<>>
    /\ hcGot' = <<>> /\ hcDone' = hcDone + 1 /\ hcLen' = 0 /\ hcHib' = TRUE
    /\ UNCHANGED <<hcSent, hcRd, hcLast, hcOdd>>

(* The client closes, a limit expires, the handler throws, the request was *)
(* an upgrade, or it is not kept alive.                                    *)
CloseHttp ==
    /\ hcPc \in {"loop", "handler"} /\ hcPc' = "closed"
    /\ UNCHANGED <<hcSent, hcRd, hcBuf, hcBsp, hcHdr, hcGot, hcDone, hcLen, hcLast, hcHib, hcOdd>>

HcNext ==
    \/ HcStart \/ Parse \/ KeepAlive \/ CloseHttp
    \/ \E n \in 0..HcCap : ReadMore(n) \/ ReadBody(n)

HcSpec == HcInit /\ [][HcNext]_hcVars

-----------------------------------------------------------------------------
(* The handler sees a request as the client sent it, however the bytes     *)
(* arrived: the header fields still point at its headers, and the body     *)
(* begins behind them; and a pipe that may be closed as hibernating has no *)
(* request under way.                                                      *)
AsSent ==
    /\ hcPc = "handler" =>
         /\ hcDone < HcReqs
         /\ [k \in 1..Len(hcHdr) |-> hcBuf[hcHdr[k]]] = HeadOf(hcDone + 1)
         /\ hcGot = SubSeq(BodyOf(hcDone + 1), 1, Len(hcGot))
    /\ hcHib => hcHdr = <<>> /\ hcPc \in {"loop", "closed"}

(* AsSent, as long as the handlers read what was sent to them, no body     *)
(* begins like a request, and the client does not send on behind a request *)
(* without a body; it may do so behind a body.                             *)
RequestsAsSent == hcWhole /\ hcWaits /\ ~hcOdd => AsSent

(* AsSent without the condition on the client: "returning 1 causes the     *)
(* parser to skip attempting to read the body, which is what we want".  It *)
(* does not stop there: a request behind one without a body, in the same   *)
(* read, is parsed into the first one's context.                           *)
PipelinedAsSent == hcWhole /\ ~hcOdd => AsSent

(* AsSent without the condition on the bodies: a body that begins like a   *)
(* request, with a letter of a method or the end of a line, loses what the *)
(* parser took of it, if it was read together with the headers.            *)
BodiesAsSent == hcWhole /\ hcWaits => AsSent
=============================================================================
