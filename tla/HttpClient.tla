----------------------------- MODULE HttpClient -----------------------------
(***************************************************************************)
(* http_client_response::parse of http_client.cpp and the body pipe it     *)
(* returns.  Responses with status 100 are skipped; what was read beyond   *)
(* them is moved to the front of header_buff_.  With read_body the body    *)
(* that does not come with the headers is read into bdy_tmp.               *)
(*                                                                         *)
(* The server's bytes are numbered from 1.  The buffer in use, header_buff_*)
(* or bdy_tmp, is hlBuf.  The parser is not paused behind a response, or,  *)
(* without read_body, behind headers.  It goes on up to the end of the     *)
(* buffer, or a byte that no response can begin with, unless the response  *)
(* closes the connection.                                                  *)
(***************************************************************************)
EXTENDS Naturals, Sequences

CONSTANTS HlHead,    \* length of a response's headers
          HlSkips,   \* most responses with status 100
          HlBody,    \* longest body
          HlCap,     \* size of header_buff_
          HlBodyCap  \* size of bdy_tmp

ASSUME HlAssumption ==
    /\ HlHead \in Nat \ {0} /\ HlSkips \in Nat /\ HlBody \in Nat
    /\ HlCap \in Nat /\ HlBodyCap \in Nat

VARIABLES
    hlInterim, \* what follows a response with status 100 is read "apart" from
               \* it, or "joined" to it; or that response is "closed", and the
               \* parser stops behind it
    hlSkips,   \* responses with status 100 the server sends first
    hlLen,     \* length of the body of the last response
    hlCode,    \* its status: "ok", "error" (408, 500, 502, 503, 504)
    hlFramed,  \* it has a content length or chunks
    hlReadBody, hlThrows,  \* the arguments read_body and throw_on_server_error
    hlPc,      \* "new", "read", "parse", "done", "threw"
    hlRd,      \* bytes taken from the socket
    hlBuf, hlBsp,
    hlIn,      \* responses with status 100 parsed
    hlHdr,     \* header bytes parsed of the current response
    hlGot,     \* the body the caller has got
    hlOdd      \* the parser has taken bytes of the body for a response

hlVars == <<hlInterim, hlSkips, hlLen, hlCode, hlFramed, hlReadBody, hlThrows, hlPc, hlRd,
            hlBuf, hlBsp, hlIn, hlHdr, hlGot, hlOdd>>
hlSent == <<hlInterim, hlSkips, hlLen, hlCode, hlFramed, hlReadBody, hlThrows>>

HlStart(i) == i * HlHead
HlTotal == HlStart(hlSkips + 1) + hlLen
HlRun(from, n) == [k \in 1..n |-> from + k]
IsLast == hlIn = hlSkips
HeadersComplete == Len(hlHdr) = HlHead

HlInit ==
    /\ hlInterim \in {"apart", "joined", "closed"}
    /\ hlSkips \in 0..HlSkips /\ hlLen \in 0..HlBody
    /\ hlCode \in {"ok", "error"} /\ hlFramed \in BOOLEAN
    /\ hlReadBody \in BOOLEAN /\ hlThrows \in BOOLEAN
    /\ hlPc = "new" /\ hlRd = 0 /\ hlBuf = <<>> /\ hlBsp = 0 /\ hlIn = 0
    /\ hlHdr = <<>> /\ hlGot = <<>> /\ hlOdd = FALSE

HlBegin ==
    /\ hlPc = "new" /\ hlPc' = "read"
    /\ UNCHANGED <<hlSent, hlRd, hlBuf, hlBsp, hlIn, hlHdr, hlGot, hlOdd>>

(* More is read when everything is parsed: behind what header_buff_ holds, *)
(* or into bdy_tmp from its start.                                         *)
HlRead(n) ==
    /\ hlPc = "read" /\ hlPc' = "parse"
    /\ \/ hlBsp < Len(hlBuf) /\ n = 0 /\ UNCHANGED <<hlBuf, hlBsp>>
       \/ /\ hlBsp = Len(hlBuf) /\ ~HeadersComplete
          /\ n \in 1..(HlCap - Len(hlBuf))
          /\ hlBuf' = hlBuf \o HlRun(hlRd, n) /\ UNCHANGED hlBsp
       \/ /\ hlBsp = Len(hlBuf) /\ HeadersComplete
          /\ n \in 1..HlBodyCap /\ hlBuf' = HlRun(hlRd, n) /\ hlBsp' = 0
    /\ hlRd + n <= IF hlInterim = "apart" /\ ~IsLast THEN HlStart(hlIn + 1) ELSE HlTotal
    /\ hlRd' = hlRd + n
    /\ UNCHANGED <<hlSent, hlIn, hlHdr, hlGot, hlOdd>>

(* The connection fails, or the headers do not fit.                        *)
HlFails ==
    /\ hlPc = "read" /\ hlPc' = "threw"
    /\ UNCHANGED <<hlSent, hlRd, hlBuf, hlBsp, hlIn, hlHdr, hlGot, hlOdd>>

Least(a, b) == IF a < b THEN a ELSE b
HeadTaken == Least(HlHead - Len(hlHdr), Len(hlBuf) - hlBsp)
BodyLeft == IF IsLast /\ hlReadBody THEN hlLen - Len(hlGot) ELSE 0
BodyTaken == IF Len(hlHdr) + HeadTaken < HlHead THEN 0
             ELSE Least(BodyLeft, Len(hlBuf) - hlBsp - HeadTaken)

(* What is parsed up to the end of the response, or of the buffer.         *)
Parsed == hlBsp + HeadTaken + BodyTaken
HdrParsed == hlHdr \o SubSeq(hlBuf, hlBsp + 1, hlBsp + HeadTaken)
GotParsed == hlGot \o SubSeq(hlBuf, hlBsp + HeadTaken + 1, Parsed)
ResponseComplete == Len(HdrParsed) = HlHead /\ BodyLeft = BodyTaken

(* A response that is complete is returned, unless its status is an error  *)
(* that the caller wants thrown.                                           *)
AfterResponse ==
    IF hlCode = "error" /\ hlThrows THEN "threw" ELSE "done"

(* Mutant: what is left is not moved to the front.                         *)
LeftNotMoved(bsp) == hlBuf

(* What is left goes to the front of header_buff_ before the next response.*)
LeftMoved(bsp) == IF bsp < Len(hlBuf) THEN SubSeq(hlBuf, bsp + 1, Len(hlBuf)) ELSE hlBuf

(* The parser stops at the end of the response or of the buffer.  A        *)
(* response with status 100 is forgotten.                                  *)
HlParse ==
    /\ hlPc = "parse"
    /\ \/ /\ ResponseComplete /\ ~IsLast /\ (Parsed < Len(hlBuf) => hlInterim = "closed")
          /\ hlPc' = "read" /\ hlIn' = hlIn + 1 /\ hlHdr' = <<>> /\ hlGot' = GotParsed
          /\ hlBuf' = LeftMoved(Parsed) /\ hlBsp' = IF Parsed < Len(hlBuf) THEN 0 ELSE Parsed
       \/ /\ \/ ResponseComplete /\ IsLast /\ hlPc' = AfterResponse
             \/ ~ResponseComplete /\ hlPc' = "read"
          /\ hlBsp' = Parsed /\ hlHdr' = HdrParsed /\ hlGot' = GotParsed
          /\ UNCHANGED <<hlBuf, hlIn>>
       \/ /\ IsLast /\ hlReadBody /\ ~hlFramed /\ BodyTaken > 0 /\ hlPc' = "threw"
          /\ UNCHANGED <<hlBuf, hlBsp, hlIn, hlHdr, hlGot>>
    /\ IsLast /\ hlReadBody /\ ~hlFramed /\ BodyTaken > 0 => hlPc' = "threw"
    /\ UNCHANGED <<hlSent, hlRd, hlOdd>>

(* The response that byte n belongs to, and whether n is of the last body. *)
RespOf(n) == Least((n - 1) \div HlHead, hlSkips)
OfBody(n) == n > HlStart(hlSkips + 1)

(* Without read_body the parser takes the beginning of the body for a      *)
(* response, if it looks like one.                                         *)
HlTakesBody ==
    /\ hlPc = "parse" /\ ResponseComplete /\ IsLast
    /\ hlBsp' \in (Parsed + 1)..Len(hlBuf) /\ hlOdd' = TRUE
    /\ hlPc' = AfterResponse /\ hlHdr' = HdrParsed
    /\ UNCHANGED <<hlSent, hlRd, hlBuf, hlIn, hlGot>>

(* The parser goes on behind a response with status 100, and the response  *)
(* counts as complete.  Its status is then the last that was parsed: what  *)
(* is parsed of the last response is returned; a part of another one with  *)
(* status 100 is lost, and what follows it is invalid.                     *)
HlRunsOn ==
    /\ hlPc = "parse" /\ ResponseComplete /\ ~IsLast /\ hlInterim = "joined"
    /\ \E taken \in (Parsed + 1)..Len(hlBuf) :
         LET resp == RespOf(hlBuf[taken])
             rest == SubSeq(hlBuf, Parsed + 1, taken)
             odd == ~hlReadBody /\ OfBody(hlBuf[taken])
             ended == resp < hlSkips /\ hlBuf[taken] = HlStart(resp + 1)
         IN /\ taken < Len(hlBuf) /\ ~odd => ~hlReadBody /\ OfBody(hlBuf[taken + 1])
            /\ \/ resp = hlSkips /\ hlPc' = AfterResponse
               \/ ended /\ hlPc' = "read"
               \/ ~ended /\ hlBuf[taken] < HlStart(hlSkips + 1) /\ hlPc' = "threw"
            /\ hlIn' = IF ended THEN resp + 1 ELSE resp
            /\ hlHdr' = IF ended THEN <<>> ELSE HdrParsed \o SelectSeq(rest, LAMBDA n : ~OfBody(n))
            /\ hlGot' = IF hlReadBody /\ hlFramed THEN SelectSeq(rest, OfBody) ELSE <<>>
            /\ hlBsp' = taken /\ hlOdd' = odd
    /\ UNCHANGED <<hlSent, hlRd, hlBuf>>

(* body_pipe_t::read.                                                      *)
HlReadBody(n) ==
    /\ hlPc = "done" /\ ~hlReadBody /\ n > 0
    /\ \/ /\ hlBsp + n <= Len(hlBuf) /\ hlBsp' = hlBsp + n
          /\ hlGot' = hlGot \o SubSeq(hlBuf, hlBsp + 1, hlBsp + n) /\ UNCHANGED hlRd
       \/ /\ hlBsp = Len(hlBuf) /\ hlRd + n <= HlTotal /\ hlRd' = hlRd + n
          /\ hlGot' = hlGot \o HlRun(hlRd, n) /\ UNCHANGED hlBsp
    /\ UNCHANGED <<hlSent, hlPc, hlBuf, hlIn, hlHdr, hlOdd>>

HlNext ==
    \/ HlBegin \/ HlFails \/ HlParse \/ HlTakesBody \/ HlRunsOn
    \/ \E n \in 0..(HlCap + HlBodyCap) : HlRead(n) \/ HlReadBody(n)

HlSpec == HlInit /\ [][HlNext]_hlVars

-----------------------------------------------------------------------------
(* A caller of parse gets the first response whose status is not 100, its  *)
(* headers and the bytes of its body in order, all of them with read_body. *)
Returned ==
    hlPc = "done" =>
      /\ IsLast /\ hlHdr = HlRun(HlStart(hlSkips), HlHead)
      /\ hlGot = HlRun(HlStart(hlSkips + 1), Len(hlGot))
      /\ hlReadBody => Len(hlGot) = hlLen

(* A response is returned as it was sent, whatever of its body was read    *)
(* with its headers, and whatever was read together with a response with   *)
(* status 100 that closes the connection; unless the body begins like a    *)
(* response.                                                               *)
ResponseAsSent == hlInterim # "joined" /\ ~hlOdd => Returned

(* "It is possible that there is unparsed data in header_buff_ already at  *)
(* this point": behind a response with status 100 there is none, unless    *)
(* that response closes the connection; it was parsed as a part of it.     *)
ContinuedAsSent == ~hlOdd => Returned

(* A body that begins like a response, with an H or the end of a line, is  *)
(* parsed without read_body if it was read with the headers; on_headers_   *)
(* complete returns 1 to keep the parser from the body.                    *)
BodyReturned == hlInterim # "joined" => Returned
=============================================================================
