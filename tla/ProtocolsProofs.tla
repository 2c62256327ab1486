--------------------------- MODULE ProtocolsProofs ---------------------------
(***************************************************************************)
(* Proofs about what is built on the pipes and on udp: the pipe with tls   *)
(* (TlsPipe), the streams of http2 (Http2), the responses and the requests *)
(* of http (HttpClient, HttpConn), the SACKs of sctp (SctpDispatch), the   *)
(* routes of requests (RequestDispatcher) and the sweeps of dtls_dispatch  *)
(* (DtlsDispatch).                                                         *)
(***************************************************************************)
EXTENDS MCProtocols, SequenceTheorems, FiniteSetTheorems, WellFoundedInduction, TLAPS

(* A set of numbers that is not empty has a least one.                     *)
LEMMA LeastIn ==
    ASSUME NEW S \in SUBSET Nat, S # {}
    PROVE  \E x \in S : \A y \in S : x <= y
<1> DEFINE R == {ss \in Nat \X Nat : ss[1] < ss[2]}
<1>1. IsWellFoundedOn(R, Nat)
  BY NatLessThanWellFounded, Zenon DEF OpToRel
<1>2. PICK x \in S : \A y \in S : ~(<<y, x>> \in R)
  <2> HIDE DEF R
  <2> QED BY <1>1, WFMin
<1>3. \A y \in S : <<y, x>> \in Nat \X Nat /\ <<y, x>>[1] = y /\ <<y, x>>[2] = x
  OBVIOUS
<1>4. \A y \in S : ~(y < x)
  BY <1>2, <1>3, Zenon
<1> QED BY <1>4

-----------------------------------------------------------------------------
(* tls_pipe.                                                               *)

TlsErrors == {"io", "timeout"}

(* The failures that are noted are those that were met; a call is made of  *)
(* an open pipe, and forgets what an earlier one threw.                    *)
TlsCalls ==
    /\ tpErrs = tpMet /\ tpMet \subseteq TlsErrors
    /\ tpPc \in {"new", "bio", "ssl", "handshake", "verify", "open", "gone"}
    /\ tpOp \in {"none", "read", "write", "shutdown"}
    /\ tpOp # "none" => tpPc = "open" /\ tpThrown = "none"
    /\ tpPc \notin {"open", "gone"} => tpThrown = "none"
    /\ tpPc \in {"new", "bio", "ssl"} => tpMet = {}

(* Who owns what at each stage of the constructor, and after it.           *)
TlsStages ==
    /\ tpPc = "new" => tpPipe = "caller" /\ tpBio = {} /\ tpSsl = "none" /\ tpBioFrees = 0
    /\ tpPc \in {"bio", "ssl"} => tpPipe = "bio" /\ tpBio = {"auto_bio"} /\ tpBioFrees = 0
    /\ tpPc \in {"handshake", "verify", "open"} =>
         tpPipe = "bio" /\ tpBio = {"ssl"} /\ tpBioFrees = 0
    /\ tpPc \in {"handshake", "verify", "ssl"} => tpSsl = "auto_ssl"
    /\ tpPc = "open" => tpSsl = "tls_pipe"
    /\ tpPc = "gone" => tpSsl = "none" /\ ((tpPipe = "none" /\ tpBioFrees = 1) \/ tpBioFrees = 0)

TlsThrows ==
    /\ tpThrown \in TlsErrors => tpThrown \in tpMet
    /\ tpThrown = "ssl" => tpMet = {}

TlsInv == TlsCalls /\ TlsStages /\ TlsThrows

(* Before it is open, FreeAll frees each thing once.                       *)
LEMMA TlsFrees ==
  ASSUME TlsCalls, TlsStages, FreeAll, tpPc # "gone"
  PROVE  tpSsl' = "none" /\ ((tpPipe' = "none" /\ tpBioFrees' = 1) \/ tpBioFrees' = 0)
<1>1. Cardinality({"auto_bio"}) = 1 /\ Cardinality({"ssl"}) = 1 /\ Cardinality({}) = 0
  BY FS_Singleton, FS_EmptySet
<1>2. CASE tpPc = "new"
  <2>1. Cardinality(tpBio) = 0
    BY <1>1, <1>2, Zenon DEF TlsStages
  <2> QED BY <1>2, <2>1 DEF TlsStages, FreeAll
<1>3. CASE tpPc \in {"bio", "ssl"}
  BY <1>1, <1>3 DEF TlsStages, FreeAll
<1>4. CASE tpPc \in {"handshake", "verify", "open"}
  BY <1>1, <1>4 DEF TlsStages, FreeAll
<1> QED BY <1>2, <1>3, <1>4 DEF TlsCalls

(* Every step keeps TlsInv.                                                *)
LEMMA TlsStep == TlsInv /\ [TpNext]_tpVars => TlsInv'
<1> SUFFICES ASSUME TlsInv, [TpNext]_tpVars PROVE TlsInv'
  OBVIOUS
<1> USE DEF TlsInv, TlsErrors
<1>1. CASE BioNewFp
  <2>1. TlsCalls'
    BY <1>1 DEF TlsCalls, TlsThrows, tpOwned, BioNewFp, FreeAll
  <2>2. TlsStages'
    BY <1>1, TlsFrees DEF TlsCalls, TlsStages, tpOwned, BioNewFp
  <2>3. TlsThrows'
    BY <1>1 DEF TlsCalls, TlsThrows, tpOwned, BioNewFp, FreeAll
  <2> QED BY <2>1, <2>2, <2>3
<1>2. CASE SslNew
  <2>1. TlsCalls'
    BY <1>2 DEF TlsCalls, TlsThrows, tpOwned, SslNew, FreeAll
  <2>2. TlsStages'
    BY <1>2, TlsFrees DEF TlsCalls, TlsStages, tpOwned, SslNew
  <2>3. TlsThrows'
    BY <1>2 DEF TlsCalls, TlsThrows, tpOwned, SslNew, FreeAll
  <2> QED BY <2>1, <2>2, <2>3
<1>3. CASE SetBio
  <2>1. TlsCalls'
    BY <1>3 DEF TlsCalls, TlsThrows, tpOwned, SetBio
  <2>2. TlsStages'
    BY <1>3 DEF TlsCalls, TlsStages, tpOwned, SetBio
  <2>3. TlsThrows'
    BY <1>3 DEF TlsCalls, TlsThrows, tpOwned, SetBio
  <2> QED BY <2>1, <2>2, <2>3
<1>4. CASE Handshake
  <2>1. TlsCalls'
    BY <1>4 DEF TlsCalls, TlsThrows, tpOwned, Handshake, ThrowSslError, FreeAll
  <2>2. TlsStages'
    BY <1>4, TlsFrees DEF TlsCalls, TlsStages, tpOwned, Handshake, ThrowSslError
  <2>3. TlsThrows'
    BY <1>4 DEF TlsCalls, TlsThrows, tpOwned, Handshake, ThrowSslError, FreeAll
  <2> QED BY <2>1, <2>2, <2>3
<1>5. CASE VerifyPeer
  <2>1. TlsCalls'
    BY <1>5 DEF TlsCalls, TlsThrows, tpOwned, VerifyPeer, ThrowSslError, FreeAll
  <2>2. TlsStages'
    BY <1>5, TlsFrees DEF TlsCalls, TlsStages, tpOwned, VerifyPeer, ThrowSslError
  <2>3. TlsThrows'
    BY <1>5 DEF TlsCalls, TlsThrows, tpOwned, VerifyPeer, ThrowSslError, FreeAll
  <2> QED BY <2>1, <2>2, <2>3
<1>6. CASE TpReturn
  <2>1. TlsCalls'
    BY <1>6 DEF TlsCalls, TlsThrows, tpOwned, TpReturn, ThrowSslError
  <2>2. TlsStages'
    BY <1>6 DEF TlsCalls, TlsStages, tpOwned, TpReturn, ThrowSslError
  <2>3. TlsThrows'
    BY <1>6 DEF TlsCalls, TlsThrows, tpOwned, TpReturn, ThrowSslError
  <2> QED BY <2>1, <2>2, <2>3
<1>7. CASE TpDestroy
  <2>1. TlsCalls'
    BY <1>7 DEF TlsCalls, TlsThrows, tpOwned, TpDestroy, FreeAll
  <2>2. TlsStages'
    BY <1>7, TlsFrees DEF TlsCalls, TlsStages, tpOwned, TpDestroy
  <2>3. TlsThrows'
    BY <1>7 DEF TlsCalls, TlsThrows, tpOwned, TpDestroy, FreeAll
  <2> QED BY <2>1, <2>2, <2>3
<1>8. ASSUME NEW err \in {"io", "timeout"}, FpRead(err) PROVE TlsInv'
  <2>1. TlsCalls'
    BY <1>8 DEF TlsCalls, TlsThrows, tpOwned, FpRead, FpFails, Calling
  <2>2. TlsStages'
    BY <1>8 DEF TlsCalls, TlsStages, tpOwned, FpRead, FpFails, Calling
  <2>3. TlsThrows'
    BY <1>8 DEF TlsCalls, TlsThrows, tpOwned, FpRead, FpFails, Calling
  <2> QED BY <2>1, <2>2, <2>3
<1>9. ASSUME NEW err \in {"io", "timeout"}, FpWrite(err) PROVE TlsInv'
  <2>1. TlsCalls'
    BY <1>9 DEF TlsCalls, TlsThrows, tpOwned, FpWrite, FpFails, Calling
  <2>2. TlsStages'
    BY <1>9 DEF TlsCalls, TlsStages, tpOwned, FpWrite, FpFails, Calling
  <2>3. TlsThrows'
    BY <1>9 DEF TlsCalls, TlsThrows, tpOwned, FpWrite, FpFails, Calling
  <2> QED BY <2>1, <2>2, <2>3
<1>10. ASSUME NEW op \in {"read", "write", "shutdown"}, TpCall(op) PROVE TlsInv'
  <2>1. TlsCalls'
    BY <1>10 DEF TlsCalls, TlsThrows, tpOwned, TpCall
  <2>2. TlsStages'
    BY <1>10 DEF TlsCalls, TlsStages, tpOwned, TpCall
  <2>3. TlsThrows'
    BY <1>10 DEF TlsCalls, TlsThrows, tpOwned, TpCall
  <2> QED BY <2>1, <2>2, <2>3
<1>11. CASE UNCHANGED tpVars
  BY <1>11 DEF tpVars, tpOwned, TlsCalls, TlsStages, TlsThrows
<1> QED BY <1>1, <1>2, <1>3, <1>4, <1>5, <1>6, <1>7, <1>8, <1>9, <1>10, <1>11 DEF TpNext

(* Whichever step of the constructor or of a later call fails, the BIO is  *)
(* freed once, with the fiber_pipe in it, an open tls_pipe has both alive, *)
(* and what is thrown is what the fiber_pipe met.                          *)
THEOREM TlsIsOwned == TpSpec => []TlsOwned
<1>1. TpInit => TlsInv
  BY DEF TpInit, TlsInv, TlsCalls, TlsStages, TlsThrows, TlsErrors
<1>2. TlsInv => TlsOwned
  <2> SUFFICES ASSUME TlsInv PROVE TlsOwned
    OBVIOUS
  <2>1. tpBioFrees = 0 \/ tpBioFrees = 1
    BY DEF TlsInv, TlsCalls, TlsStages
  <2> QED BY <2>1 DEF TlsInv, TlsCalls, TlsStages, TlsThrows, TlsErrors, TlsOwned
<1> QED BY <1>1, <1>2, TlsStep, PTL DEF TpSpec

-----------------------------------------------------------------------------
(* http2::run: the frames of a connection reach the handlers of their      *)
(* streams.                                                                *)

H2Ids == H2Streams \cup {H2Control}
H2Tokens ==
    [k : {"header"}, id : H2Ids, type : {"HEADERS", "DATA"}, len : Nat, n : Nat]
      \cup [k : {"payload"}, id : H2Ids, n : Nat]

(* The variables have the types of the code.                               *)
H2TypeOK ==
    /\ h2Wire \in Seq(H2Tokens) /\ h2Open \in BOOLEAN /\ h2Frames \in Nat
    /\ h2Run \in {"new", "header", "forward", "close", "join", "gone"}
    /\ h2Cur \in [id : H2Ids, buf : Seq(H2Tokens), left : Nat]
    /\ h2Sync \in BOOLEAN /\ h2Map \in SUBSET H2Streams /\ h2Closed \in SUBSET H2Streams
    /\ h2Owed \in [H2Streams -> Seq(H2Tokens)] /\ h2Pipe \in [H2Streams -> Seq(H2Tokens)]
    /\ h2Fib \in [H2Streams -> {"none", "runs", "done"}]

(* One frame at most is on the wire, or what is left of one.               *)
WireInv ==
    /\ \A i, j \in DOMAIN h2Wire : h2Wire[i].id = h2Wire[j].id
    /\ \A i \in DOMAIN h2Wire : i > 1 => h2Wire[i].k = "payload"
    /\ h2Wire # <<>> /\ Head(h2Wire).k = "header" => Len(h2Wire) = Head(h2Wire).len + 1

(* run forwards a frame in pieces of one token; what it has not read of it *)
(* is what is on the wire.                                                 *)
FrameInv ==
    /\ h2Cur.buf # <<>> => Len(h2Cur.buf) = 1
    /\ h2Run \in {"new", "header"} => h2Cur.buf = <<>>
    /\ h2Run = "forward" => h2Cur.id \in h2Map
    /\ h2Sync /\ h2Run = "forward" /\ h2Cur.left > 0 =>
         /\ Len(h2Wire) = h2Cur.left
         /\ \A i \in DOMAIN h2Wire : h2Wire[i].id = h2Cur.id

(* A handler that runs is in the map, and a stream has no second handler.  *)
HandlersInv ==
    /\ \A s \in H2Streams : h2Fib[s] = "runs" => s \in h2Map
    /\ h2Run \in {"new", "header", "forward"} =>
         \A s \in H2Streams : h2Fib[s] = "none" <=> s \notin h2Map
    /\ h2Run \in {"new", "gone"} => h2Map = {}

BufOf(s) == IF h2Cur.id = s THEN h2Cur.buf ELSE <<>>

(* What the peer has sent on a stream and its handler has not read is in   *)
(* the socket pair, with run or on the wire, also before the handler is    *)
(* made.                                                                   *)
StreamsInv ==
    h2Sync /\ h2Run \in {"new", "header", "forward"} =>
      \A s \in H2Streams : h2Fib[s] # "done" =>
        h2Pipe[s] \o BufOf(s) \o WireOf(s) = h2Owed[s]

H2Inv == H2TypeOK /\ WireInv /\ FrameInv /\ HandlersInv /\ StreamsInv

(* What moving the first token of a list does to the lists end to end.     *)

(* run takes a token from the wire.                                        *)
LEMMA TokenTaken ==
    ASSUME NEW S, NEW p \in Seq(S), NEW w \in Seq(S), w # <<>>
    PROVE  p \o <<>> \o w = p \o <<Head(w)>> \o Tail(w)
  <1>1. w = <<Head(w)>> \o Tail(w) /\ <<Head(w)>> \in Seq(S) /\ Tail(w) \in Seq(S)
    OBVIOUS
  <1>2. p \o (<<Head(w)>> \o Tail(w)) = (p \o <<Head(w)>>) \o Tail(w)
    BY <1>1, ConcatAssociative
  <1>3. p \o <<>> = p
    OBVIOUS
  <1>4. QED
    BY <1>1, <1>2, <1>3

(* A list of one token.                                                    *)
LEMMA TokenAlone ==
    ASSUME NEW S, NEW b \in Seq(S), Len(b) = 1
    PROVE  Tail(b) = <<>> /\ b = <<Head(b)>> /\ Head(b) \in S
  <1>1. b # <<>>
    <2>1. Len(<<>>) = 0
      OBVIOUS
    <2>2. QED
      BY <2>1
  <1>2. /\ Head(b) \in S /\ Tail(b) \in Seq(S) /\ Len(Tail(b)) = 0
    BY <1>1, HeadTailProperties
  <1>3. Tail(b) = <<>>
    BY <1>2, EmptySeq
  <1>4. b = <<Head(b)>> \o Tail(b)
    BY <1>1
  <1>5. <<Head(b)>> \o <<>> = <<Head(b)>>
    BY <1>2
  <1>6. QED
    BY <1>2, <1>3, <1>4, <1>5

(* run writes it to a socket pair.                                         *)
LEMMA TokenWritten ==
    ASSUME NEW S, NEW p \in Seq(S), NEW b \in Seq(S), NEW w \in Seq(S), Len(b) = 1
    PROVE  Append(p, Head(b)) \o <<>> \o w = p \o b \o w
  <1>1. b = <<Head(b)>> /\ Head(b) \in S
    BY TokenAlone
  <1>2. /\ Append(p, Head(b)) = p \o <<Head(b)>>
        /\ Append(p, Head(b)) \o <<>> = Append(p, Head(b))
    BY <1>1
  <1>3. QED
    BY <1>1, <1>2, Zenon

(* A handler reads it.                                                     *)
LEMMA TokenRead ==
    \A p, b, w \in Seq(H2Tokens) : p # <<>> =>
       p \o b \o w # <<>> /\ Tail(p) \o b \o w = Tail(p \o b \o w)
  <1> SUFFICES ASSUME NEW p \in Seq(H2Tokens), NEW b \in Seq(H2Tokens),
                      NEW w \in Seq(H2Tokens), p # <<>>
               PROVE  p \o b \o w # <<>> /\ Tail(p) \o b \o w = Tail(p \o b \o w)
    BY Zenon
  <1>1. p \o b \in Seq(H2Tokens) /\ p \o b # <<>> /\ Tail(p) \o b = Tail(p \o b)
    OBVIOUS
  <1>2. (p \o b) \o w # <<>> /\ Tail(p \o b) \o w = Tail((p \o b) \o w)
    BY <1>1, SMTT(30)
  <1>3. QED
    BY <1>1, <1>2

(* What is on its way to each stream, before and after run reads a token.  *)
LEMMA WireRead ==
    ASSUME H2TypeOK, WireInv, h2Wire # <<>>, h2Wire' = Tail(h2Wire)
    PROVE  /\ WireInv' /\ h2Wire' \in Seq(H2Tokens) /\ Len(h2Wire') = Len(h2Wire) - 1
           /\ Head(h2Wire) \in H2Tokens
           /\ \A i \in DOMAIN h2Wire' : h2Wire'[i].id = Head(h2Wire).id
           /\ \A s \in H2Streams :
                /\ WireOf(s) = IF Head(h2Wire).id = s THEN h2Wire ELSE <<>>
                /\ WireOf(s)' = IF Head(h2Wire).id = s THEN Tail(h2Wire) ELSE <<>>
  <1>1. /\ Len(h2Wire) \in Nat \ {0} /\ DOMAIN h2Wire = 1..Len(h2Wire)
        /\ Head(h2Wire) = h2Wire[1] /\ Head(h2Wire) \in H2Tokens
        /\ h2Wire' \in Seq(H2Tokens) /\ DOMAIN h2Wire' = 1..(Len(h2Wire) - 1)
        /\ Len(h2Wire') = Len(h2Wire) - 1
        /\ \A i \in 1..(Len(h2Wire) - 1) : h2Wire'[i] = h2Wire[i + 1]
    BY DEF H2TypeOK
  <1>2. /\ \A i \in DOMAIN h2Wire : h2Wire[i].id = Head(h2Wire).id
        /\ \A i \in DOMAIN h2Wire' : h2Wire'[i].id = Head(h2Wire).id
    BY <1>1 DEF WireInv
  <1>3. \A i \in DOMAIN h2Wire' : h2Wire'[i].k = "payload"
    BY <1>1 DEF WireInv
  <1>4. h2Wire' # <<>> => Head(h2Wire').k = "payload"
    BY <1>1, <1>3
  <1>5. WireInv'
    BY <1>2, <1>3, <1>4 DEF WireInv
  <1>6. ASSUME NEW s \in H2Streams
        PROVE  /\ WireOf(s) = IF Head(h2Wire).id = s THEN h2Wire ELSE <<>>
               /\ WireOf(s)' = IF Head(h2Wire).id = s THEN Tail(h2Wire) ELSE <<>>
    <2>1. WireOf(s) = IF Head(h2Wire).id = s THEN h2Wire ELSE <<>>
      BY <1>1, <1>2 DEF WireOf
    <2>2. CASE h2Wire' = <<>>
      BY <2>1, <2>2 DEF WireOf
    <2>3. CASE h2Wire' # <<>>
      <3>1. 1 \in DOMAIN h2Wire'
        BY <1>1, <2>3
      <3>2. QED
        BY <2>1, <3>1, <1>2 DEF WireOf
    <2>4. QED
      BY <2>1, <2>2, <2>3
  <1>7. QED
    BY <1>1, <1>2, <1>5, <1>6

(* A frame that the peer sends on an empty wire.                           *)
LEMMA PeerSendsStep ==
    ASSUME H2Inv, NEW id \in H2Ids, NEW type \in {"HEADERS", "DATA"},
           NEW len \in 0..H2MaxLen, PeerSends(id, type, len)
    PROVE  H2Inv'
  <1> USE DEF H2Inv
  <1> DEFINE ts == <<Header(id, type, len, h2Frames)>> \o [i \in 1..len |-> Payload(id, h2Frames)]
  <1>0. /\ h2Wire = <<>> /\ h2Wire' = h2Wire \o ts /\ h2Frames' = h2Frames + 1
        /\ h2Owed' = [s \in H2Streams |->
             IF s = id /\ h2Sync /\ h2Fib[s] # "done" THEN h2Owed[s] \o ts ELSE h2Owed[s]]
        /\ h2Run # "new"
        /\ UNCHANGED <<h2Open, h2Run, h2Cur, h2Sync, h2Map, h2Pipe, h2Closed, h2Fib>>
    BY DEF PeerSends
  <1>1. /\ Header(id, type, len, h2Frames) \in H2Tokens
        /\ Payload(id, h2Frames) \in H2Tokens /\ len \in Nat
    BY H2Assumption DEF H2Assumption, Header, Payload, H2Tokens, H2TypeOK
  <1>2. /\ ts \in Seq(H2Tokens) /\ Len(ts) = len + 1 /\ DOMAIN ts = 1..(len + 1)
        /\ ts[1] = Header(id, type, len, h2Frames)
        /\ \A i \in 2..(len + 1) : ts[i] = Payload(id, h2Frames)
    <2> HIDE DEF H2Inv
    <2>1. /\ [i \in 1..len |-> Payload(id, h2Frames)] \in Seq(H2Tokens)
          /\ Len([i \in 1..len |-> Payload(id, h2Frames)]) = len
      BY <1>1
    <2>2. <<Header(id, type, len, h2Frames)>> \in Seq(H2Tokens)
      BY <1>1
    <2>3. QED
      BY <1>1, <2>1, <2>2
  <1> HIDE DEF ts
  <1>3. h2Wire' = ts
    BY <1>0, <1>2
  <1>4. /\ \A i \in DOMAIN ts : ts[i].id = id
        /\ \A i \in DOMAIN ts : i > 1 => ts[i].k = "payload"
        /\ ts # <<>> /\ Head(ts) = ts[1] /\ Head(ts).len = len
    BY <1>1, <1>2 DEF Header, Payload
  <1>5. WireInv'
    BY <1>2, <1>3, <1>4 DEF WireInv
  <1>6. \A s \in H2Streams : WireOf(s) = <<>> /\ WireOf(s)' = IF s = id THEN ts ELSE <<>>
    BY <1>0, <1>2, <1>3, <1>4 DEF WireOf
  <1>7. h2Owed' \in [H2Streams -> Seq(H2Tokens)]
    BY <1>0, <1>2 DEF H2TypeOK
  <1>8. H2TypeOK'
    BY <1>0, <1>2, <1>3, <1>7 DEF H2TypeOK
  <1>9. FrameInv'
    BY <1>0 DEF FrameInv, H2TypeOK
  <1>10. HandlersInv'
    BY <1>0 DEF HandlersInv
  <1>11. StreamsInv'
    <2>1. SUFFICES ASSUME h2Sync, h2Run \in {"new", "header", "forward"},
                          NEW s \in H2Streams, h2Fib[s] # "done"
                   PROVE  h2Pipe[s] \o BufOf(s) \o WireOf(s)' = h2Owed'[s]
      BY <1>0 DEF StreamsInv, BufOf
    <2>2. h2Pipe[s] \o BufOf(s) \o <<>> = h2Owed[s]
      BY <1>6, <2>1 DEF StreamsInv
    <2>3. h2Pipe[s] \in Seq(H2Tokens) /\ BufOf(s) \in Seq(H2Tokens)
      BY DEF H2TypeOK, BufOf
    <2>4. h2Owed'[s] = IF s = id THEN h2Owed[s] \o ts ELSE h2Owed[s]
      BY <1>0, <2>1
    <2>5. (h2Pipe[s] \o BufOf(s) \o <<>>) \o ts = h2Pipe[s] \o BufOf(s) \o ts
      BY <1>2, <2>3
    <2>6. QED
      BY <1>6, <2>2, <2>4, <2>5
  <1>12. QED
    BY <1>5, <1>8, <1>9, <1>10, <1>11

(* What run does with a frame header, in step with the peer or not.        *)
LEMMA FrameHeaderStep ==
    ASSUME H2Inv, h2Run = "header", h2Wire # <<>>, h2Wire' = Tail(h2Wire),
           NEW h \in H2Tokens, h.k = "header", FrameHeader(h),
           \/ h = Head(h2Wire) /\ h2Sync' = h2Sync /\ h2Owed' = h2Owed
           \/ h2Sync' = FALSE /\ h2Owed' = [s \in H2Streams |-> <<>>]
    PROVE  H2Inv'
  <1> USE DEF H2Inv
  <1>1. h.id \in H2Ids /\ h.len \in Nat
    BY DEF H2Tokens
  <1>2. /\ WireInv' /\ h2Wire' \in Seq(H2Tokens) /\ Len(h2Wire') = Len(h2Wire) - 1
        /\ Head(h2Wire) \in H2Tokens
        /\ \A i \in DOMAIN h2Wire' : h2Wire'[i].id = Head(h2Wire).id
        /\ \A s \in H2Streams :
             /\ WireOf(s) = IF Head(h2Wire).id = s THEN h2Wire ELSE <<>>
             /\ WireOf(s)' = IF Head(h2Wire).id = s THEN Tail(h2Wire) ELSE <<>>
    BY WireRead
  <1>3. /\ Forwarded(h) \in [id : H2Ids, buf : Seq(H2Tokens), left : Nat]
        /\ Forwarded(h).id = h.id /\ Forwarded(h).buf = <<h>> /\ Forwarded(h).left = h.len
        /\ Len(<<h>>) = 1 /\ <<h>> # <<>>
    BY <1>1 DEF Forwarded
  <1>4. h2Owed' \in [H2Streams -> Seq(H2Tokens)] /\ h2Sync' \in BOOLEAN
    <2>1. h2Owed \in [H2Streams -> Seq(H2Tokens)] /\ h2Sync \in BOOLEAN
      BY DEF H2TypeOK
    <2>2. [s \in H2Streams |-> <<>>] \in [H2Streams -> Seq(H2Tokens)]
      OBVIOUS
    <2>3. QED
      BY <2>1, <2>2
  <1>5. CASE h.id = H2Control /\ UNCHANGED <<h2Run, h2Cur, h2Map, h2Fib>>
    <2>1. UNCHANGED <<h2Open, h2Frames, h2Pipe, h2Closed>>
      BY DEF FrameHeader, h2Peer
    <2>2. H2TypeOK'
      BY <1>2, <1>4, <1>5, <2>1 DEF H2TypeOK
    <2>3. FrameInv' /\ HandlersInv'
      BY <1>5 DEF FrameInv, HandlersInv
    <2>4. StreamsInv'
      <3>1. CASE h = Head(h2Wire) /\ h2Sync' = h2Sync /\ h2Owed' = h2Owed
        <4>1. \A s \in H2Streams : WireOf(s)' = WireOf(s)
          BY <1>2, <1>5, <3>1, H2Assumption DEF H2Assumption
        <4>2. QED
          BY <1>5, <2>1, <3>1, <4>1 DEF StreamsInv, BufOf
      <3>2. QED
        BY <3>1 DEF StreamsInv
    <2>5. QED
      BY <1>2, <2>2, <2>3, <2>4
  <1>6. CASE /\ h.id \in H2Streams /\ h2Run' = "forward" /\ h2Cur' = Forwarded(h)
             /\ h2Map' = h2Map \cup {h.id}
             /\ h2Fib' = h2Fib \/ (h.id \notin h2Map /\ h2Fib' = [h2Fib EXCEPT ![h.id] = "runs"])
             /\ h2Fib' = h2Fib => h.id \in h2Map
    <2>1. UNCHANGED <<h2Open, h2Frames, h2Pipe, h2Closed>>
      BY DEF FrameHeader, h2Peer
    <2>2. H2TypeOK'
      <3>1. h2Cur' \in [id : H2Ids, buf : Seq(H2Tokens), left : Nat]
        BY <1>3, <1>6
      <3>2. h2Map' \in SUBSET H2Streams /\ h2Run' = "forward"
        BY <1>6 DEF H2TypeOK
      <3>3. h2Fib' \in [H2Streams -> {"none", "runs", "done"}]
        BY <1>6 DEF H2TypeOK
      <3>4. QED
        BY <1>2, <1>4, <2>1, <3>1, <3>2, <3>3 DEF H2TypeOK
    <2>3. HandlersInv'
      BY <1>6 DEF HandlersInv, H2TypeOK
    <2>4. FrameInv'
      <3>1. h2Cur'.buf = <<h>> /\ h2Cur'.id = h.id /\ h2Cur'.left = h.len
        BY <1>3, <1>6
      <3>2. h2Sync' => /\ Len(h2Wire') = h.len
                       /\ \A i \in DOMAIN h2Wire' : h2Wire'[i].id = h.id
        <4>1. h2Sync' => h = Head(h2Wire)
          OBVIOUS
        <4>2. h2Sync' => Len(h2Wire) = h.len + 1
          BY <4>1 DEF WireInv
        <4>3. QED
          BY <1>1, <1>2, <4>1, <4>2
      <3>3. QED
        BY <1>3, <1>6, <3>1, <3>2 DEF FrameInv
    <2>5. StreamsInv'
      <3>1. CASE h = Head(h2Wire) /\ h2Sync' = h2Sync /\ h2Owed' = h2Owed
        <4>1. SUFFICES ASSUME h2Sync, NEW s \in H2Streams, h2Fib[s] # "done"
                       PROVE  h2Pipe[s] \o BufOf(s)' \o WireOf(s)' = h2Owed[s]
          BY <1>6, <2>1, <3>1 DEF StreamsInv, HandlersInv, H2TypeOK
        <4>2. h2Pipe[s] \o <<>> \o WireOf(s) = h2Owed[s]
          <5>1. BufOf(s) = <<>>
            BY DEF BufOf, FrameInv
          <5>2. QED
            BY <4>1, <5>1 DEF StreamsInv
        <4>3. BufOf(s)' = IF h.id = s THEN <<h>> ELSE <<>>
          BY <1>3, <1>6 DEF BufOf
        <4>4. h2Pipe[s] \o <<>> \o h2Wire = h2Pipe[s] \o <<Head(h2Wire)>> \o Tail(h2Wire)
          <5>1. h2Pipe[s] \in Seq(H2Tokens) /\ h2Wire \in Seq(H2Tokens)
            BY DEF H2TypeOK
          <5>2. QED
            BY <5>1, TokenTaken
        <4>5. QED
          BY <1>2, <3>1, <4>2, <4>3, <4>4
      <3>2. QED
        BY <3>1 DEF StreamsInv
    <2>6. QED
      BY <1>2, <2>2, <2>3, <2>4, <2>5
  <1>7. CASE h2Run' = "close" /\ UNCHANGED <<h2Cur, h2Map, h2Fib>>
    <2>1. UNCHANGED <<h2Open, h2Frames, h2Pipe, h2Closed>>
      BY DEF FrameHeader, h2Peer
    <2>2. H2TypeOK'
      BY <1>2, <1>4, <1>7, <2>1 DEF H2TypeOK
    <2>3. FrameInv' /\ HandlersInv' /\ StreamsInv'
      BY <1>7 DEF FrameInv, HandlersInv, StreamsInv
    <2>4. QED
      BY <1>2, <2>2, <2>3
  <1>8. QED
    <2>1. \/ h.id = H2Control /\ UNCHANGED <<h2Run, h2Cur, h2Map, h2Fib>>
          \/ /\ h.id # H2Control /\ h.id \notin h2Map /\ NewHandler(h.id)
             /\ h2Run' = "forward" /\ h2Cur' = Forwarded(h)
          \/ /\ h.id # H2Control /\ h.id \in h2Map
             /\ h2Run' = "forward" /\ h2Cur' = Forwarded(h) /\ UNCHANGED <<h2Map, h2Fib>>
          \/ h2Run' = "close" /\ UNCHANGED <<h2Cur, h2Map, h2Fib>>
      BY DEF FrameHeader
    <2>2. CASE /\ h.id # H2Control /\ h.id \notin h2Map /\ NewHandler(h.id)
               /\ h2Run' = "forward" /\ h2Cur' = Forwarded(h)
      <3>1. h.id \in H2Streams
        BY <1>1, <2>2 DEF H2Ids
      <3>2. h2Map' = h2Map \cup {h.id} /\ h2Fib' = [h2Fib EXCEPT ![h.id] = "runs"]
        BY <2>2 DEF NewHandler
      <3>3. h2Fib[h.id] = "none"
        BY <2>2, <3>1 DEF HandlersInv
      <3>4. h2Fib' # h2Fib
        BY <3>1, <3>2, <3>3 DEF H2TypeOK
      <3>5. QED
        BY <1>6, <2>2, <3>1, <3>2, <3>4
    <2>3. CASE /\ h.id # H2Control /\ h.id \in h2Map
               /\ h2Run' = "forward" /\ h2Cur' = Forwarded(h) /\ UNCHANGED <<h2Map, h2Fib>>
      <3>1. h.id \in H2Streams /\ h2Map = h2Map \cup {h.id}
        BY <1>1, <2>3 DEF H2Ids
      <3>2. QED
        BY <1>6, <2>3, <3>1
    <2>4. QED
      BY <1>5, <1>7, <2>1, <2>2, <2>3

(* run reads a frame header.                                               *)
LEMMA ReadHeaderStep ==
    ASSUME H2Inv, ReadHeader
    PROVE  H2Inv'
  <1>1. h2Run = "header" /\ h2Wire # <<>> /\ h2Wire' = Tail(h2Wire)
    BY DEF ReadHeader
  <1>2. Head(h2Wire) \in H2Tokens
    BY <1>1 DEF H2Inv, H2TypeOK
  <1>3. CASE Head(h2Wire).k = "header" /\ h2Sync
    <2>1. FrameHeader(Head(h2Wire)) /\ h2Sync' = h2Sync /\ h2Owed' = h2Owed
      BY <1>3 DEF ReadHeader
    <2>2. QED
      BY <1>1, <1>2, <1>3, <2>1, FrameHeaderStep
  <1>4. CASE ~(Head(h2Wire).k = "header" /\ h2Sync)
    <2>1. PICK id \in H2Ids, type \in {"HEADERS", "DATA"}, len \in 0..H2MaxLen :
                 FrameHeader(Header(id, type, len, H2MaxFrames))
      BY <1>4 DEF ReadHeader, H2Ids
    <2>2. h2Sync' = FALSE /\ h2Owed' = [s \in H2Streams |-> <<>>]
      BY <1>4 DEF ReadHeader
    <2>3. /\ Header(id, type, len, H2MaxFrames) \in H2Tokens
          /\ Header(id, type, len, H2MaxFrames).k = "header"
      BY H2Assumption DEF H2Assumption, Header, H2Tokens
    <2>4. QED
      BY <1>1, <2>1, <2>2, <2>3, FrameHeaderStep
  <1>5. QED
    BY <1>3, <1>4

(* run writes a token of the frame to the handler's socket pair.           *)
LEMMA WriteToHandlerStep ==
    ASSUME H2Inv, WriteToHandler
    PROVE  H2Inv'
  <1> USE DEF H2Inv
  <1>0. /\ h2Run = "forward" /\ h2Cur.buf # <<>> /\ h2Cur.id \in h2Map
        /\ UNCHANGED <<h2Wire, h2Open, h2Frames, h2Sync, h2Map, h2Closed, h2Fib, h2Owed>>
    BY DEF WriteToHandler, h2Peer, FrameInv
  <1>1. CASE h2Fib[h2Cur.id] = "done" /\ h2Run' = "close" /\ UNCHANGED <<h2Pipe, h2Cur>>
    BY <1>0, <1>1 DEF H2TypeOK, WireInv, FrameInv, HandlersInv, StreamsInv
  <1>2. CASE /\ h2Pipe' = [h2Pipe EXCEPT ![h2Cur.id] = Append(@, Head(h2Cur.buf))]
             /\ h2Cur' = [h2Cur EXCEPT !.buf = Tail(@)]
             /\ h2Run' = IF h2Cur.left = 0 /\ Len(h2Cur.buf) = 1 THEN "header" ELSE "forward"
    <2>1. /\ h2Cur.buf \in Seq(H2Tokens) /\ Len(h2Cur.buf) = 1
          /\ Head(h2Cur.buf) \in H2Tokens /\ Tail(h2Cur.buf) = <<>>
      <3>1. h2Cur.buf \in Seq(H2Tokens) /\ Len(h2Cur.buf) = 1
        BY <1>0 DEF FrameInv, H2TypeOK
      <3>2. QED
        BY <3>1, TokenAlone
    <2>2. /\ h2Cur' \in [id : H2Ids, buf : Seq(H2Tokens), left : Nat]
          /\ h2Cur'.id = h2Cur.id /\ h2Cur'.buf = <<>> /\ h2Cur'.left = h2Cur.left
      BY <1>2, <2>1 DEF H2TypeOK
    <2>3. /\ h2Pipe' \in [H2Streams -> Seq(H2Tokens)]
          /\ h2Cur.id \in H2Streams
          /\ \A s \in H2Streams : h2Pipe'[s] =
               IF s = h2Cur.id THEN Append(h2Pipe[s], Head(h2Cur.buf)) ELSE h2Pipe[s]
      BY <1>0, <1>2, <2>1 DEF H2TypeOK
    <2>4. H2TypeOK' /\ WireInv'
      BY <1>0, <1>2, <2>2, <2>3, SMTT(30) DEF H2TypeOK, WireInv
    <2>5. FrameInv' /\ HandlersInv'
      BY <1>0, <1>2, <2>2 DEF FrameInv, HandlersInv
    <2>6. StreamsInv'
      <3>1. SUFFICES ASSUME h2Sync, NEW s \in H2Streams, h2Fib[s] # "done"
                     PROVE  h2Pipe'[s] \o BufOf(s)' \o WireOf(s) = h2Owed[s]
        BY <1>0 DEF StreamsInv, WireOf
      <3>2. h2Pipe[s] \o BufOf(s) \o WireOf(s) = h2Owed[s]
        BY <1>0, <3>1 DEF StreamsInv
      <3>3. BufOf(s)' = <<>> /\ BufOf(s) = IF h2Cur.id = s THEN h2Cur.buf ELSE <<>>
        BY <2>2 DEF BufOf
      <3>4. WireOf(s) \in Seq(H2Tokens) /\ h2Pipe[s] \in Seq(H2Tokens)
        BY DEF WireOf, H2TypeOK
      <3>5. Append(h2Pipe[s], Head(h2Cur.buf)) \o <<>> \o WireOf(s)
              = h2Pipe[s] \o h2Cur.buf \o WireOf(s)
        <4>1. \A p, b, w \in Seq(H2Tokens) : Len(b) = 1 =>
                Append(p, Head(b)) \o <<>> \o w = p \o b \o w
          BY TokenWritten, SMTT(30)
        <4>2. QED
          BY <2>1, <3>4, <4>1, Zenon
      <3>6. QED
        BY <2>3, <3>2, <3>3, <3>5, Zenon
    <2>7. QED
      BY <2>4, <2>5, <2>6
  <1>3. QED
    BY <1>1, <1>2 DEF WriteToHandler

(* run reads a token of the frame's payload.                               *)
LEMMA ReadPayloadStep ==
    ASSUME H2Inv, ReadPayload
    PROVE  H2Inv'
  <1> USE DEF H2Inv
  <1>0. /\ h2Run = "forward" /\ h2Cur.buf = <<>> /\ h2Cur.left > 0 /\ h2Wire # <<>>
        /\ h2Cur' = [h2Cur EXCEPT !.buf = <<Head(h2Wire)>>, !.left = @ - 1]
        /\ h2Wire' = Tail(h2Wire)
        /\ UNCHANGED <<h2Open, h2Frames, h2Run, h2Sync, h2Map, h2Pipe, h2Closed, h2Fib, h2Owed>>
    BY DEF ReadPayload, h2Peer
  <1>2. /\ WireInv' /\ h2Wire' \in Seq(H2Tokens) /\ Len(h2Wire') = Len(h2Wire) - 1
        /\ Head(h2Wire) \in H2Tokens
        /\ \A i \in DOMAIN h2Wire' : h2Wire'[i].id = Head(h2Wire).id
        /\ \A s \in H2Streams :
             /\ WireOf(s) = IF Head(h2Wire).id = s THEN h2Wire ELSE <<>>
             /\ WireOf(s)' = IF Head(h2Wire).id = s THEN Tail(h2Wire) ELSE <<>>
    BY <1>0, WireRead
  <1>3. /\ h2Cur' \in [id : H2Ids, buf : Seq(H2Tokens), left : Nat]
        /\ h2Cur'.id = h2Cur.id /\ h2Cur'.buf = <<Head(h2Wire)>>
        /\ h2Cur'.left = h2Cur.left - 1 /\ Len(<<Head(h2Wire)>>) = 1
    <2>1. <<Head(h2Wire)>> \in Seq(H2Tokens) /\ Len(<<Head(h2Wire)>>) = 1
      BY <1>2
    <2>2. h2Cur.left - 1 \in Nat /\ h2Cur \in [id : H2Ids, buf : Seq(H2Tokens), left : Nat]
      BY <1>0 DEF H2TypeOK
    <2>3. h2Cur' = [id |-> h2Cur.id, buf |-> <<Head(h2Wire)>>, left |-> h2Cur.left - 1]
      BY <1>0, <2>2
    <2>4. QED
      BY <2>1, <2>2, <2>3
  <1>4. H2TypeOK'
    BY <1>0, <1>2, <1>3 DEF H2TypeOK
  <1>5. h2Sync => Len(h2Wire) = h2Cur.left /\ Head(h2Wire).id = h2Cur.id
    <2>1. 1 \in DOMAIN h2Wire /\ Head(h2Wire) = h2Wire[1]
      BY <1>0 DEF H2TypeOK
    <2>2. QED
      BY <1>0, <2>1 DEF FrameInv
  <1>6. FrameInv'
    BY <1>0, <1>2, <1>3, <1>5 DEF FrameInv
  <1>7. HandlersInv'
    BY <1>0 DEF HandlersInv
  <1>8. StreamsInv'
    <2>1. SUFFICES ASSUME h2Sync, NEW s \in H2Streams, h2Fib[s] # "done"
                   PROVE  h2Pipe[s] \o BufOf(s)' \o WireOf(s)' = h2Owed[s]
      BY <1>0 DEF StreamsInv
    <2>2. h2Pipe[s] \o <<>> \o WireOf(s) = h2Owed[s]
      <3>1. BufOf(s) = <<>>
        BY <1>0 DEF BufOf
      <3>2. QED
        BY <1>0, <2>1, <3>1 DEF StreamsInv
    <2>3. BufOf(s)' = IF h2Cur.id = s THEN <<Head(h2Wire)>> ELSE <<>>
      BY <1>3 DEF BufOf
    <2>4. h2Pipe[s] \o <<>> \o h2Wire = h2Pipe[s] \o <<Head(h2Wire)>> \o Tail(h2Wire)
      <3>1. h2Pipe[s] \in Seq(H2Tokens) /\ h2Wire \in Seq(H2Tokens)
        BY DEF H2TypeOK
      <3>2. QED
        BY <1>0, <3>1, TokenTaken
    <2>5. QED
      BY <1>2, <1>5, <2>1, <2>2, <2>3, <2>4
  <1>9. QED
    BY <1>2, <1>4, <1>6, <1>7, <1>8

(* The handler of a stream reads a token, which is the first it is owed.   *)
LEMMA HandlerReadsStep ==
    ASSUME H2Inv, NEW r \in H2Streams, HandlerReads(r)
    PROVE  H2Inv'
  <1> USE DEF H2Inv
  <1>0. /\ h2Pipe[r] # <<>> /\ h2Pipe' = [h2Pipe EXCEPT ![r] = Tail(@)]
        /\ h2Owed' = [h2Owed EXCEPT ![r] = IF @ = <<>> THEN @ ELSE Tail(@)]
        /\ UNCHANGED <<h2Wire, h2Open, h2Frames, h2Run, h2Cur, h2Sync, h2Map, h2Closed, h2Fib>>
    BY DEF HandlerReads, h2Peer
  <1>1. h2Pipe' \in [H2Streams -> Seq(H2Tokens)] /\ h2Owed' \in [H2Streams -> Seq(H2Tokens)]
    BY <1>0 DEF H2TypeOK
  <1>2. H2TypeOK' /\ WireInv'
    BY <1>0, <1>1 DEF H2TypeOK, WireInv
  <1>3. FrameInv' /\ HandlersInv'
    BY <1>0 DEF FrameInv, HandlersInv
  <1>4. StreamsInv'
    <2>1. SUFFICES ASSUME h2Sync, h2Run \in {"new", "header", "forward"},
                          NEW s \in H2Streams, h2Fib[s] # "done"
                   PROVE  h2Pipe'[s] \o BufOf(s) \o WireOf(s) = h2Owed'[s]
      BY <1>0, ZenonT(60) DEF StreamsInv, BufOf, WireOf
    <2>2. h2Pipe[s] \o BufOf(s) \o WireOf(s) = h2Owed[s]
      BY <2>1 DEF StreamsInv
    <2>3. /\ h2Pipe[s] \in Seq(H2Tokens) /\ BufOf(s) \in Seq(H2Tokens)
          /\ WireOf(s) \in Seq(H2Tokens)
      BY DEF H2TypeOK, BufOf, WireOf
    <2>4. CASE s = r
      <3>1. /\ h2Pipe[s] \o BufOf(s) \o WireOf(s) # <<>>
            /\ Tail(h2Pipe[s]) \o BufOf(s) \o WireOf(s)
                 = Tail(h2Pipe[s] \o BufOf(s) \o WireOf(s))
        <4>1. h2Pipe[s] # <<>>
          BY <1>0, <2>4
        <4>2. QED
          BY <2>3, <4>1, TokenRead, Zenon
      <3>2. h2Pipe'[s] = Tail(h2Pipe[s])
        BY <1>0, <2>4 DEF H2TypeOK
      <3>3. h2Owed'[s] = IF h2Owed[s] = <<>> THEN h2Owed[s] ELSE Tail(h2Owed[s])
        BY <1>0, <2>4 DEF H2TypeOK
      <3>4. QED
        BY <2>2, <3>1, <3>2, <3>3, Zenon
    <2>5. CASE s # r
      <3>1. h2Pipe'[s] = h2Pipe[s] /\ h2Owed'[s] = h2Owed[s]
        BY <1>0, <2>5 DEF H2TypeOK
      <3>2. QED
        BY <2>2, <3>1, Zenon
    <2>6. QED
      BY <2>4, <2>5
  <1>5. QED
    BY <1>2, <1>3, <1>4

(* A handler returns; nothing is owed to it any more.                      *)
LEMMA HandlerDoneStep ==
    ASSUME H2Inv, NEW r \in H2Streams, HandlerEnds(r) \/ HandlerReturns(r)
    PROVE  H2Inv'
  <1> USE DEF H2Inv
  <1>0. /\ h2Fib[r] = "runs" /\ h2Fib' = [h2Fib EXCEPT ![r] = "done"]
        /\ h2Owed' = [h2Owed EXCEPT ![r] = <<>>]
        /\ h2Pipe' = h2Pipe \/ h2Pipe' = [h2Pipe EXCEPT ![r] = <<>>]
        /\ UNCHANGED <<h2Wire, h2Open, h2Frames, h2Run, h2Cur, h2Sync, h2Map, h2Closed>>
    BY DEF HandlerEnds, HandlerReturns, h2Peer
  <1>1. h2Pipe' \in [H2Streams -> Seq(H2Tokens)] /\ h2Owed' \in [H2Streams -> Seq(H2Tokens)]
    <2>1. <<>> \in Seq(H2Tokens)
      OBVIOUS
    <2>2. /\ h2Owed \in [H2Streams -> Seq(H2Tokens)]
          /\ h2Pipe \in [H2Streams -> Seq(H2Tokens)]
      BY DEF H2TypeOK
    <2>3. \A fn \in [H2Streams -> Seq(H2Tokens)] :
            [fn EXCEPT ![r] = <<>>] \in [H2Streams -> Seq(H2Tokens)]
      BY <2>1
    <2>4. QED
      BY <1>0, <2>2, <2>3, ZenonT(60)
  <1>2. H2TypeOK' /\ WireInv'
    BY <1>0, <1>1 DEF H2TypeOK, WireInv
  <1>3. FrameInv' /\ HandlersInv'
    BY <1>0 DEF FrameInv, HandlersInv, H2TypeOK
  <1>4. \A s \in H2Streams : s # r =>
          h2Pipe'[s] = h2Pipe[s] /\ h2Owed'[s] = h2Owed[s] /\ h2Fib'[s] = h2Fib[s]
    BY <1>0 DEF H2TypeOK
  <1>5. h2Fib'[r] = "done"
    BY <1>0 DEF H2TypeOK
  <1>6. StreamsInv'
    <2>1. \A s \in H2Streams : BufOf(s)' = BufOf(s) /\ WireOf(s)' = WireOf(s)
      BY <1>0 DEF BufOf, WireOf
    <2>2. h2Sync' = h2Sync /\ h2Run' = h2Run
      BY <1>0
    <2>3. QED
      BY <1>4, <1>5, <2>1, <2>2, Zenon DEF StreamsInv
  <1>7. QED
    BY <1>2, <1>3, <1>6

(* Every step of a connection keeps the invariant.                         *)
THEOREM Http2Invariance == H2Spec => []H2Inv
  <1>1. H2Init => H2Inv
    <2> SUFFICES ASSUME H2Init PROVE H2Inv
      OBVIOUS
    <2>1. H2TypeOK
      BY DEF H2Init, H2TypeOK, NoFrame, H2Ids
    <2>2. WireInv /\ FrameInv /\ HandlersInv
      BY DEF H2Init, WireInv, FrameInv, HandlersInv, NoFrame
    <2>3. StreamsInv
      BY DEF H2Init, StreamsInv, BufOf, WireOf, NoFrame
    <2>4. QED
      BY <2>1, <2>2, <2>3 DEF H2Inv
  <1>2. H2Inv /\ [H2Next]_h2Vars => H2Inv'
    <2> SUFFICES ASSUME H2Inv, [H2Next]_h2Vars PROVE H2Inv'
      OBVIOUS
    <2>1. CASE Upgrade
      <3>1. /\ h2Run = "new" /\ h2Run' \in {"header", "gone"}
            /\ UNCHANGED <<h2Wire, h2Open, h2Frames, h2Cur, h2Sync, h2Map, h2Pipe, h2Closed,
                           h2Fib, h2Owed>>
        BY <2>1 DEF Upgrade, h2Peer
      <3>2. H2TypeOK'
        BY <3>1 DEF H2Inv, H2TypeOK
      <3>3. WireInv' /\ FrameInv'
        BY <3>1 DEF H2Inv, WireInv, FrameInv
      <3>4. HandlersInv'
        BY <3>1 DEF H2Inv, HandlersInv
      <3>5. StreamsInv'
        BY <3>1 DEF H2Inv, StreamsInv, BufOf, WireOf
      <3>6. QED
        BY <3>2, <3>3, <3>4, <3>5 DEF H2Inv
    <2>2. CASE PeerCloses \/ UNCHANGED h2Vars
      <3>1. UNCHANGED <<h2Wire, h2Frames, h2Run, h2Cur, h2Sync, h2Map, h2Pipe, h2Closed,
                        h2Fib, h2Owed>>
        BY <2>2 DEF PeerCloses, h2Vars, h2Peer
      <3>2. h2Open' \in BOOLEAN
        BY <2>2, Zenon DEF PeerCloses, h2Vars, h2Peer, H2Inv, H2TypeOK
      <3>3. H2TypeOK'
        BY <3>1, <3>2 DEF H2Inv, H2TypeOK
      <3>4. WireInv' /\ FrameInv'
        BY <3>1 DEF H2Inv, WireInv, FrameInv
      <3>5. HandlersInv'
        BY <3>1 DEF H2Inv, HandlersInv
      <3>6. StreamsInv'
        BY <3>1 DEF H2Inv, StreamsInv, BufOf, WireOf
      <3>7. QED
        BY <3>3, <3>4, <3>5, <3>6 DEF H2Inv
    <2>3. CASE ReadThrows
      BY <2>3 DEF H2Inv, ReadThrows, h2Peer, H2TypeOK, WireInv, FrameInv, HandlersInv,
                  StreamsInv
    <2>4. CASE CloseStream
      <3>1. /\ h2Run = "close"
            /\ UNCHANGED <<h2Wire, h2Open, h2Frames, h2Sync, h2Map, h2Pipe, h2Fib, h2Owed>>
        BY <2>4 DEF CloseStream, h2Peer
      <3>2. CASE h2Map = {} /\ h2Run' = "gone" /\ UNCHANGED <<h2Cur, h2Closed>>
        BY <3>1, <3>2 DEF H2Inv, H2TypeOK, WireInv, FrameInv, HandlersInv, StreamsInv
      <3>3. ASSUME NEW s \in h2Map, h2Run' = "join", h2Cur' = [NoFrame EXCEPT !.id = s],
                   h2Closed' = h2Closed \cup {s}
            PROVE  H2Inv'
        <4>1. h2Cur' = [id |-> s, buf |-> <<>>, left |-> 0]
          BY <3>3 DEF NoFrame
        <4>2. h2Cur' \in [id : H2Ids, buf : Seq(H2Tokens), left : Nat] /\ h2Cur'.buf = <<>>
          BY <4>1 DEF H2Ids, H2Inv, H2TypeOK
        <4>3. QED
          BY <3>1, <3>3, <4>2 DEF H2Inv, H2TypeOK, WireInv, FrameInv, HandlersInv, StreamsInv
      <3>4. QED
        BY <2>4, <3>2, <3>3 DEF CloseStream
    <2>5. CASE JoinStream
      BY <2>5 DEF H2Inv, JoinStream, h2Peer, H2TypeOK, WireInv, FrameInv, HandlersInv,
                  StreamsInv
    <2>6. QED
      BY <2>1, <2>2, <2>3, <2>4, <2>5, PeerSendsStep, ReadHeaderStep,
         WriteToHandlerStep, ReadPayloadStep, HandlerReadsStep, HandlerDoneStep
      DEF H2Next, H2RunStep, H2Ids
  <1>3. QED
    BY <1>1, <1>2, PTL DEF H2Spec

(* For any streams, frames and sizes of the socket pairs: as long as run   *)
(* reads in step with the peer, the handler of each stream is given that   *)
(* stream's frames in order and whole; and no handler runs any more when   *)
(* run has returned.                                                       *)
THEOREM StreamsDemultiplexed == H2Spec => []Demultiplexed
  <1>1. H2Inv => Demultiplexed
    <2> SUFFICES ASSUME H2Inv PROVE Demultiplexed
      OBVIOUS
    <2>1. \A s \in H2Streams : BufOf(s) = IF h2Cur.id = s THEN h2Cur.buf ELSE <<>>
      BY DEF BufOf
    <2>2. ASSUME h2Sync, h2Run \in {"header", "forward"}, NEW s \in H2Streams,
                 h2Fib[s] = "runs"
          PROVE  h2Pipe[s] \o BufOf(s) \o WireOf(s) = h2Owed[s]
      BY <2>2 DEF H2Inv, StreamsInv
    <2>3. h2Run = "gone" => \A s \in H2Streams : h2Fib[s] # "runs"
      BY DEF H2Inv, HandlersInv
    <2>4. QED
      BY <2>2, <2>3 DEF Demultiplexed, BufOf
  <1>2. QED
    BY <1>1, Http2Invariance, PTL

-----------------------------------------------------------------------------
(* http_client_response::parse: the response that a caller gets is the one *)
(* that was sent.                                                          *)

(* The variables have the types of the code.                               *)
HlTypeOK ==
    /\ hlSkips \in Nat /\ hlLen \in Nat
    /\ hlReadBody \in BOOLEAN /\ hlThrows \in BOOLEAN /\ hlFramed \in BOOLEAN
    /\ hlPc \in {"new", "read", "parse", "done", "threw"}
    /\ hlRd \in Nat /\ hlBsp \in Nat /\ hlIn \in 0..hlSkips
    /\ hlBuf \in Seq(Nat) /\ hlHdr \in Seq(Nat) /\ hlGot \in Seq(Nat)

(* The buffer holds the last bytes that were read, and what was parsed are *)
(* the headers and the body of the current response, from their start on.  *)
BytesInv ==
    /\ Len(hlBuf) <= hlRd /\ hlBsp <= Len(hlBuf)
    /\ hlPc # "done" \/ hlBsp < Len(hlBuf) => hlBuf = HlRun(hlRd - Len(hlBuf), Len(hlBuf))
    /\ Len(hlHdr) <= HlHead /\ hlHdr = HlRun(HlStart(hlIn), Len(hlHdr))
    /\ hlGot = HlRun(HlStart(hlSkips + 1), Len(hlGot))
    /\ hlGot # <<>> => IsLast /\ HeadersComplete
    /\ hlReadBody => Len(hlGot) <= hlLen

(* No byte is skipped and none is parsed twice.                            *)
PositionInv ==
    hlPc # "threw" =>
      hlRd - Len(hlBuf) + hlBsp = HlStart(hlIn) + Len(hlHdr) + Len(hlGot)

(* A response that is returned is the last one and is complete.            *)
ReturnInv ==
    hlPc = "done" => /\ IsLast /\ HeadersComplete
                     /\ hlReadBody => Len(hlGot) = hlLen

HlSeen == HlTypeOK /\ BytesInv /\ PositionInv /\ ReturnInv

(* Unless the parser has gone on into what is behind a response.           *)
Within == hlInterim # "joined" /\ ~hlOdd
HlInv == Within => HlSeen

(* Consecutive bytes.                                                      *)
LEMMA RunIs ==
    ASSUME NEW a \in Nat, NEW n \in Nat
    PROVE  /\ HlRun(a, n) \in Seq(Nat) /\ Len(HlRun(a, n)) = n
           /\ \A k \in 1..n : HlRun(a, n)[k] = a + k
  BY DEF HlRun

(* Bytes that follow one another make one run.                             *)
LEMMA RunJoin ==
    ASSUME NEW a \in Nat, NEW n \in Nat, NEW m \in Nat
    PROVE  HlRun(a, n) \o HlRun(a + n, m) = HlRun(a, n + m)
  <1>0. a + n \in Nat /\ n + m \in Nat
    OBVIOUS
  <1>1. /\ HlRun(a, n) \in Seq(Nat) /\ Len(HlRun(a, n)) = n
        /\ \A k \in 1..n : HlRun(a, n)[k] = a + k
    BY RunIs
  <1>2. /\ HlRun(a + n, m) \in Seq(Nat) /\ Len(HlRun(a + n, m)) = m
        /\ \A k \in 1..m : HlRun(a + n, m)[k] = (a + n) + k
    BY <1>0, RunIs, Zenon
  <1>3. /\ HlRun(a, n + m) \in Seq(Nat) /\ Len(HlRun(a, n + m)) = n + m
        /\ \A k \in 1..(n + m) : HlRun(a, n + m)[k] = a + k
    BY <1>0, RunIs, Zenon
  <1>4. /\ HlRun(a, n) \o HlRun(a + n, m) \in Seq(Nat)
        /\ Len(HlRun(a, n) \o HlRun(a + n, m)) = n + m
        /\ \A k \in 1..(n + m) : (HlRun(a, n) \o HlRun(a + n, m))[k] = a + k
    <2> DEFINE s == HlRun(a, n)
               u == HlRun(a + n, m)
    <2> HIDE DEF s, u
    <2>1. /\ s \in Seq(Nat) /\ Len(s) = n /\ \A k \in 1..n : s[k] = a + k
          /\ u \in Seq(Nat) /\ Len(u) = m /\ \A k \in 1..m : u[k] = (a + n) + k
      BY <1>1, <1>2 DEF s, u
    <2>2. /\ s \o u \in Seq(Nat) /\ Len(s \o u) = n + m
          /\ \A k \in 1..(n + m) : (s \o u)[k] = IF k <= n THEN s[k] ELSE u[k - n]
      BY <2>1, ConcatProperties, ZenonT(60)
    <2>3. ASSUME NEW k \in 1..(n + m) PROVE (s \o u)[k] = a + k
      <3>1. CASE k <= n
        BY <2>1, <2>2, <3>1
      <3>2. CASE ~(k <= n)
        <4>1. k - n \in 1..m
          BY <3>2
        <4>2. u[k - n] = (a + n) + (k - n)
          BY <2>1, <4>1
        <4>3. QED
          BY <2>2, <3>2, <4>2
      <3>3. QED
        BY <3>1, <3>2
    <2>4. QED
      BY <2>2, <2>3 DEF s, u
  <1>5. QED
    BY <1>3, <1>4, SeqEqual

(* A part of a run is one.                                                 *)
LEMMA RunPart ==
    ASSUME NEW a \in Nat, NEW n \in Nat, NEW i \in 0..n, NEW j \in i..n
    PROVE  SubSeq(HlRun(a, n), i + 1, j) = HlRun(a + i, j - i)
  <1>0. a + i \in Nat /\ j - i \in Nat
    OBVIOUS
  <1>1. /\ HlRun(a, n) \in Seq(Nat) /\ Len(HlRun(a, n)) = n
        /\ \A k \in 1..n : HlRun(a, n)[k] = a + k
    BY RunIs
  <1>2. /\ HlRun(a + i, j - i) \in Seq(Nat) /\ Len(HlRun(a + i, j - i)) = j - i
        /\ \A k \in 1..(j - i) : HlRun(a + i, j - i)[k] = (a + i) + k
    BY <1>0, RunIs, Zenon
  <1>3. /\ SubSeq(HlRun(a, n), i + 1, j) \in Seq(Nat)
        /\ Len(SubSeq(HlRun(a, n), i + 1, j)) = j - i
        /\ \A k \in 1..(j - i) : SubSeq(HlRun(a, n), i + 1, j)[k] = (a + i) + k
    BY <1>1
  <1>4. QED
    BY <1>2, <1>3, SeqEqual

(* Bytes taken from a buffer that continue a run.                          *)
Continues(a, n, from, len, bsp, taken) ==
    /\ {a, n, from, len, bsp, taken} \subseteq Nat /\ bsp + taken <= n
    /\ taken = 0 \/ a + bsp = from + len

Continued(a, n, from, len, bsp, taken) ==
    HlRun(from, len) \o SubSeq(HlRun(a, n), bsp + 1, bsp + taken) = HlRun(from, len + taken)

LEMMA RunTake ==
    ASSUME NEW a, NEW n, NEW from, NEW len, NEW bsp, NEW taken,
           Continues(a, n, from, len, bsp, taken)
    PROVE  Continued(a, n, from, len, bsp, taken)
  <1>0. /\ a \in Nat /\ n \in Nat /\ from \in Nat /\ len \in Nat /\ bsp \in Nat /\ taken \in Nat
        /\ bsp + taken <= n /\ (taken = 0 \/ a + bsp = from + len)
    BY DEF Continues
  <1>1. /\ bsp \in 0..n /\ bsp + taken \in bsp..n /\ (bsp + taken) - bsp = taken
        /\ a + bsp \in Nat /\ from + len \in Nat
    BY <1>0
  <1>2. SubSeq(HlRun(a, n), bsp + 1, bsp + taken) = HlRun(a + bsp, (bsp + taken) - bsp)
    BY <1>0, <1>1, RunPart, Zenon
  <1>3. SubSeq(HlRun(a, n), bsp + 1, bsp + taken) = HlRun(a + bsp, taken)
    BY <1>1, <1>2, Zenon
  <1>4. HlRun(from, len) \o HlRun(from + len, taken) = HlRun(from, len + taken)
    BY <1>0, RunJoin, ZenonT(60)
  <1>5. HlRun(a + bsp, taken) = HlRun(from + len, taken)
    <2>1. CASE taken = 0
      BY <2>1 DEF HlRun
    <2>2. CASE a + bsp = from + len
      BY <2>2, Zenon
    <2>3. QED
      BY <1>0, <2>1, <2>2
  <1>6. QED
    BY <1>3, <1>4, <1>5, Zenon DEF Continued

(* Where the responses begin.                                              *)
LEMMA StartIs ==
    ASSUME NEW i \in Nat
    PROVE  HlStart(i) \in Nat /\ HlStart(i + 1) = HlStart(i) + HlHead
  BY HlAssumption DEF HlAssumption, HlStart

(* Bytes that are read join the buffer or replace it.                      *)
LEMMA HlReadStep ==
    ASSUME HlSeen, NEW n \in Nat, HlRead(n)
    PROVE  HlSeen'
  <1> USE DEF HlSeen
  <1>0. /\ hlPc = "read" /\ hlPc' = "parse" /\ hlRd' = hlRd + n
        /\ UNCHANGED <<hlSent, hlIn, hlHdr, hlGot>>
    BY DEF HlRead
  <1>1. /\ Len(hlBuf) \in Nat /\ hlBsp \in Nat /\ hlRd \in Nat
        /\ Len(hlBuf) <= hlRd /\ hlBsp <= Len(hlBuf)
        /\ hlBuf = HlRun(hlRd - Len(hlBuf), Len(hlBuf))
    BY <1>0 DEF HlTypeOK, BytesInv
  <1>2. /\ hlBuf' \in Seq(Nat) /\ Len(hlBuf') <= hlRd' /\ hlBsp' <= Len(hlBuf')
        /\ hlBuf' = HlRun(hlRd' - Len(hlBuf'), Len(hlBuf')) /\ hlBsp' \in Nat
        /\ hlRd' - Len(hlBuf') + hlBsp' = hlRd - Len(hlBuf) + hlBsp
    <2>1. CASE n = 0 /\ UNCHANGED <<hlBuf, hlBsp>>
      BY <1>0, <1>1, <2>1 DEF HlTypeOK
    <2>2. CASE hlBuf' = hlBuf \o HlRun(hlRd, n) /\ UNCHANGED hlBsp
      <3>1. HlRun(hlRd - Len(hlBuf), Len(hlBuf)) \o HlRun((hlRd - Len(hlBuf)) + Len(hlBuf), n)
              = HlRun(hlRd - Len(hlBuf), Len(hlBuf) + n)
        <4>1. hlRd - Len(hlBuf) \in Nat
          BY <1>1
        <4>2. QED
          BY <1>1, <4>1, RunJoin, Zenon
      <3>2. hlBuf' = HlRun(hlRd - Len(hlBuf), Len(hlBuf) + n)
        <4>1. (hlRd - Len(hlBuf)) + Len(hlBuf) = hlRd
          BY <1>1
        <4>2. QED
          BY <1>1, <2>2, <3>1, <4>1
      <3>3. hlBuf' \in Seq(Nat) /\ Len(hlBuf') = Len(hlBuf) + n
        <4>1. hlRd - Len(hlBuf) \in Nat /\ Len(hlBuf) + n \in Nat
          BY <1>1
        <4>2. QED
          BY <3>2, <4>1, RunIs, Zenon
      <3>4. hlRd' - Len(hlBuf') = hlRd - Len(hlBuf)
        BY <1>0, <1>1, <3>3
      <3>5. hlBuf' = HlRun(hlRd' - Len(hlBuf'), Len(hlBuf'))
        BY <3>2, <3>3, <3>4, Zenon
      <3>6. Len(hlBuf') <= hlRd' /\ hlBsp' <= Len(hlBuf') /\ hlBsp' \in Nat
        BY <1>0, <1>1, <2>2, <3>3
      <3>7. QED
        BY <1>0, <1>1, <2>2, <3>3, <3>4, <3>5, <3>6
    <2>3. CASE hlBsp = Len(hlBuf) /\ hlBuf' = HlRun(hlRd, n) /\ hlBsp' = 0
      <3>1. hlBuf' \in Seq(Nat) /\ Len(hlBuf') = n
        BY <1>1, <2>3, RunIs
      <3>2. hlRd' - Len(hlBuf') = hlRd
        BY <1>0, <1>1, <3>1
      <3>3. QED
        BY <1>0, <1>1, <2>3, <3>1, <3>2
    <2>4. QED
      BY <2>1, <2>2, <2>3 DEF HlRead
  <1>3. HlTypeOK'
    BY <1>0, <1>1, <1>2 DEF HlTypeOK, hlSent
  <1>4. BytesInv'
    BY <1>0, <1>2 DEF BytesInv, hlSent, IsLast, HeadersComplete, HlStart
  <1>5. PositionInv' /\ ReturnInv'
    BY <1>0, <1>2 DEF PositionInv, ReturnInv
  <1>6. QED
    BY <1>3, <1>4, <1>5

(* The parser takes the bytes that follow what it has taken before.        *)
LEMMA HlParseTakes ==
    ASSUME HlSeen, hlPc = "parse"
    PROVE  /\ HeadTaken \in Nat /\ BodyTaken \in Nat
           /\ Len(hlHdr) + HeadTaken <= HlHead
           /\ hlBsp + HeadTaken + BodyTaken <= Len(hlBuf)
           /\ BodyTaken > 0 => /\ IsLast /\ hlReadBody /\ Len(hlHdr) + HeadTaken = HlHead
                               /\ Len(hlGot) + BodyTaken <= hlLen
           /\ hlHdr \o SubSeq(hlBuf, hlBsp + 1, hlBsp + HeadTaken)
                = HlRun(HlStart(hlIn), Len(hlHdr) + HeadTaken)
           /\ hlGot \o SubSeq(hlBuf, hlBsp + HeadTaken + 1, hlBsp + HeadTaken + BodyTaken)
                = HlRun(HlStart(hlSkips + 1), Len(hlGot) + BodyTaken)
  <1> DEFINE L == Len(hlBuf)
             H == Len(hlHdr)
             G == Len(hlGot)
             base == hlRd - L
             first == HlStart(hlIn)
             body == HlStart(hlSkips + 1)
  <1>1. /\ L \in Nat /\ hlBsp \in Nat /\ base \in Nat /\ hlBsp <= L
        /\ H \in Nat /\ G \in Nat /\ H <= HlHead /\ HlHead \in Nat /\ hlLen \in Nat
        /\ base + hlBsp = first + H + G
        /\ hlIn \in Nat /\ hlSkips \in Nat
    BY HlAssumption DEF HlAssumption, HlSeen, HlTypeOK, BytesInv, PositionInv
  <1>2. hlBuf = HlRun(base, L) /\ hlHdr = HlRun(first, H) /\ hlGot = HlRun(body, G)
    BY DEF HlSeen, BytesInv
  <1>3. /\ first \in Nat /\ body \in Nat
        /\ hlIn = hlSkips => body = first + HlHead
    <2>1. hlSkips + 1 \in Nat
      BY <1>1
    <2>2. QED
      BY <1>1, <2>1, StartIs, Zenon
  <1>4. /\ hlReadBody => G <= hlLen
        /\ G > 0 => IsLast /\ H = HlHead
    <2>1. G > 0 => hlGot # <<>>
      OBVIOUS
    <2>2. QED
      BY <2>1 DEF HlSeen, BytesInv, HeadersComplete
  <1>5. HeadTaken = Least(HlHead - H, L - hlBsp)
    BY DEF HeadTaken
  <1>6. /\ BodyTaken = IF H + HeadTaken < HlHead THEN 0 ELSE Least(BodyLeft, L - hlBsp - HeadTaken)
        /\ BodyLeft = IF IsLast /\ hlReadBody THEN hlLen - G ELSE 0
    BY DEF BodyTaken, BodyLeft
  <1> HIDE DEF L, H, G, base, first, body
  <1>7. HeadTaken \in Nat /\ H + HeadTaken <= HlHead /\ hlBsp + HeadTaken <= L
    BY <1>1, <1>5 DEF Least
  <1>8. BodyLeft \in Nat /\ (BodyLeft > 0 => IsLast /\ hlReadBody /\ BodyLeft = hlLen - G)
    BY <1>1, <1>4, <1>6
  <1>9. /\ BodyTaken \in Nat /\ hlBsp + HeadTaken + BodyTaken <= L
        /\ BodyTaken > 0 => /\ IsLast /\ hlReadBody /\ H + HeadTaken = HlHead
                            /\ G + BodyTaken <= hlLen
    <2>1. CASE H + HeadTaken < HlHead
      BY <1>1, <1>6, <1>7, <2>1
    <2>2. CASE ~(H + HeadTaken < HlHead)
      <3>1. H + HeadTaken = HlHead /\ L - hlBsp - HeadTaken \in Nat
        BY <1>1, <1>7, <2>2
      <3>2. BodyTaken = Least(BodyLeft, L - hlBsp - HeadTaken)
        BY <1>6, <2>2
      <3>3. BodyTaken \in Nat /\ BodyTaken <= BodyLeft /\ BodyTaken <= L - hlBsp - HeadTaken
        BY <1>8, <3>1, <3>2 DEF Least
      <3>4. QED
        BY <1>1, <1>7, <1>8, <3>1, <3>3
    <2>3. QED
      BY <2>1, <2>2
  <1>10. HeadTaken = 0 \/ base + hlBsp = first + H
    BY <1>1, <1>3, <1>4, <1>7
  <1>11. HlRun(first, H) \o SubSeq(HlRun(base, L), hlBsp + 1, hlBsp + HeadTaken)
           = HlRun(first, H + HeadTaken)
    <2>1. hlBsp + HeadTaken <= L /\ (HeadTaken = 0 \/ base + hlBsp = first + H)
      BY <1>7, <1>10
    <2>2. /\ base \in Nat /\ L \in Nat /\ first \in Nat /\ H \in Nat
          /\ hlBsp \in Nat /\ HeadTaken \in Nat
      BY <1>1, <1>3, <1>7
    <2>3. Continues(base, L, first, H, hlBsp, HeadTaken)
      BY <2>1, <2>2 DEF Continues
    <2>4. Continued(base, L, first, H, hlBsp, HeadTaken)
      BY <2>3, RunTake, Zenon
    <2>5. QED
      BY <2>4, Zenon DEF Continued
  <1>12. BodyTaken = 0 \/ base + (hlBsp + HeadTaken) = body + G
    <2>1. BodyTaken > 0 => hlIn = hlSkips
      BY <1>9 DEF IsLast
    <2>2. QED
      BY <1>1, <1>3, <1>7, <1>9, <2>1
  <1>13. HlRun(body, G) \o SubSeq(HlRun(base, L), (hlBsp + HeadTaken) + 1,
                                  (hlBsp + HeadTaken) + BodyTaken)
           = HlRun(body, G + BodyTaken)
    <2>1. hlBsp + HeadTaken \in Nat /\ (hlBsp + HeadTaken) + BodyTaken <= L
      BY <1>1, <1>7, <1>9
    <2>2. QED
      <3>1. /\ base \in Nat /\ L \in Nat /\ body \in Nat /\ G \in Nat
            /\ hlBsp + HeadTaken \in Nat /\ BodyTaken \in Nat
        BY <1>1, <1>3, <1>9, <2>1
      <3>2. (hlBsp + HeadTaken) + BodyTaken <= L
        BY <2>1
      <3>3. Continues(base, L, body, G, hlBsp + HeadTaken, BodyTaken)
        BY <1>12, <3>1, <3>2 DEF Continues
      <3>4. Continued(base, L, body, G, hlBsp + HeadTaken, BodyTaken)
        BY <3>3, RunTake, Zenon
      <3>5. QED
        BY <3>4, Zenon DEF Continued
  <1>14. hlHdr \o SubSeq(hlBuf, hlBsp + 1, hlBsp + HeadTaken) = HlRun(first, H + HeadTaken)
    BY <1>2, <1>11, Zenon
  <1>15. hlGot \o SubSeq(hlBuf, hlBsp + HeadTaken + 1, hlBsp + HeadTaken + BodyTaken)
           = HlRun(body, G + BodyTaken)
    BY <1>2, <1>13, Zenon
  <1>16. QED
    BY <1>7, <1>9, <1>14, <1>15 DEF L, H, G, first, body

(* The parser ends a response that is skipped or returned, or asks for     *)
(* more.                                                                   *)
LEMMA HlParseStep ==
    ASSUME HlSeen, HlParse
    PROVE  HlSeen'
  <1> DEFINE bsp == hlBsp + HeadTaken + BodyTaken
             hdr == hlHdr \o SubSeq(hlBuf, hlBsp + 1, hlBsp + HeadTaken)
             got == hlGot \o SubSeq(hlBuf, hlBsp + HeadTaken + 1, bsp)
             complete == Len(hdr) = HlHead /\ BodyLeft = BodyTaken
  <1>0. hlPc = "parse" /\ UNCHANGED <<hlSkips, hlLen, hlCode, hlFramed, hlReadBody, hlThrows, hlRd>>
    BY DEF HlParse, hlSent
  <1>1. \/ /\ complete /\ ~IsLast
           /\ hlPc' = "read" /\ hlIn' = hlIn + 1 /\ hlHdr' = <<>> /\ hlGot' = got
           /\ hlBuf' = LeftMoved(bsp) /\ hlBsp' = IF bsp < Len(hlBuf) THEN 0 ELSE bsp
        \/ /\ (complete /\ IsLast /\ hlPc' \in {"threw", "done"}) \/ hlPc' = "read"
           /\ hlBsp' = bsp /\ hlHdr' = hdr /\ hlGot' = got /\ UNCHANGED <<hlBuf, hlIn>>
        \/ hlPc' = "threw" /\ UNCHANGED <<hlBuf, hlBsp, hlIn, hlHdr, hlGot>>
    BY DEF HlParse, AfterResponse, Parsed, HdrParsed, GotParsed, ResponseComplete
  <1>2. /\ HeadTaken \in Nat /\ BodyTaken \in Nat
        /\ Len(hlHdr) + HeadTaken <= HlHead /\ bsp <= Len(hlBuf)
        /\ BodyTaken > 0 => /\ IsLast /\ hlReadBody /\ Len(hlHdr) + HeadTaken = HlHead
                            /\ Len(hlGot) + BodyTaken <= hlLen
        /\ hdr = HlRun(HlStart(hlIn), Len(hlHdr) + HeadTaken)
        /\ got = HlRun(HlStart(hlSkips + 1), Len(hlGot) + BodyTaken)
    BY <1>0, HlParseTakes
  <1>3. /\ Len(hlBuf) \in Nat /\ hlBsp \in Nat /\ hlRd \in Nat /\ hlLen \in Nat
        /\ Len(hlHdr) \in Nat /\ Len(hlGot) \in Nat /\ HlHead \in Nat \ {0}
        /\ hlIn \in Nat /\ hlSkips \in Nat /\ hlIn <= hlSkips /\ Len(hlBuf) <= hlRd
        /\ hlBuf \in Seq(Nat) /\ hlBsp <= Len(hlBuf)
    BY <1>0, HlAssumption DEF HlAssumption, HlSeen, HlTypeOK, BytesInv
  <1>4. /\ HlStart(hlIn) \in Nat /\ HlStart(hlIn + 1) = HlStart(hlIn) + HlHead
        /\ HlStart(hlSkips + 1) \in Nat
    <2>1. hlSkips + 1 \in Nat
      BY <1>3
    <2>2. QED
      BY <1>3, <2>1, StartIs, Zenon
  <1>5. hlRd - Len(hlBuf) + hlBsp = HlStart(hlIn) + Len(hlHdr) + Len(hlGot)
    BY <1>0 DEF HlSeen, PositionInv
  <1>6. /\ hlGot # <<>> => IsLast /\ Len(hlHdr) = HlHead
        /\ hlReadBody => Len(hlGot) <= hlLen
    BY DEF HlSeen, BytesInv, HeadersComplete
  <1>a. hlBuf = HlRun(hlRd - Len(hlBuf), Len(hlBuf))
    BY <1>0 DEF HlSeen, BytesInv
  <1> HIDE DEF hdr, got, bsp
  <1>7. /\ hdr \in Seq(Nat) /\ Len(hdr) = Len(hlHdr) + HeadTaken
        /\ got \in Seq(Nat) /\ Len(got) = Len(hlGot) + BodyTaken
    <2>1. Len(hlHdr) + HeadTaken \in Nat /\ Len(hlGot) + BodyTaken \in Nat
      BY <1>2, <1>3
    <2>2. QED
      BY <1>2, <1>4, <2>1, RunIs, Zenon
  <1>8. bsp = hlBsp + HeadTaken + BodyTaken /\ bsp \in Nat
    BY <1>2, <1>3 DEF bsp
  <1>9. got # <<>> => IsLast /\ Len(hdr) = HlHead
    <2>1. CASE hlGot # <<>>
      BY <1>2, <1>3, <1>6, <1>7, <2>1
    <2>2. CASE hlGot = <<>>
      <3>1. Len(hlGot) = 0
        BY <2>2
      <3>2. got # <<>> => Len(got) > 0
        BY <1>7
      <3>3. QED
        BY <1>2, <1>3, <1>7, <3>1, <3>2
    <2>3. QED
      BY <2>1, <2>2
  <1>10. CASE /\ complete /\ ~IsLast
              /\ hlPc' = "read" /\ hlIn' = hlIn + 1 /\ hlHdr' = <<>> /\ hlGot' = got
              /\ hlBuf' = LeftMoved(bsp) /\ hlBsp' = IF bsp < Len(hlBuf) THEN 0 ELSE bsp
    <2>1. hlIn < hlSkips
      BY <1>3, <1>10 DEF IsLast
    <2>2. got = <<>> /\ Len(got) = 0
      BY <1>9, <1>10
    <2>3. /\ hlBuf' \in Seq(Nat) /\ Len(hlBuf') <= hlRd /\ hlBsp' <= Len(hlBuf')
          /\ hlBuf' = HlRun(hlRd - Len(hlBuf'), Len(hlBuf')) /\ hlBsp' \in Nat
          /\ hlRd - Len(hlBuf') + hlBsp' = hlRd - Len(hlBuf) + bsp
      <3>1. CASE bsp < Len(hlBuf)
        <4>1. hlBuf' = SubSeq(hlBuf, bsp + 1, Len(hlBuf)) /\ hlBsp' = 0
          BY <1>10, <3>1 DEF LeftMoved
        <4>2. SubSeq(HlRun(hlRd - Len(hlBuf), Len(hlBuf)), bsp + 1, Len(hlBuf))
                = HlRun((hlRd - Len(hlBuf)) + bsp, Len(hlBuf) - bsp)
          <5>1. /\ hlRd - Len(hlBuf) \in Nat /\ bsp \in 0..Len(hlBuf)
                /\ Len(hlBuf) \in bsp..Len(hlBuf)
            BY <1>3, <1>8, <3>1
          <5>2. QED
            BY <1>3, <5>1, RunPart, ZenonT(60)
        <4>3. hlBuf' = HlRun((hlRd - Len(hlBuf)) + bsp, Len(hlBuf) - bsp)
          BY <1>a, <4>1, <4>2
        <4>4. (hlRd - Len(hlBuf)) + bsp \in Nat /\ Len(hlBuf) - bsp \in Nat
          BY <1>3, <1>8, <3>1
        <4>5. hlBuf' \in Seq(Nat) /\ Len(hlBuf') = Len(hlBuf) - bsp
          BY <4>3, <4>4, RunIs, Zenon
        <4>6. hlRd - Len(hlBuf') = (hlRd - Len(hlBuf)) + bsp
          BY <1>3, <1>8, <4>5
        <4>7. hlBuf' = HlRun(hlRd - Len(hlBuf'), Len(hlBuf'))
          BY <4>3, <4>5, <4>6, Zenon
        <4>8. Len(hlBuf') <= hlRd /\ hlBsp' <= Len(hlBuf') /\ hlBsp' \in Nat
          <5> DEFINE L == Len(hlBuf)
                     M == Len(hlBuf')
          <5>1. /\ L \in Nat /\ bsp \in Nat /\ hlRd \in Nat /\ L <= hlRd /\ bsp < L
                /\ M = L - bsp /\ hlBsp' = 0
            BY <1>3, <1>8, <3>1, <4>1, <4>5
          <5> HIDE DEF L, M
          <5>2. M <= hlRd /\ hlBsp' <= M /\ hlBsp' \in Nat
            BY <5>1
          <5>3. QED
            BY <5>2 DEF M
        <4>9. hlRd - Len(hlBuf') + hlBsp' = hlRd - Len(hlBuf) + bsp
          <5> DEFINE L == Len(hlBuf)
                     M == Len(hlBuf')
          <5>1. L \in Nat /\ bsp \in Nat /\ hlRd \in Nat /\ M = L - bsp /\ hlBsp' = 0
            BY <1>3, <1>8, <4>1, <4>5
          <5> HIDE DEF L, M
          <5>2. hlRd - M + hlBsp' = hlRd - L + bsp
            BY <5>1
          <5>3. QED
            BY <5>2 DEF L, M
        <4>10. QED
          BY <4>5, <4>7, <4>8, <4>9
      <3>2. CASE ~(bsp < Len(hlBuf))
        <4>1. hlBuf' = hlBuf /\ hlBsp' = bsp
          BY <1>10, <3>2 DEF LeftMoved
        <4>2. QED
          BY <1>2, <1>3, <1>8, <1>a, <4>1
      <3>3. QED
        BY <3>1, <3>2
    <2>4. HlTypeOK'
      <3>1. hlIn' \in 0..hlSkips'
        BY <1>0, <1>3, <1>10, <2>1
      <3>2. hlHdr' \in Seq(Nat) /\ hlGot' \in Seq(Nat)
        BY <1>7, <1>10
      <3>3. QED
        BY <1>0, <1>10, <2>3, <3>1, <3>2 DEF HlSeen, HlTypeOK
    <2>5. BytesInv'
      <3>1. Len(hlHdr') = 0 /\ hlHdr' = HlRun(HlStart(hlIn'), 0)
        BY <1>10 DEF HlRun
      <3>2. hlGot' = HlRun(HlStart(hlSkips + 1), Len(hlGot')) /\ hlGot' = <<>> /\ Len(hlGot') = 0
        BY <1>2, <1>7, <1>10, <2>2
      <3>3. QED
        BY <1>0, <1>3, <2>3, <3>1, <3>2 DEF BytesInv, HlStart
    <2>6. PositionInv'
      <3>1. Len(hdr) = HlHead
        BY <1>10
      <3>2. hlRd - Len(hlBuf) + bsp = HlStart(hlIn) + HlHead
        <4>1. Len(hlHdr) + HeadTaken = HlHead /\ Len(hlGot) = 0 /\ BodyTaken = 0
          <5> DEFINE H == Len(hlHdr)
                     G == Len(hlGot)
          <5>1. /\ H \in Nat /\ G \in Nat /\ HeadTaken \in Nat /\ BodyTaken \in Nat
                /\ H + HeadTaken = HlHead /\ G + BodyTaken = 0
            BY <1>2, <1>3, <1>7, <2>2, <3>1, Zenon
          <5> HIDE DEF H, G
          <5>2. H + HeadTaken = HlHead /\ G = 0 /\ BodyTaken = 0
            BY <5>1
          <5>3. QED
            BY <5>2 DEF H, G
        <4>2. HeadTaken \in Nat /\ BodyTaken \in Nat
          BY <1>2
        <4>3. QED
          <5> DEFINE L == Len(hlBuf)
                     H == Len(hlHdr)
                     G == Len(hlGot)
                     S == HlStart(hlIn)
          <5>1. /\ L \in Nat /\ H \in Nat /\ G \in Nat /\ S \in Nat /\ hlRd \in Nat
                /\ hlBsp \in Nat /\ HeadTaken \in Nat /\ BodyTaken \in Nat
            BY <1>3, <1>4, <4>2
          <5>2. /\ hlRd - L + hlBsp = S + H + G /\ bsp = hlBsp + HeadTaken + BodyTaken
                /\ H + HeadTaken = HlHead /\ G = 0 /\ BodyTaken = 0
            BY <1>5, <1>8, <4>1, Zenon
          <5> HIDE DEF L, H, G, S
          <5>3. hlRd - L + bsp = S + HlHead
            BY <5>1, <5>2
          <5>4. QED
            BY <5>3 DEF L, S
      <3>3. Len(hlHdr') = 0 /\ Len(hlGot') = 0 /\ HlStart(hlIn') = HlStart(hlIn) + HlHead
        BY <1>4, <1>10, <2>2
      <3>4. hlRd - Len(hlBuf') + hlBsp' = HlStart(hlIn') + Len(hlHdr') + Len(hlGot')
        BY <1>3, <1>4, <2>3, <3>2, <3>3
      <3>5. QED
        BY <1>0, <3>4 DEF PositionInv, HlStart
    <2>7. QED
      BY <1>10, <2>4, <2>5, <2>6 DEF HlSeen, ReturnInv
  <1>11. CASE /\ (complete /\ IsLast /\ hlPc' \in {"threw", "done"}) \/ hlPc' = "read"
              /\ hlBsp' = bsp /\ hlHdr' = hdr /\ hlGot' = got /\ UNCHANGED <<hlBuf, hlIn>>
    <2>1. HlTypeOK'
      BY <1>0, <1>7, <1>8, <1>11 DEF HlSeen, HlTypeOK
    <2>2. BytesInv'
      <3>1. hlReadBody => Len(got) <= hlLen
        <4> DEFINE G == Len(hlGot)
                   K == Len(got)
        <4>1. /\ G \in Nat /\ BodyTaken \in Nat /\ K = G + BodyTaken
              /\ BodyTaken > 0 => G + BodyTaken <= hlLen
              /\ hlReadBody => G <= hlLen
          BY <1>2, <1>3, <1>6, <1>7, Zenon
        <4> HIDE DEF G, K
        <4>2. BodyTaken = 0 \/ BodyTaken > 0
          BY <4>1
        <4>3. hlReadBody => K <= hlLen
          BY <4>1, <4>2
        <4>4. QED
          BY <4>3 DEF K
      <3>2. hdr = HlRun(HlStart(hlIn), Len(hdr)) /\ got = HlRun(HlStart(hlSkips + 1), Len(got))
        BY <1>2, <1>7
      <3>3. QED
        BY <1>0, <1>2, <1>3, <1>7, <1>8, <1>9, <1>11, <3>1, <3>2
            , <1>a DEF BytesInv, HlStart, IsLast, HeadersComplete
    <2>3. PositionInv'
      <3>1. hlRd - Len(hlBuf) + bsp = HlStart(hlIn) + Len(hdr) + Len(got)
        <4>1. HeadTaken \in Nat /\ BodyTaken \in Nat
          BY <1>2
        <4>2. QED
          <5> DEFINE L == Len(hlBuf)
                     H == Len(hlHdr)
                     G == Len(hlGot)
                     S == HlStart(hlIn)
                     J == Len(hdr)
                     K == Len(got)
          <5>1. /\ L \in Nat /\ H \in Nat /\ G \in Nat /\ S \in Nat /\ hlRd \in Nat
                /\ hlBsp \in Nat /\ HeadTaken \in Nat /\ BodyTaken \in Nat
            BY <1>3, <1>4, <4>1
          <5>2. /\ hlRd - L + hlBsp = S + H + G /\ bsp = hlBsp + HeadTaken + BodyTaken
                /\ J = H + HeadTaken /\ K = G + BodyTaken
            BY <1>5, <1>7, <1>8, Zenon
          <5> HIDE DEF L, H, G, S, J, K
          <5>3. hlRd - L + bsp = S + J + K
            BY <5>1, <5>2
          <5>4. QED
            BY <5>3 DEF L, S, J, K
      <3>2. QED
        BY <1>0, <1>11, <3>1 DEF PositionInv, HlStart
    <2>4. ReturnInv'
      <3>1. hlPc' = "done" => Len(hdr) = HlHead /\ BodyLeft = BodyTaken /\ IsLast
        BY <1>11
      <3>2. hlPc' = "done" /\ hlReadBody => Len(got) = hlLen
        BY <1>3, <1>7, <1>2, <3>1 DEF BodyLeft
      <3>3. QED
        BY <1>0, <1>11, <3>1, <3>2 DEF ReturnInv, IsLast, HeadersComplete
    <2>5. QED
      BY <2>1, <2>2, <2>3, <2>4 DEF HlSeen
  <1>12. CASE hlPc' = "threw" /\ UNCHANGED <<hlBuf, hlBsp, hlIn, hlHdr, hlGot>>
    BY <1>0, <1>12 DEF HlSeen, HlTypeOK, BytesInv, PositionInv, ReturnInv, IsLast,
                       HeadersComplete, HlStart
  <1>13. QED
    BY <1>1, <1>10, <1>11, <1>12

(* The caller reads the body through the pipe.                             *)
LEMMA HlReadBodyStep ==
    ASSUME HlSeen, NEW n \in Nat, HlReadBody(n)
    PROVE  HlSeen'
  <1> DEFINE L == Len(hlBuf)
             G == Len(hlGot)
             body == HlStart(hlSkips + 1)
  <1>0. /\ hlPc = "done" /\ ~hlReadBody /\ n > 0
        /\ UNCHANGED <<hlSkips, hlLen, hlCode, hlFramed, hlReadBody, hlThrows, hlPc, hlBuf,
                       hlIn, hlHdr>>
    BY DEF HlReadBody, hlSent
  <1>1. /\ L \in Nat /\ hlBsp \in Nat /\ hlRd \in Nat /\ G \in Nat
        /\ hlIn \in Nat /\ hlSkips \in Nat /\ L <= hlRd /\ hlBsp <= L
    BY DEF HlSeen, HlTypeOK, BytesInv
  <1>2. hlIn = hlSkips /\ Len(hlHdr) = HlHead /\ HlHead \in Nat
    BY <1>0, HlAssumption DEF HlAssumption, HlSeen, ReturnInv, IsLast, HeadersComplete
  <1>3. /\ HlStart(hlSkips) \in Nat /\ body \in Nat /\ body = HlStart(hlSkips) + HlHead
    <2>1. hlSkips + 1 \in Nat
      BY <1>1
    <2>2. QED
      BY <1>1, <2>1, StartIs, Zenon
  <1>4. hlRd - L + hlBsp = body + G
    BY <1>0, <1>1, <1>2, <1>3 DEF HlSeen, PositionInv
  <1>5. hlGot = HlRun(body, G) /\ (hlBsp < L => hlBuf = HlRun(hlRd - L, L))
    BY DEF HlSeen, BytesInv
  <1>a. \/ /\ hlBsp + n <= L /\ hlBsp' = hlBsp + n
           /\ hlGot' = hlGot \o SubSeq(hlBuf, hlBsp + 1, hlBsp + n) /\ UNCHANGED hlRd
        \/ /\ hlBsp = L /\ hlRd' = hlRd + n
           /\ hlGot' = hlGot \o HlRun(hlRd, n) /\ UNCHANGED hlBsp
    BY DEF HlReadBody
  <1> HIDE DEF L, G, body
  <1>6. /\ hlGot' = HlRun(body, G + n)
        /\ hlBsp' \in Nat /\ hlBsp' <= L
        /\ \/ hlBsp < L /\ hlBsp' = hlBsp + n /\ hlRd' = hlRd
           \/ hlBsp = L /\ hlBsp' = hlBsp /\ hlRd' = hlRd + n
    <2>1. CASE /\ hlBsp + n <= L /\ hlBsp' = hlBsp + n
               /\ hlGot' = hlGot \o SubSeq(hlBuf, hlBsp + 1, hlBsp + n) /\ UNCHANGED hlRd
      <3>1. hlBsp < L /\ hlRd - L \in Nat /\ (hlRd - L) + hlBsp = body + G
        BY <1>0, <1>1, <1>4, <2>1
      <3>2. HlRun(body, G) \o SubSeq(HlRun(hlRd - L, L), hlBsp + 1, hlBsp + n) = HlRun(body, G + n)
        <4>1. /\ hlRd - L \in Nat /\ L \in Nat /\ body \in Nat /\ G \in Nat
              /\ hlBsp \in Nat /\ n \in Nat /\ hlBsp + n <= L
          BY <1>1, <1>3, <2>1, <3>1
        <4>2. n = 0 \/ (hlRd - L) + hlBsp = body + G
          BY <3>1
        <4>3. Continues(hlRd - L, L, body, G, hlBsp, n)
          BY <4>1, <4>2 DEF Continues
        <4>4. Continued(hlRd - L, L, body, G, hlBsp, n)
          BY <4>3, RunTake, Zenon
        <4>5. QED
          BY <4>4, Zenon DEF Continued
      <3>3. hlGot' = HlRun(body, G + n)
        BY <1>5, <2>1, <3>1, <3>2, Zenon
      <3>4. QED
        <4>1. hlBsp + n <= L /\ hlBsp' = hlBsp + n /\ hlRd' = hlRd
          BY <2>1
        <4>2. hlBsp' \in Nat /\ hlBsp' <= L
          BY <1>1, <4>1
        <4>3. QED
          BY <3>1, <3>3, <4>1, <4>2, Zenon
    <2>2. CASE /\ hlBsp = L /\ hlRd' = hlRd + n
               /\ hlGot' = hlGot \o HlRun(hlRd, n) /\ UNCHANGED hlBsp
      <3>1. hlRd = body + G
        BY <1>1, <1>3, <1>4, <2>2
      <3>2. HlRun(body, G) \o HlRun(body + G, n) = HlRun(body, G + n)
        <4>1. body \in Nat /\ G \in Nat /\ n \in Nat
          BY <1>1, <1>3
        <4>2. QED
          BY <4>1, RunJoin, Zenon
      <3>3. hlGot' = HlRun(body, G + n)
        BY <1>5, <2>2, <3>1, <3>2, Zenon
      <3>4. QED
        BY <1>1, <2>2, <3>3
    <2>3. QED
      BY <1>a, <2>1, <2>2
  <1>7. hlGot' \in Seq(Nat) /\ Len(hlGot') = G + n /\ hlRd' \in Nat
    <2>1. G + n \in Nat /\ hlRd' \in Nat
      BY <1>1, <1>6
    <2>2. hlGot' \in Seq(Nat) /\ Len(hlGot') = G + n
      BY <1>3, <1>6, <2>1, RunIs, Zenon
    <2>3. QED
      BY <2>1, <2>2
  <1>8. HlTypeOK'
    BY <1>0, <1>6, <1>7 DEF HlSeen, HlTypeOK
  <1>9. BytesInv'
    <2>1. hlGot' = HlRun(HlStart(hlSkips' + 1), Len(hlGot'))
      BY <1>0, <1>6, <1>7 DEF body
    <2>2. IsLast' /\ HeadersComplete'
      BY <1>0, <1>2 DEF IsLast, HeadersComplete
    <2>3. Len(hlBuf) <= hlRd' /\ hlBsp' <= Len(hlBuf)
      BY <1>1, <1>6 DEF L
    <2>4. hlBsp' < Len(hlBuf) => hlBuf = HlRun(hlRd' - Len(hlBuf), Len(hlBuf))
      BY <1>1, <1>5, <1>6 DEF L
    <2>5. Len(hlHdr) <= HlHead /\ hlHdr = HlRun(HlStart(hlIn), Len(hlHdr))
      BY DEF HlSeen, BytesInv
    <2>6. QED
      BY <1>0, <2>1, <2>2, <2>3, <2>4, <2>5 DEF BytesInv, HlStart
  <1>10. PositionInv'
    <2>1. hlRd' - L + hlBsp' = HlStart(hlIn) + Len(hlHdr) + Len(hlGot')
      <3> DEFINE H == Len(hlHdr)
                 K == Len(hlGot')
                 S == HlStart(hlIn)
      <3>1. /\ S \in Nat /\ body = S + H /\ H \in Nat /\ K = G + n
            /\ \/ hlBsp' = hlBsp + n /\ hlRd' = hlRd
               \/ hlBsp' = hlBsp /\ hlRd' = hlRd + n
        BY <1>2, <1>3, <1>6, <1>7, Zenon
      <3> HIDE DEF H, K, S
      <3>2. hlRd' - L + hlBsp' = S + H + K
        BY <1>1, <1>4, <3>1
      <3>3. QED
        BY <3>2 DEF H, K, S
    <2>2. QED
      BY <1>0, <2>1 DEF PositionInv, HlStart, L
  <1>11. ReturnInv'
    BY <1>0, <1>2 DEF ReturnInv, IsLast, HeadersComplete
  <1>12. QED
    BY <1>8, <1>9, <1>10, <1>11 DEF HlSeen

(* Every step of parse and of the pipe it returns keeps the invariant.     *)
LEMMA HlInitInv == HlInit => HlInv
  <1> SUFFICES ASSUME HlInit PROVE HlInv
    OBVIOUS
  <1>1. HlTypeOK
    BY HlAssumption DEF HlAssumption, HlInit, HlTypeOK
  <1>2. HlStart(0) = 0 /\ HlStart(hlSkips + 1) \in Nat
    BY <1>1, StartIs, HlAssumption DEF HlAssumption, HlStart, HlTypeOK
  <1>3. Len(hlBuf) = 0 /\ Len(hlHdr) = 0 /\ Len(hlGot) = 0
    BY DEF HlInit
  <1>4. \A a \in Nat : HlRun(a, 0) = <<>>
    BY DEF HlRun
  <1>5. BytesInv
    BY <1>1, <1>2, <1>3, <1>4, HlAssumption DEF HlAssumption, HlInit, BytesInv, HlTypeOK
  <1>6. PositionInv /\ ReturnInv
    BY <1>2, <1>3 DEF HlInit, PositionInv, ReturnInv
  <1>7. QED
    BY <1>1, <1>5, <1>6 DEF HlInv, HlSeen

LEMMA HlNextInv == HlInv /\ [HlNext]_hlVars => HlInv'
  <1> SUFFICES ASSUME HlInv, [HlNext]_hlVars, Within' PROVE HlSeen'
    BY DEF HlInv
  <1>0. Within /\ ~HlTakesBody /\ ~HlRunsOn
    <2>1. hlInterim' = hlInterim /\ (~hlOdd' => ~hlOdd)
      <3>1. CASE HlTakesBody
        BY <3>1 DEF HlTakesBody, hlSent
      <3>2. CASE HlRunsOn
        BY <3>2 DEF HlRunsOn, hlSent, Within
      <3>3. CASE ~HlTakesBody /\ ~HlRunsOn
        BY <3>3 DEF HlNext, HlBegin, HlFails, HlParse, HlRead, HlReadBody, hlSent, hlVars
      <3> QED BY <3>1, <3>2, <3>3
    <2>2. HlTakesBody => hlOdd'
      BY DEF HlTakesBody
    <2>3. HlRunsOn => hlInterim = "joined"
      BY DEF HlRunsOn
    <2> QED BY <2>1, <2>2, <2>3 DEF Within
  <1>a. HlSeen
    BY <1>0 DEF HlInv
  <1>1. CASE HlBegin \/ HlFails
    <2>1. /\ hlPc \in {"new", "read"} /\ hlPc' \in {"read", "threw"}
          /\ UNCHANGED <<hlSkips, hlLen, hlCode, hlFramed, hlReadBody, hlThrows, hlRd,
                         hlBuf, hlBsp, hlIn, hlHdr, hlGot>>
      BY <1>1 DEF HlBegin, HlFails, hlSent
    <2>2. QED
      BY <1>a, <2>1 DEF HlSeen, HlTypeOK, BytesInv, PositionInv, ReturnInv, IsLast,
                  HeadersComplete, HlStart
  <1>2. CASE UNCHANGED hlVars
    BY <1>a, <1>2 DEF hlVars, HlSeen, HlTypeOK, BytesInv, PositionInv, ReturnInv, IsLast,
                HeadersComplete, HlStart
  <1>3. \A n \in 0..(HlCap + HlBodyCap) : n \in Nat
    BY HlAssumption DEF HlAssumption
  <1>4. QED
    BY <1>0, <1>a, <1>1, <1>2, <1>3, HlParseStep, HlReadStep, HlReadBodyStep DEF HlNext

THEOREM HttpClientInvariance == HlSpec => []HlInv
  BY HlInitInv, HlNextInv, PTL DEF HlSpec

LEMMA HlSound == HlInv => ResponseAsSent
  BY DEF HlInv, HlSeen, Within, BytesInv, ReturnInv, ResponseAsSent, Returned, IsLast,
         HeadersComplete

(* For any sizes of the buffers, of the headers and of the body, and any   *)
(* number of skipped responses: what parse returns is the first response   *)
(* whose status is not 100, its headers and its body byte for byte, all of *)
(* it with read_body; unless the parser has gone on behind a response.     *)
THEOREM ResponseReceived == HlSpec => []ResponseAsSent
  BY HttpClientInvariance, HlSound, PTL

-----------------------------------------------------------------------------
(* sctp_dispatch.                                                          *)

(* The tsns of the association neither wrap nor leave what a gap block can *)
(* express.                                                                *)
Plain == scFirst # 0 /\ scFirst + ScMsgs < ScMod /\ ScMsgs <= ScOffsets

(* What was received, the initial tsn included.                            *)
Received == scGot \cup {scFirst}

(* What was when a SACK was sent last.                                     *)
Told == scTold \cup {scFirst}

(* The last SACK covers a run of them that begins with the initial one,    *)
(* and the others by gap blocks.                                           *)
SackSays ==
    /\ scSack.cum \in Nat /\ scFirst <= scSack.cum /\ scFirst..scSack.cum \subseteq Told
    /\ scSack.gaps = Gaps(scSack.cum, Told \ (scFirst..scSack.cum))

(* last_complete_tsn is the end of a run of received tsns that begins with *)
(* the initial one, and tsns holds the received ones behind it.            *)
SackInv ==
    /\ scLast \in Nat /\ scFirst <= scLast + 1 /\ scFirst..scLast \subseteq Received
    /\ scTsns = Received \ (scFirst..scLast)
    /\ scSack # NoSack => SackSays

ScInv ==
    /\ scFirst \in 0..(ScMod - 1) /\ scInits \in Nat
    /\ scGot \subseteq {Tsn(i) : i \in 1..ScMsgs} /\ scTold \subseteq scGot
    /\ scGot = {} => scTsns \subseteq {scFirst}
    /\ scTag /\ ~scEarly /\ Plain => SackInv

(* A number below the modulus is its own remainder, and that of its sum    *)
(* with the modulus.                                                       *)
LEMMA Remainder ==
    ASSUME NEW m \in Nat, NEW r \in Nat, r < m
    PROVE  r % m = r /\ (r + m) % m = r
  OBVIOUS

LEMMA PlusIs ==
    ASSUME NEW t \in Nat, NEW n \in Nat, t + n < ScMod, ScMod \in Nat
    PROVE  Plus(t, n) = t + n
  BY DEF Plus

LEMMA MinusIs ==
    ASSUME NEW t \in Nat, NEW n \in Nat, n <= t, t < ScMod, ScMod \in Nat
    PROVE  Minus(t, n) = t - n
<1> DEFINE r == t - n
<1>1. r \in Nat /\ r < ScMod /\ t + ScMod - n = r + ScMod
  OBVIOUS
<1>2. (r + ScMod) % ScMod = r
  <2> HIDE DEF r
  <2> QED BY <1>1, Remainder
<1> QED BY <1>1, <1>2 DEF Minus

LEMMA MaxUpTo ==
    ASSUME NEW n \in Nat
    PROVE  Max(0..n) = n
<1>1. \A y \in 0..n : n >= y
  OBVIOUS
<1>2. \A x \in 0..n : (\A y \in 0..n : x >= y) => x = n
  OBVIOUS
<1> QED BY <1>1, <1>2 DEF Max

(* Of a set in which everything up to last is there and removed, the loop  *)
(* of send_acks removes what follows without a gap.                        *)
LEMMA MovesTo ==
    ASSUME ScMod \in Nat, NEW F \in Nat, NEW last \in Nat, F <= last + 1, last + 1 < ScMod,
           NEW G \in SUBSET (F..(ScMod - 2)), F..last \subseteq G
    PROVE  LET n == Moves(last, G \ (F..last)) IN
           /\ n \in Nat /\ last + n + 1 < ScMod /\ last + n + 1 \notin G
           /\ (last + 1)..(last + n) \subseteq G
<1> DEFINE T == G \ (F..last)
           Out == {k \in Nat : last + k + 1 \notin G}
           Fr(n) == \A j \in 1..n : /\ Plus(last, j) \in T
                                    /\ {t \in T : t < Plus(last, j)} = Behind(last, j - 1)
<1>1. PICK n \in Out : \A k \in Out : n <= k
  <2>1. ScMod \in Out
    OBVIOUS
  <2> QED BY <2>1, LeastIn
<1>2. last + n + 1 \notin G /\ (last + 1)..(last + n) \subseteq G
  <2>1. ASSUME NEW t \in (last + 1)..(last + n) PROVE t \in G
    <3>1. t - last - 1 \in Nat /\ t - last - 1 < n
      OBVIOUS
    <3>2. t - last - 1 \notin Out
      BY <3>1, <1>1
    <3> QED BY <3>1, <3>2
  <2> QED BY <2>1
<1>3. last + n + 1 < ScMod
  BY <1>2
<1>4. \A j \in 0..n : Plus(last, j) = last + j
  BY <1>3, PlusIs
<1>5. \A j \in 1..n : Plus(last, j) \in T
  BY <1>2, <1>4
<1>6. ASSUME NEW j \in 1..n PROVE {t \in T : t < Plus(last, j)} = Behind(last, j - 1)
  <2>1. Behind(last, j - 1) = (last + 1)..(last + j - 1)
    <3>1. \A i \in 1..(j - 1) : Plus(last, i) = last + i
      BY <1>4
    <3>2. ASSUME NEW x \in (last + 1)..(last + j - 1) PROVE x \in Behind(last, j - 1)
      <4>1. x - last \in 1..(j - 1) /\ last + (x - last) = x
        OBVIOUS
      <4> QED BY <4>1, <3>1 DEF Behind
    <3> QED BY <3>1, <3>2 DEF Behind
  <2>2. Plus(last, j) = last + j
    BY <1>4
  <2>3. {t \in T : t < last + j} = (last + 1)..(last + j - 1)
    <3>1. \A t \in T : t \in Nat /\ t > last
      OBVIOUS
    <3>2. \A t \in (last + 1)..(last + j - 1) : t \in T
      BY <1>2
    <3>3. j \in Nat /\ last + 1 \in Nat /\ last + j - 1 \in Nat
      BY <1>1
    <3> HIDE DEF T
    <3>4. ASSUME NEW t \in T PROVE t < last + j <=> t \in (last + 1)..(last + j - 1)
      BY <3>1, <3>3
    <3> QED BY <3>2, <3>3, <3>4
  <2> QED BY <2>1, <2>2, <2>3
<1>7. ASSUME NEW k \in 0..ScMod, k > n PROVE ~Fr(k)
  <2>1. Plus(last, n + 1) \notin T
    BY <1>2, <1>3, PlusIs
  <2>2. n + 1 \in 1..k
    BY <1>1, <1>7
  <2> QED BY <2>1, <2>2
<1>8. {k \in 0..ScMod : Fr(k)} = 0..n
  <2>1. \A k \in 0..n : Fr(k)
    BY <1>5, <1>6
  <2>2. \A k \in 0..n : k \in 0..ScMod
    BY <1>3
  <2>3. \A k \in 0..ScMod : Fr(k) => k \in 0..n
    BY <1>7
  <2> HIDE DEF Fr
  <2> QED BY <2>1, <2>2, <2>3
<1>9. Moves(last, T) = n
  <2>1. Moves(last, T) = Max({k \in 0..ScMod : Fr(k)})
    BY DEF Moves
  <2> QED BY <2>1, <1>8, MaxUpTo
<1> QED BY <1>2, <1>3, <1>9

(* What SendAcks makes of it.                                              *)
LEMMA SendAcksExact ==
    ASSUME ScMod \in Nat, NEW F \in Nat, NEW last \in Nat, F <= last + 1, last + 1 < ScMod,
           NEW G \in SUBSET (F..(ScMod - 2)), F..last \subseteq G, F \in G,
           NEW dups, SendAcks(last, G \ (F..last), dups)
    PROVE  /\ scLast' \in Nat /\ F <= scLast' /\ F..scLast' \subseteq G
           /\ scTsns' = G \ (F..scLast')
           /\ scSack'.cum = scLast' /\ scSack'.gaps = Gaps(scLast', scTsns')
<1> DEFINE T == G \ (F..last)
           n == Moves(last, T)
<1>1. /\ n \in Nat /\ last + n + 1 < ScMod /\ last + n + 1 \notin G
      /\ (last + 1)..(last + n) \subseteq G
  BY MovesTo
<1>2. Plus(last, n) = last + n
  <2> HIDE DEF n
  <2> QED BY <1>1, PlusIs
<1>3. Behind(last, n) = (last + 1)..(last + n)
  <2> HIDE DEF n
  <2>1. \A i \in 1..n : Plus(last, i) = last + i
    BY <1>1, PlusIs
  <2>2. ASSUME NEW x \in (last + 1)..(last + n) PROVE x \in Behind(last, n)
    <3>1. x - last \in 1..n /\ last + (x - last) = x
      BY <1>1
    <3> QED BY <3>1, <2>1 DEF Behind
  <2> QED BY <1>1, <2>1, <2>2 DEF Behind
<1>4. /\ scLast' = last + n /\ scTsns' = T \ ((last + 1)..(last + n))
      /\ scSack'.cum = scLast' /\ scSack'.gaps = Gaps(scLast', scTsns')
  <2>1. /\ scLast' = Plus(last, n) /\ scTsns' = T \ Behind(last, n)
        /\ scSack' = [cum |-> scLast', gaps |-> Gaps(scLast', scTsns'),
                      dups |-> {(t % ScOffsets) * ScOffsets : t \in dups}]
    BY DEF SendAcks
  <2> HIDE DEF n, T
  <2> QED BY <2>1, <1>2, <1>3
<1> HIDE DEF n
<1>5. F..(last + n) \subseteq G
  BY <1>1
<1>6. T \ ((last + 1)..(last + n)) = G \ (F..(last + n))
  BY <1>1
<1>7. F <= last + n
  BY <1>1
<1> QED BY <1>1, <1>4, <1>5, <1>6, <1>7

(* The tsns of a plain association.                                        *)
LEMMA PlainTsns ==
    ASSUME ScInv, Plain
    PROVE  /\ ScMod \in Nat /\ ScMsgs \in Nat /\ ScMsgs > 0 /\ ScOffsets \in Nat
           /\ scFirst \in Nat /\ scFirst > 0
           /\ \A i \in 1..ScMsgs : Tsn(i) = scFirst + i - 1
           /\ \A i \in 1..ScMsgs : Tsn(i) \in scFirst..(ScMod - 2)
           /\ Received \in SUBSET (scFirst..(ScMod - 2)) /\ Told \subseteq Received
           /\ Minus(scFirst, 1) = scFirst - 1
<1>1. /\ ScMod \in Nat /\ ScMsgs \in Nat /\ ScMsgs > 0 /\ ScOffsets \in Nat
      /\ scFirst \in Nat /\ scFirst > 0 /\ scFirst + ScMsgs < ScMod
  BY ScAssumption DEF ScAssumption, ScInv, Plain
<1>2. ASSUME NEW i \in 1..ScMsgs PROVE Tsn(i) = scFirst + i - 1
  <2>1. i - 1 \in Nat /\ scFirst + (i - 1) < ScMod
    BY <1>1
  <2>2. Plus(scFirst, i - 1) = scFirst + (i - 1)
    BY <1>1, <2>1, PlusIs
  <2> QED BY <1>1, <2>2 DEF Tsn
<1>3. \A i \in 1..ScMsgs : Tsn(i) \in scFirst..(ScMod - 2)
  BY <1>1, <1>2
<1>4. Received \in SUBSET (scFirst..(ScMod - 2)) /\ Told \subseteq Received
  BY <1>1, <1>3 DEF Received, Told, ScInv
<1>5. Minus(scFirst, 1) = scFirst - 1
  BY <1>1, MinusIs
<1> QED BY <1>1, <1>2, <1>3, <1>4, <1>5

LEMMA ScInitInv == ScInit => ScInv
  BY DEF ScInit, ScInv

LEMMA NextAbove == \A a, b \in Nat : a <= b => a <= b + 1
  OBVIOUS

(* What the end of a packet, or the next chunk, makes of it when G was     *)
(* received.                                                               *)
LEMMA ChunkKeeps ==
    ASSUME ScMod \in Nat, scFirst \in Nat, NEW last \in Nat, scFirst <= last + 1,
           last + 1 < ScMod, NEW G \in SUBSET (scFirst..(ScMod - 2)), scFirst \in G,
           scFirst..last \subseteq G, NEW sacked, NEW dups,
           EndChunk(sacked, last, G \ (scFirst..last), dups), scFirst' = scFirst, Received' = G,
           sacked \/ (scSack # NoSack => SackSays)
    PROVE  SackInv'
<1>1. (Gaps(scSack.cum, Told \ (scFirst..scSack.cum)))'
        = Gaps(scSack'.cum, Told' \ (scFirst'..scSack'.cum))
  BY DEF Gaps, Block, Offset, Minus
<1>2. CASE sacked /\ SendAcks(last, G \ (scFirst..last), dups) /\ scTold' = scGot'
  <2>1. /\ scLast' \in Nat /\ scFirst <= scLast' /\ scFirst..scLast' \subseteq G
        /\ scTsns' = G \ (scFirst..scLast')
        /\ scSack'.cum = scLast' /\ scSack'.gaps = Gaps(scLast', scTsns')
    BY <1>2, SendAcksExact
  <2>2. Told' = G
    BY <1>2 DEF Told, Received
  <2>3. SackSays'
    BY <1>1, <2>1, <2>2 DEF SackSays
  <2>4. scFirst' <= scLast' + 1
    BY <2>1, NextAbove, Zenon
  <2>5. scFirst'..scLast' \subseteq Received' /\ scTsns' = Received' \ (scFirst'..scLast')
    BY <2>1, Zenon
  <2> QED BY <2>1, <2>3, <2>4, <2>5, Zenon DEF SackInv
<1>3. CASE /\ ~sacked /\ scLast' = last /\ scTsns' = G \ (scFirst..last)
           /\ UNCHANGED <<scSack, scTold>>
  <2>1. (SackSays' <=> SackSays) /\ (scSack' # NoSack <=> scSack # NoSack)
    <3>1. Told' = Told
      BY <1>3 DEF Told
    <3> QED BY <1>1, <1>3, <3>1 DEF SackSays
  <2> QED BY <1>3, <2>1 DEF SackInv
<1> QED BY <1>2, <1>3 DEF EndChunk

(* It only moves tsns away.                                                *)
LEMMA ChunkTypes ==
    ASSUME NEW sacked, NEW last, NEW tsns, NEW dups, EndChunk(sacked, last, tsns, dups)
    PROVE  scTsns' \subseteq tsns /\ scTold' \in {scTold, scGot'}
  BY DEF EndChunk, SendAcks

(* An INIT: the association begins with the initial tsn.                   *)
LEMMA DoChunkInitStep ==
    ASSUME ScInv, NEW init, NEW sacked, DoChunkInit(init, sacked)
    PROVE  ScInv'
<1>1. /\ scFirst' = scFirst /\ scGot' = scGot /\ scInits' \in Nat /\ scEarly' = (scGot # {})
      /\ (Plain' <=> Plain) /\ \A i : Tsn(i)' = Tsn(i)
  BY DEF ScInv, DoChunkInit, Plain, Tsn, Plus
<1>2. scTsns' \subseteq scTsns \cup {scFirst} /\ scTold' \in {scTold, scGot'}
  <2>1. CASE EndChunk(TRUE, Minus(scFirst, 1), scTsns \cup {scFirst}, scDups)
    BY <2>1, ChunkTypes
  <2>2. CASE scTsns' \subseteq scTsns \cup {scFirst} /\ UNCHANGED scTold
    BY <2>2
  <2> QED BY <2>1, <2>2 DEF DoChunkInit
<1>3. ASSUME scTag', scGot = {}, Plain PROVE SackInv'
  <2>1. Received = {scFirst} /\ Received' = {scFirst} /\ scTsns \cup {scFirst} = {scFirst}
    BY <1>1, <1>3 DEF ScInv, Received
  <2> DEFINE last == scFirst - 1
             G == {scFirst}
  <2>2. /\ ScMod \in Nat /\ scFirst \in Nat /\ last \in Nat /\ scFirst <= last + 1
        /\ last + 1 < ScMod /\ G \in SUBSET (scFirst..(ScMod - 2)) /\ scFirst \in G
        /\ scFirst..last \subseteq G /\ G \ (scFirst..last) = G
    BY <1>3, PlainTsns, <2>1 DEF Received
  <2>3. CASE EndChunk(TRUE, Minus(scFirst, 1), scTsns \cup {scFirst}, scDups)
    <3>1. EndChunk(TRUE, last, G, scDups)
      BY <2>1, <2>3, <1>3, PlainTsns
    <3> HIDE DEF last, G
    <3>2. EndChunk(TRUE, last, G \ (scFirst..last), scDups)
      BY <2>2, <3>1
    <3>3. Received' = G
      BY <2>1 DEF G
    <3> QED BY <1>1, <2>2, <3>2, <3>3, ChunkKeeps
  <2>4. CASE /\ scLast' = Minus(scFirst, 1) /\ scTsns' = scTsns \cup {scFirst}
             /\ scSack' = NoSack
    <3>1. scLast' = last /\ scTsns' = G
      BY <2>1, <2>4, <1>3, PlainTsns
    <3> QED BY <1>1, <2>1, <2>2, <2>4, <3>1 DEF SackInv
  <2> QED BY <1>3, <2>3, <2>4 DEF DoChunkInit
<1> QED BY <1>1, <1>2, <1>3 DEF ScInv

(* A chunk that is not taken.                                              *)
LEMMA NothingTaken ==
    ASSUME ScInv, NEW sacked, EndChunk(sacked, scLast, scTsns, scDups),
           UNCHANGED <<scFirst, scTag, scInits, scEarly, scGot>>
    PROVE  ScInv'
<1>1. /\ (Plain' <=> Plain) /\ Received' = Received /\ \A i : Tsn(i)' = Tsn(i)
  BY DEF Plain, Tsn, Plus, Received
<1>2. ASSUME scTag, ~scEarly, Plain PROVE SackInv'
  <2>1. SackInv
    BY <1>2 DEF ScInv
  <2>2. /\ Received \in SUBSET (scFirst..(ScMod - 2)) /\ scTsns = Received \ (scFirst..scLast)
        /\ ScMod \in Nat /\ scFirst \in Nat /\ scLast \in Nat /\ scFirst \in Received
        /\ scFirst..scLast \subseteq Received
    BY <1>2, <2>1, PlainTsns DEF SackInv, Received
  <2>3. scFirst <= scLast + 1 /\ scLast + 1 < ScMod
    <3>1. scLast \in scFirst..scLast \/ scLast < scFirst
      BY <2>2
    <3> QED BY <2>1, <2>2, <3>1 DEF SackInv
  <2>4. scSack # NoSack => SackSays
    BY <2>1 DEF SackInv
  <2> QED BY <1>1, <2>2, <2>3, <2>4, ChunkKeeps
<1>3. scTsns' \subseteq scTsns /\ scTold' \in {scTold, scGot'}
  BY ChunkTypes
<1> QED BY <1>1, <1>2, <1>3 DEF ScInv

(* A chunk that is taken, whether it is new or not.                        *)
LEMMA ChunkTaken ==
    ASSUME ScInv, NEW i \in 1..ScMsgs, NEW sacked, AddChunk(Tsn(i), sacked),
           scGot' = scGot \cup {Tsn(i)}, UNCHANGED <<scFirst, scTag, scInits, scEarly>>
    PROVE  ScInv'
<1> DEFINE t == Tsn(i)
           G == Received \cup {t}
<1>1. /\ (Plain' <=> Plain) /\ \A j : Tsn(j)' = Tsn(j)
  BY DEF Plain, Tsn, Plus
<1>2. Received' = G
  BY DEF Received
<1>3. ASSUME scTag, ~scEarly, Plain PROVE SackInv'
  <2>1. SackInv
    BY <1>3 DEF ScInv
  <2>2. /\ G \in SUBSET (scFirst..(ScMod - 2)) /\ Received \subseteq G /\ scFirst \in G
        /\ t \in scFirst..(ScMod - 2) /\ scLast \in Nat /\ scFirst \in Nat /\ ScMod \in Nat
        /\ scFirst..scLast \subseteq Received /\ Received \in SUBSET (scFirst..(ScMod - 2))
    BY <1>3, <2>1, PlainTsns DEF SackInv, Received
  <2>3. scFirst <= scLast + 1 /\ scLast + 1 < ScMod
    <3>1. scLast \in scFirst..scLast \/ scLast < scFirst
      BY <2>2
    <3> QED BY <2>1, <2>2, <3>1 DEF SackInv
  <2>4. \E dups : EndChunk(sacked, scLast, G \ (scFirst..scLast), dups)
    <3>1. CASE t > scLast
      <4>1. scTsns \cup {t} = G \ (scFirst..scLast)
        BY <2>1, <2>2, <3>1 DEF SackInv
      <4>2. EndChunk(sacked, scLast, scTsns \cup {t}, scDups \cup (scTsns \cap {t}))
        BY <3>1 DEF AddChunk
      <4> HIDE DEF t, G
      <4> QED BY <4>1, <4>2
    <3>2. CASE ~(t > scLast)
      <4>1. scTsns = G \ (scFirst..scLast)
        BY <2>1, <2>2, <3>2 DEF SackInv
      <4>2. EndChunk(sacked, scLast, scTsns, scDups)
        BY <3>2 DEF AddChunk
      <4> HIDE DEF t, G
      <4> QED BY <4>1, <4>2
    <3> QED BY <3>1, <3>2
  <2>5. scSack # NoSack => SackSays
    BY <2>1 DEF SackInv
  <2> HIDE DEF t, G
  <2> QED BY <1>2, <2>2, <2>3, <2>4, <2>5, ChunkKeeps
<1>4. scTold' \in {scTold, scGot'}
  <2>1. \E tsns, dups : EndChunk(sacked, scLast, tsns, dups)
    BY DEF AddChunk
  <2> QED BY <2>1, ChunkTypes
<1> QED BY <1>1, <1>3, <1>4 DEF ScInv

LEMMA ScNextInv == ScInv /\ [ScNext]_scVars => ScInv'
<1> SUFFICES ASSUME ScInv, [ScNext]_scVars PROVE ScInv'
  OBVIOUS
<1>1. ASSUME NEW init, NEW sacked \in BOOLEAN, DoChunkInit(init, sacked) PROVE ScInv'
  BY <1>1, DoChunkInitStep
<1>2. ASSUME NEW i \in 1..ScMsgs, NEW sacked \in BOOLEAN, RecvDataChunk(i, sacked) PROVE ScInv'
  <2>1. UNCHANGED <<scFirst, scTag, scInits, scEarly>>
    BY <1>2 DEF RecvDataChunk
  <2>2. \/ AddChunk(Tsn(i), sacked) /\ scGot' = scGot \cup {Tsn(i)}
        \/ EndChunk(sacked, scLast, scTsns, scDups) /\ UNCHANGED scGot
    BY <1>2 DEF RecvDataChunk
  <2> QED BY <2>1, <2>2, NothingTaken, ChunkTaken
<1>3. ASSUME NEW sacked \in BOOLEAN, RecvOtherChunk(sacked) PROVE ScInv'
  BY <1>3, NothingTaken DEF RecvOtherChunk
<1>4. CASE UNCHANGED scVars
  BY <1>4 DEF scVars, ScInv, SackInv, SackSays, Plain, Received, Told, Tsn, Plus, Gaps, Block,
              Offset, Minus
<1> QED BY <1>1, <1>2, <1>3, <1>4 DEF ScNext

(* For any number of tsns and chunks: what send_acks keeps.                *)
THEOREM SctpInvariance == ScSpec => []ScInv
  BY ScInitInv, ScNextInv, PTL DEF ScSpec

(* Every tsn that waits is part of a gap block.                            *)
LEMMA BlockOf ==
    ASSUME NEW m \in Nat, NEW T \in SUBSET (0..m), NEW t \in T
    PROVE  \E x, y \in T : Block(T, x, y) /\ t \in x..y
<1>1. PICK y \in Nat : y >= t /\ t..y \subseteq T /\ y + 1 \notin T
  <2> DEFINE S == {z \in Nat : z >= t /\ z + 1 \notin T}
  <2>1. m \in S
    OBVIOUS
  <2>2. PICK y \in S : \A z \in S : y <= z
    BY <2>1, LeastIn
  <2>3. ASSUME NEW z \in t..y PROVE z \in T
    <3>1. CASE z = t
      BY <3>1
    <3>2. CASE z # t
      <4>1. z - 1 \in Nat /\ z - 1 >= t /\ z - 1 < y /\ (z - 1) + 1 = z
        BY <3>2, <2>2
      <4>2. z - 1 \notin S
        BY <4>1, <2>2
      <4> QED BY <4>1, <4>2
    <3> QED BY <3>1, <3>2
  <2> QED BY <2>2, <2>3
<1>2. PICK x \in Nat : x <= t /\ x..t \subseteq T /\ x - 1 \notin T
  <2> DEFINE S == {z \in Nat : z <= t /\ z..t \subseteq T}
  <2>1. t \in S
    OBVIOUS
  <2>2. PICK x \in S : \A z \in S : x <= z
    BY <2>1, LeastIn
  <2>3. x - 1 \notin T
    <3>1. SUFFICES ASSUME x - 1 \in T PROVE FALSE
      OBVIOUS
    <3>2. x - 1 \in Nat /\ x - 1 < x
      BY <3>1, <2>2
    <3>3. x - 1 <= t /\ (x - 1)..t \subseteq T
      BY <2>2, <3>1, <3>2
    <3> QED BY <2>2, <3>2, <3>3
  <2> QED BY <2>2, <2>3
<1>3. x..y \subseteq T /\ x \in x..y /\ y \in x..y /\ t \in x..y /\ x <= y
  BY <1>1, <1>2
<1> QED BY <1>1, <1>2, <1>3 DEF Block

(* For any number of tsns and chunks, and however packets are lost,        *)
(* reordered, duplicated and put together, a SACK of send_acks covers what *)
(* was received when it was sent and nothing else, while tsns do not wrap  *)
(* and no DATA comes before an INIT.                                       *)
THEOREM SacksAreExact == ScSpec => []SackExact
<1>1. ASSUME ScInv, scTag, ~scEarly, scSack # NoSack, Plain PROVE Acknowledged = Told
  <2>1. SackSays
    BY <1>1 DEF ScInv, SackInv
  <2> DEFINE F == scFirst
             cum == scSack.cum
             T == Told \ (F..cum)
  <2>2. /\ ScMod \in Nat /\ ScMsgs \in Nat /\ ScMsgs > 0 /\ ScOffsets \in Nat
        /\ F \in Nat /\ F > 0 /\ F + ScMsgs < ScMod /\ ScMsgs <= ScOffsets
        /\ \A i \in 1..ScMsgs : Tsn(i) = F + i - 1
        /\ Told \in SUBSET (F..(F + ScMsgs - 1))
    <3>1. scTold \subseteq {Tsn(i) : i \in 1..ScMsgs}
      BY <1>1 DEF ScInv
    <3> QED BY <1>1, <3>1, PlainTsns DEF Plain, Told
  <2>3. /\ cum \in Nat /\ F <= cum /\ F..cum \subseteq Told /\ T = Told \ (F..cum)
        /\ scSack.gaps = Gaps(cum, T) /\ cum <= F + ScMsgs - 1
    <3>1. cum \in F..(F + ScMsgs - 1)
      BY <2>1, <2>2 DEF SackSays
    <3> QED BY <2>1, <3>1 DEF SackSays
  <2> DEFINE Ack(t) == \/ Minus(t, F) <= Minus(cum, F)
                       \/ \E g \in Gaps(cum, T) : Minus(t, cum) \in g[1]..g[2]
  <2>4. Acknowledged = {Tsn(i) : i \in {j \in 1..ScMsgs : Ack(Tsn(j))}}
    BY <1>1, <2>3 DEF Acknowledged
  <2> HIDE DEF F, cum, T
  <2>5. ASSUME NEW t \in F..(F + ScMsgs - 1), t > cum
        PROVE  Offset(t, cum) = t - cum /\ Minus(t, cum) = t - cum
    <3>1. Minus(t, cum) = t - cum
      BY <2>2, <2>3, <2>5, MinusIs
    <3>2. t - cum \in Nat /\ t - cum < ScOffsets
      BY <2>2, <2>3, <2>5
    <3>3. (t - cum) % ScOffsets = t - cum
      BY <2>2, <3>2, Remainder
    <3> QED BY <3>1, <3>3 DEF Offset
  <2>6. ASSUME NEW t \in F..(F + ScMsgs - 1) PROVE Ack(t) <=> t \in Told
    <3>1. Minus(t, F) = t - F /\ Minus(cum, F) = cum - F
      BY <2>2, <2>3, MinusIs
    <3>2. CASE t <= cum
      BY <2>2, <2>3, <3>1, <3>2
    <3>3. CASE t > cum
      <4>1. t \in Told <=> t \in T
        BY <2>2, <2>3, <3>3
      <4>2. ~(Minus(t, F) <= Minus(cum, F))
        BY <2>2, <2>3, <3>1, <3>3
      <4>3. \A x \in T : x \in F..(F + ScMsgs - 1) /\ x > cum /\ x \in Nat
        BY <2>2, <2>3
      <4>4. ASSUME t \in T PROVE \E g \in Gaps(cum, T) : Minus(t, cum) \in g[1]..g[2]
        <5>1. F + ScMsgs - 1 \in Nat /\ T \in SUBSET (0..(F + ScMsgs - 1))
          BY <2>2, <4>3
        <5>2. PICK x, y \in T : Block(T, x, y) /\ t \in x..y
          BY <4>4, <5>1, BlockOf
        <5> DEFINE g == <<Offset(x, cum), Offset(y, cum)>>
        <5>3. g \in Gaps(cum, T)
          <6>1. <<x, y>> \in {xy \in T \X T : Block(T, xy[1], xy[2])}
            BY <5>2
          <6> QED BY <6>1 DEF Gaps
        <5>4. Minus(t, cum) \in g[1]..g[2]
          <6>1. Offset(x, cum) = x - cum /\ Offset(y, cum) = y - cum /\ Minus(t, cum) = t - cum
            BY <4>3, <2>5, <3>3
          <6> QED BY <6>1, <5>2, <4>3, <2>3, <2>2
        <5> QED BY <5>3, <5>4
      <4>5. ASSUME NEW g \in Gaps(cum, T), Minus(t, cum) \in g[1]..g[2] PROVE t \in T
        <5>1. PICK x \in T, y \in T : Block(T, x, y) /\ g = <<Offset(x, cum), Offset(y, cum)>>
          BY DEF Gaps
        <5>2. Offset(x, cum) = x - cum /\ Offset(y, cum) = y - cum /\ Minus(t, cum) = t - cum
          BY <4>3, <2>5, <3>3
        <5>3. t \in x..y
          BY <4>5, <5>1, <5>2, <4>3, <2>2, <2>3
        <5> QED BY <5>1, <5>3 DEF Block
      <4> QED BY <4>1, <4>2, <4>4, <4>5
    <3>4. t <= cum \/ t > cum
      BY <2>2, <2>3
    <3> HIDE DEF Ack
    <3> QED BY <3>2, <3>3, <3>4
  <2> HIDE DEF Ack
  <2>7. Acknowledged \subseteq Told
    BY <2>2, <2>4, <2>6
  <2>8. ASSUME NEW t \in Told PROVE t \in Acknowledged
    <3>1. t - F + 1 \in 1..ScMsgs /\ Tsn(t - F + 1) = t /\ Ack(t)
      BY <2>2, <2>6
    <3> QED BY <2>4, <3>1
  <2> QED BY <2>7, <2>8
<1>2. ScInv => SackExact
  BY <1>1 DEF SackExact, Plain, Told
<1> QED BY <1>2, SctpInvariance, PTL

-----------------------------------------------------------------------------
(* http_server: the bytes of a connection.                                 *)

(* How the client's bytes are divided into requests.                       *)
SentInv ==
    /\ hcSize \in [1..HcReqs -> [h : Nat \ {0}, b : Nat]] /\ hcAt \in [1..(HcReqs + 1) -> Nat]
    /\ \A i \in 1..HcReqs : hcAt[i + 1] = hcAt[i] + hcSize[i].h + hcSize[i].b

(* Between two requests, and in the headers of the next one: buf holds the *)
(* n bytes that were read of it, hcBsp of which are parsed.                *)
Reading(n) ==
    /\ hcDone <= HcReqs /\ hcBuf = HlRun(hcAt[hcDone + 1], n)
    /\ hcRd = hcAt[hcDone + 1] + n /\ hcRd <= Total
    /\ hcBsp \in 0..n /\ hcHdr = HlRun(0, hcBsp) /\ hcGot = <<>>
    /\ hcDone < HcReqs => hcBsp < hcSize[hcDone + 1].h
    /\ hcPc = "parse" => hcBsp < n

(* In the handler: of the n bytes in buf the headers and perhaps some of   *)
(* the body are taken, and the handler has got g bytes of the body.  When  *)
(* there are more in buf, they follow.                                     *)
Handling(n, g) ==
    LET i == hcDone + 1 IN
    /\ hcDone < HcReqs /\ hcBuf = HlRun(hcAt[i], n)
    /\ hcHdr = HlRun(0, hcSize[i].h) /\ hcLen = hcSize[i].b
    /\ hcBsp \in hcSize[i].h..n /\ g <= hcSize[i].b
    /\ hcGot = HlRun(hcAt[i] + hcSize[i].h, g)
    /\ hcRd = hcAt[i] + hcSize[i].h + g + (n - hcBsp) /\ hcRd <= Total
    /\ hcBsp < n => hcBsp = hcSize[i].h + g

HibInv == hcHib => hcHdr = <<>> /\ hcPc \in {"loop", "closed"}

(* Nothing has kept the parser from stopping behind the headers.           *)
Regular == hcWhole /\ hcWaits /\ ~hcOdd

HcInv ==
    /\ SentInv /\ HibInv /\ hcDone \in Nat /\ hcRd \in Nat /\ Sent(hcRd)
    /\ Regular => /\ hcPc \in {"new", "loop", "parse"} => \E n \in Nat : Reading(n)
                  /\ hcPc = "handler" => \E n, g \in Nat : Handling(n, g)

(* Requests follow one another.                                            *)
LEMMA AtGrows ==
    ASSUME SentInv, NEW i \in 1..(HcReqs + 1), NEW j \in i..(HcReqs + 1)
    PROVE  hcAt[i] <= hcAt[j]
<1> DEFINE S == {k \in i..(HcReqs + 1) : ~(hcAt[i] <= hcAt[k])}
<1>0. HcReqs \in Nat
  BY HcAssumption DEF HcAssumption
<1>1. SUFFICES ASSUME S # {} PROVE FALSE
  OBVIOUS
<1>2. PICK k \in S : \A l \in S : k <= l
  <2>1. S \in SUBSET Nat
    BY <1>0
  <2> QED BY <1>1, <2>1, LeastIn
<1>3. k # i
  BY <1>0, <1>2 DEF SentInv
<1>4. k - 1 \in i..(HcReqs + 1) /\ k - 1 \in 1..HcReqs /\ (k - 1) + 1 = k /\ k - 1 < k
  BY <1>0, <1>2, <1>3
<1>5. k - 1 \notin S
  BY <1>2, <1>4
<1>6. hcAt[k] >= hcAt[k - 1]
  <2>1. hcSize[k - 1] \in [h : Nat \ {0}, b : Nat]
    BY <1>4 DEF SentInv
  <2>2. hcAt[k] = hcAt[k - 1] + hcSize[k - 1].h + hcSize[k - 1].b /\ hcAt[k - 1] \in Nat
    BY <1>0, <1>4, SMTT(30) DEF SentInv
  <2> QED BY <2>1, <2>2
<1> QED BY <1>0, <1>2, <1>4, <1>5, <1>6 DEF SentInv

LEMMA OwnerIs ==
    ASSUME SentInv, NEW n \in Nat, NEW i \in 1..HcReqs, hcAt[i] < n, n <= hcAt[i + 1]
    PROVE  Owner(n) = i
<1>0. HcReqs \in Nat
  BY HcAssumption DEF HcAssumption
<1>1. ASSUME NEW j \in 1..HcReqs, hcAt[j] < n, n <= hcAt[j + 1] PROVE j = i
  <2>a. /\ j \in 1..(HcReqs + 1) /\ i \in 1..(HcReqs + 1) /\ i + 1 \in 1..(HcReqs + 1)
        /\ j + 1 \in 1..(HcReqs + 1)
    BY <1>0
  <2>b. \A k \in 1..(HcReqs + 1) : hcAt[k] \in Nat
    BY DEF SentInv
  <2>0. /\ j \in 1..(HcReqs + 1) /\ i \in 1..(HcReqs + 1) /\ i + 1 \in 1..(HcReqs + 1)
        /\ j + 1 \in 1..(HcReqs + 1)
        /\ hcAt[i] \in Nat /\ hcAt[j] \in Nat /\ hcAt[i + 1] \in Nat /\ hcAt[j + 1] \in Nat
    BY <2>a, <2>b, Zenon
  <2>1. CASE j < i
    <3>1. i \in (j + 1)..(HcReqs + 1)
      BY <1>0, <2>1
    <3>2. hcAt[j + 1] <= hcAt[i]
      BY <2>0, <3>1, AtGrows
    <3> QED BY <1>1, <2>0, <3>2
  <2>2. CASE i < j
    <3>1. j \in (i + 1)..(HcReqs + 1)
      BY <1>0, <2>2
    <3>2. hcAt[i + 1] <= hcAt[j]
      BY <2>0, <3>1, AtGrows
    <3> QED BY <1>1, <2>0, <3>2
  <2> QED BY <1>0, <2>1, <2>2
<1>2. \E j \in 1..HcReqs : hcAt[j] < n /\ n <= hcAt[j + 1]
  OBVIOUS
<1> QED BY <1>1, <1>2 DEF Owner

LEMMA RunNone == \A from : HlRun(from, 0) = <<>>
  BY DEF HlRun

LEMMA HcInitInv == HcInit => HcInv
<1> SUFFICES ASSUME HcInit PROVE HcInv
  OBVIOUS
<1>1. HcReqs \in Nat /\ HcHead \in Nat /\ HcBody \in Nat
  BY HcAssumption DEF HcAssumption
<1>2. SentInv
  <2>1. HcReqs * (HcHead + HcBody) \in Nat
    BY <1>1
  <2>2. hcAt \in [1..(HcReqs + 1) -> Nat]
    BY <2>1 DEF HcInit
  <2>3. hcSize \in [1..HcReqs -> [h : Nat \ {0}, b : Nat]]
    <3>1. hcSize \in [1..HcReqs -> [h : 1..HcHead, b : 0..HcBody]]
      BY DEF HcInit
    <3>2. \A i \in 1..HcReqs : hcSize[i] \in [h : Nat \ {0}, b : Nat]
      <4> SUFFICES ASSUME NEW i \in 1..HcReqs PROVE hcSize[i] \in [h : Nat \ {0}, b : Nat]
        OBVIOUS
      <4>1. hcSize[i] \in [h : 1..HcHead, b : 0..HcBody]
        BY <3>1, Zenon
      <4> QED BY <1>1, <4>1
    <3> QED BY <3>1, <3>2, Zenon
  <2> QED BY <2>2, <2>3 DEF HcInit, SentInv
<1>3. Reading(0)
  <2>1. hcAt[1] = 0 /\ hcDone = 0 /\ hcDone + 1 = 1 /\ Total \in Nat
    BY <1>1, <1>2 DEF HcInit, SentInv, Total
  <2>2. 0 < HcReqs => hcSize[1].h > 0
    BY <1>1, <1>2 DEF SentInv
  <2> QED BY <1>1, <2>1, <2>2, RunNone DEF HcInit, Reading
<1>4. Sent(hcRd)
  <2>1. hcRd = 0 /\ HcReqs + 1 \in 1..(HcReqs + 1) /\ hcDone = 0
    BY <1>1 DEF HcInit
  <2>2. \A i \in 1..(HcReqs + 1) : hcAt[i] \in Nat
    BY <1>2 DEF SentInv
  <2>3. \A i \in (hcDone + 1)..HcReqs : i + 1 \in 1..(HcReqs + 1)
    BY <1>1, <2>1
  <2> QED BY <2>1, <2>2, <2>3 DEF Sent, Total
<1> QED BY <1>2, <1>3, <1>4 DEF HcInit, HcInv, HibInv

(* What is known of the request under way.                                 *)
LEMMA RequestIs ==
    ASSUME SentInv, hcDone \in Nat, hcDone < HcReqs
    PROVE  LET i == hcDone + 1 IN
           /\ i \in 1..HcReqs /\ hcAt[i] \in Nat /\ hcSize[i].h \in Nat /\ hcSize[i].h > 0
           /\ hcSize[i].b \in Nat /\ hcAt[i + 1] = hcAt[i] + hcSize[i].h + hcSize[i].b
           /\ Total \in Nat
<1>0. HcReqs \in Nat
  BY HcAssumption DEF HcAssumption
<1>1. hcDone + 1 \in 1..HcReqs
  BY <1>0
<1>2. hcSize[hcDone + 1] \in [h : Nat \ {0}, b : Nat]
  BY <1>1 DEF SentInv
<1> QED BY <1>0, <1>1, <1>2 DEF SentInv, Total

(* What Parse and the others leave alone.                                  *)
LEMMA SentKept ==
    ASSUME SentInv, UNCHANGED hcSent
    PROVE  /\ SentInv' /\ hcSize' = hcSize /\ hcAt' = hcAt /\ Total' = Total
           /\ hcWhole' = hcWhole /\ hcWaits' = hcWaits
  BY DEF hcSent, SentInv, Total

LEMMA TailShrinks ==
    ASSUME NEW m \in Nat, NEW n \in Nat, n >= m, NEW k \in Nat
    PROVE  (n + 1)..k \subseteq (m + 1)..k
  OBVIOUS

(* A request that is answered holds nothing back any more.                 *)
LEMMA SentStays ==
    ASSUME SentInv, UNCHANGED hcSent, Sent(hcRd'), hcDone \in Nat, hcDone' \in Nat,
           hcDone' >= hcDone
    PROVE  Sent(hcRd)'
<1>1. Total' = Total /\ hcWaits' = hcWaits /\ hcSize' = hcSize /\ hcAt' = hcAt
  BY SentKept
<1>2. HcReqs \in Nat
  BY HcAssumption, Zenon DEF HcAssumption
<1>3. (hcDone' + 1)..HcReqs \subseteq (hcDone + 1)..HcReqs
  BY <1>2, TailShrinks, Zenon
<1> QED BY <1>1, <1>3, Zenon DEF Sent

LEMMA HcReadStep ==
    ASSUME HcInv, NEW n \in 0..HcCap, ReadMore(n)
    PROVE  HcInv'
<1>1. /\ hcPc = "loop" /\ hcPc' = "parse" /\ hcHib' = FALSE /\ UNCHANGED hcSent
      /\ hcOdd' = hcOdd /\ hcDone' = hcDone /\ hcBsp' = hcBsp /\ hcHdr' = hcHdr
      /\ hcGot' = hcGot /\ hcRd' = hcRd + n /\ hcBuf' = hcBuf \o HlRun(hcRd, n)
      /\ IF hcBsp = Len(hcBuf) THEN n > 0 /\ Sent(hcRd + n) ELSE n = 0
  <2>1. n \in Nat
    BY HcAssumption DEF HcAssumption
  <2>2. n \in 1..(HcCap - Len(hcBuf)) => n > 0
    BY <2>1
  <2> QED BY <2>1, <2>2 DEF ReadMore, HlRun
<1>2. /\ SentInv' /\ hcSize' = hcSize /\ hcAt' = hcAt /\ Total' = Total
      /\ hcWhole' = hcWhole /\ hcWaits' = hcWaits
  BY <1>1, SentKept DEF HcInv
<1>3. ASSUME Regular PROVE \E m \in Nat : Reading(m)'
  <2>1. PICK m \in Nat : Reading(m)
    BY <1>1, <1>3 DEF HcInv
  <2> DEFINE at == hcAt[hcDone + 1]
  <2>2. at \in Nat /\ n \in Nat /\ hcDone \in Nat /\ HcReqs \in Nat
    BY <2>1, HcAssumption DEF HcAssumption, HcInv, SentInv, Reading
  <2>3. /\ hcBuf = HlRun(at, m) /\ hcRd = at + m /\ hcBsp \in 0..m /\ hcRd <= Total
    BY <2>1 DEF Reading
  <2>4. Len(hcBuf) = m
    BY <2>2, <2>3, RunIs
  <2>5. hcBuf' = HlRun(at, m + n)
    BY <1>1, <2>2, <2>3, RunJoin, ZenonT(60)
  <2>6. hcRd' = at + (m + n) /\ hcBsp' \in 0..(m + n) /\ hcBsp' < m + n
    BY <1>1, <2>2, <2>3, <2>4, SMTT(30)
  <2>7. hcRd' <= Total'
    BY <1>1, <1>2, <2>2, <2>3, <2>4 DEF Sent
  <2>8. m + n \in Nat
    BY <2>2
  <2>9. Reading(m + n)'
    BY <1>1, <1>2, <2>1, <2>5, <2>6, <2>7, Zenon DEF Reading
  <2> QED BY <2>8, <2>9
<1>4. hcRd' \in Nat /\ Sent(hcRd)'
  <2>1. hcRd' \in Nat /\ (n = 0 => hcRd' = hcRd) /\ hcDone \in Nat
    BY <1>1, HcAssumption DEF HcAssumption, HcInv
  <2>2. Sent(hcRd')
    BY <1>1, <2>1, Zenon DEF HcInv
  <2> QED BY <1>1, <2>1, <2>2, SentStays DEF HcInv
<1> QED BY <1>1, <1>2, <1>3, <1>4 DEF HcInv, HibInv, Regular

(* The parser stays within the headers of the request it has begun: the    *)
(* byte behind them is foreign, or was not sent yet.                       *)
LEMMA HcParseStep ==
    ASSUME HcInv, Parse
    PROVE  HcInv'
<1>1. /\ hcPc = "parse" /\ UNCHANGED hcSent /\ hcDone' = hcDone
      /\ hcBuf' = hcBuf /\ hcRd' = hcRd /\ hcGot' = hcGot /\ hcHib' = hcHib /\ ~hcHib
  BY DEF Parse, HcInv, HibInv
<1>2. /\ SentInv' /\ hcSize' = hcSize /\ hcAt' = hcAt /\ Total' = Total
      /\ hcWhole' = hcWhole /\ hcWaits' = hcWaits
  BY <1>1, SentKept DEF HcInv
<1>3. ASSUME Regular'
      PROVE  /\ hcPc' \in {"new", "loop", "parse"} => \E n \in Nat : Reading(n)'
             /\ hcPc' = "handler" => \E n, g \in Nat : Handling(n, g)'
  <2> DEFINE New(taken) == (hcBsp + 1)..taken
             Complete(taken) == {k \in New(taken) : EndsHead(hcBuf[k])}
             Odd(taken) == \E k \in New(taken) : Foreign(k)
  <2>a. PICK taken \in hcBsp..Len(hcBuf), last \in BOOLEAN :
          /\ IF last THEN \E k \in Complete(taken) :
                           /\ Complete(taken) = {k}
                           /\ \A j \in (k + 1)..taken : Foreign(j)
                     ELSE taken < Len(hcBuf) /\ ~Odd(taken) => Foreign(taken + 1)
          /\ hcBsp' = taken
          /\ hcHdr' = hcHdr \o [k \in 1..(taken - hcBsp) |-> hcBsp + k]
          /\ hcPc' = IF Complete(taken) # {} THEN "handler"
                     ELSE IF taken < Len(hcBuf) \/ taken = HcCap THEN "closed" ELSE "loop"
          /\ hcLen' = IF Complete(taken) # {}
                      THEN hcSize[Owner(hcBuf[Max(Complete(taken))])].b ELSE 0
          /\ hcOdd' = (hcOdd \/ Odd(taken))
    BY Zenon DEF Parse
  <2>b. Regular /\ ~Odd(taken)
    BY <1>2, <1>3, <2>a, Zenon DEF Regular
  <2>1. PICK n \in Nat : Reading(n)
    BY <1>1, <2>b DEF HcInv
  <2>2. hcDone \in Nat /\ HcReqs \in Nat /\ SentInv
    BY HcAssumption DEF HcAssumption, HcInv
  <2>3. hcDone < HcReqs
    <3>1. hcDone <= HcReqs /\ hcAt[hcDone + 1] + n <= Total /\ n > 0
      BY <1>1, <2>1 DEF Reading
    <3>2. hcDone = HcReqs => Total = hcAt[hcDone + 1] /\ Total \in Nat
      BY <2>2 DEF SentInv, Total
    <3> QED BY <2>2, <3>1, <3>2
  <2> DEFINE i == hcDone + 1
             at == hcAt[i]
             h == hcSize[i].h
             b == hcSize[i].b
  <2>4. /\ i \in 1..HcReqs /\ at \in Nat /\ h \in Nat /\ h > 0 /\ b \in Nat
        /\ hcAt[i + 1] = at + h + b /\ Total \in Nat
    BY <2>2, <2>3, RequestIs
  <2>5. /\ hcBuf = HlRun(at, n) /\ hcRd = at + n /\ hcRd <= Total /\ hcBsp \in 0..n
        /\ hcHdr = HlRun(0, hcBsp) /\ hcGot = <<>> /\ hcBsp < h /\ hcBsp < n
    BY <1>1, <2>1, <2>3 DEF Reading
  <2>c. b = 0 => n <= h
    <3>1. i \in (hcDone + 1)..HcReqs
      BY <2>2, <2>3
    <3>2. b = 0 => hcRd <= hcAt[i + 1]
      BY <2>b, <3>1 DEF HcInv, Sent, Regular
    <3> QED BY <2>4, <2>5, <3>2
  <2> HIDE DEF at, h, b, New, Complete, Odd
  <2>6. /\ Len(hcBuf) = n /\ \A k \in 1..n : hcBuf[k] = at + k
    BY <2>4, <2>5, RunIs
  <2>7. ASSUME NEW k \in 1..n, k <= h
        PROVE  Owner(hcBuf[k]) = i /\ ~Foreign(k) /\ (EndsHead(hcBuf[k]) <=> k = h)
    <3>1. hcBuf[k] = at + k /\ at + k \in Nat /\ at < at + k /\ at + k <= hcAt[i + 1]
      BY <2>4, <2>6, <2>7
    <3> HIDE DEF i
    <3>2. Owner(hcBuf[k]) = i
      BY <2>2, <2>4, <3>1, OwnerIs DEF at
    <3>3. at + k <= at + h /\ (k = 1 => at + 1 = at + k) /\ (at + k = at + h <=> k = h)
      BY <2>4, <2>7
    <3> QED BY <3>1, <3>2, <3>3 DEF IsHead, EndsHead, Foreign, at, h
  <2>8. taken \in hcBsp..n /\ taken <= h
    <3>1. taken \in hcBsp..n
      BY <2>6, <2>a
    <3>2. ASSUME taken > h PROVE FALSE
      <4>1. h + 1 \in 1..n /\ h + 1 \in (hcBsp + 1)..taken /\ b > 0
        BY <2>4, <2>5, <2>c, <3>1, <3>2
      <4>2. hcBuf[h + 1] = at + (h + 1) /\ at + (h + 1) \in Nat
        BY <2>4, <2>6, <4>1
      <4>3. at < at + (h + 1) /\ at + (h + 1) <= hcAt[i + 1] /\ ~(at + (h + 1) <= at + h)
        BY <2>4, <4>1
      <4> HIDE DEF i
      <4>4. Owner(hcBuf[h + 1]) = i
        BY <2>2, <2>4, <4>2, <4>3, OwnerIs DEF at
      <4>5. ~IsHead(hcBuf[h + 1])
        BY <4>2, <4>3, <4>4 DEF IsHead, at, h
      <4> QED BY <2>b, <4>1, <4>5, Zenon DEF Foreign, Odd, New
    <3> QED BY <2>4, <2>5, <3>1, <3>2
  <2>9. Complete(taken) = IF taken = h THEN {h} ELSE {}
    <3>1. \A k \in New(taken) : k \in 1..n /\ k <= h
      BY <2>4, <2>5, <2>8 DEF New
    <3>2. \A k \in New(taken) : EndsHead(hcBuf[k]) <=> k = h
      BY <2>7, <3>1
    <3>3. h \in New(taken) <=> taken = h
      BY <2>4, <2>5, <2>8 DEF New
    <3> QED BY <3>2, <3>3 DEF Complete
  <2>10. /\ hcBsp' = taken
         /\ hcPc' \in IF taken = h THEN {"handler"} ELSE {"loop", "closed"}
         /\ taken = h => hcLen' = b
    <3>1. ASSUME taken = h PROVE hcLen' = b /\ hcPc' = "handler"
      <4>1. Max(Complete(taken)) = h
        <5>1. Complete(taken) = {h}
          BY <2>9, <3>1
        <5> QED BY <2>4, <5>1 DEF Max
      <4>2. Owner(hcBuf[h]) = i
        BY <2>4, <2>7, <2>8, <3>1
      <4> QED BY <2>9, <2>a, <3>1, <4>1, <4>2, Zenon DEF b
    <3>2. ASSUME taken # h PROVE hcPc' \in {"loop", "closed"}
      <4>1. Complete(taken) = {}
        BY <2>9, <3>2
      <4>2. hcPc' = IF taken < Len(hcBuf) \/ taken = HcCap THEN "closed" ELSE "loop"
        BY <2>a, <4>1
      <4> QED BY <4>2
    <3> QED BY <2>a, <3>1, <3>2
  <2>d. taken # h => taken = n
    <3> SUFFICES ASSUME taken # h, taken # n PROVE FALSE
      OBVIOUS
    <3>1. taken + 1 \in 1..n /\ taken + 1 <= h /\ taken < Len(hcBuf)
      BY <2>4, <2>5, <2>6, <2>8
    <3>2. ~Foreign(taken + 1)
      BY <2>7, <3>1
    <3>3. ~last
      BY <2>9, <2>a
    <3> QED BY <2>a, <2>b, <3>1, <3>2, <3>3
  <2>11. hcHdr' = HlRun(0, taken)
    <3> DEFINE m == taken - hcBsp
    <3>1. [k \in 1..m |-> hcBsp + k] = HlRun(0 + hcBsp, m)
      BY <2>5 DEF HlRun
    <3>2. hcBsp \in Nat /\ 0 \in Nat /\ m \in Nat /\ hcBsp + m = taken
      BY <2>5, <2>8
    <3>3. HlRun(0, hcBsp) \o HlRun(0 + hcBsp, m) = HlRun(0, hcBsp + m)
      <4> HIDE DEF m
      <4> QED BY <3>2, RunJoin, Zenon
    <3> QED BY <2>5, <2>a, <3>1, <3>2, <3>3, Zenon
  <2>12. CASE taken = h
    <3>1. Handling(n, 0)'
      <4>1. hcDone' + 1 = i /\ hcAt'[i] = at /\ hcSize'[i].h = h /\ hcSize'[i].b = b
        BY <1>1, <1>2 DEF at, h, b
      <4>2. hcLen' = b
        BY <2>10, <2>12
      <4>3. hcBsp' \in h..n /\ hcBsp' = h + 0 /\ 0 <= b /\ hcRd' = at + h + 0 + (n - hcBsp')
        BY <1>1, <2>4, <2>5, <2>8, <2>10, <2>12
      <4>4. hcGot' = HlRun(at + h, 0) /\ hcHdr' = HlRun(0, h) /\ hcBuf' = HlRun(at, n)
        BY <1>1, <2>5, <2>11, <2>12, RunNone
      <4>5. hcDone' < HcReqs /\ hcRd' <= Total'
        BY <1>1, <1>2, <2>3, <2>5
      <4> HIDE DEF i
      <4> QED BY <4>1, <4>2, <4>3, <4>4, <4>5, Zenon DEF Handling
    <3>2. hcPc' = "handler"
      BY <2>10, <2>12
    <3> QED BY <3>1, <3>2
  <2>13. CASE taken # h
    <3>1. taken = n /\ taken < h
      BY <2>4, <2>5, <2>8, <2>13, <2>d
    <3>2. hcPc' \in {"loop", "closed"}
      BY <2>10, <2>13
    <3>3. Reading(n)'
      <4>1. hcDone' + 1 = i /\ hcAt'[i] = at /\ hcSize'[i].h = h
        BY <1>1, <1>2 DEF at, h
      <4>2. hcBsp' \in 0..n /\ hcBsp' < h /\ hcHdr' = HlRun(0, hcBsp')
        <5>1. hcBsp' = taken /\ taken \in 0..n
          BY <2>5, <2>8, <2>10
        <5> QED BY <2>11, <3>1, <5>1
      <4>3. hcDone' <= HcReqs /\ hcRd' = at + n /\ hcRd' <= Total' /\ hcBuf' = HlRun(at, n)
        BY <1>1, <1>2, <2>2, <2>3, <2>5
      <4>4. hcGot' = <<>> /\ hcPc' # "parse"
        BY <1>1, <2>5, <3>2
      <4> HIDE DEF i
      <4> QED BY <4>1, <4>2, <4>3, <4>4, Zenon DEF Reading
    <3> QED BY <3>2, <3>3
  <2> QED BY <2>12, <2>13
<1>4. hcRd' \in Nat /\ Sent(hcRd)'
  BY <1>1, SentStays DEF HcInv
<1> QED BY <1>1, <1>2, <1>3, <1>4 DEF HcInv, HibInv

LEMMA HcReadBodyStep ==
    ASSUME HcInv, NEW n \in 0..HcCap, ReadBody(n)
    PROVE  HcInv'
<1>1. /\ hcPc = "handler" /\ hcPc' = hcPc /\ UNCHANGED hcSent /\ hcOdd' = hcOdd
      /\ hcDone' = hcDone /\ hcBuf' = hcBuf /\ hcHdr' = hcHdr /\ hcLen' = hcLen /\ hcHib' = hcHib
      /\ ~hcHib /\ n > 0 /\ Len(hcGot) + n <= hcLen
  BY DEF ReadBody, HcInv, HibInv
<1>2. /\ SentInv' /\ hcSize' = hcSize /\ hcAt' = hcAt /\ Total' = Total
      /\ hcWhole' = hcWhole /\ hcWaits' = hcWaits
  BY <1>1, SentKept DEF HcInv
<1>3. ASSUME Regular PROVE \E m, g \in Nat : Handling(m, g)'
  <2>1. PICK m \in Nat, g \in Nat : Handling(m, g)
    BY <1>1, <1>3 DEF HcInv
  <2>2. /\ hcDone \in Nat /\ HcReqs \in Nat /\ SentInv /\ hcDone < HcReqs /\ n \in Nat
    BY <2>1, HcAssumption DEF HcAssumption, HcInv, Handling
  <2> DEFINE i == hcDone + 1
             at == hcAt[i]
             h == hcSize[i].h
             b == hcSize[i].b
  <2>3. at \in Nat /\ h \in Nat /\ b \in Nat /\ Total \in Nat
    BY <2>2, RequestIs
  <2>4. /\ hcBuf = HlRun(at, m) /\ hcHdr = HlRun(0, h) /\ hcLen = b
        /\ hcBsp \in h..m /\ g <= b /\ hcGot = HlRun(at + h, g)
        /\ hcRd = at + h + g + (m - hcBsp) /\ hcRd <= Total /\ (hcBsp < m => hcBsp = h + g)
    BY <2>1 DEF Handling
  <2>5. hcDone' + 1 = i /\ hcAt'[i] = at /\ hcSize'[i].h = h /\ hcSize'[i].b = b
    BY <1>1, <1>2
  <2> HIDE DEF i, at, h, b
  <2>6. Len(hcBuf) = m /\ Len(hcGot) = g /\ at + h \in Nat /\ hcBsp \in Nat
    BY <2>3, <2>4, RunIs
  <2>7. g + n \in Nat /\ g + n <= b
    BY <1>1, <2>2, <2>4, <2>6
  <2>8. CASE /\ hcBsp < Len(hcBuf) /\ hcBsp + n <= Len(hcBuf)
             /\ hcGot' = hcGot \o SubSeq(hcBuf, hcBsp + 1, hcBsp + n)
             /\ hcBsp' = hcBsp + n /\ UNCHANGED hcRd
    <3>1. hcBsp < m /\ hcBsp + n <= m /\ hcBsp = h + g
      BY <2>4, <2>6, <2>8
    <3>2. Continues(at, m, at + h, g, hcBsp, n)
      BY <2>2, <2>3, <2>6, <3>1 DEF Continues
    <3>3. Continued(at, m, at + h, g, hcBsp, n)
      BY <3>2, RunTake, Zenon
    <3>4. hcGot' = HlRun(at + h, g + n)
      BY <2>4, <2>8, <3>3, Zenon DEF Continued
    <3>5. /\ hcBsp' \in h..m /\ hcRd' = at + h + (g + n) + (m - hcBsp') /\ hcRd' <= Total
          /\ hcBsp' = h + (g + n)
      BY <2>2, <2>3, <2>4, <2>6, <2>8, <3>1
    <3>6. Handling(m, g + n)'
      BY <1>1, <1>2, <2>2, <2>4, <2>5, <2>7, <3>4, <3>5, Zenon DEF Handling
    <3> QED BY <2>7, <3>6
  <2>9. CASE /\ hcBsp = Len(hcBuf) /\ Sent(hcRd + n)
             /\ hcGot' = hcGot \o [k \in 1..n |-> hcRd + k]
             /\ hcRd' = hcRd + n /\ UNCHANGED hcBsp
    <3>1. hcBsp = m /\ hcRd = (at + h) + g
      BY <2>3, <2>4, <2>6, <2>9
    <3>2. [k \in 1..n |-> hcRd + k] = HlRun((at + h) + g, n)
      BY <3>1 DEF HlRun
    <3>3. HlRun(at + h, g) \o HlRun((at + h) + g, n) = HlRun(at + h, g + n)
      <4> DEFINE x == at + h
      <4>1. x \in Nat /\ n \in Nat
        BY <2>2, <2>6
      <4> HIDE DEF x
      <4>2. HlRun(x, g) \o HlRun(x + g, n) = HlRun(x, g + n)
        BY <4>1, RunJoin
      <4> QED BY <4>2 DEF x
    <3>4. hcGot' = HlRun(at + h, g + n)
      BY <2>4, <2>9, <3>2, <3>3, Zenon
    <3>5. /\ hcBsp' \in h..m /\ hcRd' = at + h + (g + n) + (m - hcBsp') /\ hcRd' <= Total
          /\ ~(hcBsp' < m)
      BY <2>2, <2>3, <2>4, <2>6, <2>9, <3>1 DEF Sent
    <3>6. Handling(m, g + n)'
      BY <1>1, <1>2, <2>2, <2>4, <2>5, <2>7, <3>4, <3>5, Zenon DEF Handling
    <3> QED BY <2>7, <3>6
  <2> QED BY <2>8, <2>9 DEF ReadBody
<1>4. hcRd' \in Nat /\ Sent(hcRd)'
  <2>1. hcRd' = hcRd \/ (hcRd' = hcRd + n /\ Sent(hcRd + n))
    <3>1. CASE hcRd' = hcRd
      BY <3>1
    <3>2. CASE hcRd' # hcRd
      BY <3>2 DEF ReadBody
    <3> QED BY <3>1, <3>2
  <2>2. hcRd' \in Nat
    BY <2>1, HcAssumption DEF HcAssumption, HcInv
  <2>3. Sent(hcRd')
    BY <2>1, Zenon DEF HcInv
  <2> QED BY <1>1, <2>2, <2>3, SentStays DEF HcInv
<1> QED BY <1>1, <1>2, <1>3, <1>4 DEF HcInv, HibInv, Regular

(* When the body is read to its end, what is left in buf is the beginning  *)
(* of the next request.                                                    *)
LEMMA KeepAliveStep ==
    ASSUME HcInv, KeepAlive
    PROVE  HcInv'
<1>1. /\ hcPc = "handler" /\ hcPc' = "loop" /\ UNCHANGED hcSent /\ hcOdd' = hcOdd
      /\ hcDone' = hcDone + 1 /\ hcBuf' = SubSeq(hcBuf, hcBsp + 1, Len(hcBuf)) /\ hcHdr' = <<>>
      /\ hcBsp' = 0 /\ hcGot' = <<>> /\ hcRd' = hcRd /\ hcDone \in Nat
      /\ (hcWhole => Len(hcGot) = hcLen)
  BY DEF KeepAlive, Moved, HcInv
<1>2. /\ SentInv' /\ hcSize' = hcSize /\ hcAt' = hcAt /\ Total' = Total
      /\ hcWhole' = hcWhole /\ hcWaits' = hcWaits
  BY <1>1, SentKept DEF HcInv
<1>3. ASSUME Regular PROVE \E m \in Nat : Reading(m)'
  <2>1. PICK m \in Nat, g \in Nat : Handling(m, g)
    BY <1>1, <1>3 DEF HcInv
  <2>2. /\ hcDone \in Nat /\ HcReqs \in Nat /\ SentInv /\ hcDone < HcReqs
    BY <2>1, HcAssumption DEF HcAssumption, HcInv, Handling
  <2> DEFINE i == hcDone + 1
             at == hcAt[i]
             h == hcSize[i].h
             b == hcSize[i].b
             nx == hcAt[i + 1]
  <2>3. /\ at \in Nat /\ h \in Nat /\ b \in Nat /\ Total \in Nat /\ nx = at + h + b
        /\ i \in 1..HcReqs
    BY <2>2, RequestIs
  <2>4. /\ hcBuf = HlRun(at, m) /\ hcLen = b
        /\ hcBsp \in h..m /\ hcGot = HlRun(at + h, g)
        /\ hcRd = at + h + g + (m - hcBsp) /\ hcRd <= Total /\ (hcBsp < m => hcBsp = h + g)
    BY <2>1 DEF Handling
  <2>5. hcDone' + 1 = i + 1 /\ hcAt'[i + 1] = nx /\ hcDone' <= HcReqs
    BY <1>1, <1>2, <2>2, <2>3
  <2>6. hcDone' < HcReqs => 0 < hcSize'[i + 1].h
    <3>1. hcDone' \in Nat /\ SentInv
      BY <1>1, <2>2
    <3>2. hcDone' < HcReqs => i + 1 \in 1..HcReqs
      BY <1>1, <2>2
    <3>3. \A k \in 1..HcReqs : hcSize[k].h > 0
      BY <2>2 DEF SentInv
    <3> QED BY <1>2, <3>2, <3>3
  <2> HIDE DEF i, at, h, b, nx
  <2>7. Len(hcBuf) = m /\ Len(hcGot) = g /\ hcBsp \in Nat
    <3>1. at + h \in Nat
      BY <2>3
    <3>2. Len(HlRun(at, m)) = m /\ Len(HlRun(at + h, g)) = g
      BY <2>3, <3>1, RunIs, Zenon
    <3> QED BY <2>3, <2>4, <3>2
  <2>8. g = b
    BY <1>1, <1>3, <2>4, <2>7 DEF Regular
  <2>l. PICK l \in Nat : l = m - hcBsp
    BY <2>4, <2>7
  <2>9. l \in Nat /\ hcBsp \in 0..m /\ m \in hcBsp..m /\ hcRd = nx + l
    BY <2>3, <2>4, <2>7, <2>8, <2>l
  <2>10. hcBuf' = HlRun(nx, l)
    <3>1. SubSeq(HlRun(at, m), hcBsp + 1, m) = HlRun(at + hcBsp, m - hcBsp)
      BY <2>3, <2>9, RunPart
    <3>2. hcBuf' = HlRun(at + hcBsp, l)
      BY <1>1, <2>4, <2>7, <2>l, <3>1, Zenon
    <3>3. CASE hcBsp < m
      <4>1. at + hcBsp = nx
        BY <2>3, <2>4, <2>7, <2>8, <3>3
      <4> QED BY <3>2, <4>1
    <3>4. CASE ~(hcBsp < m)
      <4>1. l = 0
        BY <2>4, <2>7, <2>l, <3>4
      <4> QED BY <3>2, <4>1, RunNone
    <3> QED BY <3>3, <3>4
  <2>11. Reading(l)'
    <3>1. hcBsp' \in 0..l /\ hcHdr' = HlRun(0, hcBsp') /\ hcRd' = nx + l /\ hcRd' <= Total'
      BY <1>1, <1>2, <2>4, <2>9, RunNone
    <3>2. hcDone' < HcReqs => hcBsp' < hcSize'[i + 1].h
      BY <1>1, <2>6
    <3>3. hcPc' # "parse" /\ hcGot' = <<>>
      BY <1>1
    <3>4. hcBuf' = HlRun(hcAt'[hcDone' + 1], l)
      BY <2>5, <2>10
    <3>5. hcRd' = hcAt'[hcDone' + 1] + l
      BY <2>5, <3>1
    <3>6. hcDone' < HcReqs => hcBsp' < hcSize'[hcDone' + 1].h
      BY <2>5, <3>2
    <3> QED BY <2>5, <3>1, <3>3, <3>4, <3>5, <3>6 DEF Reading
  <2> QED BY <2>9, <2>11, Zenon
<1>4. hcRd' \in Nat /\ Sent(hcRd)'
  BY <1>1, SentStays DEF HcInv
<1> QED BY <1>1, <1>2, <1>3, <1>4 DEF HcInv, HibInv, Regular

(* The connection starts or ends.                                          *)
LEMMA HcEndsStep ==
    ASSUME HcInv, HcStart \/ CloseHttp \/ UNCHANGED hcVars
    PROVE  HcInv'
<1>1. /\ UNCHANGED <<hcSent, hcRd, hcBuf, hcBsp, hcHdr, hcGot, hcDone, hcLen, hcHib, hcOdd>>
      /\ \/ hcPc = "new" /\ hcPc' = "loop"
         \/ hcPc' = "closed" /\ hcPc \in {"loop", "handler"}
         \/ hcPc' = hcPc
  <2>1. CASE HcStart
    BY <2>1 DEF HcStart
  <2>2. CASE CloseHttp
    BY <2>2 DEF CloseHttp
  <2>3. CASE UNCHANGED hcVars
    <3>1. /\ hcSent' = hcSent /\ hcOdd' = hcOdd /\ hcRd' = hcRd /\ hcBuf' = hcBuf
          /\ hcBsp' = hcBsp /\ hcHdr' = hcHdr /\ hcGot' = hcGot /\ hcDone' = hcDone
          /\ hcLen' = hcLen /\ hcHib' = hcHib /\ hcPc' = hcPc
      BY <2>3, Zenon DEF hcVars
    <3> QED BY <3>1, Zenon
  <2> QED BY <2>1, <2>2, <2>3
<1>2. /\ SentInv' /\ hcSize' = hcSize /\ hcAt' = hcAt /\ Total' = Total
      /\ hcWhole' = hcWhole /\ hcWaits' = hcWaits
  BY <1>1, SentKept DEF HcInv
<1>3. HibInv'
  BY <1>1 DEF HcInv, HibInv
<1>4. ASSUME NEW n \in Nat, Reading(n), hcPc \in {"new", "loop"} \/ hcPc' = hcPc, hcPc' # "closed"
      PROVE  Reading(n)'
  BY <1>1, <1>2, <1>4 DEF Reading
<1>5. ASSUME NEW n \in Nat, NEW g \in Nat, Handling(n, g) PROVE Handling(n, g)'
  BY <1>1, <1>2, <1>5 DEF Handling
<1>6. hcRd' \in Nat /\ Sent(hcRd)'
  BY <1>1, SentStays DEF HcInv
<1> QED BY <1>1, <1>2, <1>3, <1>4, <1>5, <1>6 DEF HcInv, Regular

LEMMA HcNextInv == HcInv /\ [HcNext]_hcVars => HcInv'
<1> SUFFICES ASSUME HcInv, [HcNext]_hcVars PROVE HcInv'
  OBVIOUS
<1>1. CASE \E n \in 0..HcCap : ReadMore(n)
  BY <1>1, HcReadStep
<1>2. CASE \E n \in 0..HcCap : ReadBody(n)
  BY <1>2, HcReadBodyStep
<1>3. CASE Parse
  BY <1>3, HcParseStep
<1>4. CASE KeepAlive
  BY <1>4, KeepAliveStep
<1>5. CASE HcStart \/ CloseHttp \/ UNCHANGED hcVars
  BY <1>5, HcEndsStep
<1> QED BY <1>1, <1>2, <1>3, <1>4, <1>5 DEF HcNext

(* For any sizes of buf, headers and bodies: where in the client's bytes   *)
(* the server is.                                                          *)
THEOREM HttpServerInvariance == HcSpec => []HcInv
  BY HcInitInv, HcNextInv, PTL DEF HcSpec

(* What the handler is given.                                              *)
LEMMA HcSound == HcInv => RequestsAsSent
<1> SUFFICES ASSUME HcInv, Regular PROVE AsSent
  BY DEF RequestsAsSent, Regular
<1>1. ASSUME hcPc = "handler"
      PROVE  /\ hcDone < HcReqs
             /\ [k \in 1..Len(hcHdr) |-> hcBuf[hcHdr[k]]] = HeadOf(hcDone + 1)
             /\ hcGot = SubSeq(BodyOf(hcDone + 1), 1, Len(hcGot))
  <2>1. PICK m \in Nat, g \in Nat : Handling(m, g)
    BY <1>1 DEF HcInv
  <2>2. hcDone \in Nat /\ SentInv /\ hcDone < HcReqs
    BY <2>1 DEF HcInv, Handling
  <2> DEFINE i == hcDone + 1
             at == hcAt[i]
             h == hcSize[i].h
             b == hcSize[i].b
  <2>3. at \in Nat /\ h \in Nat /\ b \in Nat
    BY <2>2, RequestIs
  <2>4. /\ hcBuf = HlRun(at, m) /\ hcHdr = HlRun(0, h)
        /\ hcBsp \in h..m /\ g <= b /\ hcGot = HlRun(at + h, g)
    BY <2>1 DEF Handling
  <2>5. HeadOf(i) = HlRun(at, h) /\ BodyOf(i) = HlRun(at + h, b)
    BY DEF HeadOf, BodyOf, HlRun
  <2> HIDE DEF i, at, h, b
  <2>6. at + h \in Nat /\ h <= m /\ 0 \in Nat
    BY <2>3, <2>4
  <2>7. [k \in 1..Len(hcHdr) |-> hcBuf[hcHdr[k]]] = HlRun(at, h)
    <3>1. Len(hcHdr) = h /\ \A k \in 1..h : hcHdr[k] = 0 + k
      BY <2>3, <2>4, <2>6, RunIs
    <3>2. \A k \in 1..m : hcBuf[k] = at + k
      BY <2>3, <2>4, RunIs
    <3>3. \A k \in 1..h : hcBuf[hcHdr[k]] = at + k
      BY <2>3, <2>6, <3>1, <3>2
    <3> QED BY <3>1, <3>3 DEF HlRun
  <2>8. hcGot = SubSeq(HlRun(at + h, b), 1, Len(hcGot))
    <3>1. Len(hcGot) = g
      BY <2>4, <2>6, RunIs
    <3>2. 0 \in 0..b /\ g \in 0..b
      BY <2>3, <2>4
    <3>3. SubSeq(HlRun(at + h, b), 0 + 1, g) = HlRun((at + h) + 0, g - 0)
      BY <2>3, <2>6, <3>2, RunPart
    <3>4. (at + h) + 0 = at + h /\ g - 0 = g /\ 0 + 1 = 1
      BY <2>6
    <3> QED BY <2>4, <3>1, <3>3, <3>4
  <2> QED BY <2>2, <2>5, <2>7, <2>8 DEF i
<1> QED BY <1>1 DEF HcInv, HibInv, AsSent

(* For any sizes of buf, headers and bodies, and however the bytes arrive: *)
(* the handlers of a connection of http_server, as long as they read their *)
(* bodies, no body begins like a request, and the client waits for the     *)
(* answer to a request without a body, are given the requests as sent.     *)
THEOREM RequestsReceived == HcSpec => []RequestsAsSent
  BY HttpServerInvariance, HcSound, PTL

-----------------------------------------------------------------------------
(* request_dispatcher: the text of a path.                                 *)

TextStep(segs, f, k) == f[k] = f[k - 1] \o <<Slash>> \o segs[k]

LEMMA TextExists ==
    ASSUME NEW segs \in Seq(Seq(Nat))
    PROVE  \E f \in [0..Len(segs) -> Seq(Nat)] :
             f[0] = <<>> /\ \A k \in 1..Len(segs) : TextStep(segs, f, k)
<1> DEFINE Ok(m) == \E f \in [0..m -> Seq(Nat)] :
                      f[0] = <<>> /\ \A k \in 1..m : TextStep(segs, f, k)
           S == {m \in 0..Len(segs) : ~Ok(m)}
<1>0. Len(segs) \in Nat
  OBVIOUS
<1>1. SUFFICES ASSUME S # {} PROVE FALSE
  <2>1. Len(segs) \in 0..Len(segs)
    BY <1>0
  <2> QED BY <2>1, Zenon
<1>2. PICK m \in S : \A l \in S : m <= l
  <2>1. S \in SUBSET Nat
    BY <1>0
  <2> HIDE DEF S
  <2> QED BY <1>1, <2>1, LeastIn
<1>3. m \in 0..Len(segs) /\ ~Ok(m)
  BY <1>2
<1>4. m # 0
  <2> DEFINE f == [n \in 0..0 |-> <<>>]
  <2>1. f \in [0..0 -> Seq(Nat)] /\ f[0] = <<>> /\ \A k \in 1..0 : TextStep(segs, f, k)
    OBVIOUS
  <2>2. Ok(0)
    <3> HIDE DEF f
    <3> QED BY <2>1
  <2> HIDE DEF Ok
  <2> QED BY <1>3, <2>2
<1>5. m - 1 \in 0..Len(segs) /\ m - 1 < m /\ m \in 1..Len(segs)
  BY <1>0, <1>3, <1>4
<1>6. Ok(m - 1)
  <2>1. m - 1 \notin S
    <3> HIDE DEF S
    <3> QED BY <1>2, <1>3, <1>5
  <2> HIDE DEF Ok
  <2> QED BY <1>5, <2>1
<1>7. PICK f \in [0..(m - 1) -> Seq(Nat)] : f[0] = <<>> /\ \A k \in 1..(m - 1) : TextStep(segs, f, k)
  BY <1>6
<1> DEFINE g == [n \in 0..m |-> IF n = m THEN f[m - 1] \o <<Slash>> \o segs[m] ELSE f[n]]
<1>8. g \in [0..m -> Seq(Nat)]
  <2>1. f[m - 1] \in Seq(Nat) /\ segs[m] \in Seq(Nat) /\ <<Slash>> \in Seq(Nat)
    BY <1>5, <1>7 DEF Slash
  <2>2. f[m - 1] \o <<Slash>> \o segs[m] \in Seq(Nat)
    BY <2>1, ConcatProperties
  <2>3. \A n \in 0..m : n # m => n \in 0..(m - 1)
    BY <1>5
  <2> QED BY <1>5, <1>7, <2>2, <2>3
<1>9. g[0] = <<>>
  BY <1>4, <1>5, <1>7
<1>10. ASSUME NEW k \in 1..m PROVE TextStep(segs, g, k)
  <2>1. g[k - 1] = f[k - 1]
    BY <1>5
  <2>2. CASE k = m
    <3>1. g[m] = f[m - 1] \o <<Slash>> \o segs[m]
      <4>1. m \in 0..m
        BY <1>5, SMTT(30)
      <4> QED BY <4>1, Zenon
    <3> HIDE DEF g
    <3> QED BY <2>1, <2>2, <3>1, Zenon DEF TextStep
  <2>3. CASE k # m
    <3>1. k \in 1..(m - 1) /\ g[k] = f[k]
      BY <1>5, <2>3
    <3> QED BY <1>7, <2>1, <3>1 DEF TextStep
  <2> QED BY <2>2, <2>3
<1>11. Ok(m)
  <2> HIDE DEF g
  <2> QED BY <1>8, <1>9, <1>10
<1> HIDE DEF Ok
<1> QED BY <1>3, <1>11

(* What the recursive function of TextUpTo is.                             *)
LEMMA TextIs ==
    ASSUME NEW segs \in Seq(Seq(Nat))
    PROVE  /\ TextUpTo(segs) \in [0..Len(segs) -> Seq(Nat)] /\ TextUpTo(segs)[0] = <<>>
           /\ \A k \in 1..Len(segs) : TextStep(segs, TextUpTo(segs), k)
<1> DEFINE Body(f) == [n \in 0..Len(segs) |->
                         IF n = 0 THEN <<>> ELSE f[n - 1] \o <<Slash>> \o segs[n]]
           T == TextUpTo(segs)
<1>0. Len(segs) \in Nat
  OBVIOUS
<1>1. \E f : f = Body(f)
  <2>1. PICK f \in [0..Len(segs) -> Seq(Nat)] :
               f[0] = <<>> /\ \A k \in 1..Len(segs) : TextStep(segs, f, k)
    BY TextExists
  <2>2. ASSUME NEW n \in 0..Len(segs) PROVE f[n] = Body(f)[n]
    <3>1. CASE n = 0
      BY <2>1, <3>1
    <3>2. CASE n # 0
      <4>1. n \in 1..Len(segs)
        BY <3>2
      <4> QED BY <2>1, <3>2, <4>1 DEF TextStep
    <3> QED BY <3>1, <3>2
  <2>3. f = Body(f)
    BY <2>1, <2>2
  <2> QED BY <2>3
<1>2. T = Body(T)
  <2>1. T = CHOOSE f : f = Body(f)
    BY Zenon DEF TextUpTo
  <2> HIDE DEF T, Body
  <2> QED BY <1>1, <2>1
<1> HIDE DEF T
<1>3. DOMAIN T = 0..Len(segs) /\ T[0] = <<>>
  BY <1>0, <1>2
<1>4. ASSUME NEW k \in 1..Len(segs) PROVE TextStep(segs, T, k)
  <2>1. k \in 0..Len(segs) /\ k # 0
    BY <1>0
  <2>2. Body(T)[k] = T[k - 1] \o <<Slash>> \o segs[k]
    BY <2>1
  <2> HIDE DEF Body
  <2> QED BY <1>2, <2>2, Zenon DEF TextStep
<1>5. \A k \in 0..Len(segs) : T[k] \in Seq(Nat)
  <2> DEFINE S == {k \in 0..Len(segs) : T[k] \notin Seq(Nat)}
  <2>1. SUFFICES ASSUME S # {} PROVE FALSE
    OBVIOUS
  <2>2. PICK k \in S : \A l \in S : k <= l
    <3>1. S \in SUBSET Nat
      BY <1>0
    <3> HIDE DEF S
    <3> QED BY <2>1, <3>1, LeastIn
  <2>3. k # 0
    <3>1. <<>> \in Seq(Nat)
      OBVIOUS
    <3> QED BY <1>3, <2>2, <3>1
  <2>4. k - 1 \in 0..Len(segs) /\ k - 1 < k /\ k \in 1..Len(segs)
    BY <1>0, <2>2, <2>3
  <2>5. T[k - 1] \in Seq(Nat)
    BY <2>2, <2>4
  <2>6. segs[k] \in Seq(Nat) /\ <<Slash>> \in Seq(Nat)
    BY <2>4 DEF Slash
  <2>7. T[k] \in Seq(Nat)
    <3>1. T[k - 1] \o <<Slash>> \in Seq(Nat)
      BY <2>5, <2>6, ConcatProperties
    <3>2. T[k - 1] \o <<Slash>> \o segs[k] \in Seq(Nat)
      BY <2>6, <3>1, ConcatProperties
    <3> QED BY <1>4, <2>4, <3>2 DEF TextStep
  <2> QED BY <2>2, <2>7
<1>6. T \in [0..Len(segs) -> Seq(Nat)]
  <2>1. T = [n \in 0..Len(segs) |-> T[n]]
    BY <1>2, <1>3
  <2> QED BY <1>5, <2>1
<1> QED BY <1>3, <1>4, <1>6 DEF T

(* Paths that begin with the same segments begin with the same text.       *)
LEMMA TextAgrees ==
    ASSUME NEW s \in Seq(Seq(Nat)), NEW t \in Seq(Seq(Nat)), NEW n \in Nat,
           n <= Len(s), n <= Len(t), \A i \in 1..n : s[i] = t[i]
    PROVE  TextUpTo(s)[n] = TextUpTo(t)[n]
<1> DEFINE U == TextUpTo(s)
           V == TextUpTo(t)
           S == {k \in 0..n : U[k] # V[k]}
<1>1. /\ U[0] = <<>> /\ \A k \in 1..Len(s) : TextStep(s, U, k)
      /\ V[0] = <<>> /\ \A k \in 1..Len(t) : TextStep(t, V, k)
  BY TextIs
<1> HIDE DEF U, V
<1>2. SUFFICES ASSUME S # {} PROVE FALSE
  BY DEF U, V
<1>3. PICK k \in S : \A l \in S : k <= l
  <2>1. S \in SUBSET Nat
    OBVIOUS
  <2> HIDE DEF S
  <2> QED BY <1>2, <2>1, LeastIn
<1>4. k # 0
  BY <1>1, <1>3
<1>5. k - 1 \in 0..n /\ k - 1 < k /\ k \in 1..n /\ k \in 1..Len(s) /\ k \in 1..Len(t)
  BY <1>3, <1>4, SMTT(30)
<1>6. U[k - 1] = V[k - 1]
  BY <1>3, <1>5
<1>7. U[k] = V[k]
  BY <1>1, <1>5, <1>6 DEF TextStep
<1> QED BY <1>3, <1>7

(* s is the beginning of t.                                                *)
Begins(s, t) == Len(s) <= Len(t) /\ \A k \in 1..Len(s) : s[k] = t[k]

LEMMA PrefixBegins ==
    ASSUME NEW s \in Seq(Nat), NEW t \in Seq(Nat)
    PROVE  IsPrefix(s, t) <=> Begins(s, t)
<1>1. ASSUME Len(s) <= Len(t)
      PROVE  SubSeq(s, 1, Len(s)) = SubSeq(t, 1, Len(s)) <=> \A k \in 1..Len(s) : s[k] = t[k]
  <2>1. /\ SubSeq(s, 1, Len(s)) \in Seq(Nat) /\ Len(SubSeq(s, 1, Len(s))) = Len(s)
        /\ \A k \in 1..Len(s) : SubSeq(s, 1, Len(s))[k] = s[k]
    OBVIOUS
  <2>2. /\ SubSeq(t, 1, Len(s)) \in Seq(Nat) /\ Len(SubSeq(t, 1, Len(s))) = Len(s)
        /\ \A k \in 1..Len(s) : SubSeq(t, 1, Len(s))[k] = t[k]
    BY <1>1
  <2> DEFINE u == SubSeq(s, 1, Len(s))
             v == SubSeq(t, 1, Len(s))
  <2> HIDE DEF u, v
  <2>3. (\A k \in 1..Len(s) : s[k] = t[k]) => u = v
    BY <2>1, <2>2, SeqEqual DEF u, v
  <2>4. u = v => \A k \in 1..Len(s) : s[k] = t[k]
    BY <2>1, <2>2 DEF u, v
  <2> QED BY <2>3, <2>4 DEF u, v
<1>2. IsPrefix(s, t) <=> Len(s) <= Len(t) /\ SubSeq(s, 1, Len(s)) = SubSeq(t, 1, Len(s))
  BY DEF IsPrefix
<1> QED BY <1>1, <1>2 DEF Begins

LEMMA ConcatBegins ==
    ASSUME NEW s \in Seq(Nat), NEW t \in Seq(Nat)
    PROVE  s \o t \in Seq(Nat) /\ Begins(s, s \o t)
  BY ConcatProperties DEF Begins

LEMMA BeginsTrans ==
    ASSUME NEW s \in Seq(Nat), NEW t \in Seq(Nat), NEW u \in Seq(Nat), Begins(s, t), Begins(t, u)
    PROVE  Begins(s, u)
<1>1. Len(s) \in Nat /\ Len(t) \in Nat /\ Len(u) \in Nat /\ Len(s) <= Len(t) /\ Len(t) <= Len(u)
  BY DEF Begins
<1>2. ASSUME NEW k \in 1..Len(s) PROVE s[k] = u[k]
  <2>1. k \in 1..Len(t)
    BY <1>1
  <2> QED BY <2>1 DEF Begins
<1> QED BY <1>1, <1>2 DEF Begins

(* A path begins with the text of its first segments and a slash.          *)
LEMMA TextGrows ==
    ASSUME NEW s \in Seq(Seq(Nat)), NEW n \in Nat, n < Len(s)
    PROVE  /\ TextUpTo(s)[n] \o <<Slash>> \in Seq(Nat)
           /\ Begins(TextUpTo(s)[n] \o <<Slash>>, Text(s))
<1> DEFINE T == TextUpTo(s)
           p == T[n] \o <<Slash>>
           S == {m \in (n + 1)..Len(s) : ~Begins(p, T[m])}
<1>0. Len(s) \in Nat /\ <<Slash>> \in Seq(Nat)
  BY DEF Slash
<1>1. T \in [0..Len(s) -> Seq(Nat)] /\ \A k \in 1..Len(s) : TextStep(s, T, k)
  BY TextIs
<1> HIDE DEF T
<1>2. T[n] \in Seq(Nat) /\ p \in Seq(Nat)
  <2>0. n \in 0..Len(s)
    BY <1>0
  <2>1. T[n] \in Seq(Nat)
    BY <1>1, <2>0, Zenon
  <2> QED BY <1>0, <2>1, ConcatBegins
<1>3. ASSUME NEW m \in (n + 1)..Len(s)
      PROVE  /\ m - 1 \in 0..Len(s) /\ T[m - 1] \in Seq(Nat) /\ T[m] \in Seq(Nat)
             /\ Begins(T[m - 1] \o <<Slash>>, T[m]) /\ Begins(T[m - 1], T[m])
  <2>1. m - 1 \in 0..Len(s) /\ m \in 0..Len(s) /\ m \in 1..Len(s)
    BY <1>0
  <2>2. T[m - 1] \in Seq(Nat) /\ T[m] \in Seq(Nat) /\ s[m] \in Seq(Nat)
    <3>1. T[m - 1] \in Seq(Nat) /\ T[m] \in Seq(Nat)
      BY <1>1, <2>1, Zenon
    <3>2. s[m] \in Seq(Nat)
      BY <2>1
    <3> QED BY <3>1, <3>2
  <2> DEFINE v == T[m - 1] \o <<Slash>>
  <2>3. v \in Seq(Nat) /\ Begins(T[m - 1], v)
    BY <1>0, <2>2, ConcatBegins
  <2>4. T[m] = v \o s[m]
    BY <1>1, <2>1 DEF TextStep
  <2> HIDE DEF v
  <2>5. Begins(v, T[m])
    BY <2>2, <2>3, <2>4, ConcatBegins
  <2>6. Begins(T[m - 1], T[m])
    BY <2>2, <2>3, <2>5, BeginsTrans
  <2> QED BY <2>1, <2>2, <2>5, <2>6 DEF v
<1> HIDE DEF p
<1>4. S = {}
  <2>1. SUFFICES ASSUME S # {} PROVE FALSE
    OBVIOUS
  <2>2. PICK m \in S : \A l \in S : m <= l
    <3>1. S \in SUBSET Nat
      BY <1>0
    <3> HIDE DEF S
    <3> QED BY <2>1, <3>1, LeastIn
  <2>3. m \in (n + 1)..Len(s) /\ ~Begins(p, T[m])
    BY <2>2
  <2>4. CASE m = n + 1
    <3>1. T[m - 1] \o <<Slash>> = p
      BY <2>4 DEF p
    <3> QED BY <1>3, <2>3, <3>1
  <2>5. CASE m # n + 1
    <3>1. m - 1 \in (n + 1)..Len(s) /\ m - 1 < m /\ m \in Nat
      BY <1>0, <2>3, <2>5
    <3>2. m - 1 \notin S
      <4> HIDE DEF S
      <4> QED BY <2>2, <3>1
    <3>3. Begins(p, T[m - 1])
      BY <3>1, <3>2
    <3> QED BY <1>2, <1>3, <2>3, <3>3, BeginsTrans
  <2> QED BY <2>4, <2>5
<1>5. Len(s) \in (n + 1)..Len(s)
  BY <1>0
<1> QED BY <1>2, <1>4, <1>5 DEF Text, T, p

(* The least number of a set.                                              *)
LEMMA MinLeast ==
    ASSUME NEW S \in SUBSET Nat, S # {}
    PROVE  Min(S) \in S /\ \A x \in S : Min(S) <= x
<1>1. \E x \in S : \A y \in S : x <= y
  BY LeastIn
<1> QED BY <1>1 DEF Min

(* The text of a path is a string.                                         *)
LEMMA TextType ==
    ASSUME NEW segs \in Seq(Seq(Nat))
    PROVE  Text(segs) \in Seq(Nat)
<1>1. Len(segs) \in 0..Len(segs)
  OBVIOUS
<1>2. TextUpTo(segs) \in [0..Len(segs) -> Seq(Nat)]
  BY TextIs, Zenon
<1>3. TextUpTo(segs)[Len(segs)] \in Seq(Nat)
  <2> DEFINE T == TextUpTo(segs)
             n == Len(segs)
  <2> HIDE DEF T, n
  <2>1. T \in [0..n -> Seq(Nat)] /\ n \in 0..n
    BY <1>1, <1>2 DEF T, n
  <2>2. T[n] \in Seq(Nat)
    BY <2>1, Zenon
  <2> QED BY <2>2 DEF T, n
<1> QED BY <1>3, Zenon DEF Text

(* The key of a route, and that the text of a path that matches begins     *)
(* with it.                                                                *)
LEMMA KeyIs ==
    ASSUME NEW spec \in Seq(Seq(Nat))
    PROVE  NonVar(spec) \in Seq(Nat)
<1>0. Len(spec) \in Nat
  OBVIOUS
<1>1. CASE Vars(spec) = {}
  <2>1. Text(spec) \in Seq(Nat)
    BY TextType, Zenon
  <2> QED BY <1>1, <2>1 DEF NonVar
<1>2. CASE Vars(spec) # {}
  <2>1. Min(Vars(spec)) \in 1..Len(spec)
    <3>1. Vars(spec) \in SUBSET Nat /\ Vars(spec) \subseteq 1..Len(spec)
      BY <1>0 DEF Vars
    <3> QED BY <1>2, <3>1, MinLeast
  <2>2. Min(Vars(spec)) - 1 \in Nat /\ Min(Vars(spec)) - 1 < Len(spec)
    BY <1>0, <2>1
  <2> QED BY <1>2, <2>2, TextGrows DEF NonVar
<1> QED BY <1>1, <1>2

LEMMA KeyBegins ==
    ASSUME NEW spec \in Seq(Seq(Nat)), NEW path \in Seq(Seq(Nat)), PathMatches(spec, path)
    PROVE  Begins(NonVar(spec), Text(path))
<1>0. Len(spec) \in Nat /\ Len(spec) = Len(path)
  BY DEF PathMatches
<1>1. \A i \in 1..Len(spec) : i \notin Vars(spec) => spec[i] = path[i]
  BY DEF PathMatches, Vars
<1>2. CASE Vars(spec) = {}
  <2>1. Text(spec) = Text(path)
    <3>1. \A i \in 1..Len(spec) : spec[i] = path[i]
      BY <1>1, <1>2
    <3>2. Len(spec) <= Len(spec) /\ Len(spec) <= Len(path)
      BY <1>0
    <3>3. TextUpTo(spec)[Len(spec)] = TextUpTo(path)[Len(spec)]
      BY <1>0, <3>1, <3>2, TextAgrees, Zenon
    <3>4. Text(spec) = TextUpTo(spec)[Len(spec)] /\ Text(path) = TextUpTo(path)[Len(path)]
      BY Zenon DEF Text
    <3> QED BY <1>0, <3>3, <3>4, Zenon
  <2>2. Text(spec) \in Seq(Nat)
    BY TextType, Zenon
  <2>3. NonVar(spec) = Text(path) /\ Text(path) \in Seq(Nat)
    BY <1>2, <2>1, <2>2 DEF NonVar
  <2> QED BY <2>3 DEF Begins
<1>3. CASE Vars(spec) # {}
  <2> DEFINE m == Min(Vars(spec))
             n == m - 1
  <2>1. Vars(spec) \in SUBSET Nat /\ Vars(spec) \subseteq 1..Len(spec)
    BY <1>0 DEF Vars
  <2>2. m \in 1..Len(spec) /\ \A x \in Vars(spec) : m <= x
    BY <1>3, <2>1, MinLeast
  <2>3. n \in Nat /\ n < Len(spec) /\ n < Len(path)
    BY <1>0, <2>2
  <2>4. NonVar(spec) = TextUpTo(spec)[n] \o <<Slash>>
    BY <1>3 DEF NonVar
  <2> HIDE DEF m
  <2>5. \A i \in 1..n : spec[i] = path[i]
    <3>1. \A i \in 1..n : i \in 1..Len(spec) /\ ~(m <= i)
      BY <1>0, <2>2, <2>3
    <3> QED BY <1>1, <2>2, <3>1
  <2> HIDE DEF n
  <2>6. TextUpTo(spec)[n] = TextUpTo(path)[n]
    <3>1. n <= Len(spec) /\ n <= Len(path)
      BY <1>0, <2>3
    <3> QED BY <2>3, <2>5, <3>1, TextAgrees, Zenon
  <2>7. Begins(TextUpTo(path)[n] \o <<Slash>>, Text(path))
    BY <2>3, TextGrows
  <2> QED BY <2>4, <2>6, <2>7
<1> QED BY <1>2, <1>3

(* Between what a text begins with and the text there are only texts with  *)
(* that beginning.                                                         *)
LEMMA Between ==
    ASSUME NEW p \in Seq(Nat), NEW k \in Seq(Nat), NEW t \in Seq(Nat),
           Begins(p, t), ~Before(t, k), ~Before(k, p)
    PROVE  Begins(p, k)
<1> DEFINE S == {i \in 1..Len(p) : i > Len(k) \/ k[i] # p[i]}
<1>0. Len(p) \in Nat /\ Len(k) \in Nat /\ Len(t) \in Nat /\ Len(p) <= Len(t)
  BY DEF Begins
<1>1. CASE S = {}
  <2>1. \A i \in 1..Len(p) : ~(i > Len(k)) /\ k[i] = p[i]
    BY <1>1
  <2>2. Len(p) <= Len(k)
    <3>1. CASE Len(p) = 0
      BY <1>0, <3>1
    <3>2. CASE Len(p) # 0
      <4>1. Len(p) \in 1..Len(p)
        BY <1>0, <3>2
      <4> QED BY <1>0, <2>1, <4>1, SMTT(30)
    <3> QED BY <3>1, <3>2
  <2> QED BY <2>1, <2>2 DEF Begins
<1>2. CASE S # {}
  <2>1. PICK i \in S : \A j \in S : i <= j
    <3>1. S \in SUBSET Nat
      BY <1>0
    <3> HIDE DEF S
    <3> QED BY <1>2, <3>1, LeastIn
  <2>2. i \in 1..Len(p) /\ (i > Len(k) \/ k[i] # p[i])
    BY <2>1
  <2>3. ASSUME NEW j \in 1..(i - 1) PROVE j <= Len(k) /\ k[j] = p[j] /\ p[j] = t[j]
    <3>1. j \in 1..Len(p) /\ ~(i <= j)
      BY <1>0, <2>2
    <3>2. j \notin S
      <4> HIDE DEF S
      <4> QED BY <2>1, <3>1
    <3>3. p[j] = t[j]
      BY <3>1 DEF Begins
    <3> QED BY <1>0, <3>1, <3>2, <3>3
  <2>4. CASE i > Len(k)
    <3>1. Len(k) = i - 1
      <4>1. CASE i = 1
        BY <1>0, <2>4, <4>1
      <4>2. CASE i # 1
        <5>1. i - 1 \in 1..(i - 1)
          BY <2>2, <4>2
        <5>2. i - 1 <= Len(k)
          BY <2>3, <5>1
        <5> QED BY <1>0, <2>2, <2>4, <5>2
      <4> QED BY <4>1, <4>2
    <3>2. Begins(k, p) /\ k # p
      BY <1>0, <2>2, <2>3, <3>1 DEF Begins
    <3>3. IsPrefix(k, p)
      BY <3>2, PrefixBegins
    <3> QED BY <3>2, <3>3 DEF Before
  <2>5. CASE ~(i > Len(k))
    <3>1. i \in 1..Len(k) /\ i \in 1..Len(t) /\ i <= Len(p) /\ i <= Len(k)
      BY <1>0, <2>2, <2>5, SMTT(30)
    <3>2. k[i] # p[i] /\ p[i] = t[i] /\ k[i] \in Nat /\ p[i] \in Nat /\ t[i] \in Nat
      BY <2>2, <2>5, <3>1, SMTT(30) DEF Begins
    <3>3. CASE k[i] < p[i]
      <4>1. \A j \in 1..(i - 1) : k[j] = p[j]
        BY <2>3
      <4> QED BY <3>1, <3>3, <4>1 DEF Before
    <3>4. CASE t[i] < k[i]
      <4>1. \A j \in 1..(i - 1) : t[j] = k[j]
        BY <2>3
      <4> QED BY <3>1, <3>4, <4>1 DEF Before
    <3> QED BY <3>2, <3>3, <3>4
  <2> QED BY <2>4, <2>5
<1> QED BY <1>1, <1>2

LEMMA AfterBeginning ==
    ASSUME NEW p \in Seq(Nat), NEW k \in Seq(Nat), NEW t \in Seq(Nat),
           Begins(p, t), ~Before(t, k), Before(p, k)
    PROVE  p # k /\ IsPrefix(p, k)
<1>0. Len(p) \in Nat /\ Len(k) \in Nat /\ Len(t) \in Nat /\ Len(p) <= Len(t)
  BY DEF Begins
<1>1. ASSUME NEW i \in 1..Len(p), i <= Len(k), p[i] < k[i], \A j \in 1..(i - 1) : p[j] = k[j]
      PROVE  FALSE
  <2>1. i \in 1..Len(t) /\ \A j \in 1..(i - 1) : j \in 1..Len(p)
    BY <1>0
  <2>2. t[i] = p[i] /\ \A j \in 1..(i - 1) : t[j] = p[j]
    BY <2>1 DEF Begins
  <2>3. t[i] < k[i] /\ \A j \in 1..(i - 1) : t[j] = k[j]
    BY <1>1, <2>2
  <2>4. Before(t, k)
    BY <1>1, <2>1, <2>3 DEF Before
  <2> QED BY <2>4
<1> QED BY <1>1 DEF Before

-----------------------------------------------------------------------------
(* request_dispatcher: dispatch.                                           *)

(* Routes are only added.                                                  *)
RdInv == rdMap \in Seq(RdRoutes)

LEMMA RdInitInv == RdInit => RdInv
  BY DEF RdInit, RdInv

LEMMA RdNextInv == RdInv /\ [RdNext]_rdVars => RdInv'
  BY DEF RdInv, RdNext, RequestMapping, rdVars

(* The parts of Route.                                                     *)
RouteKeys(req) == KeysUpTo(Keys(req.method), Text(req.path))
RouteKey(req) == CHOOSE k \in RouteKeys(req) : \A k2 \in RouteKeys(req) : ~Before(k, k2)
RouteFit(req) == {i \in Indices(req.method) : /\ NonVar(rdMap[i].spec) = RouteKey(req)
                                              /\ PathMatches(rdMap[i].spec, req.path)}
NoRoute(req) == Indices(req.method) = {} \/ RouteKeys(req) = {} \/ RouteFit(req) = {}

LEMMA RouteIs ==
    ASSUME NEW req, NEW o
    PROVE  Route(req, o) = IF Indices(req.method) = {} THEN Answer(405, 0)
                           ELSE IF RouteKeys(req) = {} \/ RouteFit(req) = {} THEN Answer(404, 0)
                           ELSE Answer(Respond(rdMap[Min(RouteFit(req))], req, o),
                                       Min(RouteFit(req)))
  BY Zenon DEF Route, RouteKeys, RouteKey, RouteFit

LEMMA AnswerIs ==
    ASSUME NEW status, NEW i
    PROVE  Answer(status, i).status = status /\ Answer(status, i).route = i
  BY DEF Answer

LEMMA Refused ==
    /\ Answer(404, 0).route = 0 /\ Answer(404, 0).status # 204
    /\ Answer(405, 0).route = 0 /\ Answer(405, 0).status # 204
  BY DEF Answer

LEMMA NotRouted ==
    ASSUME NEW req, NEW o, NoRoute(req)
    PROVE  Route(req, o).route = 0 /\ Route(req, o).status # 204
<1>1. Route(req, o) \in {Answer(404, 0), Answer(405, 0)}
  BY RouteIs, ZenonT(60) DEF NoRoute
<1> DEFINE x == Route(req, o)
           y == Answer(404, 0)
           z == Answer(405, 0)
<1>2. y.route = 0 /\ y.status # 204 /\ z.route = 0 /\ z.status # 204 /\ x \in {y, z}
  BY <1>1, Refused, ZenonT(60)
<1> HIDE DEF x, y, z
<1>3. x.route = 0 /\ x.status # 204
  BY <1>2
<1> QED BY <1>3, Zenon DEF x

LEMMA Routed ==
    ASSUME NEW req, NEW o, ~NoRoute(req)
    PROVE  /\ Route(req, o).route = Min(RouteFit(req))
           /\ Route(req, o).status = Respond(rdMap[Min(RouteFit(req))], req, o)
<1>1. Route(req, o) = Answer(Respond(rdMap[Min(RouteFit(req))], req, o), Min(RouteFit(req)))
  BY RouteIs, Zenon DEF NoRoute
<1> DEFINE x == Respond(rdMap[Min(RouteFit(req))], req, o)
           y == Min(RouteFit(req))
<1>2. Answer(x, y).status = x /\ Answer(x, y).route = y
  <2> HIDE DEF x, y
  <2> QED BY AnswerIs
<1> QED BY <1>1, <1>2, Zenon

LEMMA FitsAre ==
    ASSUME RdInv, NEW req
    PROVE  /\ RouteFit(req) \subseteq Fits(req) /\ Fits(req) \in SUBSET Nat /\ 0 \notin Fits(req)
           /\ \A i \in Indices(req.method) : rdMap[i].spec \in Seq(Seq(Nat))
<1>1. \A i \in 1..Len(rdMap) : rdMap[i] \in RdRoutes
  BY DEF RdInv
<1>2. \A i \in 1..Len(rdMap) : rdMap[i].spec \in Seq(Seq(Nat))
  BY <1>1, RdAssumption DEF RdAssumption
<1>3. Len(rdMap) \in Nat
  BY DEF RdInv
<1> QED BY <1>2, <1>3 DEF RouteFit, Fits, Indices

(* When no key begins with another, the key that is found is that of every *)
(* route that matches.                                                     *)
LEMMA RightKey ==
    ASSUME RdInv, NEW req, req.path \in Seq(Seq(Nat)), NoKeyInsideAnother(req.method),
           NEW i \in Fits(req)
    PROVE  i \in Indices(req.method) /\ RouteKeys(req) # {} /\ RouteKey(req) = NonVar(rdMap[i].spec)
<1> DEFINE p == NonVar(rdMap[i].spec)
           t == Text(req.path)
           K == RouteKeys(req)
<1>1. /\ i \in Indices(req.method) /\ PathMatches(rdMap[i].spec, req.path)
      /\ rdMap[i].spec \in Seq(Seq(Nat))
  BY FitsAre DEF Fits
<1>2. p \in Seq(Nat) /\ Begins(p, t) /\ t \in Seq(Nat) /\ p \in Keys(req.method)
  <2>1. t \in Seq(Nat)
    BY TextType
  <2> QED BY <1>1, <2>1, KeyIs, KeyBegins DEF Keys
<1>3. \A k \in Keys(req.method) : k \in Seq(Nat)
  BY FitsAre, KeyIs DEF Keys
<1>4. \A k \in K : k \in Seq(Nat) /\ k \in Keys(req.method) /\ ~Before(t, k)
  BY <1>3 DEF RouteKeys, KeysUpTo
<1> HIDE DEF p, t
<1>5. \A k \in Keys(req.method) : IsPrefix(p, k) => p = k
  BY <1>2 DEF NoKeyInsideAnother
<1>6. ~Before(t, p)
  <2>1. CASE t # p /\ IsPrefix(t, p)
    <3>1. Begins(t, p)
      BY <1>2, <2>1, PrefixBegins
    <3>2. t = p
      <4>1. Len(t) = Len(p) /\ \A n \in 1..Len(t) : t[n] = p[n]
        BY <1>2, <3>1 DEF Begins
      <4> QED BY <1>2, <4>1, SeqEqual
    <3> QED BY <2>1, <3>2
  <2>2. ASSUME NEW n \in 1..Len(t), n <= Len(p), t[n] < p[n] PROVE FALSE
    <3>1. n \in 1..Len(p)
      BY <1>2, <2>2
    <3>2. p[n] = t[n] /\ p[n] \in Nat
      BY <1>2, <3>1 DEF Begins
    <3> QED BY <2>2, <3>2
  <2> QED BY <2>1, <2>2 DEF Before
<1>7. p \in K
  BY <1>2, <1>6 DEF RouteKeys, KeysUpTo, t
<1>8. \A k \in K : ~Before(p, k)
  BY <1>2, <1>4, <1>5, AfterBeginning
<1>9. ASSUME NEW k \in K, \A k2 \in K : ~Before(k, k2) PROVE k = p
  <2>1. Begins(p, k)
    BY <1>2, <1>4, <1>7, <1>9, Between
  <2>2. IsPrefix(p, k)
    BY <1>2, <1>4, <2>1, PrefixBegins
  <2> QED BY <1>4, <1>5, <2>2
<1>10. RouteKey(req) = p
  <2> HIDE DEF K
  <2>1. RouteKey(req) = CHOOSE k \in K : \A k2 \in K : ~Before(k, k2)
    BY DEF RouteKey, K
  <2>2. RouteKey(req) \in K /\ \A k2 \in K : ~Before(RouteKey(req), k2)
    BY <1>7, <1>8, <2>1, Zenon
  <2> QED BY <1>9, <2>2
<1> QED BY <1>1, <1>7, <1>10 DEF p

LEMMA RoutedIs ==
    ASSUME RdInv, NEW req \in RdRequests
    PROVE  RoutedRight(req)
<1>0. req.path \in Seq(Seq(Nat)) /\ req.options \in BOOLEAN
  BY RdAssumption DEF RdAssumption
<1>1. ASSUME NEW o PROVE Route(req, o).route # 0 => Route(req, o).route \in Fits(req)
  <2>1. ~NoRoute(req) => RouteFit(req) # {} /\ RouteFit(req) \in SUBSET Nat
    BY FitsAre DEF NoRoute
  <2>2. ~NoRoute(req) => Min(RouteFit(req)) \in RouteFit(req)
    BY <2>1, MinLeast
  <2>3. CASE NoRoute(req)
    BY <2>3, NotRouted, Zenon
  <2>4. CASE ~NoRoute(req)
    <3>1. Route(req, o).route = Min(RouteFit(req))
      BY <2>4, Routed, Zenon
    <3>2. Min(RouteFit(req)) \in Fits(req)
      BY <2>2, <2>4, FitsAre
    <3> QED BY <3>1, <3>2, Zenon
  <2> QED BY <2>3, <2>4
<1>2. Dispatch(req).route # 0 => Dispatch(req).route \in Fits(req)
  <2>1. \/ Dispatch(req).route = 0 \/ Dispatch(req) = Route(req, TRUE)
        \/ Dispatch(req) = Route(req, FALSE)
    <3>1. CASE req.options /\ rdCors # {}
      <4>1. CASE req.path = <<>>
        BY <3>1, <4>1 DEF Dispatch, Answer
      <4>2. CASE req.path # <<>> /\ req.method = ""
        BY <3>1, <4>2 DEF Dispatch, Answer
      <4>3. CASE req.path # <<>> /\ req.method # ""
        BY <3>1, <4>3, ZenonT(60) DEF Dispatch, Answer
      <4> QED BY <4>1, <4>2, <4>3
    <3>2. CASE ~(req.options /\ rdCors # {})
      BY <3>2 DEF Dispatch, Answer
    <3> QED BY <3>1, <3>2
  <2> QED BY <1>1, <2>1
<1>3. ASSUME ~req.options, NoKeyInsideAnother(req.method)
      PROVE  Dispatch(req).route = IF Fits(req) = {} THEN 0 ELSE Min(Fits(req))
  <2>1. Dispatch(req) = Route(req, FALSE)
    BY <1>3 DEF Dispatch
  <2>2. CASE Fits(req) = {}
    <3>1. NoRoute(req)
      BY <2>2, FitsAre DEF NoRoute
    <3>2. Route(req, FALSE).route = 0
      BY <3>1, NotRouted, Zenon
    <3> QED BY <2>1, <2>2, <3>2, Zenon
  <2>3. CASE Fits(req) # {}
    <3>1. \A i \in Fits(req) : /\ i \in Indices(req.method) /\ RouteKeys(req) # {}
                              /\ RouteKey(req) = NonVar(rdMap[i].spec)
      BY <1>0, <1>3, RightKey
    <3>2. RouteFit(req) = Fits(req)
      BY <3>1 DEF RouteFit, Fits
    <3>3. ~NoRoute(req)
      BY <2>3, <3>1, <3>2 DEF NoRoute
    <3>4. Route(req, FALSE).route = Min(RouteFit(req))
      BY <3>3, Routed, Zenon
    <3> QED BY <2>1, <2>3, <3>2, <3>4, Zenon
  <2> QED BY <2>2, <2>3
<1> QED BY <1>2, <1>3 DEF RoutedRight

LEMMA PreflightIs ==
    ASSUME RdInv, NEW req \in RdRequests
    PROVE  PreflightRight(req)
<1> DEFINE flag == IF req.method = "DELETE" THEN "PUT" ELSE req.method
<1> SUFFICES ASSUME req.options, rdCors # {}, req.path # <<>>, req.method # ""
             PROVE  Dispatch(req).status = 204 <=>
                      /\ flag \in rdCors
                      /\ Dispatch([req EXCEPT !.options = FALSE]).route # 0
  BY Zenon DEF PreflightRight, IsPreflight, GrantedFor
<1> DEFINE asked == [req EXCEPT !.options = FALSE]
<1>1. asked.options = FALSE /\ asked.method = req.method /\ asked.path = req.path
  BY RdAssumption DEF RdAssumption
<1> HIDE DEF asked
<1>2. Dispatch(asked) = Route(asked, FALSE)
  BY <1>1 DEF Dispatch
<1>3. RouteFit(asked) = RouteFit(req) /\ (NoRoute(asked) <=> NoRoute(req))
  BY <1>1 DEF RouteFit, NoRoute, RouteKey, RouteKeys
<1>4. Dispatch(req) = IF flag \in rdCors THEN Route(req, TRUE) ELSE Answer(405, 0)
  BY DEF Dispatch, CorsFlag
<1> HIDE DEF flag
<1>5. CASE NoRoute(req)
  <2>1. Route(asked, FALSE).route = 0 /\ Route(req, TRUE).status # 204
    BY <1>3, <1>5, NotRouted, ZenonT(60)
  <2>2. Dispatch(asked).route = 0
    BY <1>2, <2>1, Zenon
  <2>3. Dispatch(req).status # 204
    <3>1. CASE flag \in rdCors
      BY <1>4, <2>1, <3>1, Zenon
    <3>2. CASE flag \notin rdCors
      <4>1. Dispatch(req) = Answer(405, 0)
        BY <1>4, <3>2, Zenon
      <4> QED BY <4>1, Refused, ZenonT(60)
    <3> QED BY <3>1, <3>2, Zenon
  <2> QED BY <2>2, <2>3, Zenon DEF asked
<1>6. CASE ~NoRoute(req)
  <2>1. Min(RouteFit(req)) # 0
    <3>1. Min(RouteFit(req)) \in RouteFit(req)
      BY <1>6, FitsAre, MinLeast DEF NoRoute
    <3> QED BY <3>1, FitsAre
  <2>2. Route(asked, FALSE).route = Min(RouteFit(req))
    BY <1>3, <1>6, Routed, Zenon
  <2>3. Dispatch(asked).route # 0
    BY <1>2, <2>1, <2>2, Zenon
  <2>4. Route(req, TRUE).status = 204
    <3>1. Route(req, TRUE).status = Respond(rdMap[Min(RouteFit(req))], req, TRUE)
      BY <1>6, Routed, Zenon
    <3> QED BY <3>1, Zenon DEF Respond
  <2>5. Dispatch(req).status = 204 <=> flag \in rdCors
    <3>1. CASE flag \in rdCors
      <4>1. Dispatch(req) = Route(req, TRUE)
        BY <1>4, <3>1, Zenon
      <4> QED BY <2>4, <3>1, <4>1, Zenon
    <3>2. CASE flag \notin rdCors
      <4>1. Dispatch(req) = Answer(405, 0)
        BY <1>4, <3>2, Zenon
      <4>2. Dispatch(req).status # 204
        BY <4>1, Refused, ZenonT(60)
      <4> QED BY <3>2, <4>2, Zenon
    <3> QED BY <3>1, <3>2, Zenon
  <2> QED BY <2>3, <2>5, Zenon DEF asked
<1> QED BY <1>5, <1>6, Zenon DEF asked

-----------------------------------------------------------------------------
(* request_dispatcher: the items of a query string.                        *)

Item == Append(Name, Eq)

LEMMA ItemIs == Len(Name) = 1 /\ Len(Item) = 2 /\ Item[1] = 4 /\ Item[2] = 3
  BY DEF Item, Name, Eq

LEMMA ItemOccurs ==
    ASSUME NEW q \in Seq(Nat), NEW p \in Nat
    PROVE  Occurs(q, Item, p) <=> p + 1 <= Len(q) /\ q[p] = 4 /\ q[p + 1] = 3
<1>1. p + Len(Item) - 1 = p + 1 /\ p + 1 - 1 = p /\ p + 2 - 1 = p + 1 /\ 1..Len(Item) = {1, 2}
  BY ItemIs
<1>2. (\A k \in 1..Len(Item) : q[p + k - 1] = Item[k]) <=> q[p] = 4 /\ q[p + 1] = 3
  BY <1>1, ItemIs
<1> QED BY <1>1, <1>2 DEF Occurs

LEMMA AmpOccurs ==
    ASSUME NEW q \in Seq(Nat), NEW p \in Nat
    PROVE  Occurs(q, <<Amp>>, p) <=> p <= Len(q) /\ q[p] = Amp
<1>1. Len(<<Amp>>) = 1 /\ <<Amp>>[1] = Amp
  OBVIOUS
<1>2. p + Len(<<Amp>>) - 1 = p /\ p + 1 - 1 = p /\ 1..Len(<<Amp>>) = {1}
  BY <1>1
<1>3. (\A k \in 1..Len(<<Amp>>) : q[p + k - 1] = <<Amp>>[k]) <=> q[p] = Amp
  BY <1>1, <1>2
<1> QED BY <1>2, <1>3 DEF Occurs

(* find: the first place, or none.                                         *)
LEMMA FindIs ==
    ASSUME NEW q \in Seq(Nat), NEW s, NEW p \in Nat, p > 0
    PROVE  \/ FindFrom(q, s, p) = 0 /\ \A k \in p..Len(q) : ~Occurs(q, s, k)
           \/ /\ FindFrom(q, s, p) \in p..Len(q) /\ Occurs(q, s, FindFrom(q, s, p))
              /\ \A k \in p..Len(q) : Occurs(q, s, k) => FindFrom(q, s, p) <= k
<1> DEFINE at == {k \in p..Len(q) : Occurs(q, s, k)}
<1>1. FindFrom(q, s, p) = IF at = {} THEN 0 ELSE Min(at)
  BY DEF FindFrom
<1>2. at \in SUBSET Nat
  OBVIOUS
<1>3. at # {} => Min(at) \in at /\ \A x \in at : Min(at) <= x
  <2> HIDE DEF at
  <2> QED BY <1>2, MinLeast
<1> DEFINE m == Min(at)
<1> HIDE DEF m
<1> QED BY <1>1, <1>3 DEF m

(* Where the item stands in a query string, and the first place from p on. *)
Stands(q, r) == Occurs(q, Item, r) /\ (r = 1 \/ q[r - 1] = Amp)
StandsFrom(q, p) == {r \in p..Len(q) : Stands(q, r)}
First(q, p) == IF p = 0 \/ StandsFrom(q, p) = {} THEN 0 ELSE Min(StandsFrom(q, p))

(* One turn of the loop over the query string.                             *)
LEMMA SearchTurn ==
    ASSUME NEW q \in Seq(Nat), NEW p \in 1..Len(q), NEW pos, pos = FindFrom(q, Item, p)
    PROVE  /\ pos = 0 => StandsFrom(q, p) = {}
           /\ pos # 0 => pos \in p..Len(q) /\ Occurs(q, Item, pos)
           /\ pos # 0 /\ (pos = 1 \/ q[pos - 1] = Amp) => StandsFrom(q, p) # {} /\ Min(StandsFrom(q, p)) = pos
           /\ pos # 0 /\ ~(pos = 1 \/ q[pos - 1] = Amp) =>
                LET n == FindFrom(q, <<Amp>>, pos + 2) IN
                \/ n = 0 /\ StandsFrom(q, p) = {}
                \/ n \in (p + 1)..Len(q) /\ StandsFrom(q, p) = StandsFrom(q, n)
<1>0. Len(q) \in Nat /\ p \in Nat /\ p > 0
  OBVIOUS
<1>1. \/ pos = 0 /\ \A k \in p..Len(q) : ~Occurs(q, Item, k)
      \/ /\ pos \in p..Len(q) /\ Occurs(q, Item, pos)
         /\ \A k \in p..Len(q) : Occurs(q, Item, k) => pos <= k
  BY <1>0, FindIs
<1>2. CASE pos = 0
  <2>1. \A k \in p..Len(q) : ~Occurs(q, Item, k)
    BY <1>0, <1>1, <1>2
  <2> QED BY <1>2, <2>1 DEF StandsFrom, Stands
<1>3. CASE pos # 0
  <2>1. /\ pos \in p..Len(q) /\ Occurs(q, Item, pos) /\ pos \in Nat
        /\ \A k \in p..Len(q) : Occurs(q, Item, k) => pos <= k
    BY <1>0, <1>1, <1>3
  <2>2. pos + 1 <= Len(q) /\ q[pos] = 4 /\ q[pos + 1] = 3
    BY <2>1, ItemOccurs
  <2>3. CASE pos = 1 \/ q[pos - 1] = Amp
    <3>1. pos \in StandsFrom(q, p) /\ \A r \in StandsFrom(q, p) : pos <= r
      BY <2>1, <2>3 DEF StandsFrom, Stands
    <3>2. StandsFrom(q, p) \in SUBSET Nat
      BY <1>0 DEF StandsFrom
    <3>3. Min(StandsFrom(q, p)) = pos
      <4> DEFINE m == Min(StandsFrom(q, p))
      <4>1. m \in StandsFrom(q, p) /\ m <= pos
        BY <3>1, <3>2, MinLeast
      <4> HIDE DEF m
      <4>2. m = pos
        BY <2>1, <3>1, <3>2, <4>1
      <4> QED BY <4>2 DEF m
    <3> QED BY <1>3, <2>1, <2>3, <3>1, <3>3
  <2>4. CASE ~(pos = 1 \/ q[pos - 1] = Amp)
    <3> DEFINE n == FindFrom(q, <<Amp>>, pos + 2)
    <3>1. \/ n = 0 /\ \A k \in (pos + 2)..Len(q) : ~Occurs(q, <<Amp>>, k)
          \/ /\ n \in (pos + 2)..Len(q) /\ Occurs(q, <<Amp>>, n)
             /\ \A k \in (pos + 2)..Len(q) : Occurs(q, <<Amp>>, k) => n <= k
      <4>1. pos + 2 \in Nat /\ pos + 2 > 0
        BY <2>1
      <4> QED BY <4>1, FindIs
    <3> HIDE DEF n
    <3>2. ASSUME NEW r \in StandsFrom(q, p)
          PROVE  r - 1 \in (pos + 2)..Len(q) /\ Occurs(q, <<Amp>>, r - 1)
      <4>1. r \in p..Len(q) /\ Occurs(q, Item, r) /\ (r = 1 \/ q[r - 1] = Amp)
        BY DEF StandsFrom, Stands
      <4>2. pos <= r /\ r \in Nat
        BY <2>1, <4>1
      <4>3. r # pos
        BY <2>4, <4>1
      <4>4. r - 1 \in Nat /\ r - 1 >= pos /\ q[r - 1] = Amp
        BY <1>0, <2>1, <4>1, <4>2, <4>3
      <4>5. r - 1 # pos /\ r - 1 # pos + 1
        BY <2>1, <2>2, <4>4, SMTT(30) DEF Amp
      <4>6. r - 1 \in (pos + 2)..Len(q) /\ r - 1 <= Len(q)
        BY <1>0, <2>1, <4>1, <4>2, <4>4, <4>5, SMTT(30)
      <4> QED BY <4>4, <4>6, AmpOccurs
    <3>3. CASE n = 0
      <4>1. StandsFrom(q, p) = {}
        BY <2>1, <3>1, <3>2, <3>3, SMTT(30)
      <4> QED BY <1>3, <2>1, <2>4, <3>3, <4>1 DEF n
    <3>4. CASE n # 0
      <4>1. n \in (pos + 2)..Len(q) /\ n \in (p + 1)..Len(q)
        BY <1>0, <2>1, <3>1, <3>4
      <4>2. \A r \in StandsFrom(q, p) : n <= r
        <5>1. \A r \in StandsFrom(q, p) : r \in Nat /\ n <= r - 1
          BY <1>0, <3>1, <3>2, <3>4, SMTT(30) DEF StandsFrom
        <5> QED BY <4>1, <5>1
      <4>3. StandsFrom(q, p) = StandsFrom(q, n)
        <5>1. \A r \in StandsFrom(q, p) : r \in StandsFrom(q, n)
          BY <1>0, <4>1, <4>2 DEF StandsFrom
        <5>2. \A r \in StandsFrom(q, n) : r \in StandsFrom(q, p)
          BY <1>0, <4>1 DEF StandsFrom
        <5> QED BY <5>1, <5>2
      <4> QED BY <1>3, <2>1, <2>4, <4>1, <4>3 DEF n
    <3> QED BY <3>3, <3>4
  <2> QED BY <2>3, <2>4
<1> QED BY <1>2, <1>3

(* What the loop makes of the result f of its later turns.                 *)
SearchStep(q, f, p) ==
    LET pos == IF p = 0 THEN 0 ELSE FindFrom(q, Item, p)
    IN IF pos = 0 THEN 0
       ELSE IF pos = 1 THEN pos
       ELSE IF q[pos - 1] = Amp THEN pos
       ELSE f[FindFrom(q, <<Amp>>, pos + Len(Item))]

LEMMA SearchIsFirst ==
    ASSUME NEW q \in Seq(Nat), NEW f, NEW p \in 0..Len(q),
           f[0] = 0, \A n \in (p + 1)..Len(q) : f[n] = First(q, n)
    PROVE  SearchStep(q, f, p) = First(q, p)
<1>0. Len(q) \in Nat /\ Len(Item) = 2
  BY ItemIs
<1>1. CASE p = 0
  BY <1>1 DEF SearchStep, First
<1>2. CASE p # 0
  <2> DEFINE pos == FindFrom(q, Item, p)
             n == FindFrom(q, <<Amp>>, pos + 2)
  <2>1. p \in 1..Len(q)
    BY <1>2
  <2>2. /\ pos = 0 => StandsFrom(q, p) = {}
        /\ pos # 0 => pos \in p..Len(q)
        /\ pos # 0 /\ (pos = 1 \/ q[pos - 1] = Amp) => StandsFrom(q, p) # {} /\ Min(StandsFrom(q, p)) = pos
        /\ pos # 0 /\ ~(pos = 1 \/ q[pos - 1] = Amp) =>
             \/ n = 0 /\ StandsFrom(q, p) = {}
             \/ n \in (p + 1)..Len(q) /\ StandsFrom(q, p) = StandsFrom(q, n)
    BY <2>1, SearchTurn
  <2>3. SearchStep(q, f, p) = IF pos = 0 THEN 0 ELSE IF pos = 1 THEN pos
                              ELSE IF q[pos - 1] = Amp THEN pos ELSE f[n]
    BY <1>0, <1>2 DEF SearchStep
  <2> HIDE DEF pos, n
  <2>4. CASE pos = 0
    BY <2>2, <2>3, <2>4 DEF First
  <2>5. CASE pos # 0 /\ (pos = 1 \/ q[pos - 1] = Amp)
    BY <1>2, <2>2, <2>3, <2>5 DEF First
  <2>6. CASE pos # 0 /\ ~(pos = 1 \/ q[pos - 1] = Amp)
    <3>1. SearchStep(q, f, p) = f[n]
      BY <2>3, <2>6
    <3>2. CASE n = 0 /\ StandsFrom(q, p) = {}
      BY <3>1, <3>2 DEF First
    <3>3. CASE n \in (p + 1)..Len(q) /\ StandsFrom(q, p) = StandsFrom(q, n)
      <4>1. First(q, n) = First(q, p)
        <5>1. n # 0
          BY <3>3
        <5> QED BY <1>2, <3>3, <5>1 DEF First
      <4> QED BY <3>1, <3>3, <4>1
    <3> QED BY <2>2, <2>6, <3>2, <3>3
  <2> QED BY <2>4, <2>5, <2>6
<1> QED BY <1>1, <1>2

-----------------------------------------------------------------------------
LEMMA FirstIs ==
    ASSUME NEW q \in Seq(Nat), NEW p \in 1..Len(q)
    PROVE  SearchFrom(q, Item)[p] = First(q, p)
<1> DEFINE Body(f) == [n \in 0..Len(q) |->
                LET pos == IF n = 0 THEN 0 ELSE FindFrom(q, Item, n)
                IN IF pos = 0 THEN 0
                   ELSE IF pos = 1 THEN pos
                   ELSE IF q[pos - 1] = Amp THEN pos
                   ELSE f[FindFrom(q, <<Amp>>, pos + Len(Item))]]
           Step(f) == [n \in 0..Len(q) |-> SearchStep(q, f, n)]
           T == SearchFrom(q, Item)
           F == [n \in 0..Len(q) |-> First(q, n)]
<1>0. Len(q) \in Nat
  OBVIOUS
<1>1. \A f : Body(f) = Step(f)
  BY Zenon DEF SearchStep
<1>2. T = CHOOSE f : f = Body(f)
  BY Zenon DEF SearchFrom
<1>3. F = Step(F)
  <2>1. ASSUME NEW n \in 0..Len(q) PROVE First(q, n) = SearchStep(q, F, n)
    <3>1. F[0] = 0
      BY <1>0 DEF First
    <3>2. \A k \in (n + 1)..Len(q) : F[k] = First(q, k)
      BY <1>0
    <3> HIDE DEF F
    <3> QED BY <3>1, <3>2, SearchIsFirst
  <2> QED BY <2>1, Zenon
<1>4. T = Step(T)
  <2> HIDE DEF T, F, Body, Step
  <2>1. F = Body(F)
    BY <1>1, <1>3
  <2>2. T = Body(T)
    BY <1>2, <2>1
  <2> QED BY <1>1, <2>2
<1> HIDE DEF T
<1>5. \A n \in 0..Len(q) : T[n] = SearchStep(q, T, n)
  <2> DEFINE U == Step(T)
  <2>1. \A n \in 0..Len(q) : U[n] = SearchStep(q, T, n)
    BY Zenon
  <2>2. T = U
    BY <1>4
  <2> HIDE DEF U
  <2> QED BY <2>1, <2>2
<1>6. T[0] = 0
  <2>1. SearchStep(q, T, 0) = 0
    BY DEF SearchStep
  <2>2. 0 \in 0..Len(q)
    BY <1>0
  <2> QED BY <1>5, <2>1, <2>2
<1> DEFINE S == {d \in 0..Len(q) : T[Len(q) - d] # First(q, Len(q) - d)}
<1>7. S = {}
  <2>1. SUFFICES ASSUME S # {} PROVE FALSE
    OBVIOUS
  <2>2. PICK d \in S : \A e \in S : d <= e
    <3>1. S \in SUBSET Nat
      BY <1>0
    <3> HIDE DEF S
    <3> QED BY <2>1, <3>1, LeastIn
  <2>3. d \in 0..Len(q) /\ T[Len(q) - d] # First(q, Len(q) - d)
    BY <2>2
  <2> DEFINE n == Len(q) - d
  <2>4. n \in 0..Len(q)
    BY <1>0, <2>3
  <2>5. ASSUME NEW k \in (n + 1)..Len(q) PROVE T[k] = First(q, k)
    <3>1. Len(q) - k \in 0..Len(q) /\ ~(d <= Len(q) - k) /\ Len(q) - (Len(q) - k) = k
      BY <1>0, <2>3
    <3>2. Len(q) - k \notin S
      <4> HIDE DEF S
      <4> QED BY <2>2, <3>1
    <3> QED BY <3>1, <3>2
  <2>6. SearchStep(q, T, n) = First(q, n)
    <3> HIDE DEF n
    <3> QED BY <1>6, <2>4, <2>5, SearchIsFirst
  <2> QED BY <1>5, <2>3, <2>4, <2>6
<1>8. Len(q) - p \in 0..Len(q) /\ Len(q) - (Len(q) - p) = p
  BY <1>0
<1>9. T[p] = First(q, p)
  BY <1>7, <1>8
<1> QED BY <1>9 DEF T

(* The items of a query string that are named.                             *)
Named(q) == {it \in Items(q) : /\ it[1] + Len(Name) + 1 < it[2]
                               /\ Occurs(q, Append(Name, Eq), it[1] + 1)}

(* A named item begins where the name stands.                              *)
LEMMA NamedStands ==
    ASSUME NEW q \in Seq(Nat), NEW it \in Named(q)
    PROVE  /\ it[1] \in Nat /\ it[2] \in Nat /\ it[1] + 1 \in StandsFrom(q, 1)
           /\ it[1] \in Ampersands(q) /\ it[2] \in Ampersands(q) /\ it[1] < it[2]
           /\ \A c \in Ampersands(q) : ~(it[1] < c /\ c < it[2])
<1>0. Len(q) \in Nat
  OBVIOUS
<1>1. /\ it[1] \in Ampersands(q) /\ it[2] \in Ampersands(q) /\ it[1] < it[2]
      /\ \A c \in Ampersands(q) : ~(it[1] < c /\ c < it[2])
      /\ Occurs(q, Item, it[1] + 1)
  BY DEF Named, Items, Item
<1>2. it[1] \in Nat /\ it[2] \in Nat /\ it[1] <= Len(q)
  BY <1>0, <1>1 DEF Ampersands
<1>3. it[1] + 1 \in Nat /\ it[1] + 1 \in 1..Len(q) /\ (it[1] + 1) - 1 = it[1]
  <2>1. it[1] + 1 \in Nat
    BY <1>2
  <2>2. it[1] + 1 + 1 <= Len(q)
    BY <1>1, <2>1, ItemOccurs
  <2> QED BY <1>0, <1>2, <2>2
<1>4. it[1] + 1 = 1 \/ q[(it[1] + 1) - 1] = Amp
  BY <1>0, <1>1, <1>2, <1>3, SMTT(30) DEF Ampersands
<1> QED BY <1>1, <1>2, <1>3, <1>4 DEF StandsFrom, Stands

(* The value in a text that is decoded already.                            *)
ReadsFirst(q) ==
    LET first == CHOOSE it \in Named(q) : \A other \in Named(q) : it[1] <= other[1]
    IN ValueIn(q, Name) =
         IF Named(q) = {} THEN <<>> ELSE SubSeq(q, first[1] + Len(Name) + 2, first[2] - 1)

LEMMA ReadsFirstItem ==
    ASSUME NEW q \in Seq(Nat)
    PROVE  ReadsFirst(q)
<1> DEFINE pos == QueryPos(q, Name)
           amp == FindFrom(q, <<Amp>>, pos + 2)
           b == IF amp = 0 THEN Len(q) + 1 ELSE amp
           a == pos - 1
           first == CHOOSE it \in Named(q) : \A other \in Named(q) : it[1] <= other[1]
<1>0. Len(q) \in Nat /\ Len(Name) = 1 /\ Len(Item) = 2
  BY ItemIs
<1>1. pos = First(q, 1)
  <2>1. CASE q = <<>>
    <3>1. StandsFrom(q, 1) = {}
      BY <2>1 DEF StandsFrom
    <3> QED BY <2>1, <3>1 DEF QueryPos, First
  <2>2. CASE q # <<>>
    <3>1. 1 \in 1..Len(q)
      BY <2>2
    <3> QED BY <2>2, <3>1, FirstIs DEF QueryPos, Item
  <2> QED BY <2>1, <2>2
<1>2. SUFFICES ValueIn(q, Name) =
                 IF Named(q) = {} THEN <<>> ELSE SubSeq(q, first[1] + Len(Name) + 2, first[2] - 1)
  BY Zenon DEF ReadsFirst
<1>3. CASE StandsFrom(q, 1) = {}
  <2>1. pos = 0 /\ Named(q) = {}
    BY <1>1, <1>3, NamedStands DEF First
  <2> QED BY <2>1 DEF ValueIn
<1>4. CASE StandsFrom(q, 1) # {}
  <2>1. StandsFrom(q, 1) \in SUBSET Nat
    BY <1>0 DEF StandsFrom
  <2>2. pos \in StandsFrom(q, 1) /\ \A r \in StandsFrom(q, 1) : pos <= r
    BY <1>1, <1>4, <2>1, MinLeast DEF First
  <2>3. ValueIn(q, Name) =
          SubSeq(q, pos + Len(Name) + 1,
                 IF FindFrom(q, <<Amp>>, pos + Len(Name) + 1) = 0 THEN Len(q)
                 ELSE FindFrom(q, <<Amp>>, pos + Len(Name) + 1) - 1)
    <3>1. pos # 0
      BY <2>2 DEF StandsFrom
    <3> QED BY <3>1, Zenon DEF ValueIn
  <2> HIDE DEF pos
  <2>4. /\ pos \in 1..Len(q) /\ Occurs(q, Item, pos) /\ (pos = 1 \/ q[pos - 1] = Amp)
        /\ pos \in Nat
    BY <1>0, <2>2 DEF StandsFrom, Stands
  <2>5. pos + 1 <= Len(q) /\ q[pos] = 4 /\ q[pos + 1] = 3
    BY <2>4, ItemOccurs
  <2>6. \/ amp = 0 /\ \A k \in (pos + 2)..Len(q) : ~Occurs(q, <<Amp>>, k)
        \/ /\ amp \in (pos + 2)..Len(q) /\ Occurs(q, <<Amp>>, amp)
           /\ \A k \in (pos + 2)..Len(q) : Occurs(q, <<Amp>>, k) => amp <= k
    <3>1. pos + 2 \in Nat /\ pos + 2 > 0
      BY <2>4
    <3> QED BY <3>1, FindIs
  <2>7. ValueIn(q, Name) = SubSeq(q, pos + 2, b - 1)
    <3>1. pos + Len(Name) + 1 = pos + 2 /\ (Len(q) + 1) - 1 = Len(q)
      BY <1>0, <2>4
    <3>2. ValueIn(q, Name) = SubSeq(q, pos + 2, IF amp = 0 THEN Len(q) ELSE amp - 1)
      BY <2>3, <3>1
    <3> HIDE DEF amp
    <3> QED BY <3>1, <3>2
  <2> HIDE DEF amp
  <2>8. /\ b \in (pos + 2)..(Len(q) + 1) /\ b \in Ampersands(q)
        /\ \A k \in (pos + 2)..Len(q) : q[k] = Amp => b <= k
    <3>1. \A k \in (pos + 2)..Len(q) : Occurs(q, <<Amp>>, k) <=> q[k] = Amp
      <4>1. \A k \in (pos + 2)..Len(q) : k \in Nat /\ k <= Len(q)
        BY <2>4
      <4> QED BY <4>1, AmpOccurs
    <3>2. CASE amp = 0
      BY <1>0, <2>4, <2>5, <2>6, <3>1, <3>2 DEF Ampersands
    <3>3. CASE amp # 0
      <4>1. /\ b = amp /\ amp \in (pos + 2)..Len(q) /\ Occurs(q, <<Amp>>, amp)
            /\ \A k \in (pos + 2)..Len(q) : Occurs(q, <<Amp>>, k) => amp <= k
        BY <2>6, <3>3
      <4>2. q[amp] = Amp /\ amp \in 1..Len(q) /\ amp \in (pos + 2)..(Len(q) + 1)
        BY <1>0, <2>4, <3>1, <4>1
      <4> QED BY <3>1, <4>1, <4>2 DEF Ampersands
    <3> QED BY <3>2, <3>3
  <2> HIDE DEF b
  <2>9. b \in Nat /\ a \in Nat /\ a + 1 = pos /\ a < b /\ a + Len(Name) + 1 < b
    BY <1>0, <2>4, <2>8
  <2>10. a \in Ampersands(q)
    BY <1>0, <2>4 DEF Ampersands
  <2>11. ASSUME NEW c \in Ampersands(q), a < c, c < b PROVE FALSE
    <3>1. c \in 1..Len(q) /\ q[c] = Amp
      BY <1>0, <2>8, <2>9, <2>11 DEF Ampersands
    <3>2. c # pos /\ c # pos + 1
      BY <2>5, <3>1 DEF Amp
    <3>3. c \in (pos + 2)..Len(q)
      BY <1>0, <2>4, <2>11, <3>1, <3>2
    <3> QED BY <2>8, <2>9, <2>11, <3>1, <3>3, SMTT(30)
  <2> HIDE DEF a
  <2>12. <<a, b>> \in Named(q)
    <3>1. Occurs(q, Append(Name, Eq), a + 1)
      BY <2>4, <2>9 DEF Item
    <3> DEFINE it == <<a, b>>
    <3>2. it \in Ampersands(q) \X Ampersands(q) /\ it[1] = a /\ it[2] = b
      BY <2>8, <2>10
    <3> HIDE DEF it
    <3>3. it \in Items(q)
      BY <2>9, <2>11, <3>2 DEF Items
    <3>4. it \in Named(q)
      BY <2>9, <3>1, <3>2, <3>3 DEF Named
    <3> QED BY <3>4 DEF it
  <2>13. \A other \in Named(q) : a <= other[1]
    <3>1. \A other \in Named(q) : other[1] \in Nat /\ pos <= other[1] + 1
      BY <2>2, NamedStands
    <3> QED BY <2>9, <3>1
  <2>14. first \in Named(q) /\ \A other \in Named(q) : first[1] <= other[1]
    <3>1. \E it \in Named(q) : \A other \in Named(q) : it[1] <= other[1]
      <4>1. <<a, b>>[1] = a
        OBVIOUS
      <4> QED BY <2>12, <2>13, <4>1
    <3> QED BY <3>1, Zenon
  <2> HIDE DEF first
  <2>15. first[1] = a
    <3>1. first[1] <= a
      <4>1. first[1] <= <<a, b>>[1]
        BY <2>12, <2>14, Zenon
      <4> QED BY <4>1
    <3>2. a <= first[1] /\ first[1] \in Nat
      BY <2>13, <2>14, NamedStands
    <3> QED BY <2>9, <3>1, <3>2
  <2>16. first[2] = b
    <3>1. /\ first[2] \in Nat /\ first[2] \in Ampersands(q) /\ a < first[2]
          /\ \A c \in Ampersands(q) : ~(a < c /\ c < first[2])
      BY <2>14, <2>15, NamedStands
    <3>2. ~(first[2] < b)
      BY <2>11, <3>1
    <3>3. ~(b < first[2])
      BY <2>8, <2>9, <3>1
    <3> QED BY <2>9, <3>1, <3>2, <3>3
  <2>17. first[1] + Len(Name) + 2 = pos + 2
    BY <1>0, <2>4, <2>9, <2>15
  <2>18. Named(q) # {}
    BY <2>12
  <2> QED BY <2>7, <2>16, <2>17, <2>18
<1> QED BY <1>3, <1>4

(* Decoding keeps the places of the ampersands that are not codes.         *)
LEMMA QueryIs ==
    ASSUME NEW q \in Seq(Nat), \A k \in 1..Len(q) : q[k] \notin {Code + Amp, Code + Eq}
    PROVE  ValueRight(q)
<1> DEFINE d == Decode(q)
           first == CHOOSE it \in Named(d) : \A other \in Named(d) : it[1] <= other[1]
<1>1. /\ d \in Seq(Nat) /\ Len(d) = Len(q) /\ Len(q) \in Nat
      /\ \A k \in 1..Len(q) : d[k] = IF q[k] < Code THEN q[k] ELSE q[k] - Code
  BY DEF Decode, Code
<1>2. Items(d) = Items(q)
  <2>1. \A k \in 1..Len(q) : d[k] = Amp <=> q[k] = Amp
    <3> SUFFICES ASSUME NEW k \in 1..Len(q) PROVE d[k] = Amp <=> q[k] = Amp
      OBVIOUS
    <3>1. q[k] \in Nat /\ q[k] # Code + Amp /\ d[k] = IF q[k] < Code THEN q[k] ELSE q[k] - Code
      BY <1>1
    <3> HIDE DEF d
    <3> QED BY <3>1 DEF Code, Amp
  <2> HIDE DEF d
  <2>2. Ampersands(d) = Ampersands(q)
    BY <1>1, <2>1 DEF Ampersands
  <2> QED BY <2>2 DEF Items
<1>3. ReadsFirst(d)
  BY <1>1, ReadsFirstItem
<1>4. ASSUME Named(d) # {}
      PROVE  SubSeq(d, first[1] + Len(Name) + 2, first[2] - 1)
               = Decode(SubSeq(q, first[1] + Len(Name) + 2, first[2] - 1))
  <2>1. first \in Named(d)
    <3>1. PICK it \in Named(d) : \A other \in Named(d) : it[1] <= other[1]
      <4> DEFINE S == {it[1] : it \in Named(d)}
      <4>1. S \in SUBSET Nat /\ S # {}
        BY <1>1, <1>4, NamedStands
      <4>2. PICK n \in S : \A m \in S : n <= m
        <5> HIDE DEF S
        <5> QED BY <4>1, LeastIn
      <4> QED BY <4>2
    <3> QED BY <3>1, Zenon
  <2> DEFINE i == first[1] + Len(Name) + 2
             j == first[2] - 1
  <2>2. /\ first[1] \in Nat /\ first[2] \in Nat /\ first[2] \in Ampersands(d)
        /\ first[1] + Len(Name) + 1 < first[2] /\ Len(Name) = 1
    BY <1>1, <2>1, NamedStands, ItemIs DEF Named
  <2> HIDE DEF first, d
  <2>3. first[2] <= Len(q) + 1
    BY <1>1, <2>2 DEF Ampersands
  <2>4. i \in Nat /\ i > 0 /\ j \in Nat /\ i <= j + 1 /\ j <= Len(q)
    <3> DEFINE f1 == first[1]
               f2 == first[2]
               l == Len(Name)
    <3>1. /\ f1 \in Nat /\ f2 \in Nat /\ f1 + l + 1 < f2 /\ l = 1 /\ f2 <= Len(q) + 1
          /\ Len(q) \in Nat /\ i = f1 + l + 2 /\ j = f2 - 1
      BY <1>1, <2>2, <2>3, Zenon
    <3> HIDE DEF f1, f2, l, i, j
    <3> QED BY <3>1
  <2> HIDE DEF i, j
  <2>5. /\ SubSeq(d, i, j) \in Seq(Nat) /\ Len(SubSeq(d, i, j)) = j - i + 1
        /\ \A k \in 1..(j - i + 1) : SubSeq(d, i, j)[k] = d[i + k - 1]
    BY <1>1, <2>4
  <2>6. /\ SubSeq(q, i, j) \in Seq(Nat) /\ Len(SubSeq(q, i, j)) = j - i + 1
        /\ \A k \in 1..(j - i + 1) : SubSeq(q, i, j)[k] = q[i + k - 1]
    BY <1>1, <2>4
  <2>7. /\ Decode(SubSeq(q, i, j)) \in Seq(Nat) /\ Len(Decode(SubSeq(q, i, j))) = j - i + 1
        /\ \A k \in 1..(j - i + 1) :
             Decode(SubSeq(q, i, j))[k] = IF q[i + k - 1] < Code THEN q[i + k - 1]
                                                                ELSE q[i + k - 1] - Code
    <3> DEFINE t == SubSeq(q, i, j)
               n == j - i + 1
    <3>1. t \in Seq(Nat) /\ Len(t) = n /\ n \in Nat
      BY <2>4, <2>6
    <3> HIDE DEF t, n
    <3>2. /\ Decode(t) \in Seq(Nat) /\ Len(Decode(t)) = n
          /\ \A k \in 1..n : Decode(t)[k] = IF t[k] < Code THEN t[k] ELSE t[k] - Code
      BY <3>1 DEF Decode, Code
    <3>3. \A k \in 1..n : t[k] = q[i + k - 1]
      BY <2>6 DEF t, n
    <3> QED BY <3>2, <3>3 DEF t, n
  <2>8. \A k \in 1..(j - i + 1) : i + k - 1 \in 1..Len(q)
    BY <1>1, <2>4
  <2>9. \A k \in 1..(j - i + 1) : SubSeq(d, i, j)[k] = Decode(SubSeq(q, i, j))[k]
    BY <1>1, <2>5, <2>7, <2>8
  <2>10. SubSeq(d, i, j) = Decode(SubSeq(q, i, j))
    BY <2>5, <2>7, <2>9, SeqEqual
  <2> QED BY <2>10 DEF i, j
<1>5. Named(d) = {it \in Items(q) : /\ it[1] + Len(Name) + 1 < it[2]
                                    /\ Occurs(d, Append(Name, Eq), it[1] + 1)}
  BY <1>2, Zenon DEF Named
<1> QED BY <1>3, <1>4, <1>5, Zenon DEF ValueRight, QueryItem, ReadsFirst

(* What dispatch answers and what a handler gets are right in every state. *)
LEMMA RdSound == RdInv => RoutesSound
<1> SUFFICES ASSUME RdInv PROVE RoutesSound
  OBVIOUS
<1>1. \A req \in RdRequests : RoutedRight(req) /\ PreflightRight(req)
  BY RoutedIs, PreflightIs
<1>2. \A q \in RdQueries : QueryRight(q)
  BY RdAssumption, QueryIs DEF RdAssumption, QueryRight
<1> QED BY <1>1, <1>2 DEF RoutesSound

(* request_dispatcher::dispatch and extract_params: whatever is registered,*)
(* a request reaches a route only if its path matches, the first of those  *)
(* when no key begins with another; a preflight request is granted exactly *)
(* if the request that it announces would be, DELETE by the flag of PUT;   *)
(* and a handler gets the value, decoded, of the first item of the query   *)
(* string that has the name it asks for, unless a delimiter comes coded.   *)
THEOREM RoutesFound == RdSpec => []RoutesSound
<1>1. RdInit => RdInv
  BY RdInitInv
<1>2. RdInv /\ [RdNext]_rdVars => RdInv'
  BY RdNextInv
<1>3. RdInv => RoutesSound
  BY RdSound
<1> QED BY <1>1, <1>2, <1>3, PTL DEF RdSpec

-----------------------------------------------------------------------------
(* dtls_dispatch.                                                          *)

FibStates == [pc : {"idle", "stun", "dtls", "use"}, addr : DtAddrs \cup {"none"}, id : Nat]

DtTypeOK ==
    /\ dtMap \in [DtAddrs -> Nat] /\ dtFib \in [DtFibers -> FibStates]
    /\ dtSweep \in 0..Off /\ dtSweeping \in BOOLEAN

(* A fiber has a pointer to an association only while it uses it.          *)
UserInv ==
    \A f \in DtFibers : /\ dtFib[f].pc # "idle" => dtFib[f].addr \in DtAddrs
                        /\ dtFib[f].pc = "use" <=> dtFib[f].id # 0

DtInv == DtTypeOK /\ UserInv /\ SweepScheduled /\ AssociationsApart

(* While an address has no association and a fiber no pointer there is an  *)
(* association to make.                                                    *)
LEMMA NewAssociation ==
    ASSUME DtTypeOK, NEW a \in DtAddrs, dtMap[a] = 0, NEW f \in DtFibers, dtFib[f].id = 0
    PROVE  \E i \in Ids : ~Alive(i)
<1> DEFINE A == {dtMap[b] : b \in DtAddrs}
           g == [h \in DtFibers |-> dtFib[h].id]
           B == {g[h] : h \in DtFibers}
           N == Cardinality(DtAddrs) + Cardinality(DtFibers)
<1>0. IsFiniteSet(DtAddrs) /\ IsFiniteSet(DtFibers)
  BY DtAssumption DEF DtAssumption
<1>1. Cardinality(DtAddrs) \in Nat /\ Cardinality(DtFibers) \in Nat
  BY <1>0, FS_CardinalityType
<1>2. IsFiniteSet(A) /\ Cardinality(A) <= Cardinality(DtAddrs) /\ Cardinality(A) \in Nat
  <2>1. dtMap \in Surjection(DtAddrs, A)
    BY DEF DtTypeOK, Surjection
  <2> HIDE DEF A
  <2> QED BY <1>0, <2>1, FS_Surjection, FS_CardinalityType
<1>3. IsFiniteSet(B) /\ Cardinality(B) <= Cardinality(DtFibers) /\ Cardinality(B) \in Nat
  <2>1. g \in Surjection(DtFibers, B)
    BY DEF Surjection
  <2> HIDE DEF B, g
  <2> QED BY <1>0, <2>1, FS_Surjection, FS_CardinalityType
<1>4. SUFFICES ASSUME \A i \in Ids : Alive(i) PROVE FALSE
  OBVIOUS
<1>5. 0..N \subseteq A \cup B
  <2>1. ASSUME NEW i \in 0..N PROVE i \in A \cup B
    <3>1. CASE i = 0
      BY <3>1
    <3>2. CASE i # 0
      <4>1. i \in Ids
        BY <1>1, <3>2 DEF Ids
      <4>2. (\E b \in DtAddrs : dtMap[b] = i) \/ (\E h \in DtFibers : dtFib[h].id = i)
        BY <1>4, <4>1 DEF Alive, AliveIn
      <4> QED BY <4>2
    <3> QED BY <3>1, <3>2
  <2> QED BY <2>1
<1>6. IsFiniteSet(A \cup B) /\ Cardinality(A \cup B) < N + 1 /\ Cardinality(A \cup B) \in Nat
  <2> HIDE DEF A, B
  <2>1. 0 \in A /\ 0 \in B
    BY DEF A, B
  <2>2. /\ IsFiniteSet(A \cup B)
        /\ Cardinality(A \cup B) = Cardinality(A) + Cardinality(B) - Cardinality(A \cap B)
    BY <1>2, <1>3, FS_Union
  <2>3. IsFiniteSet(A \cap B) /\ Cardinality(A \cap B) \in Nat
    <3>1. A \cap B \in SUBSET A
      OBVIOUS
    <3>2. IsFiniteSet(A \cap B)
      BY <1>2, <3>1, FS_Subset
    <3> QED BY <3>2, FS_CardinalityType
  <2> QED BY <1>1, <1>2, <1>3, <2>2, <2>3, FS_CardinalityType
<1>7. Cardinality(0..N) = N + 1 /\ N \in Nat
  <2>1. N \in Nat
    BY <1>1
  <2> HIDE DEF N
  <2>2. 0 \in Int /\ N \in Int /\ ~(0 > N) /\ N - 0 + 1 = N + 1
    BY <2>1
  <2>3. Cardinality(0..N) = IF 0 > N THEN 0 ELSE N - 0 + 1
    BY <2>2, FS_Interval
  <2> QED BY <2>1, <2>2, <2>3
<1>8. Cardinality(0..N) <= Cardinality(A \cup B)
  <2> HIDE DEF A, B, N
  <2> QED BY <1>5, <1>6, FS_Subset
<1> HIDE DEF A, B, N
<1> QED BY <1>6, <1>7, <1>8

LEMMA IdleState == Idle \in FibStates /\ Idle.pc = "idle" /\ Idle.id = 0
  BY DEF Idle, FibStates

LEMMA DtInitInv == DtInit => DtInv
<1> SUFFICES ASSUME DtInit PROVE DtInv
  OBVIOUS
<1>1. DtTypeOK /\ UserInv
  <2>1. dtSweep \in 0..Off /\ dtMap \in [DtAddrs -> Nat]
    BY DtAssumption DEF DtAssumption, DtInit, Off
  <2>2. dtSweeping \in BOOLEAN
    BY Zenon DEF DtInit
  <2>3. dtFib \in [DtFibers -> FibStates] /\ UserInv
    BY IdleState DEF DtInit, UserInv
  <2> QED BY <2>1, <2>2, <2>3 DEF DtTypeOK
<1>2. Registered = {} /\ \A f \in DtFibers : dtFib[f].pc = "idle"
  BY DEF DtInit, Registered, Idle
<1>3. SweepScheduled
  BY <1>2 DEF DtInit, SweepScheduled
<1> QED BY <1>1, <1>2, <1>3 DEF DtInv, AssociationsApart

(* A step of one fiber that leaves associations and sweeps as they are.    *)
LEMMA FiberStep ==
    ASSUME DtInv, NEW f \in DtFibers, NEW r \in FibStates,
           dtFib' = [dtFib EXCEPT ![f] = r], UNCHANGED <<dtMap, dtSweep, dtSweeping>>,
           r.pc # "idle" => r.addr \in DtAddrs, r.pc = "use" <=> r.id # 0,
           r.pc = "use" => r.addr \in DtAddrs /\ r.id = dtMap[r.addr]
    PROVE  DtInv'
<1>1. DtTypeOK' /\ UserInv'
  BY DEF DtInv, DtTypeOK, UserInv, Off
<1>2. Registered' = Registered
  BY DEF Registered
<1>3. SweepScheduled'
  BY <1>2, Zenon DEF DtInv, SweepScheduled, Off
<1>4. AssociationsApart'
  <2>1. ASSUME NEW g \in DtFibers, NEW a \in Registered,
               dtFib'[g].pc = "use" /\ dtFib'[g].id = dtMap[a]
        PROVE  dtFib'[g].addr = a
    <3>1. CASE g = f
      <4>1. dtFib'[g] = r
        BY <3>1 DEF DtInv, DtTypeOK
      <4>2. r.addr \in DtAddrs /\ dtMap[r.addr] = dtMap[a] /\ r.addr \in Registered
        BY <2>1, <4>1 DEF Registered
      <4> QED BY <4>1, <4>2 DEF DtInv, AssociationsApart
    <3>2. CASE g # f
      BY <2>1, <3>2 DEF DtInv, DtTypeOK, AssociationsApart
    <3> QED BY <3>1, <3>2
  <2> QED BY <1>2, <2>1 DEF DtInv, AssociationsApart
<1> QED BY <1>1, <1>3, <1>4 DEF DtInv

LEMMA RegisterStep ==
    ASSUME DtInv, NEW f \in DtFibers, RegisterAssociation(f)
    PROVE  DtInv'
<1> DEFINE a == dtFib[f].addr
           id == CHOOSE i \in Ids : ~Alive(i)
<1>0. /\ dtFib[f].pc = "stun" /\ dtFib' = [dtFib EXCEPT ![f] = Idle]
      /\ dtSweeping' = dtSweeping /\ a \in DtAddrs /\ dtFib[f].id = 0
  BY DEF RegisterAssociation, DtInv, UserInv
<1>1. CASE dtMap[a] # 0
  <2>1. UNCHANGED <<dtMap, dtSweep, dtSweeping>>
    BY <1>1 DEF RegisterAssociation
  <2> QED BY <1>0, <2>1, IdleState, FiberStep
<1>2. CASE dtMap[a] = 0
  <2>1. id \in Ids /\ ~Alive(id)
    <3>1. \E i \in Ids : ~Alive(i)
      BY <1>0, <1>2, NewAssociation DEF DtInv
    <3> QED BY <3>1, Zenon
  <2>2. /\ dtMap' = [dtMap EXCEPT ![a] = id]
        /\ dtSweep' = IF ArmsSweep(dtMap') THEN DtPeriod ELSE dtSweep
    BY <1>2 DEF RegisterAssociation
  <2> HIDE DEF id, a
  <2>3. /\ id \in Nat /\ id # 0 /\ \A b \in DtAddrs : dtMap[b] # id
        /\ \A g \in DtFibers : dtFib[g].id # id
    BY <2>1 DEF Ids, Alive, AliveIn
  <2>4. DtTypeOK' /\ UserInv'
    <3>1. DtPeriod \in 0..Off
      BY DtAssumption DEF DtAssumption, Off
    <3>2. (dtSweep \in 0..Off)' /\ (dtSweeping \in BOOLEAN)' /\ (dtMap \in [DtAddrs -> Nat])'
      BY <1>0, <2>2, <2>3, <3>1 DEF DtInv, DtTypeOK, Off
    <3>3. (dtFib \in [DtFibers -> FibStates])' /\ UserInv'
      BY <1>0, IdleState DEF DtInv, DtTypeOK, UserInv
    <3> QED BY <3>2, <3>3 DEF DtTypeOK
  <2>5. Registered' = Registered \cup {a}
    BY <1>0, <2>2, <2>3 DEF Registered, DtInv, DtTypeOK
  <2>6. SweepScheduled'
    <3>1. Off' = Off /\ DtPeriod # Off
      BY DtAssumption DEF DtAssumption, Off
    <3>2. CASE Registered = {}
      <4>1. ArmsSweep(dtMap')
        <5>1. {b \in DtAddrs : dtMap'[b] # 0} = {a}
          BY <2>5, <3>2 DEF Registered
        <5> QED BY <5>1, FS_Singleton, Zenon DEF ArmsSweep
      <4>2. dtSweep' # Off'
        BY <2>2, <3>1, <4>1
      <4>3. ~dtSweeping
        BY <3>2, Zenon DEF DtInv, SweepScheduled
      <4>4. Registered' # {}
        BY <2>5
      <4> QED BY <1>0, <4>2, <4>3, <4>4, Zenon DEF SweepScheduled
    <3>3. CASE Registered # {}
      <4>1. ~ArmsSweep(dtMap')
        <5> DEFINE R == {b \in DtAddrs : dtMap'[b] # 0}
        <5>1. PICK b \in Registered : TRUE
          BY <3>3
        <5>2. R = Registered \cup {a} /\ b # a
          BY <1>2, <2>5 DEF Registered
        <5>3. IsFiniteSet(R)
          <6>1. R \in SUBSET DtAddrs
            OBVIOUS
          <6> HIDE DEF R
          <6> QED BY <6>1, FS_Subset, DtAssumption DEF DtAssumption
        <5>4. ~\E x : R = {x}
          <6> HIDE DEF R
          <6> QED BY <5>1, <5>2
        <5>5. Cardinality(R) # 1
          <6> HIDE DEF R
          <6> QED BY <5>3, <5>4, FS_Singleton
        <5> QED BY <5>5, Zenon DEF ArmsSweep
      <4>2. dtSweep' = dtSweep
        BY <2>2, <4>1
      <4>3. Registered' # {}
        BY <2>5
      <4> QED BY <1>0, <3>1, <3>3, <4>2, <4>3, Zenon DEF DtInv, SweepScheduled
    <3> QED BY <3>2, <3>3
  <2>7. AssociationsApart'
    <3>1. \A b \in Registered : b # a /\ b \in DtAddrs /\ dtMap'[b] = dtMap[b]
      BY <1>2, <2>2 DEF Registered, DtInv, DtTypeOK
    <3>2. dtMap'[a] = id
      BY <1>0, <2>2 DEF DtInv, DtTypeOK
    <3>3. \A b, c \in Registered' : dtMap'[b] = dtMap'[c] => b = c
      BY <2>3, <2>5, <3>1, <3>2 DEF DtInv, AssociationsApart
    <3>4. \A g \in DtFibers : dtFib'[g].pc = "use" => dtFib'[g] = dtFib[g]
      BY <1>0, IdleState DEF DtInv, DtTypeOK
    <3>5. \A g \in DtFibers, b \in Registered' :
            dtFib'[g].pc = "use" /\ dtFib'[g].id = dtMap'[b] => dtFib'[g].addr = b
      BY <2>3, <2>5, <3>1, <3>2, <3>4 DEF DtInv, AssociationsApart
    <3> QED BY <3>3, <3>5 DEF AssociationsApart
  <2> QED BY <2>4, <2>6, <2>7 DEF DtInv
<1> QED BY <1>1, <1>2

LEMMA SweepInactiveStep == ASSUME DtInv, SweepInactive PROVE DtInv'
<1>1. /\ dtSweeping /\ dtSweeping' = FALSE /\ dtFib' = dtFib
      /\ dtMap' = [a \in DtAddrs |->
                     IF dtMap[a] # 0 /\ dtAge[dtMap[a]] > DtPeriod THEN 0 ELSE dtMap[a]]
      /\ dtSweep' = IF SweepRearms(dtMap') THEN DtPeriod ELSE dtSweep
  BY Zenon DEF SweepInactive
<1>2. DtPeriod \in 0..Off /\ Off' = Off /\ DtPeriod # Off
  BY DtAssumption DEF DtAssumption, Off
<1>3. \A a \in DtAddrs : dtMap'[a] = 0 \/ dtMap'[a] = dtMap[a]
  BY <1>1
<1>4. DtTypeOK'
  <2>1. (dtMap \in [DtAddrs -> Nat])'
    BY <1>1 DEF DtInv, DtTypeOK
  <2>2. (dtSweep \in 0..Off)'
    BY <1>1, <1>2 DEF DtInv, DtTypeOK
  <2>3. (dtSweeping \in BOOLEAN)'
    BY <1>1, Zenon
  <2>4. (dtFib \in [DtFibers -> FibStates])'
    BY <1>1 DEF DtInv, DtTypeOK
  <2> QED BY <2>1, <2>2, <2>3, <2>4 DEF DtTypeOK
<1>5. UserInv'
  BY <1>1 DEF DtInv, UserInv
<1>6. SweepScheduled'
  <2>1. Registered' # {} <=> SweepRearms(dtMap')
    BY DEF Registered, SweepRearms
  <2>2. dtSweep = Off /\ ~dtSweeping'
    BY <1>1, Zenon DEF DtInv, SweepScheduled
  <2>3. Registered' # {} <=> dtSweep' # Off'
    BY <1>1, <1>2, <2>1, <2>2
  <2> QED BY <2>2, <2>3, Zenon DEF SweepScheduled
<1>7. AssociationsApart'
  <2>1. \A a \in Registered' : a \in Registered /\ dtMap'[a] = dtMap[a]
    BY <1>3 DEF Registered
  <2> QED BY <1>1, <2>1 DEF DtInv, AssociationsApart
<1> QED BY <1>4, <1>5, <1>6, <1>7 DEF DtInv

LEMMA DtNextInv == DtInv /\ [DtNext]_dtVars => DtInv'
<1> SUFFICES ASSUME DtInv, [DtNext]_dtVars PROVE DtInv'
  OBVIOUS
<1>0. Off' = Off /\ Off \in Nat /\ DtPeriod \in Nat /\ Off = DtPeriod + 1
  BY DtAssumption DEF DtAssumption, Off
<1>1. ASSUME NEW f \in DtFibers, NEW a \in DtAddrs, NEW k \in RecvKinds, IoAvail(f, a, k)
      PROVE  DtInv'
  <2> DEFINE r == [pc |-> k, addr |-> a, id |-> 0]
  <2>1. /\ r \in FibStates /\ r.pc \notin {"idle", "use"} /\ r.addr \in DtAddrs /\ r.id = 0
    BY DEF FibStates, RecvKinds
  <2>2. dtFib' = [dtFib EXCEPT ![f] = r] /\ UNCHANGED <<dtMap, dtSweep, dtSweeping>>
    BY <1>1 DEF IoAvail
  <2> HIDE DEF r
  <2> QED BY <2>1, <2>2, FiberStep
<1>2. ASSUME NEW f \in DtFibers, StunRefused(f) \/ AssociationUses(f) PROVE DtInv'
  <2>1. dtFib' = [dtFib EXCEPT ![f] = Idle] /\ UNCHANGED <<dtMap, dtSweep, dtSweeping>>
    BY <1>2 DEF StunRefused, AssociationUses
  <2> QED BY <2>1, IdleState, FiberStep
<1>3. ASSUME NEW f \in DtFibers, RegisterAssociation(f) PROVE DtInv'
  BY <1>3, RegisterStep
<1>4. ASSUME NEW f \in DtFibers, RecvMsg(f) PROVE DtInv'
  <2> DEFINE id == dtMap[dtFib[f].addr]
             r == [dtFib[f] EXCEPT !.pc = "use", !.id = id]
  <2>1. /\ dtFib' = [dtFib EXCEPT ![f] = IF id = 0 THEN Idle ELSE r]
        /\ UNCHANGED <<dtMap, dtSweep, dtSweeping>>
        /\ dtFib[f].addr \in DtAddrs /\ dtFib[f] \in FibStates /\ id \in Nat
    BY <1>4 DEF RecvMsg, DtInv, UserInv, DtTypeOK
  <2>2. CASE id = 0
    <3>1. dtFib' = [dtFib EXCEPT ![f] = Idle]
      BY <2>1, <2>2
    <3> QED BY <2>1, <3>1, IdleState, FiberStep
  <2>3. CASE id # 0
    <3>1. /\ r \in FibStates /\ r.pc = "use" /\ r.addr = dtFib[f].addr /\ r.id = id
          /\ r.id = dtMap[r.addr] /\ r.addr \in DtAddrs
      BY <2>1 DEF FibStates
    <3>2. dtFib' = [dtFib EXCEPT ![f] = r]
      BY <2>1, <2>3
    <3>3. r.id # 0
      BY <2>3, <3>1
    <3> HIDE DEF r, id
    <3> QED BY <2>1, <3>1, <3>2, <3>3, FiberStep
  <2> QED BY <2>2, <2>3
<1>5. ASSUME dtMap' = dtMap, dtFib' = dtFib, (dtSweep \in 0..Off)', (dtSweeping \in BOOLEAN)',
             SweepScheduled'
      PROVE  DtInv'
  BY <1>5 DEF DtInv, DtTypeOK, UserInv, AssociationsApart, Registered
<1>6. CASE Tick
  <2>1. /\ ~dtSweeping /\ dtSweeping' = dtSweeping /\ dtMap' = dtMap /\ dtFib' = dtFib
        /\ dtSweep # 0 /\ dtSweep' = IF dtSweep = Off THEN Off ELSE dtSweep - 1
    BY <1>6, Zenon DEF Tick
  <2>2. dtSweep \in 0..Off
    BY DEF DtInv, DtTypeOK
  <2>3. (dtSweep \in 0..Off)' /\ (dtSweep' = Off <=> dtSweep = Off)
    BY <1>0, <2>1, <2>2
  <2>4. (dtSweeping \in BOOLEAN)'
    BY <2>1, Zenon DEF DtInv, DtTypeOK
  <2>5. Registered' = Registered
    BY <2>1 DEF Registered
  <2>6. SweepScheduled'
    BY <1>0, <2>1, <2>3, <2>5, Zenon DEF DtInv, SweepScheduled
  <2> QED BY <1>5, <2>1, <2>3, <2>4, <2>6
<1>7. CASE SweepFires
  <2>1. /\ dtSweeping' = TRUE /\ dtMap' = dtMap /\ dtFib' = dtFib /\ dtSweep = 0 /\ dtSweep' = Off
    BY <1>7, Zenon DEF SweepFires
  <2>2. (dtSweep \in 0..Off)' /\ dtSweep # Off
    BY <1>0, <2>1
  <2>3. (dtSweeping \in BOOLEAN)'
    BY <2>1, Zenon
  <2>4. Registered' = Registered
    BY <2>1 DEF Registered
  <2>5. SweepScheduled'
    BY <1>0, <2>1, <2>2, <2>4, Zenon DEF DtInv, SweepScheduled
  <2> QED BY <1>5, <2>1, <2>2, <2>3, <2>5
<1>8. CASE SweepInactive
  BY <1>8, SweepInactiveStep
<1>9. CASE UNCHANGED dtVars
  <2>1. UNCHANGED <<dtMap, dtFib, dtSweep, dtSweeping>>
    BY <1>9 DEF dtVars
  <2>2. Registered' = Registered
    BY <2>1 DEF Registered
  <2>3. (dtSweep \in 0..Off)'
    BY <1>0, <2>1 DEF DtInv, DtTypeOK
  <2>4. (dtSweeping \in BOOLEAN)' /\ SweepScheduled'
    BY <1>0, <2>1, <2>2, Zenon DEF DtInv, DtTypeOK, SweepScheduled
  <2> QED BY <1>5, <2>1, <2>3, <2>4
<1> QED BY <1>1, <1>2, <1>3, <1>4, <1>6, <1>7, <1>8, <1>9 DEF DtNext

(* For any addresses, fibers and period, and however registrations, sweeps *)
(* and datagrams interleave: dtls_dispatch has one sweep scheduled or      *)
(* under way while it has associations and none otherwise, and no two      *)
(* addresses share an association.                                         *)
THEOREM SweepsAreScheduled == DtSpec => [](SweepScheduled /\ AssociationsApart)
<1>1. DtInv => SweepScheduled /\ AssociationsApart
  BY DEF DtInv
<1> QED BY <1>1, DtInitInv, DtNextInv, PTL DEF DtSpec

-----------------------------------------------------------------------------
(* The composition.                                                        *)

(* In the composition each part behaves as it does on its own.             *)
LEMMA PartsOfSpec ==
    Spec => HcSpec /\ HlSpec /\ TpSpec /\ RdSpec /\ H2Spec /\ ScSpec /\ DtSpec
<1>1. Init => HcInit /\ HlInit /\ TpInit /\ RdInit /\ H2Init /\ ScInit /\ DtInit
  BY Zenon DEF Init
<1>2. [Next]_vars => /\ [HcNext]_hcVars /\ [HlNext]_hlVars /\ [TpNext]_tpVars
                     /\ [RdNext]_rdVars /\ [H2Next]_h2Vars /\ [ScNext]_scVars
                     /\ [DtNext]_dtVars
  BY Zenon DEF Next, vars
<1> QED BY <1>1, <1>2, PTL DEF Spec, HcSpec, HlSpec, TpSpec, RdSpec, H2Spec, ScSpec, DtSpec

(* For any sizes of buffers, headers and bodies, any routes, requests and  *)
(* query strings, and however the bytes arrive: http_server gives handlers *)
(* the requests as they were sent, http_client returns the response as it  *)
(* was sent, and request_dispatcher finds the handler that was registered. *)
THEOREM HttpProtocols == Spec => []HttpAsSent
<1>1. RequestsAsSent /\ ResponseAsSent /\ RoutesSound => HttpAsSent
  BY DEF HttpAsSent
<1> QED BY <1>1, PartsOfSpec, RequestsReceived, ResponseReceived, RoutesFound, PTL

(* The rest of what the run of the protocols checks in every state, of the *)
(* composition: tls_pipe's ownership, http2's streams, sctp's SACKs and    *)
(* the sweeps of dtls_dispatch.                                            *)
THEOREM ProtocolsSafe ==
    Spec => [](TlsOwned /\ Demultiplexed /\ SackExact /\ SweepScheduled /\ AssociationsApart)
  BY PartsOfSpec, TlsIsOwned, StreamsDemultiplexed, SacksAreExact, SweepsAreScheduled, PTL
=============================================================================
