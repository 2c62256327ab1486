---------------------------- MODULE SctpDispatch ----------------------------
(***************************************************************************)
(* sctp_dispatch and data_channel_dispatch: what the server makes of the   *)
(* SCTP packets of one association, which may be lost, duplicated and      *)
(* reordered on the way, and what its SACK chunks acknowledge.             *)
(*                                                                         *)
(* A transmission sequence number (tsn) is a 32 bit number: here a number  *)
(* modulo ScMod.  The peer numbers its DATA chunks from scFirst on; chunk  *)
(* 1 opens a data channel, each other one is a complete string, which is   *)
(* acknowledged, or a binary message or a fragment, which is not.          *)
(***************************************************************************)
EXTENDS Integers, FiniteSetsExt

CONSTANTS ScMod,    \* number of tsns
          ScMsgs,   \* DATA chunks the peer sends
          ScOffsets,  \* number of offsets of a gap block: they have 16 bits
          ScMaxInits

ASSUME ScAssumption ==
    ScMod \in Nat /\ ScOffsets \in Nat \ {0} /\ ScMsgs \in 1..(ScMod - 1)

VARIABLES
    scFirst,    \* the initial tsn of the peer
    scKind,     \* chunk -> "open", "string", "other"
    scTag,      \* verification_tag is set
    scLast,     \* last_complete_tsn
    scTsns,     \* tsns
    scDups,     \* duplicate_tsns
    scOpen,     \* the data channel is in streams
    scSack,     \* the last SACK behind the last INIT: [cum, gaps, dups],
                \* cum the cumulative tsn ack; NoSack when there was none
    scInits,    \* INIT chunks handled
    scGot,      \* tsns of the chunks that were taken (history)
    scTold,     \* those that were taken when a SACK was sent last (history)
    scEarly     \* a chunk was taken before the last INIT (history)

scVars == <<scFirst, scKind, scTag, scLast, scTsns, scDups, scOpen, scSack, scInits,
            scGot, scTold, scEarly>>

NoSack == [cum |-> -1, gaps |-> {}, dups |-> {}]

Plus(t, n) == (t + n) % ScMod
Minus(t, n) == (t + ScMod - n) % ScMod
Tsn(i) == Plus(scFirst, i - 1)

ScInit ==
    /\ scFirst \in 0..(ScMod - 1)
    /\ scKind \in [1..ScMsgs -> {"open", "string", "other"}]
    /\ \A i \in 1..ScMsgs : scKind[i] = "open" <=> i = 1
    /\ scTag = FALSE /\ scLast = 0 /\ scTsns = {} /\ scDups = {} /\ scOpen = FALSE
    /\ scSack = NoSack /\ scInits = 0 /\ scGot = {} /\ scTold = {} /\ scEarly = FALSE

-----------------------------------------------------------------------------
(* send_acks: last_complete_tsn moves over the tsns at the front of the    *)
(* ordered set that follow it, which are removed: below each of them there *)
(* are only those removed before it.                                       *)
Behind(last, n) == {Plus(last, j) : j \in 1..n}
Moves(last, tsns) ==
    Max({n \in 0..ScMod : \A j \in 1..n :
           /\ Plus(last, j) \in tsns
           /\ {t \in tsns : t < Plus(last, j)} = Behind(last, j - 1)})

(* The others make up gap blocks, counted from it.                         *)
Block(tsns, x, y) ==
    x <= y /\ x..y \subseteq tsns /\ x - 1 \notin tsns /\ y + 1 \notin tsns
Offset(t, last) == Minus(t, last) % ScOffsets

(* Mutant: a gap block ends where it begins.                               *)
GapsOfStarts(last, tsns) ==
    {<<Offset(b[1], last), Offset(b[1], last)>> :
       b \in {xy \in tsns \X tsns : Block(tsns, xy[1], xy[2])}}
Gaps(last, tsns) ==
    {<<Offset(b[1], last), Offset(b[2], last)>> :
       b \in {xy \in tsns \X tsns : Block(tsns, xy[1], xy[2])}}

(* A duplicate is written as 16 bits, the 16 bits behind them stay 0.      *)
SendAcks(last, tsns, dups) ==
    LET cum == Plus(last, Moves(last, tsns))
        rest == tsns \ Behind(last, Moves(last, tsns))
    IN /\ scLast' = cum /\ scTsns' = rest
       /\ scSack' = [cum |-> cum, gaps |-> Gaps(cum, rest),
                     dups |-> {(t % ScOffsets) * ScOffsets : t \in dups}]

(* recv_msg: the chunks of a packet are handled in turn, and a SACK is     *)
(* sent behind the last one; when a chunk's length is wrong or it is cut   *)
(* off, parse_sctp_chunks returns false and none is sent for those before  *)
(* it.  So a chunk is followed by a SACK, or by the next chunk, or by      *)
(* nothing.                                                                *)
EndChunk(sacked, last, tsns, dups) ==
    \/ /\ sacked /\ SendAcks(last, tsns, dups)
       /\ scDups' = {} /\ scTold' = scGot'
    \/ /\ ~sacked /\ scLast' = last /\ scTsns' = tsns /\ scDups' = dups
       /\ UNCHANGED <<scSack, scTold>>

(* do_chunk_init: an INIT that is too short or has an option that is not   *)
(* known is refused, the latter after last_complete_tsn was set, and       *)
(* nothing is sent.                                                        *)
DoChunkInit(init, sacked) ==
    /\ scInits < ScMaxInits /\ scInits' = scInits + 1 /\ scEarly' = (scGot # {})
    /\ UNCHANGED <<scFirst, scKind, scOpen, scGot>>
    /\ \/ /\ init = "known" /\ sacked /\ scTag' = TRUE
          /\ EndChunk(TRUE, Minus(scFirst, 1), scTsns \cup {scFirst}, scDups)
       \/ /\ init = "known" /\ ~sacked /\ scTag' = TRUE
          /\ scLast' = Minus(scFirst, 1) /\ scTsns' = scTsns \cup {scFirst}
          /\ scSack' = NoSack /\ UNCHANGED <<scDups, scTold>>
       \/ /\ init # "known" /\ ~sacked /\ scTag' = FALSE
          /\ scLast' = (IF init = "unknown" THEN Minus(scFirst, 1) ELSE scLast)
          /\ scSack' = NoSack /\ UNCHANGED <<scTsns, scDups, scTold>>

(* The callback that data_channel_dispatch is given: a tsn beyond the      *)
(* complete ones is added, or noted as a duplicate.                        *)
AddChunk(t, sacked) ==
    IF t > scLast THEN EndChunk(sacked, scLast, scTsns \cup {t}, scDups \cup (scTsns \cap {t}))
                  ELSE EndChunk(sacked, scLast, scTsns, scDups)

(* recv_data_chunk, before an INIT as well as behind it: do_dcep opens the *)
(* channel, do_data takes a string of an open channel; anything else is    *)
(* dropped.                                                                *)
RecvDataChunk(i, sacked) ==
    /\ \/ /\ scKind[i] = "open" \/ (scKind[i] = "string" /\ scOpen)
          /\ scGot' = scGot \cup {Tsn(i)} /\ AddChunk(Tsn(i), sacked) /\ scOpen' = TRUE
       \/ /\ scKind[i] = "other" \/ (scKind[i] = "string" /\ ~scOpen)
          /\ UNCHANGED <<scGot, scOpen>> /\ EndChunk(sacked, scLast, scTsns, scDups)
    /\ UNCHANGED <<scFirst, scKind, scTag, scInits, scEarly>>

(* parse_sctp_chunks, the other chunks: HEARTBEAT and COOKIE_ECHO are      *)
(* answered, the rest is logged.                                           *)
RecvOtherChunk(sacked) ==
    /\ UNCHANGED <<scFirst, scKind, scTag, scOpen, scInits, scGot, scEarly>>
    /\ EndChunk(sacked, scLast, scTsns, scDups)

ScNext ==
    \/ \E init \in {"known", "unknown", "short"}, sacked \in BOOLEAN : DoChunkInit(init, sacked)
    \/ \E i \in 1..ScMsgs, sacked \in BOOLEAN : RecvDataChunk(i, sacked)
    \/ \E sacked \in BOOLEAN : RecvOtherChunk(sacked)

ScSpec == ScInit /\ [][ScNext]_scVars

-----------------------------------------------------------------------------
(* The tsns that a SACK acknowledges.                                      *)
Acknowledged ==
    IF ~scTag \/ scSack = NoSack THEN {} ELSE
    {Tsn(i) : i \in {j \in 1..ScMsgs :
       \/ Minus(Tsn(j), scFirst) <= Minus(scSack.cum, scFirst)
       \/ \E g \in scSack.gaps : Minus(Tsn(j), scSack.cum) \in g[1]..g[2]}}

(* However the packets are lost, reordered, duplicated and put together,   *)
(* and though some end in a chunk that makes their SACK be left out, a     *)
(* SACK covers exactly the tsns that were taken when it was sent and the   *)
(* initial one, which the code counts as received with the INIT; while the *)
(* numbers do not wrap, their distances fit into a gap block and no DATA   *)
(* came before the INIT, or its repetition.                                *)
SackExact ==
    /\ scTag /\ ~scEarly /\ scSack # NoSack
    /\ scFirst # 0 /\ scFirst + ScMsgs < ScMod /\ ScMsgs <= ScOffsets
    => Acknowledged = scTold \cup {scFirst}

(* sctp_dispatch.cpp 444-446: last_complete_tsn accounts for the tsns that *)
(* were received; none is acknowledged that was not.                       *)
AckedReceived == scInits = 1 => Acknowledged \subseteq scGot
=============================================================================
