------------------------------- MODULE Http2 -------------------------------
(***************************************************************************)
(* http2::run of http2.cpp: one fiber reads the frames of a connection and *)
(* forwards each to the fiber that handles its stream, through a socket    *)
(* pair; when it returns, handlers_t closes the socket pairs and joins the *)
(* fibers, which write to the connection that run's caller owns.           *)
(*                                                                         *)
(* A frame is a header token and as many payload tokens as its length.     *)
(* Frames of streams 0 and 1 (control frames) are not looked at, and their *)
(* payload is not skipped: what follows is then taken for a frame header,  *)
(* of any stream, type and length (h2Sync is FALSE from then on).          *)
(***************************************************************************)
EXTENDS Naturals, Sequences

CONSTANTS H2Streams,    \* stream ids the peer uses
          H2Control,    \* a stream id below 2
          H2MaxFrames, H2MaxLen,
          H2PipeCap     \* tokens a socket pair holds

ASSUME H2Assumption ==
    /\ H2Control \notin H2Streams
    /\ H2MaxFrames \in Nat /\ H2MaxLen \in Nat /\ H2PipeCap \in Nat

VARIABLES
    h2Wire,    \* tokens from the peer, not read yet
    h2Open,    \* the peer has not closed
    h2Owed,    \* stream -> tokens the peer has sent on it and its handler has not read
    h2Frames,  \* frames sent
    h2Run,     \* "new", "header", "forward", "close", "join", "gone"
    h2Cur,     \* the frame being forwarded: [id, buf, left]
    h2Sync,    \* run reads the frames as the peer sent them
    h2Map,     \* handlers.map
    h2Pipe,    \* stream -> tokens in its socket pair
    h2Closed,  \* streams whose socket pair run has closed
    h2Fib      \* stream -> "none", "runs", "done"

h2Peer == <<h2Open, h2Frames>>
h2Vars == <<h2Wire, h2Peer, h2Run, h2Cur, h2Sync, h2Map, h2Pipe, h2Closed, h2Fib, h2Owed>>

Header(id, type, len, n) == [k |-> "header", id |-> id, type |-> type, len |-> len, n |-> n]
Payload(id, n) == [k |-> "payload", id |-> id, n |-> n]
NoFrame == [id |-> H2Control, buf |-> <<>>, left |-> 0]

H2Init ==
    /\ h2Wire = <<>> /\ h2Open = TRUE /\ h2Frames = 0
    /\ h2Run = "new" /\ h2Cur = NoFrame /\ h2Sync = TRUE /\ h2Map = {} /\ h2Closed = {}
    /\ h2Owed = [s \in H2Streams |-> <<>>] /\ h2Pipe = [s \in H2Streams |-> <<>>]
    /\ h2Fib = [s \in H2Streams |-> "none"]

(* The peer.  It is enough that it sends when run has read what it sent    *)
(* before: run cannot tell the difference.                                 *)
PeerSends(id, type, len) ==
    /\ h2Open /\ h2Run # "new" /\ h2Frames < H2MaxFrames /\ h2Wire = <<>>
    /\ LET ts == <<Header(id, type, len, h2Frames)>> \o [i \in 1..len |-> Payload(id, h2Frames)]
       IN /\ h2Wire' = h2Wire \o ts
          /\ h2Owed' = [s \in H2Streams |->
                       IF s = id /\ h2Sync /\ h2Fib[s] # "done" THEN h2Owed[s] \o ts ELSE h2Owed[s]]
    /\ h2Frames' = h2Frames + 1
    /\ UNCHANGED <<h2Open, h2Run, h2Cur, h2Sync, h2Map, h2Pipe, h2Closed, h2Fib>>

PeerCloses ==
    /\ h2Open /\ h2Run # "new" /\ h2Open' = FALSE
    /\ UNCHANGED <<h2Wire, h2Frames, h2Run, h2Cur, h2Sync, h2Map, h2Pipe, h2Closed, h2Fib, h2Owed>>

-----------------------------------------------------------------------------
(* http2_handler::exec: an upgrade that is not acceptable goes no further; *)
(* the other one is acknowledged and run.                                  *)
Upgrade ==
    /\ h2Run = "new" /\ h2Run' \in {"header", "gone"}
    /\ UNCHANGED <<h2Wire, h2Peer, h2Cur, h2Sync, h2Map, h2Pipe, h2Closed, h2Fib, h2Owed>>

NewHandler(id) ==
    /\ h2Map' = h2Map \cup {id} /\ h2Fib' = [h2Fib EXCEPT ![id] = "runs"]

Forwarded(h) == [id |-> h.id, buf |-> <<h>>, left |-> h.len]

(* A frame header: of a control frame, that opens a stream, of an open     *)
(* stream, or one that ends the connection, because the stream is open     *)
(* already or is not open.                                                 *)
FrameHeader(h) ==
    /\ \/ h.id = H2Control /\ UNCHANGED <<h2Run, h2Cur, h2Map, h2Fib>>
       \/ /\ h.id # H2Control /\ h.type = "HEADERS" /\ h.id \notin h2Map /\ NewHandler(h.id)
          /\ h2Run' = "forward" /\ h2Cur' = Forwarded(h)
       \/ /\ h.id # H2Control /\ h.type # "HEADERS" /\ h.id \in h2Map
          /\ h2Run' = "forward" /\ h2Cur' = Forwarded(h) /\ UNCHANGED <<h2Map, h2Fib>>
       \/ /\ h.id # H2Control /\ (h.type = "HEADERS" <=> h.id \in h2Map)
          /\ h2Run' = "close" /\ UNCHANGED <<h2Cur, h2Map, h2Fib>>
    /\ UNCHANGED <<h2Peer, h2Pipe, h2Closed>>

ReadHeader ==
    /\ h2Run = "header" /\ h2Wire # <<>> /\ h2Wire' = Tail(h2Wire)
    /\ IF Head(h2Wire).k = "header" /\ h2Sync
       THEN FrameHeader(Head(h2Wire)) /\ UNCHANGED <<h2Sync, h2Owed>>
       ELSE /\ h2Sync' = FALSE /\ h2Owed' = [s \in H2Streams |-> <<>>]
            /\ \E id \in H2Streams \cup {H2Control}, type \in {"HEADERS", "DATA"},
                  len \in 0..H2MaxLen : FrameHeader(Header(id, type, len, H2MaxFrames))

(* What was read of the frame is written to the handler's socket pair; the *)
(* write waits for room.  A handler that has returned has closed its end,  *)
(* and the write throws.                                                   *)
WriteToHandler ==
    /\ h2Run = "forward" /\ h2Cur.buf # <<>>
    /\ \/ /\ h2Fib[h2Cur.id] = "runs" /\ Len(h2Pipe[h2Cur.id]) < H2PipeCap
          /\ h2Pipe' = [h2Pipe EXCEPT ![h2Cur.id] = Append(@, Head(h2Cur.buf))]
          /\ h2Cur' = [h2Cur EXCEPT !.buf = Tail(@)]
          /\ h2Run' = IF h2Cur.left = 0 /\ Len(h2Cur.buf) = 1 THEN "header" ELSE "forward"
       \/ h2Fib[h2Cur.id] = "done" /\ h2Run' = "close" /\ UNCHANGED <<h2Pipe, h2Cur>>
    /\ UNCHANGED <<h2Wire, h2Peer, h2Sync, h2Map, h2Closed, h2Fib, h2Owed>>

ReadPayload ==
    /\ h2Run = "forward" /\ h2Cur.buf = <<>> /\ h2Cur.left > 0 /\ h2Wire # <<>>
    /\ h2Cur' = [h2Cur EXCEPT !.buf = <<Head(h2Wire)>>, !.left = @ - 1]
    /\ h2Wire' = Tail(h2Wire)
    /\ UNCHANGED <<h2Peer, h2Run, h2Sync, h2Map, h2Pipe, h2Closed, h2Fib, h2Owed>>

(* The connection is at its end and the read throws.                       *)
ReadThrows ==
    /\ h2Run = "header" \/ (h2Run = "forward" /\ h2Cur.buf = <<>>)
    /\ ~h2Open /\ h2Wire = <<>> /\ h2Run' = "close"
    /\ UNCHANGED <<h2Wire, h2Peer, h2Cur, h2Sync, h2Map, h2Pipe, h2Closed, h2Fib, h2Owed>>

(* Mutant: the socket pair is not closed before the join.                  *)
JoinBeforeClose ==
    /\ h2Run = "close"
    /\ IF h2Map = {} THEN h2Run' = "gone" /\ UNCHANGED <<h2Cur, h2Closed>>
       ELSE \E s \in h2Map :
              h2Run' = "join" /\ h2Cur' = [NoFrame EXCEPT !.id = s] /\ UNCHANGED h2Closed
    /\ UNCHANGED <<h2Wire, h2Peer, h2Sync, h2Map, h2Pipe, h2Fib, h2Owed>>

(* ~handlers_t: one stream after the other, closed and joined.             *)
CloseStream ==
    /\ h2Run = "close"
    /\ IF h2Map = {} THEN h2Run' = "gone" /\ UNCHANGED <<h2Cur, h2Closed>>
       ELSE \E s \in h2Map :
              /\ h2Run' = "join" /\ h2Cur' = [NoFrame EXCEPT !.id = s]
              /\ h2Closed' = h2Closed \cup {s}
    /\ UNCHANGED <<h2Wire, h2Peer, h2Sync, h2Map, h2Pipe, h2Fib, h2Owed>>

(* Mutant: the fiber is not joined.                                        *)
JoinSkipped ==
    /\ h2Run = "join"
    /\ h2Run' = "close" /\ h2Map' = h2Map \ {h2Cur.id}
    /\ UNCHANGED <<h2Wire, h2Peer, h2Cur, h2Sync, h2Pipe, h2Closed, h2Fib, h2Owed>>
JoinStream ==
    /\ h2Run = "join" /\ h2Fib[h2Cur.id] = "done"
    /\ h2Run' = "close" /\ h2Map' = h2Map \ {h2Cur.id}
    /\ UNCHANGED <<h2Wire, h2Peer, h2Cur, h2Sync, h2Pipe, h2Closed, h2Fib, h2Owed>>

-----------------------------------------------------------------------------
(* The handler of stream s reads, meets the end of its socket pair, or     *)
(* returns when it likes.                                                  *)
HandlerReads(s) ==
    /\ h2Fib[s] = "runs" /\ h2Pipe[s] # <<>>
    /\ h2Pipe' = [h2Pipe EXCEPT ![s] = Tail(@)]
    /\ h2Owed' = [h2Owed EXCEPT ![s] = IF @ = <<>> THEN @ ELSE Tail(@)]
    /\ UNCHANGED <<h2Wire, h2Peer, h2Run, h2Cur, h2Sync, h2Map, h2Closed, h2Fib>>

HandlerEnds(s) ==
    /\ h2Fib[s] = "runs" /\ h2Pipe[s] = <<>> /\ s \in h2Closed
    /\ h2Fib' = [h2Fib EXCEPT ![s] = "done"] /\ h2Owed' = [h2Owed EXCEPT ![s] = <<>>]
    /\ UNCHANGED <<h2Wire, h2Peer, h2Run, h2Cur, h2Sync, h2Map, h2Pipe, h2Closed>>

HandlerReturns(s) ==
    /\ h2Fib[s] = "runs"
    /\ h2Fib' = [h2Fib EXCEPT ![s] = "done"] /\ h2Pipe' = [h2Pipe EXCEPT ![s] = <<>>]
    /\ h2Owed' = [h2Owed EXCEPT ![s] = <<>>]
    /\ UNCHANGED <<h2Wire, h2Peer, h2Run, h2Cur, h2Sync, h2Map, h2Closed>>

H2RunStep == ReadHeader \/ WriteToHandler \/ ReadPayload \/ ReadThrows \/ CloseStream \/ JoinStream

H2Next ==
    \/ Upgrade \/ H2RunStep \/ PeerCloses
    \/ \E id \in H2Streams \cup {H2Control}, type \in {"HEADERS", "DATA"}, len \in 0..H2MaxLen :
         PeerSends(id, type, len)
    \/ \E s \in H2Streams : HandlerReads(s) \/ HandlerEnds(s) \/ HandlerReturns(s)

H2Fairness ==
    /\ WF_h2Vars(H2RunStep)
    /\ \A s \in H2Streams : WF_h2Vars(HandlerReads(s) \/ HandlerEnds(s))

H2Spec == H2Init /\ [][H2Next]_h2Vars

-----------------------------------------------------------------------------
(* What of stream s is on its way: the peer has one frame under way, so it *)
(* is all that is, or nothing.                                             *)
WireOf(s) == IF \E i \in DOMAIN h2Wire : h2Wire[i].id = s THEN h2Wire ELSE <<>>

(* While run reads in step with the peer, each stream's handler is given   *)
(* that stream's frames, in the order they were sent and whole, however    *)
(* the streams are mixed and however slowly the handlers read: while it    *)
(* runs nothing of what was sent is missing or twice.  And no fiber runs   *)
(* any more when run has returned: they use its caller's connection.       *)
Demultiplexed ==
    /\ h2Sync /\ h2Run \in {"header", "forward"} =>
         \A s \in H2Streams : h2Fib[s] = "runs" =>
           h2Pipe[s] \o (IF h2Cur.id = s THEN h2Cur.buf ELSE <<>>) \o WireOf(s) = h2Owed[s]
    /\ h2Run = "gone" => \A s \in H2Streams : h2Fib[s] # "runs"

(* Once the peer has closed, run returns.                                  *)
Http2Returns == ~h2Open ~> h2Run = "gone"
=============================================================================
