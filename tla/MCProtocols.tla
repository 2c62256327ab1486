---------------------------- MODULE MCProtocols ----------------------------
(***************************************************************************)
(* The protocols on top of the pipes and of udp, each on its own, as in    *)
(* MCNames.  What a part that does not move would choose at first is fixed.*)
(***************************************************************************)
EXTENDS HttpConn, HttpClient, TlsPipe, RequestDispatcher, Http2, SctpDispatch, DtlsDispatch

VARIABLE part

vars == <<part, hcVars, hlVars, tpVars, rdVars, h2Vars, scVars, dtVars>>

Init ==
    /\ part \in {"server", "client", "tls", "routes", "http2", "sctp", "dtls"}
    /\ TpInit /\ H2Init /\ DtInit
    /\ HcInit
    /\ part # "server" => hcWhole /\ hcWaits /\ \A i \in 1..HcReqs : hcSize[i] = [h |-> 1, b |-> 0]
    /\ HlInit
    /\ part # "client" => /\ hlInterim = "apart" /\ hlSkips = 0 /\ hlLen = 0 /\ hlCode = "ok" /\ hlFramed
                          /\ hlReadBody /\ hlThrows
    /\ RdInit
    /\ part # "routes" => rdCors = {}
    /\ ScInit
    /\ part # "sctp" => scFirst = 0 /\ \A i \in 2..ScMsgs : scKind[i] = "string"

Next ==
    /\ UNCHANGED part
    /\ \/ part = "server" /\ HcNext /\ UNCHANGED <<hlVars, tpVars, rdVars, h2Vars, scVars, dtVars>>
       \/ part = "client" /\ HlNext /\ UNCHANGED <<hcVars, tpVars, rdVars, h2Vars, scVars, dtVars>>
       \/ part = "tls" /\ TpNext /\ UNCHANGED <<hcVars, hlVars, rdVars, h2Vars, scVars, dtVars>>
       \/ part = "routes" /\ RdNext /\ UNCHANGED <<hcVars, hlVars, tpVars, h2Vars, scVars, dtVars>>
       \/ part = "http2" /\ H2Next /\ UNCHANGED <<hcVars, hlVars, tpVars, rdVars, scVars, dtVars>>
       \/ part = "sctp" /\ ScNext /\ UNCHANGED <<hcVars, hlVars, tpVars, rdVars, h2Vars, dtVars>>
       \/ part = "dtls" /\ DtNext /\ UNCHANGED <<hcVars, hlVars, tpVars, rdVars, h2Vars, scVars>>

Spec == Init /\ [][Next]_vars /\ H2Fairness /\ DtFairness

-----------------------------------------------------------------------------
(* Routes over two segments, each a, ab or a variable, and what is asked.  *)
segA == <<5>>
segAb == <<5, 6>>
Specs == {<<x>> : x \in {segA, segAb, Var}} \cup {<<x, y>> : x, y \in {segA, segAb, Var}}
Paths == {<<x>> : x \in {segA, segAb, <<>>}} \cup {<<x, y>> : x, y \in {segA, segAb, <<>>}}

MCRoutes ==
    [method : {"GET"}, spec : Specs, kind : {"plain"}]
      \cup [method : {"GET"}, spec : {<<segA, Var>>}, kind : {"header", "body"}]
      \cup [method : {"PUT", "DELETE"}, spec : {<<segA>>, <<Var>>}, kind : {"plain"}]

MCRequests ==
    [options : {FALSE}, method : {"GET"}, path : Paths, header : BOOLEAN, length : {"none", "json"}]
      \cup [options : {FALSE}, method : {"PUT"}, path : {<<>>, <<segA>>, <<segA, segA>>},
            header : {FALSE}, length : {"none"}]
      \cup [options : {FALSE}, method : {"GET"}, path : {<<segA, segA>>},
            header : {FALSE}, length : {"short", "long", "invalid"}]
      \cup [options : {TRUE}, method : {"", "GET", "PUT", "DELETE"}, path : {<<>>, <<segA>>, <<segA, segA>>},
            header : {FALSE}, length : {"none"}]

MCQueries ==
    UNION {[1..n -> {Amp, Eq, 4, 5}] : n \in 0..5}
      \cup UNION {[1..n -> {Amp, Eq, 4, Code + 4, Code + Amp, Code + Eq}] : n \in 1..4}
      \cup {<<5, 4, Eq, Amp>> \o q : q \in [1..3 -> {Amp, Eq, 4, 5}]}

(* Requests reach their handlers as they were sent (RequestsAsSent), the   *)
(* client gets the response that was sent (ResponseAsSent), and a request  *)
(* goes to a route that matches it (RoutesSound, where routes are made).   *)
HttpAsSent == RequestsAsSent /\ ResponseAsSent /\ (part = "routes" => RoutesSound)

(* A connection of http2 comes to its end (Http2Returns), and the sweep    *)
(* drops what is not used any more (InactiveSwept).                        *)
ProtocolsProceed == Http2Returns /\ InactiveSwept
=============================================================================
