------------------------------ MODULE MCNames ------------------------------
(***************************************************************************)
(* The fibers' life cycle and three users of fibers, each on its own:      *)
(* part says which of them moves in a behaviour, the others stay in their  *)
(* initial states.                                                         *)
(***************************************************************************)
EXTENDS DnsCache, DnsLookup, TcpServer, FiberLife

VARIABLE part

vars == <<part, dnsVars, lkVars, tcpVars, flVars>>

Init ==
    /\ part \in {"dns", "lookup", "tcp", "life"}
    /\ DnsInit /\ LkInit /\ TcpInit /\ FlInit

Next ==
    /\ UNCHANGED part
    /\ \/ part = "dns" /\ DnsNext /\ UNCHANGED <<lkVars, tcpVars, flVars>>
       \/ part = "lookup" /\ LkNext /\ UNCHANGED <<dnsVars, tcpVars, flVars>>
       \/ part = "tcp" /\ TcpNext /\ UNCHANGED <<dnsVars, lkVars, flVars>>
       \/ part = "life" /\ FlNext /\ UNCHANGED <<dnsVars, lkVars, tcpVars>>

Spec == Init /\ [][Next]_vars /\ DnsFairness /\ LkFairness /\ TcpFairness

(* Whoever asks for the addresses of a host is answered, by the cache      *)
(* (DnsAnswered) and by the lookup service (LookupsAnswered), and whoever  *)
(* stops a server sees it stop (StopNoticed).                              *)
CallersAnswered == DnsAnswered /\ LookupsAnswered /\ StopNoticed
=============================================================================
