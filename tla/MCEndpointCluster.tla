------------------------- MODULE MCEndpointCluster -------------------------
(* The kinds of trouble that the run of EndpointCluster allows.            *)
EXTENDS EndpointCluster, TLC

Various ==
    {{}, {"dns", "callback"}, {"connect", "tls"}, {"dns", "tls", "no_retries"},
     {"callback", "no_retries"}, {"dns", "erase_all"}}

Symmetry == Permutations(Clients)
=============================================================================
