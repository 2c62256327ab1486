--------------------------- MODULE EndpointCluster ---------------------------
(***************************************************************************)
(* endpoint_cluster (src/cpp/epc.h, src/cpp/epc.cpp): connections to the   *)
(* addresses of a host, shared by the fibers that call                     *)
(* with_connected_pipe.                                                    *)
(*                                                                         *)
(* The cluster keeps the endpoints it knows of, one for an address, and    *)
(* has one fiber look the addresses up when it knows none or has not       *)
(* looked for a while.  An endpoint counts the requests under way, lets at *)
(* most max_conn_per_ep_ of them in, and keeps the idle sockets.  It is an *)
(* object of its own: it stays behind, with the fibers that wait for it,   *)
(* when it is erased from the cluster, and a lookup that finds the address *)
(* again makes another object.                                             *)
(*                                                                         *)
(* A critical section on the cluster's mtx_ or on an endpoint's mtx_ is    *)
(* one action.  Whether it is time for a lookup, whether an idle socket is *)
(* too old and which endpoint the round robin arrives at are left open.    *)
(***************************************************************************)
EXTENDS Integers, FiniteSets, FiniteSetsExt

CONSTANTS
    Clients,    \* the fibers that call with_connected_pipe
    Addrs,      \* the addresses of the host
    MaxConn,    \* max_conn_per_ep_
    MaxTries,   \* attempts before the sleep exceeds 30 seconds
    MaxCalls,   \* bound: calls of with_connected_pipe
    Troubles    \* what may go wrong, one set of it for a behaviour

Trouble == {"dns", "connect", "tls", "callback", "no_retries", "erase_all"}

ASSUME EndpointClusterAssumption ==
    /\ IsFiniteSet(Clients)
    /\ MaxConn \in Nat \ {0}
    /\ MaxTries \in Nat \ {0}
    /\ MaxCalls \in Nat
    /\ Troubles \subseteq SUBSET Trouble

(* The endpoint objects of an address: at most one is in the cluster and   *)
(* each of the others has a client that refers to it.                      *)
Endpoints == Addrs \X (0..Cardinality(Clients))
NoEndpoint == <<>>

VARIABLES
    endpoints,      \* endpoints_
    lookingUp,      \* looking_up_endpoints_
    lookupErr,      \* lookup_err_ is set
    obj,            \* obj[e]: the object e, with outstanding_requests_, the
                    \* number of sockets in socks_ and error_
    pc,             \* pc[c]: what client c does next
    ep,             \* ep[c]: the endpoint it has picked
    notified,       \* waiting clients whose fiber_cond has been notified
    tries,          \* tries[c]: attempts that ended with a fiber_io_error
    left,           \* calls still to be made
    may             \* what may go wrong in this behaviour

vars == <<endpoints, lookingUp, lookupErr, obj, pc, ep, notified, tries,
          left, may>>

NewObject == [outstanding |-> 0, socks |-> 0, error |-> FALSE]

Init ==
    /\ endpoints = {}
    /\ lookingUp = FALSE
    /\ lookupErr = FALSE
    /\ obj = [e \in Endpoints |-> NewObject]
    /\ pc = [c \in Clients |-> "idle"]
    /\ ep = [c \in Clients |-> NoEndpoint]
    /\ notified = {}
    /\ tries = [c \in Clients |-> 0]
    /\ left = MaxCalls
    /\ may \in Troubles

Goto(c, l) == pc' = [pc EXCEPT ![c] = l]
At(l, e) == {c \in Clients : pc[c] = l /\ ep[c] = e}

(* The objects become o.  One that neither the cluster nor a client refers *)
(* to any more is gone, and its name is used for a new one.  (The code     *)
(* lets it go while a callback still runs, which no one can tell.)         *)
SetObjects(o) ==
    obj' = [e \in Endpoints |->
              IF e \in endpoints' \/ \E c \in Clients : ep'[c] = e
                THEN o[e] ELSE NewObject]

(* The clients that use a connection of e or are making one.               *)
Users(e) == At("connect", e) \cup At("use", e)

(* Where an exception of the given kind takes a call: a fiber_io_error is  *)
(* caught and retried after a sleep, a fiber_io_timeout_error at once and  *)
(* with the sleeps starting over, and anything else, or anything at all    *)
(* without retries, ends the call.                                         *)
Catch(kind) ==
    IF "no_retries" \in may THEN "idle"
    ELSE CASE kind = "io"      -> "caught"
           [] kind = "timeout" -> "enter"
           [] OTHER            -> "idle"
Kinds == {"io", "timeout", "other"}

Throw(c, kind) ==
    /\ Goto(c, Catch(kind))
    /\ ep' = [ep EXCEPT ![c] = NoEndpoint]
    /\ tries' = [tries EXCEPT ![c] = IF kind = "timeout" THEN 0 ELSE @]
-----------------------------------------------------------------------------
(* update_endpoints, in its own fiber                                      *)

(* The lookup fails or finds nothing.                                      *)
LookupFailed ==
    /\ lookingUp
    /\ "dns" \in may
    /\ lookupErr' = TRUE
    /\ lookingUp' = FALSE
    /\ notified' = notified \cup {c \in Clients : pc[c] = "wait_ep"}
    /\ UNCHANGED <<endpoints, obj, pc, ep, tries, left, may>>

(* An endpoint object that nothing refers to.                              *)
FreshEndpoint(a) ==
    <<a, Min({g \in 0..Cardinality(Clients) :
                 /\ <<a, g>> \notin endpoints
                 /\ \A c \in Clients : ep[c] # <<a, g>>})>>

(* Mutant: only one of the waiting clients is woken.                       *)
LookupDoneNotifyOne(found) ==
    /\ lookingUp
    /\ ep' = ep
    /\ LET kept  == {e \in endpoints : e[1] \in found}
           fresh == {FreshEndpoint(a) : a \in {b \in found :
                                           \A e \in endpoints : e[1] # b}}
       IN /\ \E young \in SUBSET (endpoints \ kept) :
                endpoints' = kept \cup fresh \cup young
          /\ SetObjects(obj)
    /\ lookingUp' = FALSE
    /\ LET waiting == {c \in Clients : pc[c] = "wait_ep"} \ notified IN
          IF waiting = {} THEN notified' = notified
          ELSE \E c \in waiting : notified' = notified \cup {c}
    /\ UNCHANGED <<lookupErr, pc, tries, left, may>>

(* It finds some addresses: the known endpoints of those stay, the other   *)
(* known ones stay until they are old, and there are new ones for the rest.*)
LookupDone(found) ==
    /\ lookingUp
    /\ ep' = ep
    /\ LET kept  == {e \in endpoints : e[1] \in found}
           fresh == {FreshEndpoint(a) : a \in {b \in found :
                                           \A e \in endpoints : e[1] # b}}
       IN /\ \E young \in SUBSET (endpoints \ kept) :
                endpoints' = kept \cup fresh \cup young
          /\ SetObjects(obj)
    /\ lookingUp' = FALSE
    /\ notified' = notified \cup {c \in Clients : pc[c] = "wait_ep"}
    /\ UNCHANGED <<lookupErr, pc, tries, left, may>>
-----------------------------------------------------------------------------
(* with_connected_pipe and do_with_connected_pipe                          *)

Call(c) ==
    /\ pc[c] = "idle"
    /\ left > 0
    /\ left' = left - 1
    /\ tries' = [tries EXCEPT ![c] = 0]
    /\ Goto(c, "enter")
    /\ UNCHANGED <<endpoints, lookingUp, lookupErr, obj, ep, notified,
                   may>>

(* An endpoint is picked.                                                  *)
Pick(c) ==
    /\ \E e \in endpoints : ep' = [ep EXCEPT ![c] = e]
    /\ Goto(c, "picked")

(* The first critical section: a lookup is started if there is none and    *)
(* there are no endpoints or it is time (due), and with no endpoints the   *)
(* client waits.                                                           *)
Enter(c, due) ==
    /\ pc[c] = "enter"
    /\ LET lookup == (endpoints = {} \/ due) /\ ~lookingUp IN
          /\ lookingUp' = (lookingUp \/ lookup)
          /\ lookupErr' = (lookupErr /\ ~lookup)
    /\ IF endpoints = {}
         THEN Goto(c, "wait_ep") /\ ep' = ep
         ELSE Pick(c)
    /\ UNCHANGED <<endpoints, obj, notified, tries, left, may>>

(* A client that waited for the lookup has the mutex again: it throws the  *)
(* error there is, waits again or picks an endpoint.                       *)
LookupWaited(c) ==
    /\ pc[c] = "wait_ep"
    /\ c \in notified
    /\ notified' = notified \ {c}
    /\ CASE lookupErr                        -> Throw(c, "io")
         [] ~lookupErr /\ endpoints = {}     -> UNCHANGED <<pc, ep, tries>>
         [] ~lookupErr /\ endpoints # {}     -> Pick(c) /\ tries' = tries
    /\ UNCHANGED <<endpoints, lookingUp, lookupErr, obj, left, may>>

(* The second critical section, once there is room at the endpoint: with   *)
(* an error on it the client starts again; otherwise it is counted, drops  *)
(* the sockets that have been idle too long and takes the next, if any.    *)
Admit(c) ==
    LET e == ep[c] IN
    IF obj[e].error
      THEN /\ Goto(c, "enter")
           /\ ep' = [ep EXCEPT ![c] = NoEndpoint]
           /\ SetObjects(obj)
      ELSE \E old \in 0..obj[e].socks :
              /\ Goto(c, IF old = obj[e].socks THEN "connect" ELSE "use")
              /\ ep' = ep
              /\ SetObjects([obj EXCEPT ![e].outstanding = @ + 1,
                              ![e].socks = Max({0, @ - old - 1})])

(* Mutant: a client that has waited once does not look again.              *)
AcquireIf(c) ==
    /\ \/ pc[c] = "picked"
       \/ pc[c] = "wait_conn" /\ c \in notified
    /\ endpoints' = endpoints
    /\ notified' = notified \ {c}
    /\ IF pc[c] = "picked" /\ obj[ep[c]].outstanding >= MaxConn
         THEN Goto(c, "wait_conn") /\ UNCHANGED <<obj, ep>>
         ELSE Admit(c)
    /\ UNCHANGED <<lookingUp, lookupErr, tries, left, may>>

Acquire(c) ==
    /\ \/ pc[c] = "picked"
       \/ pc[c] = "wait_conn" /\ c \in notified
    /\ endpoints' = endpoints
    /\ notified' = notified \ {c}
    /\ IF obj[ep[c]].outstanding >= MaxConn
         THEN Goto(c, "wait_conn") /\ UNCHANGED <<obj, ep>>
         ELSE Admit(c)
    /\ UNCHANGED <<lookingUp, lookupErr, tries, left, may>>

Connected(c) ==
    /\ pc[c] = "connect"
    /\ Goto(c, "use")
    /\ UNCHANGED <<endpoints, lookingUp, lookupErr, obj, ep, notified,
                   tries, left, may>>

(* tcp_client::connect fails or throws: the endpoint is erased.            *)
ConnectFailed(c, kind) ==
    /\ pc[c] = "connect"
    /\ "connect" \in may
    /\ endpoints' = endpoints \ {ep[c]}
    /\ Throw(c, kind)
    /\ SetObjects(obj)
    /\ UNCHANGED <<lookingUp, lookupErr, notified, left, may>>

(* The tls handshake in the constructor of tls_pipe throws.                *)
TlsFailed(c, kind) ==
    /\ pc[c] = "connect"
    /\ "tls" \in may
    /\ endpoints' = endpoints
    /\ Throw(c, kind)
    /\ SetObjects(obj)
    /\ UNCHANGED <<lookingUp, lookupErr, notified, left,
                   may>>

(* ~cleanup after the callback has returned: the request is counted out    *)
(* and the socket kept if it may be.                                       *)
Settled(e, cache) ==
    [obj EXCEPT ![e].outstanding = @ - 1,
                ![e].socks = IF cache THEN @ + 1 ELSE @]

(* Mutant: the waiting clients are not notified.                           *)
ReturnedSilent(c, cache) ==
    /\ pc[c] = "use"
    /\ endpoints' = endpoints
    /\ Goto(c, "idle")
    /\ ep' = [ep EXCEPT ![c] = NoEndpoint]
    /\ SetObjects(Settled(ep[c], cache))
    /\ UNCHANGED <<lookingUp, lookupErr, notified, tries, left,
                   may>>

(* The callback returns, saying whether the socket may be kept, and        *)
(* ~cleanup also notifies who waits for the endpoint.                      *)
Returned(c, cache) ==
    /\ pc[c] = "use"
    /\ endpoints' = endpoints
    /\ notified' = notified \cup At("wait_conn", ep[c])
    /\ Goto(c, "idle")
    /\ ep' = [ep EXCEPT ![c] = NoEndpoint]
    /\ SetObjects(Settled(ep[c], cache))
    /\ UNCHANGED <<lookingUp, lookupErr, tries, left, may>>

(* Mutant: ~cleanup does not erase the endpoint from the cluster.          *)
CallbackThrewKept(c, kind) ==
    /\ pc[c] = "use"
    /\ "callback" \in may
    /\ endpoints' = endpoints
    /\ notified' = notified \cup At("wait_conn", ep[c])
    /\ Throw(c, kind)
    /\ SetObjects([Settled(ep[c], FALSE) EXCEPT ![ep[c]].error = TRUE])
    /\ UNCHANGED <<lookingUp, lookupErr, left, may>>

(* The callback throws: ~cleanup marks the endpoint and erases it.         *)
CallbackThrew(c, kind) ==
    /\ pc[c] = "use"
    /\ "callback" \in may
    /\ endpoints' = endpoints \ {ep[c]}
    /\ notified' = notified \cup At("wait_conn", ep[c])
    /\ Throw(c, kind)
    /\ SetObjects([Settled(ep[c], FALSE) EXCEPT ![ep[c]].error = TRUE])
    /\ UNCHANGED <<lookingUp, lookupErr, left, may>>

(* with_connected_pipe has caught a fiber_io_error: it forgets all the     *)
(* endpoints, and gives up or tries again after a sleep.                   *)
Backoff(c) ==
    /\ pc[c] = "caught"
    /\ endpoints' = {}
    /\ tries' = [tries EXCEPT ![c] = @ + 1]
    /\ Goto(c, IF tries'[c] = MaxTries THEN "idle" ELSE "enter")
    /\ ep' = ep
    /\ SetObjects(obj)
    /\ UNCHANGED <<lookingUp, lookupErr, notified, left, may>>

(* erase_all, for this cluster.                                            *)
EraseAllEndpoints ==
    /\ "erase_all" \in may
    /\ endpoints' = {}
    /\ lookupErr' = TRUE
    /\ ep' = ep
    /\ SetObjects(obj)
    /\ UNCHANGED <<lookingUp, pc, notified, tries, left, may>>
-----------------------------------------------------------------------------
ClientStep(c) ==
    \/ \E due \in BOOLEAN : Enter(c, due)
    \/ LookupWaited(c) \/ Acquire(c) \/ Connected(c) \/ Backoff(c)
    \/ \E cache \in BOOLEAN : Returned(c, cache)
    \/ \E kind \in Kinds : \/ ConnectFailed(c, kind) \/ TlsFailed(c, kind)
                           \/ CallbackThrew(c, kind)

Lookup == LookupFailed \/ \E found \in (SUBSET Addrs) \ {{}} : LookupDone(found)

Next ==
    \/ \E c \in Clients : Call(c) \/ ClientStep(c)
    \/ Lookup
    \/ EraseAllEndpoints

Spec == Init /\ [][Next]_vars
-----------------------------------------------------------------------------
(* The variables have their types.                                         *)
TypeOK ==
    /\ endpoints \in SUBSET Endpoints
    /\ lookingUp \in BOOLEAN
    /\ lookupErr \in BOOLEAN
    /\ obj \in [Endpoints -> [outstanding : 0..MaxConn, socks : 0..MaxConn,
                             error : BOOLEAN]]
    /\ pc \in [Clients -> {"idle", "enter", "wait_ep", "picked", "wait_conn",
                           "connect", "use", "caught"}]
    /\ ep \in [Clients -> Endpoints \cup {NoEndpoint}]
    /\ notified \in SUBSET Clients
    /\ tries \in [Clients -> 0..MaxTries]
    /\ left \in 0..MaxCalls
    /\ may \in Troubles

(* An endpoint never has more than max_conn_per_ep_ sockets, those in use, *)
(* those being connected and those kept idle together, whatever fails.     *)
SocketsCapped ==
    \A e \in Endpoints : Cardinality(Users(e)) + obj[e].socks <= MaxConn

(* An endpoint with an error is not in the cluster, so that a client that  *)
(* starts again because of the error cannot be handed the same one.        *)
ErrorsErased == \A e \in endpoints : ~obj[e].error

(* A client that waits for room at an endpoint has another one to be woken *)
(* by, that uses a connection of that endpoint or is making one.           *)
RoomAwaited ==
    \A c \in Clients \ notified : pc[c] = "wait_conn" => Users(ep[c]) # {}

(* A client that waits for endpoints has a lookup to be woken by.          *)
LookupAwaited == \A c \in Clients \ notified : pc[c] = "wait_ep" => lookingUp

(* Waiting clients have somebody to wake them.  At an endpoint it is so as *)
(* long as every connection that is tried succeeds: callbacks that throw,  *)
(* failing lookups and erase_all strand nobody there.  Before a lookup it  *)
(* is so as long as no failure takes away the endpoints that a lookup has  *)
(* found: with retries every failure may, without them a failing lookup or *)
(* handshake does not.                                                     *)
SleepersAwaited ==
    /\ may \cap {"connect", "tls"} = {} => RoomAwaited
    /\ (\/ may = {}
        \/ "no_retries" \in may /\ may \subseteq {"dns", "tls", "no_retries"})
       => LookupAwaited
=============================================================================
