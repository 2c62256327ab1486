------------------------ MODULE EndpointClusterProofs ------------------------
(***************************************************************************)
(* Proofs about EndpointCluster, for any number of clients, addresses and  *)
(* connections: sockets are capped, endpoints with an error are out of the *)
(* cluster, and the clients that wait have somebody to wake them.          *)
(***************************************************************************)
EXTENDS EndpointCluster, FiniteSetTheorems, WellFoundedInduction, TLAPS

(* Clients that hold a reference to an endpoint object.                    *)
Holding == {"picked", "wait_conn", "connect", "use"}
HoldInv == \A c \in Clients :
    /\ ep[c] # NoEndpoint <=> pc[c] \in Holding
    /\ pc[c] # "idle" => tries[c] < MaxTries

(* outstanding_requests_ covers the clients that use the endpoint: it is   *)
(* their number as long as no connect or handshake fails, for those leave  *)
(* it behind.  Together with the idle sockets it is within the limit.      *)
Counted(U, o) ==
    /\ Cardinality(U) <= o.outstanding
    /\ may \cap {"connect", "tls"} = {} => Cardinality(U) = o.outstanding
    /\ o.outstanding + o.socks <= MaxConn
CountInv == \A e \in Endpoints : Counted(Users(e), obj[e])

(* An object that nothing refers to is as good as new.                     *)
FreshInv == \A e \in Endpoints :
    e \notin endpoints /\ (\A c \in Clients : ep[c] # e) => obj[e] = NewObject

(* No failure takes away endpoints: then whoever waits for some has a      *)
(* lookup under way, or its result.                                        *)
Calm == \/ may = {}
        \/ "no_retries" \in may /\ may \subseteq {"dns", "tls", "no_retries"}
CalmInv == Calm =>
    /\ may = {} => ~lookupErr
    /\ \A c \in Clients : pc[c] # "caught"
    /\ \A c \in Clients : pc[c] = "wait_ep" => lookingUp \/ lookupErr \/ endpoints # {}
    /\ LookupAwaited

RoomInv == may \cap {"connect", "tls"} = {} => RoomAwaited

EcInv == TypeOK /\ HoldInv /\ CountInv /\ FreshInv /\ ErrorsErased /\ RoomInv /\ CalmInv

(* The clients at an endpoint are finitely many.                           *)
LEMMA UsersFinite ==
    \A U \in SUBSET Clients : IsFiniteSet(U) /\ Cardinality(U) \in Nat
  BY FS_Subset, FS_CardinalityType, EndpointClusterAssumption DEF EndpointClusterAssumption

(* No endpoint is NoEndpoint.                                              *)
LEMMA EndpointsReal == NoEndpoint \notin Endpoints
  BY DEF NoEndpoint, Endpoints

(* A nonempty set of natural numbers has a least element.                  *)
LEMMA MinIn ==
    ASSUME NEW S \in SUBSET Nat, S # {}
    PROVE  Min(S) \in S
<1> DEFINE R == {ss \in Nat \X Nat : ss[1] < ss[2]}
<1>1. IsWellFoundedOn(R, Nat)
  BY NatLessThanWellFounded, Zenon DEF OpToRel
<1>2. \E x \in S : \A y \in S : x =< y
  <2>1. PICK x \in S : \A y \in S : ~(<<y, x>> \in R)
    <3> HIDE DEF R
    <3> QED BY <1>1, WFMin
  <2>2. \A y \in S : <<y, x>> \in Nat \X Nat /\ <<y, x>>[1] = y /\ <<y, x>>[2] = x
    OBVIOUS
  <2>3. \A y \in S : ~(y < x)
    BY <2>1, <2>2, Zenon
  <2> QED BY <2>3
<1> QED BY <1>2 DEF Min

(* For an address without an endpoint in the cluster there is a name that  *)
(* no client refers to: there is one name more than there are clients.     *)
LEMMA FreshExists ==
    ASSUME TypeOK, NEW a \in Addrs, \A e \in endpoints : e[1] # a
    PROVE  /\ FreshEndpoint(a) \in Endpoints /\ FreshEndpoint(a)[1] = a
           /\ FreshEndpoint(a) \notin endpoints
           /\ \A c \in Clients : ep[c] # FreshEndpoint(a)
<1> DEFINE n == Cardinality(Clients)
           S == {g \in 0..n : /\ <<a, g>> \notin endpoints
                              /\ \A c \in Clients : ep[c] # <<a, g>>}
<1>1. IsFiniteSet(Clients) /\ n \in Nat
  BY EndpointClusterAssumption, FS_CardinalityType DEF EndpointClusterAssumption
<1>2. S # {}
  <2> SUFFICES ASSUME S = {} PROVE FALSE
    OBVIOUS
  <2> DEFINE f == [g \in 0..n |-> CHOOSE c \in Clients : ep[c] = <<a, g>>]
  <2>1. \A g \in 0..n : \E c \in Clients : ep[c] = <<a, g>>
    OBVIOUS
  <2>2. \A g \in 0..n : f[g] \in Clients /\ ep[f[g]] = <<a, g>>
    BY <2>1
  <2>3. f \in [0..n -> Clients]
    BY <2>2
  <2>4. IsFiniteSet(0..n) /\ Cardinality(0..n) = n + 1
    BY <1>1, FS_Interval
  <2> HIDE DEF f
  <2>5. \E x, y \in 0..n : x # y /\ f[x] = f[y]
    BY <1>1, <2>3, <2>4, FS_PigeonHole
  <2> QED BY <2>2, <2>5
<1>3. Min(S) \in S
  <2>1. S \in SUBSET Nat
    BY <1>1
  <2> HIDE DEF S
  <2> QED BY <1>2, <2>1, MinIn
<1>4. FreshEndpoint(a) = <<a, Min(S)>>
  BY DEF FreshEndpoint
<1> QED BY <1>3, <1>4 DEF Endpoints

(* Nothing has begun.                                                      *)
LEMMA EcInitInv == Init => EcInv
<1> SUFFICES ASSUME Init PROVE EcInv
  OBVIOUS
<1>1. NewObject \in [outstanding : 0..MaxConn, socks : 0..MaxConn, error : BOOLEAN]
  BY EndpointClusterAssumption DEF EndpointClusterAssumption, NewObject
<1>2. TypeOK
  <2>1. obj \in [Endpoints -> [outstanding : 0..MaxConn, socks : 0..MaxConn,
                                error : BOOLEAN]]
    BY <1>1 DEF Init
  <2>2. ep \in [Clients -> Endpoints \cup {NoEndpoint}]
    BY DEF Init
  <2>3. lookingUp \in BOOLEAN /\ lookupErr \in BOOLEAN
    BY Zenon DEF Init
  <2>4. tries \in [Clients -> 0..MaxTries] /\ left \in 0..MaxCalls
    BY EndpointClusterAssumption DEF EndpointClusterAssumption, Init
  <2> QED BY <2>1, <2>2, <2>3, <2>4 DEF Init, TypeOK
<1>3. HoldInv
  BY EndpointClusterAssumption DEF EndpointClusterAssumption, Init, HoldInv, Holding
<1>4. CountInv
  <2>1. \A e : Users(e) = {}
    BY DEF Init, Users, At
  <2>2. \A e : Cardinality(Users(e)) = 0
    BY <2>1, FS_EmptySet
  <2> QED BY <2>2, EndpointClusterAssumption
          DEF EndpointClusterAssumption, Init, CountInv, Counted, NewObject
<1>5. FreshInv /\ ErrorsErased /\ RoomInv /\ CalmInv
  BY DEF Init, FreshInv, ErrorsErased, RoomInv, RoomAwaited, CalmInv, LookupAwaited
<1> QED BY <1>2, <1>3, <1>4, <1>5 DEF EcInv

(* SetObjects gives every object that is still referred to its new value,  *)
(* and counts are right if they are right for these.                       *)
LEMMA ObjectsSet ==
    ASSUME NEW o \in [Endpoints -> [outstanding : 0..MaxConn, socks : 0..MaxConn,
                                    error : BOOLEAN]],
           SetObjects(o), may' = may,
           \A e \in Endpoints : Counted(Users(e)', o[e]),
           \A e \in endpoints' \cap Endpoints : ~o[e].error
    PROVE  /\ obj' \in [Endpoints -> [outstanding : 0..MaxConn, socks : 0..MaxConn,
                                      error : BOOLEAN]]
           /\ CountInv' /\ FreshInv' /\ \A e \in endpoints' \cap Endpoints : ~obj'[e].error
<1>1. NewObject \in [outstanding : 0..MaxConn, socks : 0..MaxConn, error : BOOLEAN]
  BY EndpointClusterAssumption DEF EndpointClusterAssumption, NewObject
<1>2. \A e \in Endpoints :
        obj'[e] = IF e \in endpoints' \/ \E c \in Clients : ep'[c] = e
                    THEN o[e] ELSE NewObject
  BY DEF SetObjects
<1>3. obj' \in [Endpoints -> [outstanding : 0..MaxConn, socks : 0..MaxConn,
                              error : BOOLEAN]]
  BY <1>1 DEF SetObjects
<1>4. CountInv'
  <2>1. SUFFICES ASSUME NEW e \in Endpoints PROVE Counted(Users(e), obj[e])'
    BY DEF CountInv
  <2>2. PICK U : U = Users(e)'
    OBVIOUS
  <2>3. CASE e \in endpoints' \/ \E c \in Clients : ep'[c] = e
    <3>1. obj'[e] = o[e]
      BY <1>2, <2>3
    <3>2. Counted(Users(e)', o[e])
      OBVIOUS
    <3> QED BY <3>1, <3>2 DEF Counted
  <2>4. CASE ~(e \in endpoints' \/ \E c \in Clients : ep'[c] = e)
    <3>1. obj'[e] = NewObject
      BY <1>2, <2>4
    <3>2. Users(e)' = {}
      BY <2>4 DEF Users, At
    <3>3. Cardinality(Users(e)') = 0
      BY <3>2, FS_EmptySet
    <3> QED BY <3>1, <3>3, EndpointClusterAssumption
            DEF Counted, NewObject, EndpointClusterAssumption
  <2> QED BY <2>3, <2>4
<1>5. FreshInv'
  BY <1>2 DEF FreshInv
<1>6. \A e \in endpoints' \cap Endpoints : ~obj'[e].error
  BY <1>2
<1> QED BY <1>3, <1>4, <1>5, <1>6

(* The users of the endpoints when only client c moves.                    *)
LEMMA UsersMove ==
    ASSUME NEW c \in Clients,
           \A d \in Clients \ {c} : pc'[d] = pc[d] /\ ep'[d] = ep[d],
           NEW e
    PROVE  /\ pc'[c] \in {"connect", "use"} /\ ep'[c] = e => Users(e)' = Users(e) \cup {c}
           /\ ~(pc'[c] \in {"connect", "use"} /\ ep'[c] = e) => Users(e)' = Users(e) \ {c}
           /\ c \in Users(e) <=> pc[c] \in {"connect", "use"} /\ ep[c] = e
           /\ Users(e) \in SUBSET Clients
  BY DEF Users, At

(* The labels of a client, and what Goto does.                             *)
Labels == {"idle", "enter", "wait_ep", "picked", "wait_conn", "connect", "use", "caught"}

LEMMA GotoMoves ==
    ASSUME TypeOK, NEW c \in Clients, NEW l \in Labels, Goto(c, l)
    PROVE  /\ pc' \in [Clients -> Labels] /\ pc'[c] = l
           /\ \A d \in Clients \ {c} : pc'[d] = pc[d]
  BY DEF TypeOK, Goto, Labels

(* An exception takes the client out of its endpoint.                      *)
LEMMA ThrowMoves ==
    ASSUME EcInv, NEW c \in Clients, pc[c] # "idle", NEW kind \in Kinds, Throw(c, kind)
    PROVE  /\ pc' \in [Clients -> Labels] /\ pc'[c] \in {"idle", "enter", "caught"}
           /\ Calm /\ may # {} => pc'[c] = "idle"
           /\ ep' \in [Clients -> Endpoints \cup {NoEndpoint}] /\ ep'[c] = NoEndpoint
           /\ \A d \in Clients \ {c} : pc'[d] = pc[d] /\ ep'[d] = ep[d] /\ tries'[d] = tries[d]
           /\ tries' \in [Clients -> 0..MaxTries] /\ tries'[c] < MaxTries
<1>1. Catch(kind) \in {"idle", "enter", "caught"} /\ (Calm /\ may # {} => Catch(kind) = "idle")
  <2>1. CASE "no_retries" \in may
    BY <2>1 DEF Catch
  <2>2. CASE "no_retries" \notin may
    <3>1. ~(Calm /\ may # {})
      BY <2>2 DEF Calm
    <3> QED BY <2>2, <3>1 DEF Catch, Kinds
  <2> QED BY <2>1, <2>2
<1>2. /\ pc' \in [Clients -> Labels] /\ pc'[c] = Catch(kind)
      /\ \A d \in Clients \ {c} : pc'[d] = pc[d]
  BY <1>1, GotoMoves DEF Throw, EcInv, Labels
<1>3. /\ ep' \in [Clients -> Endpoints \cup {NoEndpoint}] /\ ep'[c] = NoEndpoint
      /\ \A d \in Clients \ {c} : ep'[d] = ep[d]
  BY DEF Throw, EcInv, TypeOK
<1>4. tries[c] \in 0..MaxTries /\ tries[c] < MaxTries
  BY DEF EcInv, TypeOK, HoldInv
<1>5. /\ tries' \in [Clients -> 0..MaxTries] /\ tries'[c] < MaxTries
      /\ \A d \in Clients \ {c} : tries'[d] = tries[d]
  BY <1>4, EndpointClusterAssumption DEF EndpointClusterAssumption, Throw, EcInv, TypeOK
<1> QED BY <1>1, <1>2, <1>3, <1>5

(* The objects and their users stay as they are.                           *)
LEMMA CountsKept ==
    ASSUME CountInv, UNCHANGED <<obj, may>>, \A e \in Endpoints : Users(e)' = Users(e)
    PROVE  CountInv'
<1> SUFFICES ASSUME NEW e \in Endpoints PROVE Counted(Users(e), obj[e])'
  BY DEF CountInv
<1>1. Counted(Users(e), obj[e])
  BY DEF CountInv
<1>2. Cardinality(Users(e)') = Cardinality(Users(e))
  OBVIOUS
<1> QED BY <1>1, <1>2 DEF Counted

(* Users stay when a client moves that is not one, before or after.        *)
LEMMA UsersStay ==
    ASSUME NEW c \in Clients,
           \A d \in Clients \ {c} : pc'[d] = pc[d] /\ ep'[d] = ep[d],
           \/ pc[c] \notin {"connect", "use"} /\ pc'[c] \notin {"connect", "use"}
           \/ pc[c] \in {"connect", "use"} /\ pc'[c] \in {"connect", "use"} /\ ep'[c] = ep[c]
    PROVE  \A e : Users(e)' = Users(e)
  BY DEF Users, At

(* with_connected_pipe is called.                                          *)
LEMMA CallStep ==
    ASSUME EcInv, NEW c \in Clients, Call(c) PROVE EcInv'
<1>1. /\ pc' \in [Clients -> Labels] /\ pc'[c] = "enter" /\ pc[c] = "idle"
      /\ \A d \in Clients \ {c} : pc'[d] = pc[d]
      /\ UNCHANGED <<endpoints, lookingUp, lookupErr, obj, ep, notified, may>>
  BY GotoMoves DEF Call, EcInv, Labels
<1>2. tries' \in [Clients -> 0..MaxTries] /\ tries'[c] < MaxTries
      /\ \A d \in Clients \ {c} : tries'[d] = tries[d]
  BY EndpointClusterAssumption DEF EndpointClusterAssumption, Call, EcInv, TypeOK
<1>3. TypeOK'
  BY <1>1, <1>2, EndpointClusterAssumption DEF EndpointClusterAssumption, EcInv, TypeOK, Call, Labels
<1>4. HoldInv'
  BY <1>1, <1>2 DEF EcInv, HoldInv, Holding
<1>5. \A e : Users(e)' = Users(e)
  BY <1>1, UsersStay
<1>6. CountInv' /\ FreshInv' /\ ErrorsErased'
  BY <1>1, <1>5, CountsKept DEF EcInv, FreshInv, ErrorsErased
<1>7. RoomInv'
  BY <1>1, <1>5 DEF EcInv, RoomInv, RoomAwaited
<1>8. CalmInv'
  BY <1>1 DEF EcInv, CalmInv, Calm, LookupAwaited
<1> QED BY <1>3, <1>4, <1>6, <1>7, <1>8 DEF EcInv

(* A connection has been made.                                             *)
LEMMA ConnectedStep ==
    ASSUME EcInv, NEW c \in Clients, Connected(c) PROVE EcInv'
<1>1. /\ pc' \in [Clients -> Labels] /\ pc'[c] = "use" /\ pc[c] = "connect"
      /\ \A d \in Clients \ {c} : pc'[d] = pc[d]
      /\ UNCHANGED <<endpoints, lookingUp, lookupErr, obj, ep, notified, tries, left, may>>
  BY GotoMoves DEF Connected, EcInv, Labels
<1>3. TypeOK' /\ HoldInv'
  BY <1>1 DEF EcInv, TypeOK, Labels, HoldInv, Holding
<1>5. \A e : Users(e)' = Users(e)
  BY <1>1, UsersStay
<1>6. CountInv' /\ FreshInv' /\ ErrorsErased'
  BY <1>1, <1>5, CountsKept DEF EcInv, FreshInv, ErrorsErased
<1>7. RoomInv'
  BY <1>1, <1>5 DEF EcInv, RoomInv, RoomAwaited
<1>8. CalmInv'
  BY <1>1 DEF EcInv, CalmInv, Calm, LookupAwaited
<1> QED BY <1>3, <1>6, <1>7, <1>8 DEF EcInv

(* An endpoint of the cluster is picked.                                   *)
LEMMA PickMoves ==
    ASSUME EcInv, NEW c \in Clients, Pick(c)
    PROVE  /\ pc' \in [Clients -> Labels] /\ pc'[c] = "picked"
           /\ ep' \in [Clients -> Endpoints \cup {NoEndpoint}]
           /\ ep'[c] \in endpoints /\ ep'[c] # NoEndpoint
           /\ \A d \in Clients \ {c} : pc'[d] = pc[d] /\ ep'[d] = ep[d]
<1>1. /\ pc' \in [Clients -> Labels] /\ pc'[c] = "picked"
      /\ \A d \in Clients \ {c} : pc'[d] = pc[d]
  BY GotoMoves DEF Pick, EcInv, Labels
<1> QED BY <1>1, EndpointsReal DEF Pick, EcInv, TypeOK

(* The first critical section.                                             *)
LEMMA EnterStep ==
    ASSUME EcInv, NEW c \in Clients, NEW due \in BOOLEAN, Enter(c, due) PROVE EcInv'
<1>1. /\ pc' \in [Clients -> Labels] /\ pc[c] = "enter"
      /\ ep' \in [Clients -> Endpoints \cup {NoEndpoint}]
      /\ \A d \in Clients \ {c} : pc'[d] = pc[d] /\ ep'[d] = ep[d]
      /\ \/ endpoints = {} /\ pc'[c] = "wait_ep" /\ ep'[c] = ep[c]
         \/ pc'[c] = "picked" /\ ep'[c] \in endpoints /\ ep'[c] # NoEndpoint
      /\ UNCHANGED <<endpoints, obj, notified, tries, left, may>>
  BY GotoMoves, PickMoves DEF Enter, EcInv, TypeOK, Labels
<1>2. /\ lookingUp' \in BOOLEAN /\ lookupErr' \in BOOLEAN
      /\ lookingUp => lookingUp'
      /\ lookupErr' => lookupErr
      /\ endpoints = {} => lookingUp'
      /\ lookupErr /\ ~lookupErr' => lookingUp'
  BY Zenon DEF Enter, EcInv, TypeOK
<1>3. TypeOK' /\ HoldInv'
  BY <1>1, <1>2, EndpointsReal DEF EcInv, TypeOK, Labels, HoldInv, Holding
<1>5. \A e : Users(e)' = Users(e)
  BY <1>1, UsersStay
<1>6. CountInv' /\ FreshInv' /\ ErrorsErased'
  <2>1. CountInv'
    BY <1>1, <1>5, CountsKept DEF EcInv
  <2>2. \A e \in Endpoints : (\A d \in Clients : ep'[d] # e) /\ e \notin endpoints
                            => \A d \in Clients : ep[d] # e
    BY <1>1, EndpointsReal DEF EcInv, HoldInv, Holding
  <2> QED BY <1>1, <2>1, <2>2 DEF EcInv, FreshInv, ErrorsErased
<1>7. RoomInv'
  BY <1>1, <1>5 DEF EcInv, RoomInv, RoomAwaited
<1>8. CalmInv'
  <2>1. SUFFICES ASSUME Calm
                 PROVE  /\ may = {} => ~lookupErr'
                        /\ \A d \in Clients : pc'[d] # "caught"
                        /\ \A d \in Clients : pc'[d] = "wait_ep" =>
                              lookingUp' \/ lookupErr' \/ endpoints # {}
                        /\ \A d \in Clients \ notified : pc'[d] = "wait_ep" => lookingUp'
    BY <1>1 DEF CalmInv, Calm, LookupAwaited
  <2>2. /\ may = {} => ~lookupErr
        /\ \A d \in Clients : pc[d] # "caught"
        /\ \A d \in Clients : pc[d] = "wait_ep" => lookingUp \/ lookupErr \/ endpoints # {}
        /\ \A d \in Clients \ notified : pc[d] = "wait_ep" => lookingUp
    BY <2>1 DEF EcInv, CalmInv, LookupAwaited
  <2>3. may = {} => ~lookupErr'
    BY <1>2, <2>2, Zenon
  <2>4. \A d \in Clients : pc'[d] # "caught"
    BY <1>1, <2>2
  <2>5. ASSUME NEW d \in Clients, pc'[d] = "wait_ep", endpoints # {}
        PROVE  pc[d] = "wait_ep"
    BY <1>1, <2>5
  <2> QED BY <1>2, <2>2, <2>3, <2>4, <2>5
<1> QED BY <1>3, <1>6, <1>7, <1>8 DEF EcInv

(* A client that waited for endpoints has the mutex again.                 *)
LEMMA LookupWaitedStep ==
    ASSUME EcInv, NEW c \in Clients, LookupWaited(c) PROVE EcInv'
<1>0. "io" \in Kinds
  BY DEF Kinds
<1>1. /\ pc' \in [Clients -> Labels] /\ pc[c] = "wait_ep" /\ pc'[c] \notin {"connect", "use", "wait_conn"}
      /\ ep' \in [Clients -> Endpoints \cup {NoEndpoint}]
      /\ ep'[c] # NoEndpoint <=> pc'[c] \in Holding
      /\ ep'[c] # NoEndpoint => ep'[c] \in endpoints
      /\ pc'[c] = "wait_ep" => endpoints = {} /\ ~lookupErr
      /\ tries' \in [Clients -> 0..MaxTries] /\ tries'[c] < MaxTries
      /\ \A d \in Clients \ {c} : pc'[d] = pc[d] /\ ep'[d] = ep[d] /\ tries'[d] = tries[d]
      /\ Calm => pc'[c] # "caught"
      /\ notified' = notified \ {c}
      /\ UNCHANGED <<endpoints, lookingUp, lookupErr, obj, left, may>>
  <2>0. /\ pc[c] = "wait_ep" /\ notified' = notified \ {c}
        /\ UNCHANGED <<endpoints, lookingUp, lookupErr, obj, left, may>>
    BY DEF LookupWaited
  <2>1. CASE lookupErr
    <3>1. Throw(c, "io")
      BY <2>1 DEF LookupWaited
    <3>2. Calm => may # {}
      BY <2>1 DEF EcInv, CalmInv
    <3> QED BY <1>0, <2>0, <2>1, <3>1, <3>2, ThrowMoves DEF Holding
  <2>2. CASE ~lookupErr /\ endpoints = {}
    <3>1. UNCHANGED <<pc, ep, tries>>
      BY <2>2 DEF LookupWaited
    <3> QED BY <2>0, <2>2, <3>1 DEF EcInv, TypeOK, HoldInv, Holding, Labels
  <2>3. CASE ~lookupErr /\ endpoints # {}
    <3>1. Pick(c) /\ tries' = tries
      BY <2>3 DEF LookupWaited
    <3> QED BY <2>0, <2>3, <3>1, PickMoves DEF EcInv, TypeOK, HoldInv, Holding
  <2> QED BY <2>1, <2>2, <2>3
<1>3. TypeOK' /\ HoldInv'
  BY <1>1 DEF EcInv, TypeOK, Labels, HoldInv
<1>5. \A e : Users(e)' = Users(e)
  BY <1>1, UsersStay
<1>6. CountInv' /\ FreshInv' /\ ErrorsErased'
  <2>1. CountInv'
    BY <1>1, <1>5, CountsKept DEF EcInv
  <2>2. \A e \in Endpoints : (\A d \in Clients : ep'[d] # e) /\ e \notin endpoints
                            => \A d \in Clients : ep[d] # e
    BY <1>1, EndpointsReal DEF EcInv, HoldInv, Holding
  <2> QED BY <1>1, <2>1, <2>2 DEF EcInv, FreshInv, ErrorsErased
<1>7. RoomInv'
  BY <1>1, <1>5 DEF EcInv, RoomInv, RoomAwaited
<1>8. CalmInv'
  BY <1>1 DEF EcInv, CalmInv, Calm, LookupAwaited
<1> QED BY <1>3, <1>6, <1>7, <1>8 DEF EcInv

(* The values of an endpoint object.                                       *)
Objects == [outstanding : 0..MaxConn, socks : 0..MaxConn, error : BOOLEAN]

(* One client more or less.                                                *)
LEMMA CountMoves ==
    ASSUME NEW U \in SUBSET Clients, NEW c \in Clients
    PROVE  /\ c \notin U => Cardinality(U \cup {c}) = Cardinality(U) + 1
           /\ c \in U => Cardinality(U \ {c}) = Cardinality(U) - 1 /\ Cardinality(U) > 0
           /\ c \notin U => U \ {c} = U
           /\ Cardinality(U) \in Nat
<1>1. IsFiniteSet(U) /\ Cardinality(U) \in Nat
  BY UsersFinite
<1>2. c \notin U => Cardinality(U \cup {c}) = Cardinality(U) + 1
  BY <1>1, FS_AddElement
<1>3. c \in U => Cardinality(U \ {c}) = Cardinality(U) - 1
  BY <1>1, FS_RemoveElement
<1>4. c \in U => Cardinality(U) # 0
  BY <1>1, FS_EmptySet
<1> QED BY <1>1, <1>2, <1>3, <1>4

(* A client leaves an endpoint that it used.  The request is counted out,  *)
(* or stays counted after a connect or handshake that failed.              *)
LEMMA LeaveStep ==
    ASSUME EcInv, NEW c \in Clients, pc[c] \in {"connect", "use"},
           NEW o \in [Endpoints -> Objects],
           SetObjects(o),
           \A e \in Endpoints \ {ep[c]} : o[e] = obj[e],
           \/ /\ o[ep[c]].outstanding = obj[ep[c]].outstanding - 1
              /\ o[ep[c]].socks \in {obj[ep[c]].socks, obj[ep[c]].socks + 1}
              /\ notified' = notified \cup At("wait_conn", ep[c])
           \/ /\ may \cap {"connect", "tls"} # {} /\ o[ep[c]] = obj[ep[c]]
              /\ notified' = notified,
           o[ep[c]].error => obj[ep[c]].error \/ ep[c] \notin endpoints',
           endpoints' \subseteq endpoints,
           pc' \in [Clients -> Labels], pc'[c] \in {"idle", "enter", "caught"},
           ep' \in [Clients -> Endpoints \cup {NoEndpoint}], ep'[c] = NoEndpoint,
           tries' \in [Clients -> 0..MaxTries], pc'[c] # "idle" => tries'[c] < MaxTries,
           \A d \in Clients \ {c} : pc'[d] = pc[d] /\ ep'[d] = ep[d] /\ tries'[d] = tries[d],
           Calm => endpoints' = endpoints /\ pc'[c] # "caught",
           UNCHANGED <<lookingUp, lookupErr, left, may>>
    PROVE  EcInv'
<1>1. PICK e0 \in Endpoints : e0 = ep[c]
  BY DEF EcInv, TypeOK, HoldInv, Holding
<1>2. /\ Users(e0)' = Users(e0) \ {c} /\ c \in Users(e0)
      /\ \A e \in Endpoints \ {e0} : Users(e)' = Users(e)
  <2>1. c \in Users(e0) /\ Users(e0)' = Users(e0) \ {c}
    BY <1>1, UsersMove
  <2>2. \A e \in Endpoints \ {e0} : c \notin Users(e) /\ Users(e)' = Users(e) \ {c}
    BY <1>1, UsersMove
  <2>3. \A U : c \notin U => U \ {c} = U
    OBVIOUS
  <2> QED BY <2>1, <2>2, <2>3, Zenon
<1>3. /\ Cardinality(Users(e0)') = Cardinality(Users(e0)) - 1
      /\ Cardinality(Users(e0)) \in Nat \ {0}
  <2>1. PICK U \in SUBSET Clients : U = Users(e0)
    BY DEF Users, At
  <2>2. Cardinality(U \ {c}) = Cardinality(U) - 1 /\ Cardinality(U) > 0 /\ Cardinality(U) \in Nat
    BY <1>2, <2>1, CountMoves
  <2>3. Users(e0)' = U \ {c}
    BY <1>2, <2>1
  <2>4. Cardinality(Users(e0)') = Cardinality(U \ {c}) /\ Cardinality(Users(e0)) = Cardinality(U)
    BY <2>1, <2>3, Zenon
  <2> QED BY <2>2, <2>4
<1>4. ASSUME NEW e \in Endpoints PROVE Counted(Users(e)', o[e])
  <2>1. Counted(Users(e), obj[e]) /\ obj[e].outstanding \in 0..MaxConn
                                  /\ obj[e].socks \in 0..MaxConn
    BY DEF EcInv, CountInv, TypeOK
  <2>2. CASE e = e0
    BY <1>1, <1>3, <2>1, <2>2, EndpointClusterAssumption
       DEF Counted, EndpointClusterAssumption
  <2>3. CASE e # e0
    <3>1. Cardinality(Users(e)') = Cardinality(Users(e)) /\ o[e] = obj[e]
      BY <1>1, <1>2, <2>3
    <3> QED BY <2>1, <3>1 DEF Counted
  <2> QED BY <2>2, <2>3
<1>5. \A e \in endpoints' \cap Endpoints : ~o[e].error
  BY <1>1 DEF EcInv, ErrorsErased
<1>6. /\ obj' \in [Endpoints -> Objects]
      /\ CountInv' /\ FreshInv' /\ \A e \in endpoints' \cap Endpoints : ~obj'[e].error
  BY <1>4, <1>5, ObjectsSet DEF Objects
<1>7. At("wait_conn", e0) \in SUBSET Clients
  BY DEF At
<1>8. TypeOK'
  BY <1>1, <1>6, <1>7 DEF EcInv, TypeOK, Labels, Objects
<1>9. HoldInv'
  BY DEF EcInv, HoldInv, Holding
<1>10. ErrorsErased'
  BY <1>6 DEF ErrorsErased, EcInv, TypeOK
<1>11. RoomInv'
  <2>1. SUFFICES ASSUME may \cap {"connect", "tls"} = {},
                        NEW d \in Clients \ notified', pc'[d] = "wait_conn"
                 PROVE  Users(ep[d])' # {}
    BY DEF RoomInv, RoomAwaited
  <2>2. d # c /\ pc[d] = "wait_conn" /\ ep'[d] = ep[d] /\ d \notin notified
    BY <2>1
  <2>3. ep[d] # e0
    BY <1>1, <2>1, <2>2 DEF At
  <2>4. ep[d] \in Endpoints
    BY <2>2 DEF EcInv, TypeOK, HoldInv, Holding
  <2>5. Users(ep[d]) # {}
    BY <2>1, <2>2 DEF EcInv, RoomInv, RoomAwaited
  <2>6. PICK e \in Endpoints : e = ep[d]
    BY <2>4
  <2>7. Users(e)' # {}
    BY <1>2, <2>3, <2>5, <2>6
  <2>8. e = ep'[d]
    BY <2>2, <2>6
  <2> QED BY <2>7, <2>8 DEF Users, At
<1>12. CalmInv'
  <2>1. notified \subseteq notified'
    OBVIOUS
  <2> QED BY <2>1 DEF EcInv, CalmInv, Calm, LookupAwaited
<1> QED BY <1>6, <1>8, <1>9, <1>10, <1>11, <1>12 DEF EcInv

(* The connect or the handshake fails.                                     *)
LEMMA FailStep ==
    ASSUME EcInv, NEW c \in Clients, NEW kind \in Kinds,
           ConnectFailed(c, kind) \/ TlsFailed(c, kind)
    PROVE  EcInv'
<1>1. /\ pc[c] = "connect" /\ Throw(c, kind) /\ SetObjects(obj)
      /\ may \cap {"connect", "tls"} # {} /\ endpoints' \subseteq endpoints
      /\ UNCHANGED <<lookingUp, lookupErr, left, may, notified>>
      /\ Calm => endpoints' = endpoints /\ may # {}
  BY DEF ConnectFailed, TlsFailed, Calm
<1>2. /\ pc' \in [Clients -> Labels] /\ pc'[c] \in {"idle", "enter", "caught"}
      /\ Calm /\ may # {} => pc'[c] = "idle"
      /\ ep' \in [Clients -> Endpoints \cup {NoEndpoint}] /\ ep'[c] = NoEndpoint
      /\ \A d \in Clients \ {c} : pc'[d] = pc[d] /\ ep'[d] = ep[d] /\ tries'[d] = tries[d]
      /\ tries' \in [Clients -> 0..MaxTries] /\ tries'[c] < MaxTries
  BY <1>1, ThrowMoves
<1>3. obj \in [Endpoints -> Objects]
  BY DEF EcInv, TypeOK, Objects
<1> QED BY <1>1, <1>2, <1>3, LeaveStep

(* What ~cleanup leaves.                                                   *)
LEMMA SettledObjects ==
    ASSUME EcInv, NEW c \in Clients, pc[c] = "use", NEW cache \in BOOLEAN
    PROVE  /\ Settled(ep[c], cache) \in [Endpoints -> Objects]
           /\ \A e \in Endpoints \ {ep[c]} : Settled(ep[c], cache)[e] = obj[e]
           /\ LET o == Settled(ep[c], cache)[ep[c]]
              IN /\ o.outstanding = obj[ep[c]].outstanding - 1
                 /\ o.socks \in {obj[ep[c]].socks, obj[ep[c]].socks + 1}
                 /\ o.error = obj[ep[c]].error
           /\ ep[c] \in Endpoints
<1>1. PICK e0 \in Endpoints : e0 = ep[c]
  BY DEF EcInv, TypeOK, HoldInv, Holding
<1>2. Cardinality(Users(e0)) \in Nat \ {0}
  <2>1. c \in Users(e0)
    BY <1>1 DEF Users, At
  <2>2. PICK U \in SUBSET Clients : U = Users(e0)
    BY DEF Users, At
  <2>3. Cardinality(U) > 0 /\ Cardinality(U) \in Nat
    BY <2>1, <2>2, CountMoves
  <2> QED BY <2>2, <2>3
<1>3. /\ obj[e0].outstanding \in 1..MaxConn /\ obj[e0].socks \in 0..MaxConn
      /\ obj[e0].outstanding + obj[e0].socks <= MaxConn
      /\ obj[e0].error \in BOOLEAN
  BY <1>2, EndpointClusterAssumption DEF EcInv, CountInv, Counted, TypeOK, EndpointClusterAssumption
<1>4. obj \in [Endpoints -> Objects]
  BY DEF EcInv, TypeOK, Objects
<1>5. MaxConn \in Nat
  BY EndpointClusterAssumption DEF EndpointClusterAssumption
<1> QED BY <1>1, <1>3, <1>4, <1>5 DEF Settled, Objects

(* The callback returns.                                                   *)
LEMMA ReturnedStep ==
    ASSUME EcInv, NEW c \in Clients, NEW cache \in BOOLEAN, Returned(c, cache)
    PROVE  EcInv'
<1>1. /\ pc[c] = "use" /\ endpoints' = endpoints
      /\ notified' = notified \cup At("wait_conn", ep[c])
      /\ Goto(c, "idle") /\ "idle" \in Labels
      /\ ep' = [ep EXCEPT ![c] = NoEndpoint]
      /\ SetObjects(Settled(ep[c], cache))
      /\ UNCHANGED <<lookingUp, lookupErr, left, may, tries>>
  BY DEF Returned, Labels
<1>2. /\ pc' \in [Clients -> Labels] /\ pc'[c] = "idle"
      /\ \A d \in Clients \ {c} : pc'[d] = pc[d]
  BY <1>1, GotoMoves DEF EcInv
<1>3. /\ ep' \in [Clients -> Endpoints \cup {NoEndpoint}] /\ ep'[c] = NoEndpoint
      /\ \A d \in Clients \ {c} : ep'[d] = ep[d]
      /\ tries' \in [Clients -> 0..MaxTries]
  BY <1>1 DEF EcInv, TypeOK
<1>4. PICK o : o = Settled(ep[c], cache)
  OBVIOUS
<1>5. /\ o \in [Endpoints -> Objects]
      /\ \A e \in Endpoints \ {ep[c]} : o[e] = obj[e]
      /\ o[ep[c]].outstanding = obj[ep[c]].outstanding - 1
      /\ o[ep[c]].socks \in {obj[ep[c]].socks, obj[ep[c]].socks + 1}
      /\ o[ep[c]].error = obj[ep[c]].error
  BY <1>1, <1>4, SettledObjects
<1> QED BY <1>1, <1>2, <1>3, <1>4, <1>5, LeaveStep

(* The callback throws.                                                    *)
LEMMA ThrewStep ==
    ASSUME EcInv, NEW c \in Clients, NEW kind \in Kinds, CallbackThrew(c, kind)
    PROVE  EcInv'
<1>1. /\ pc[c] = "use" /\ endpoints' = endpoints \ {ep[c]}
      /\ notified' = notified \cup At("wait_conn", ep[c])
      /\ Throw(c, kind)
      /\ SetObjects([Settled(ep[c], FALSE) EXCEPT ![ep[c]].error = TRUE])
      /\ UNCHANGED <<lookingUp, lookupErr, left, may>>
      /\ ~Calm
  BY DEF CallbackThrew, Calm
<1>2. /\ pc' \in [Clients -> Labels] /\ pc'[c] \in {"idle", "enter", "caught"}
      /\ ep' \in [Clients -> Endpoints \cup {NoEndpoint}] /\ ep'[c] = NoEndpoint
      /\ \A d \in Clients \ {c} : pc'[d] = pc[d] /\ ep'[d] = ep[d] /\ tries'[d] = tries[d]
      /\ tries' \in [Clients -> 0..MaxTries] /\ tries'[c] < MaxTries
  BY <1>1, ThrowMoves
<1>3. PICK s : s = Settled(ep[c], FALSE)
  OBVIOUS
<1>4. /\ s \in [Endpoints -> Objects] /\ ep[c] \in Endpoints
      /\ \A e \in Endpoints \ {ep[c]} : s[e] = obj[e]
      /\ s[ep[c]].outstanding = obj[ep[c]].outstanding - 1
      /\ s[ep[c]].socks \in {obj[ep[c]].socks, obj[ep[c]].socks + 1}
  BY <1>1, <1>3, SettledObjects
<1>5. PICK o : o = [s EXCEPT ![ep[c]].error = TRUE]
  OBVIOUS
<1>6. /\ o \in [Endpoints -> Objects]
      /\ \A e \in Endpoints \ {ep[c]} : o[e] = obj[e]
      /\ o[ep[c]].outstanding = obj[ep[c]].outstanding - 1
      /\ o[ep[c]].socks \in {obj[ep[c]].socks, obj[ep[c]].socks + 1}
  BY <1>4, <1>5 DEF Objects
<1>7. SetObjects(o)
  BY <1>1, <1>3, <1>5, Zenon
<1> QED BY <1>1, <1>2, <1>6, <1>7, LeaveStep

(* There is no room at the endpoint: the client waits, and those that fill *)
(* the endpoint will wake it.                                              *)
LEMMA WaitStep ==
    ASSUME EcInv, NEW c \in Clients, Acquire(c), obj[ep[c]].outstanding >= MaxConn
    PROVE  EcInv'
<1>1. /\ pc[c] \in {"picked", "wait_conn"} /\ Goto(c, "wait_conn") /\ "wait_conn" \in Labels
      /\ notified' = notified \ {c}
      /\ UNCHANGED <<endpoints, obj, ep, lookingUp, lookupErr, tries, left, may>>
  BY DEF Acquire, Labels
<1>2. /\ pc' \in [Clients -> Labels] /\ pc'[c] = "wait_conn"
      /\ \A d \in Clients \ {c} : pc'[d] = pc[d]
  BY <1>1, GotoMoves DEF EcInv
<1>3. TypeOK' /\ HoldInv'
  BY <1>1, <1>2 DEF EcInv, TypeOK, Labels, HoldInv, Holding
<1>4. \A e : Users(e)' = Users(e)
  BY <1>1, <1>2, UsersStay
<1>5. CountInv' /\ FreshInv' /\ ErrorsErased'
  BY <1>1, <1>4, CountsKept DEF EcInv, FreshInv, ErrorsErased
<1>6. ep[c] \in Endpoints
  BY <1>1 DEF EcInv, TypeOK, HoldInv, Holding
<1>7. may \cap {"connect", "tls"} = {} => Users(ep[c]) # {}
  <2>1. may \cap {"connect", "tls"} = {} => Cardinality(Users(ep[c])) = obj[ep[c]].outstanding
    BY <1>6 DEF EcInv, CountInv, Counted
  <2>2. obj[ep[c]].outstanding # 0
    BY <1>6, EndpointClusterAssumption DEF EndpointClusterAssumption, EcInv, TypeOK
  <2>3. Cardinality({}) = 0
    BY FS_EmptySet
  <2> QED BY <2>1, <2>2, <2>3
<1>8. RoomInv'
  <2>1. SUFFICES ASSUME may \cap {"connect", "tls"} = {},
                        NEW d \in Clients \ notified', pc'[d] = "wait_conn"
                 PROVE  Users(ep[d])' # {}
    BY <1>1 DEF RoomInv, RoomAwaited
  <2>2. Users(ep[d]) # {}
    BY <1>1, <1>2, <1>7, <2>1 DEF EcInv, RoomInv, RoomAwaited
  <2>3. PICK e : e = ep[d] /\ e = ep'[d]
    BY <1>1
  <2>4. Users(e)' # {}
    BY <1>4, <2>2, <2>3
  <2> QED BY <2>3, <2>4 DEF Users, At
<1>9. CalmInv'
  BY <1>1, <1>2 DEF EcInv, CalmInv, Calm, LookupAwaited
<1> QED BY <1>3, <1>5, <1>8, <1>9 DEF EcInv

(* The endpoint has an error: the client lets go of it and starts again.   *)
LEMMA TurnedAwayStep ==
    ASSUME EcInv, NEW c \in Clients, Acquire(c), ~(obj[ep[c]].outstanding >= MaxConn),
           obj[ep[c]].error
    PROVE  EcInv'
<1>1. /\ pc[c] \in {"picked", "wait_conn"} /\ Goto(c, "enter") /\ "enter" \in Labels
      /\ notified' = notified \ {c}
      /\ ep' = [ep EXCEPT ![c] = NoEndpoint]
      /\ SetObjects(obj)
      /\ UNCHANGED <<endpoints, lookingUp, lookupErr, tries, left, may>>
  BY DEF Acquire, Admit, Labels
<1>2. /\ pc' \in [Clients -> Labels] /\ pc'[c] = "enter"
      /\ \A d \in Clients \ {c} : pc'[d] = pc[d]
  BY <1>1, GotoMoves DEF EcInv
<1>3. /\ ep' \in [Clients -> Endpoints \cup {NoEndpoint}] /\ ep'[c] = NoEndpoint
      /\ \A d \in Clients \ {c} : ep'[d] = ep[d]
  BY <1>1 DEF EcInv, TypeOK
<1>4. \A e : Users(e)' = Users(e)
  BY <1>1, <1>2, <1>3, UsersStay
<1>5. obj \in [Endpoints -> Objects]
  BY DEF EcInv, TypeOK, Objects
<1>6. \A e \in Endpoints : Counted(Users(e)', obj[e])
  BY <1>4 DEF EcInv, CountInv
<1>7. \A e \in endpoints' \cap Endpoints : ~obj[e].error
  BY <1>1 DEF EcInv, ErrorsErased
<1>8. /\ obj' \in [Endpoints -> Objects]
      /\ CountInv' /\ FreshInv' /\ \A e \in endpoints' \cap Endpoints : ~obj'[e].error
  BY <1>1, <1>5, <1>6, <1>7, ObjectsSet DEF Objects
<1>9. TypeOK' /\ HoldInv'
  BY <1>1, <1>2, <1>3, <1>8 DEF EcInv, TypeOK, Labels, HoldInv, Holding, Objects
<1>10. ErrorsErased'
  BY <1>1, <1>8 DEF ErrorsErased, EcInv, TypeOK
<1>11. RoomInv'
  <2>1. SUFFICES ASSUME may \cap {"connect", "tls"} = {},
                        NEW d \in Clients \ notified', pc'[d] = "wait_conn"
                 PROVE  Users(ep[d])' # {}
    BY <1>1 DEF RoomInv, RoomAwaited
  <2>2. Users(ep[d]) # {} /\ ep'[d] = ep[d]
    BY <1>1, <1>2, <1>3, <2>1 DEF EcInv, RoomInv, RoomAwaited
  <2>3. PICK e : e = ep[d] /\ e = ep'[d]
    BY <2>2
  <2>4. Users(e)' # {}
    BY <1>4, <2>2, <2>3
  <2> QED BY <2>3, <2>4 DEF Users, At
<1>12. CalmInv'
  BY <1>1, <1>2 DEF EcInv, CalmInv, Calm, LookupAwaited
<1> QED BY <1>8, <1>9, <1>10, <1>11, <1>12 DEF EcInv

(* The client is let in: one more request, and one socket less to spare,   *)
(* or none at all when it has to make a connection.                        *)
LEMMA AdmitStep ==
    ASSUME EcInv, NEW c \in Clients, Acquire(c), ~(obj[ep[c]].outstanding >= MaxConn),
           ~obj[ep[c]].error
    PROVE  EcInv'
<1>1. PICK e0 \in Endpoints : e0 = ep[c] /\ pc[c] \in {"picked", "wait_conn"}
  BY DEF Acquire, EcInv, TypeOK, HoldInv, Holding
<1>2. PICK old \in 0..obj[e0].socks, l \in {"connect", "use"} :
        /\ Goto(c, l)
        /\ SetObjects([obj EXCEPT ![e0].outstanding = @ + 1,
                                  ![e0].socks = Max({0, @ - old - 1})])
  BY <1>1 DEF Acquire, Admit
<1>3. /\ notified' = notified \ {c}
      /\ UNCHANGED <<endpoints, ep, lookingUp, lookupErr, tries, left, may>>
  BY DEF Acquire, Admit
<1>4. /\ pc' \in [Clients -> Labels] /\ pc'[c] = l
      /\ \A d \in Clients \ {c} : pc'[d] = pc[d]
  BY <1>2, GotoMoves DEF EcInv, Labels
<1>5. /\ obj \in [Endpoints -> Objects] /\ MaxConn \in Nat
      /\ obj[e0].outstanding \in 0..MaxConn /\ obj[e0].outstanding < MaxConn
      /\ obj[e0].socks \in 0..MaxConn
      /\ obj[e0].outstanding + obj[e0].socks <= MaxConn
  BY <1>1, EndpointClusterAssumption
     DEF EndpointClusterAssumption, EcInv, CountInv, Counted, TypeOK, Objects
<1>6. PICK s : s = Max({0, obj[e0].socks - old - 1})
  OBVIOUS
<1>7. /\ s \in 0..MaxConn /\ obj[e0].outstanding + 1 + s <= MaxConn
  <2>1. PICK k \in Int : k = obj[e0].socks - old - 1
    BY <1>2, <1>5
  <2>2. s \in {0, k} /\ \A y \in {0, k} : s >= y
    <3>1. \E x \in {0, k} : \A y \in {0, k} : x >= y
      BY <2>1
    <3>2. s = Max({0, k})
      BY <1>6, <2>1
    <3> QED BY <3>1, <3>2, Zenon DEF Max
  <2> QED BY <1>2, <1>5, <2>1, <2>2
<1>8. PICK o \in [Endpoints -> Objects] :
        /\ SetObjects(o)
        /\ \A e \in Endpoints \ {e0} : o[e] = obj[e]
        /\ o[e0].outstanding = obj[e0].outstanding + 1 /\ o[e0].socks = s
        /\ o[e0].error = obj[e0].error
  <2>1. PICK o : o = [obj EXCEPT ![e0].outstanding = @ + 1,
                                 ![e0].socks = Max({0, @ - old - 1})]
    OBVIOUS
  <2>2. SetObjects(o)
    BY <1>2, <2>1, Zenon
  <2>3. PICK n \in 0..MaxConn, b \in BOOLEAN :
          n = obj[e0].outstanding + 1 /\ b = obj[e0].error
    BY <1>5 DEF Objects
  <2>4. o[e0] = [outstanding |-> n, socks |-> s, error |-> b]
    BY <1>5, <1>6, <2>1, <2>3 DEF Objects
  <2>5. \A e \in Endpoints \ {e0} : o[e] = obj[e]
    BY <1>5, <2>1
  <2>6. DOMAIN o = Endpoints /\ o = [e \in Endpoints |-> o[e]]
    BY <1>5, <2>1
  <2>7. o[e0] \in Objects
    BY <1>7, <2>3, <2>4 DEF Objects
  <2>8. o \in [Endpoints -> Objects]
    BY <1>5, <2>5, <2>6, <2>7
  <2>9. /\ o \in [Endpoints -> Objects]
        /\ \A e \in Endpoints \ {e0} : o[e] = obj[e]
        /\ o[e0].outstanding = obj[e0].outstanding + 1 /\ o[e0].socks = s
        /\ o[e0].error = obj[e0].error
    BY <2>3, <2>4, <2>5, <2>8
  <2> QED BY <2>2, <2>9
<1>9. /\ Users(e0)' = Users(e0) \cup {c} /\ c \notin Users(e0)
      /\ \A e \in Endpoints \ {e0} : Users(e)' = Users(e)
  <2>1. c \notin Users(e0) /\ Users(e0)' = Users(e0) \cup {c}
    BY <1>1, <1>3, <1>4, UsersMove
  <2>2. \A e \in Endpoints \ {e0} : c \notin Users(e) /\ Users(e)' = Users(e) \ {c}
    BY <1>1, <1>3, <1>4, UsersMove
  <2>3. \A U : c \notin U => U \ {c} = U
    OBVIOUS
  <2> QED BY <2>1, <2>2, <2>3, Zenon
<1>10. /\ Cardinality(Users(e0)') = Cardinality(Users(e0)) + 1
       /\ Cardinality(Users(e0)) \in Nat
  <2>1. PICK U \in SUBSET Clients : U = Users(e0)
    BY DEF Users, At
  <2>2. Cardinality(U \cup {c}) = Cardinality(U) + 1 /\ Cardinality(U) \in Nat
    BY <1>9, <2>1, CountMoves
  <2>3. Users(e0)' = U \cup {c}
    BY <1>9, <2>1
  <2>4. Cardinality(Users(e0)') = Cardinality(U \cup {c}) /\ Cardinality(Users(e0)) = Cardinality(U)
    BY <2>1, <2>3, Zenon
  <2> QED BY <2>2, <2>4
<1>11. ASSUME NEW e \in Endpoints PROVE Counted(Users(e)', o[e])
  <2>1. Counted(Users(e), obj[e])
    BY DEF EcInv, CountInv
  <2>2. CASE e = e0
    BY <1>5, <1>7, <1>8, <1>10, <2>1, <2>2 DEF Counted
  <2>3. CASE e # e0
    <3>1. Cardinality(Users(e)') = Cardinality(Users(e)) /\ o[e] = obj[e]
      BY <1>8, <1>9, <2>3
    <3> QED BY <2>1, <3>1 DEF Counted
  <2> QED BY <2>2, <2>3
<1>12. \A e \in endpoints' \cap Endpoints : ~o[e].error
  BY <1>1, <1>3, <1>8 DEF EcInv, ErrorsErased
<1>13. /\ obj' \in [Endpoints -> Objects]
       /\ CountInv' /\ FreshInv' /\ \A e \in endpoints' \cap Endpoints : ~obj'[e].error
  BY <1>3, <1>8, <1>11, <1>12, ObjectsSet DEF Objects
<1>14. TypeOK' /\ HoldInv'
  BY <1>1, <1>3, <1>4, <1>13 DEF EcInv, TypeOK, Labels, HoldInv, Holding, Objects
<1>15. ErrorsErased'
  BY <1>3, <1>13 DEF ErrorsErased, EcInv, TypeOK
<1>16. RoomInv'
  <2>1. SUFFICES ASSUME may \cap {"connect", "tls"} = {},
                        NEW d \in Clients \ notified', pc'[d] = "wait_conn"
                 PROVE  Users(ep[d])' # {}
    BY <1>3 DEF RoomInv, RoomAwaited
  <2>2. Users(ep[d]) # {} /\ ep[d] \in Endpoints
    BY <1>3, <1>4, <2>1 DEF EcInv, RoomInv, RoomAwaited, TypeOK, HoldInv, Holding
  <2>3. PICK e \in Endpoints : e = ep[d] /\ e = ep'[d]
    BY <1>3, <2>2
  <2>4. Users(e)' # {}
    BY <1>9, <2>2, <2>3
  <2> QED BY <2>3, <2>4 DEF Users, At
<1>17. CalmInv'
  BY <1>1, <1>3, <1>4 DEF EcInv, CalmInv, Calm, LookupAwaited
<1> QED BY <1>13, <1>14, <1>15, <1>16, <1>17 DEF EcInv

(* The cluster forgets endpoints and no client moves among the users:      *)
(* Backoff, erase_all and the end of a lookup.                             *)
LEMMA ForgetStep ==
    ASSUME EcInv, SetObjects(obj), UNCHANGED <<ep, may, left>>,
           endpoints' \subseteq Endpoints,
           \A e \in endpoints' \ endpoints : \A c \in Clients : ep[c] # e,
           lookingUp' \in BOOLEAN, lookupErr' \in BOOLEAN,
           pc' \in [Clients -> Labels], tries' \in [Clients -> 0..MaxTries],
           notified \subseteq notified', notified' \subseteq Clients,
           \A c \in Clients : pc'[c] = pc[c] \/ (pc[c] = "caught" /\ pc'[c] \in {"idle", "enter"}),
           \A c \in Clients : pc'[c] # "idle" => tries'[c] < MaxTries,
           CalmInv'
    PROVE  EcInv'
<1>1. \A e : Users(e)' = Users(e)
  BY DEF Users, At
<1>2. obj \in [Endpoints -> Objects]
  BY DEF EcInv, TypeOK, Objects
<1>3. \A e \in Endpoints : Counted(Users(e)', obj[e])
  BY <1>1 DEF EcInv, CountInv
<1>4. \A e \in endpoints' \cap Endpoints : ~obj[e].error
  BY DEF EcInv, ErrorsErased, FreshInv, NewObject
<1>5. /\ obj' \in [Endpoints -> Objects]
      /\ CountInv' /\ FreshInv' /\ \A e \in endpoints' \cap Endpoints : ~obj'[e].error
  BY <1>2, <1>3, <1>4, ObjectsSet DEF Objects
<1>6. TypeOK' /\ ErrorsErased'
  BY <1>5 DEF EcInv, TypeOK, Labels, Objects, ErrorsErased
<1>7. HoldInv'
  BY DEF EcInv, HoldInv, Holding
<1>8. RoomInv'
  <2>1. SUFFICES ASSUME may \cap {"connect", "tls"} = {},
                        NEW d \in Clients \ notified', pc'[d] = "wait_conn"
                 PROVE  Users(ep[d])' # {}
    BY DEF RoomInv, RoomAwaited
  <2>2. Users(ep[d]) # {}
    BY <2>1 DEF EcInv, RoomInv, RoomAwaited
  <2>3. PICK e : e = ep[d] /\ e = ep'[d]
    OBVIOUS
  <2>4. Users(e)' # {}
    BY <1>1, <2>2, <2>3
  <2> QED BY <2>3, <2>4 DEF Users, At
<1> QED BY <1>5, <1>6, <1>7, <1>8 DEF EcInv

(* After a fiber_io_error with_connected_pipe forgets all the endpoints.   *)
LEMMA BackoffStep ==
    ASSUME EcInv, NEW c \in Clients, Backoff(c) PROVE EcInv'
<1>1. /\ pc[c] = "caught" /\ endpoints' = {} /\ ep' = ep /\ SetObjects(obj)
      /\ UNCHANGED <<lookingUp, lookupErr, notified, left, may>>
      /\ ~Calm
  BY DEF Backoff, EcInv, CalmInv
<1>2. /\ tries[c] \in 0..MaxTries /\ tries[c] < MaxTries /\ MaxTries \in Nat
  BY <1>1, EndpointClusterAssumption DEF EcInv, TypeOK, HoldInv, EndpointClusterAssumption
<1>3. /\ tries' \in [Clients -> 0..MaxTries] /\ tries'[c] = tries[c] + 1
      /\ \A d \in Clients \ {c} : tries'[d] = tries[d]
  BY <1>2 DEF Backoff, EcInv, TypeOK
<1>4. PICK l \in {"idle", "enter"} : Goto(c, l) /\ (l = "enter" => tries'[c] # MaxTries)
  BY DEF Backoff
<1>5. /\ pc' \in [Clients -> Labels] /\ pc'[c] = l
      /\ \A d \in Clients \ {c} : pc'[d] = pc[d]
  BY <1>4, GotoMoves DEF EcInv, Labels
<1>6. \A d \in Clients : pc'[d] # "idle" => tries'[d] < MaxTries
  <2>1. tries'[c] # MaxTries => tries'[c] < MaxTries
    BY <1>2, <1>3
  <2> QED BY <1>3, <1>4, <1>5, <2>1 DEF EcInv, HoldInv
<1>7. CalmInv'
  BY <1>1 DEF CalmInv, Calm
<1> QED BY <1>1, <1>3, <1>4, <1>5, <1>6, <1>7, ForgetStep DEF EcInv, TypeOK

(* erase_all.                                                              *)
LEMMA EraseAllStep ==
    ASSUME EcInv, EraseAllEndpoints PROVE EcInv'
<1>1. /\ endpoints' = {} /\ ep' = ep /\ SetObjects(obj)
      /\ UNCHANGED <<lookingUp, pc, notified, tries, left, may>>
      /\ ~Calm
  BY DEF EraseAllEndpoints, Calm
<1>2. lookupErr' \in BOOLEAN
  BY Zenon DEF EraseAllEndpoints
<1>3. CalmInv'
  BY <1>1 DEF CalmInv, Calm
<1>4. lookingUp' \in BOOLEAN
  BY <1>1 DEF EcInv, TypeOK
<1> QED BY <1>1, <1>2, <1>3, <1>4, ForgetStep DEF EcInv, TypeOK, Labels, HoldInv

(* The lookup fails: whoever waits for endpoints is notified and will find *)
(* the error.                                                              *)
LEMMA LookupFailedStep ==
    ASSUME EcInv, LookupFailed PROVE EcInv'
<1>1. /\ "dns" \in may
      /\ notified' = notified \cup {c \in Clients : pc[c] = "wait_ep"}
      /\ UNCHANGED <<endpoints, obj, pc, ep, tries, left, may>>
  BY DEF LookupFailed
<1>2. lookupErr' = TRUE /\ lookingUp' = FALSE
  BY Zenon DEF LookupFailed
<1>3. TypeOK'
  <2>1. lookupErr' \in BOOLEAN /\ lookingUp' \in BOOLEAN
    BY <1>2, Zenon
  <2> QED BY <1>1, <2>1 DEF EcInv, TypeOK
<1>4. \A e : Users(e)' = Users(e)
  BY <1>1 DEF Users, At
<1>5. CountInv' /\ FreshInv' /\ ErrorsErased' /\ HoldInv'
  BY <1>1, <1>4, CountsKept DEF EcInv, FreshInv, ErrorsErased, HoldInv
<1>6. RoomInv'
  BY <1>1, <1>4 DEF EcInv, RoomInv, RoomAwaited, Users, At
<1>7. CalmInv'
  BY <1>1, <1>2 DEF EcInv, CalmInv, Calm, LookupAwaited
<1> QED BY <1>3, <1>5, <1>6, <1>7 DEF EcInv

(* The lookup finds addresses: there are endpoints for all the clients     *)
(* that waited, and the new ones are names that nobody refers to.          *)
LEMMA LookupDoneStep ==
    ASSUME EcInv, NEW found \in SUBSET Addrs, found # {}, LookupDone(found) PROVE EcInv'
<1>1. /\ ep' = ep /\ SetObjects(obj)
      /\ notified' = notified \cup {c \in Clients : pc[c] = "wait_ep"}
      /\ UNCHANGED <<lookupErr, pc, tries, left, may>>
  BY DEF LookupDone
<1>2. lookingUp' \in BOOLEAN
  BY Zenon DEF LookupDone
<1> DEFINE kept  == {e \in endpoints : e[1] \in found}
           new   == {b \in found : \A e \in endpoints : e[1] # b}
           fresh == {FreshEndpoint(a) : a \in new}
<1>3. PICK young \in SUBSET (endpoints \ kept) : endpoints' = kept \cup fresh \cup young
  BY DEF LookupDone
<1>4. \A a \in new : /\ FreshEndpoint(a) \in Endpoints
                     /\ \A c \in Clients : ep[c] # FreshEndpoint(a)
  BY FreshExists DEF EcInv
<1>5. endpoints' \subseteq Endpoints
  BY <1>3, <1>4 DEF EcInv, TypeOK
<1>6. \A e \in endpoints' \ endpoints : \A c \in Clients : ep[c] # e
  BY <1>3, <1>4
<1>7. endpoints' # {}
  <2>1. PICK b : b \in found
    OBVIOUS
  <2>2. CASE b \in new
    BY <1>3, <2>2
  <2>3. CASE b \notin new
    <3>1. PICK e \in endpoints : e[1] = b
      BY <2>1, <2>3
    <3>2. e \in kept
      BY <2>1, <3>1
    <3> QED BY <1>3, <3>2
  <2> QED BY <2>2, <2>3
<1> HIDE DEF kept, new, fresh
<1>8. CalmInv'
  BY <1>1, <1>7 DEF EcInv, CalmInv, Calm, LookupAwaited
<1> QED BY <1>1, <1>2, <1>5, <1>6, <1>8, ForgetStep DEF EcInv, TypeOK, Labels, HoldInv

(* Every step of the clients, of the lookup and of erase_all keeps EcInv.  *)
LEMMA EcNextInv == EcInv /\ [Next]_vars => EcInv'
<1> SUFFICES ASSUME EcInv, [Next]_vars PROVE EcInv'
  OBVIOUS
<1>1. ASSUME NEW c \in Clients, Call(c) \/ ClientStep(c) PROVE EcInv'
  <2>1. CASE Call(c)
    BY <2>1, CallStep
  <2>2. CASE \E due \in BOOLEAN : Enter(c, due)
    BY <2>2, EnterStep
  <2>3. CASE LookupWaited(c)
    BY <2>3, LookupWaitedStep
  <2>4. CASE Acquire(c)
    BY <2>4, WaitStep, TurnedAwayStep, AdmitStep
  <2>5. CASE Connected(c) \/ Backoff(c)
    BY <2>5, ConnectedStep, BackoffStep
  <2>6. CASE \E cache \in BOOLEAN : Returned(c, cache)
    BY <2>6, ReturnedStep
  <2>7. CASE \E kind \in Kinds : \/ ConnectFailed(c, kind) \/ TlsFailed(c, kind)
                                 \/ CallbackThrew(c, kind)
    BY <2>7, FailStep, ThrewStep
  <2> QED BY <1>1, <2>1, <2>2, <2>3, <2>4, <2>5, <2>6, <2>7 DEF ClientStep
<1>2. CASE Lookup
  <2>1. CASE LookupFailed
    BY <2>1, LookupFailedStep
  <2>2. CASE \E found \in (SUBSET Addrs) \ {{}} : LookupDone(found)
    <3>1. PICK found \in (SUBSET Addrs) \ {{}} : LookupDone(found)
      BY <2>2
    <3>2. found \in SUBSET Addrs /\ found # {}
      BY <3>1
    <3> QED BY <3>1, <3>2, LookupDoneStep
  <2> QED BY <1>2, <2>1, <2>2 DEF Lookup
<1>3. CASE EraseAllEndpoints
  BY <1>3, EraseAllStep
<1>4. CASE UNCHANGED vars
  <2>1. UNCHANGED <<endpoints, lookingUp, lookupErr, obj, pc, ep, notified, tries, left, may>>
    BY <1>4 DEF vars
  <2>2. \A e : Users(e)' = Users(e)
    BY <2>1 DEF Users, At
  <2>3. CountInv'
    BY <2>1, <2>2, CountsKept DEF EcInv
  <2>4. RoomInv'
    BY <2>1, <2>2 DEF EcInv, RoomInv, RoomAwaited, Users, At
  <2> QED BY <2>1, <2>3, <2>4 DEF EcInv, TypeOK, HoldInv, FreshInv, ErrorsErased, CalmInv, Calm, LookupAwaited
<1> QED BY <1>1, <1>2, <1>3, <1>4 DEF Next

(* EcInv is an invariant of the cluster.                                   *)
THEOREM EcInvariance == Spec => []EcInv
  BY EcInitInv, EcNextInv, PTL DEF Spec

(* For any number of clients and addresses, any limit and whatever fails,  *)
(* an endpoint has at most max_conn_per_ep_ sockets, idle ones included.   *)
THEOREM SocketsBounded == Spec => []SocketsCapped
<1>1. EcInv => SocketsCapped
  <2> SUFFICES ASSUME EcInv, NEW e \in Endpoints
               PROVE  Cardinality(Users(e)) + obj[e].socks <= MaxConn
    BY DEF SocketsCapped
  <2>1. Users(e) \in SUBSET Clients
    BY DEF Users, At
  <2>2. Cardinality(Users(e)) \in Nat
    BY <2>1, UsersFinite
  <2>3. obj[e].outstanding \in 0..MaxConn /\ obj[e].socks \in 0..MaxConn
    BY DEF EcInv, TypeOK
  <2> QED BY <2>2, <2>3, EndpointClusterAssumption
          DEF EcInv, CountInv, Counted, EndpointClusterAssumption
<1> QED BY <1>1, EcInvariance, PTL

(* An endpoint marked with an error by ~cleanup is not in the cluster, and *)
(* no lookup brings the same object back.                                  *)
THEOREM ErrorsOut == Spec => []ErrorsErased
<1>1. EcInv => ErrorsErased
  BY DEF EcInv
<1> QED BY <1>1, EcInvariance, PTL

(* Where failures leave no request counted, or no endpoint forgotten, the  *)
(* clients that wait at an endpoint or for a lookup are not alone.         *)
THEOREM SleepersHaveWakers == Spec => []SleepersAwaited
<1>1. EcInv => SleepersAwaited
  BY DEF EcInv, RoomInv, CalmInv, Calm, SleepersAwaited
<1> QED BY <1>1, EcInvariance, PTL
=============================================================================
