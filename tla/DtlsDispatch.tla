---------------------------- MODULE DtlsDispatch ----------------------------
(***************************************************************************)
(* webrtc_dispatch, udp_dispatch and dtls_dispatch: every datagram is      *)
(* handled in a fiber of its own.  A STUN message of a known client makes  *)
(* an association for its address, a DTLS message goes to the association  *)
(* of its address, and a task that runs every 30 seconds while there are   *)
(* associations drops those that got no message for 30 seconds.            *)
(*                                                                         *)
(* Two fibers may use the SSL object of one association at once: what that *)
(* leaves of it is not defined (any state).                                *)
(***************************************************************************)
EXTENDS Naturals, FiniteSets

CONSTANTS DtAddrs,   \* client addresses
          DtFibers,  \* fibers that handle datagrams
          DtPeriod   \* the 30 seconds, in ticks

ASSUME DtAssumption == IsFiniteSet(DtAddrs) /\ IsFiniteSet(DtFibers) /\ DtPeriod \in Nat

VARIABLES
    dtMap,     \* sctp_associations: address -> 0 or the association's number
    dtAge,     \* association -> ticks since last_used_time, or DtPeriod + 1
    dtSsl,     \* association -> "listen", "accept", "ready"
    dtSweep,   \* ticks until sweep_task is due, or Off
    dtFib,     \* fiber -> [pc, addr, id]: pc "idle", "stun", "dtls", "use"
    dtSweeping \* the sweep task has fired and waits for dtls_mtx

dtVars == <<dtMap, dtAge, dtSsl, dtSweep, dtFib, dtSweeping>>

Off == DtPeriod + 1
Ids == 1..(Cardinality(DtAddrs) + Cardinality(DtFibers))
Idle == [pc |-> "idle", addr |-> "none", id |-> 0]
Registered == {a \in DtAddrs : dtMap[a] # 0}

(* An association lives while it is in the map or a fiber has a pointer;   *)
(* dtAge and dtSsl of one that does not are as at first.                   *)
AliveIn(map, fib, id) == (\E a \in DtAddrs : map[a] = id) \/ (\E f \in DtFibers : fib[f].id = id)
Alive(id) == AliveIn(dtMap, dtFib, id)

DtInit ==
    /\ dtMap = [a \in DtAddrs |-> 0]
    /\ dtAge = [i \in Ids |-> 0] /\ dtSsl = [i \in Ids |-> "listen"]
    /\ dtSweep = Off /\ dtSweeping = FALSE /\ dtFib = [f \in DtFibers |-> Idle]

(* webrtc_dispatch::recv_msg: by its first byte a datagram is STUN, DTLS,  *)
(* or ignored.                                                             *)
RecvKinds == {"stun", "dtls"}

(* udp_dispatch::io_avail: a fiber of its own for the datagram.            *)
IoAvail(f, a, kind) ==
    /\ dtFib[f] = Idle /\ dtFib' = [dtFib EXCEPT ![f] = [pc |-> kind, addr |-> a, id |-> 0]]
    /\ UNCHANGED <<dtMap, dtAge, dtSsl, dtSweep, dtSweeping>>

(* parse_stun_msg: one that is malformed, fails its integrity check or has *)
(* no known user goes no further.                                          *)
StunRefused(f) ==
    /\ dtFib[f].pc = "stun" /\ dtFib' = [dtFib EXCEPT ![f] = Idle]
    /\ UNCHANGED <<dtMap, dtAge, dtSsl, dtSweep, dtSweeping>>

ArmsSweep(map) == Cardinality({a \in DtAddrs : map[a] # 0}) = 1

(* register_association; the first association starts the sweeps.          *)
RegisterAssociation(f) ==
    /\ dtFib[f].pc = "stun" /\ dtFib' = [dtFib EXCEPT ![f] = Idle]
    /\ IF dtMap[dtFib[f].addr] # 0 THEN UNCHANGED <<dtMap, dtAge, dtSsl, dtSweep>>
       ELSE LET id == CHOOSE i \in Ids : ~Alive(i) IN
            /\ dtMap' = [dtMap EXCEPT ![dtFib[f].addr] = id]
            /\ dtAge' = [dtAge EXCEPT ![id] = 0] /\ dtSsl' = [dtSsl EXCEPT ![id] = "listen"]
            /\ dtSweep' = IF ArmsSweep(dtMap') THEN DtPeriod ELSE dtSweep
    /\ UNCHANGED dtSweeping

(* dtls_dispatch::recv_msg finds the association and unlocks dtls_mtx.     *)
RecvMsg(f) ==
    /\ dtFib[f].pc = "dtls"
    /\ LET id == dtMap[dtFib[f].addr] IN
       dtFib' = [dtFib EXCEPT ![f] = IF id = 0 THEN Idle ELSE [@ EXCEPT !.pc = "use", !.id = id]]
    /\ UNCHANGED <<dtMap, dtAge, dtSsl, dtSweep, dtSweeping>>

(* sctp_association::recv_msg: DTLSv1_listen, SSL_accept and SSL_read.     *)
Shared(f) == \E g \in DtFibers : g # f /\ dtFib[g].id = dtFib[f].id
AssociationUses(f) ==
    LET id == dtFib[f].id IN
    /\ dtFib[f].pc = "use" /\ dtFib' = [dtFib EXCEPT ![f] = Idle]
    /\ dtAge' = [i \in Ids |-> IF AliveIn(dtMap, dtFib', i) /\ i # id THEN dtAge[i] ELSE 0]
    /\ \E s \in {"listen", "accept", "ready"} :
         /\ ~Shared(f) => \/ s = dtSsl[id]
                          \/ dtSsl[id] = "listen" /\ s \in {"accept", "ready"}
                          \/ dtSsl[id] = "accept" /\ s = "ready"
         /\ dtSsl' = [dtSsl EXCEPT ![id] = IF AliveIn(dtMap, dtFib', id) THEN s ELSE "listen"]
    /\ UNCHANGED <<dtMap, dtSweep, dtSweeping>>

Tick ==
    /\ ~dtSweeping /\ dtSweep # 0
    /\ \E a \in DtAddrs : dtMap[a] # 0
    /\ dtSweep' = IF dtSweep = Off THEN Off ELSE dtSweep - 1
    /\ dtAge' = [i \in Ids |-> IF Alive(i) /\ dtAge[i] <= DtPeriod THEN dtAge[i] + 1 ELSE dtAge[i]]
    /\ UNCHANGED <<dtMap, dtSsl, dtFib, dtSweeping>>

SweepFires ==
    /\ dtSweep = 0 /\ dtSweep' = Off /\ dtSweeping' = TRUE
    /\ UNCHANGED <<dtMap, dtAge, dtSsl, dtFib>>

(* Mutant: off by one in the size of sctp_associations.                    *)
SweepRearmsIfMany(map) == Cardinality({a \in DtAddrs : map[a] # 0}) > 1
SweepRearms(map) == \E a \in DtAddrs : map[a] # 0

(* sweep_inactive: last_used_time + 30 < now goes; it is scheduled again   *)
(* while there are associations.                                           *)
SweepInactive ==
    /\ dtSweeping /\ dtSweeping' = FALSE
    /\ dtMap' = [a \in DtAddrs |->
                   IF dtMap[a] # 0 /\ dtAge[dtMap[a]] > DtPeriod THEN 0 ELSE dtMap[a]]
    /\ dtSweep' = IF SweepRearms(dtMap') THEN DtPeriod ELSE dtSweep
    /\ UNCHANGED dtFib
    /\ dtAge' = [i \in Ids |-> IF AliveIn(dtMap', dtFib, i) THEN dtAge[i] ELSE 0]
    /\ dtSsl' = [i \in Ids |-> IF AliveIn(dtMap', dtFib, i) THEN dtSsl[i] ELSE "listen"]

DtNext ==
    \/ \E f \in DtFibers : \/ \E a \in DtAddrs, k \in RecvKinds : IoAvail(f, a, k)
                           \/ StunRefused(f) \/ RegisterAssociation(f) \/ RecvMsg(f)
                           \/ AssociationUses(f)
    \/ Tick \/ SweepFires \/ SweepInactive

DtSpec == DtInit /\ [][DtNext]_dtVars

DtFairness == WF_dtVars(Tick) /\ WF_dtVars(SweepFires) /\ WF_dtVars(SweepInactive)

-----------------------------------------------------------------------------
(* Between registrations and sweeps that interleave, one sweep is          *)
(* scheduled or under way while there are associations, never two, and     *)
(* none without associations.                                              *)
SweepScheduled ==
    /\ Registered # {} <=> dtSweep # Off \/ dtSweeping
    /\ ~(dtSweep # Off /\ dtSweeping)

(* No two addresses share an association, and none shares one that was     *)
(* swept while a fiber still uses it.                                      *)
AssociationsApart ==
    /\ \A a, b \in Registered : dtMap[a] = dtMap[b] => a = b
    /\ \A f \in DtFibers, a \in Registered :
         dtFib[f].pc = "use" /\ dtFib[f].id = dtMap[a] => dtFib[f].addr = a

(* An association that gets no more messages does not stay: always again   *)
(* it is gone, or was used since the last tick.                            *)
InactiveSwept ==
    \A a \in DtAddrs : []<>(dtMap[a] = 0 \/ dtAge[dtMap[a]] = 0)
=============================================================================
