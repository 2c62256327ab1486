------------------------------ MODULE DnsCache ------------------------------
(***************************************************************************)
(* dns_cache.cpp and tcp_client.cpp: the map of host entries behind        *)
(* dns_map_mutex, the callers that wait for a lookup by getaddrinfo_a, and *)
(* the connection that follows a lookup.                                   *)
(*                                                                         *)
(* A caller is a fiber.  It calls get_addrinfo or tcp_client::connect,     *)
(* which suspend it until a callback running in another fiber writes into  *)
(* its frame, or connect_and_run, which returns at once.  Every critical   *)
(* section of dns_map_mutex is one step.  Which address of a host is used  *)
(* is not modelled.                                                        *)
(***************************************************************************)
EXTENDS Naturals, Sequences, FiniteSets, SequencesExt

CONSTANTS DnsHosts,     \* names to look up
          DnsClients,   \* fibers that make calls
          DnsMaxCalls   \* bound on the calls of one fiber

ASSUME DnsAssumption == DnsMaxCalls \in Nat

VARIABLES
    dnsEntry,     \* dns_map: host -> "none" or the state_ of its entry
    dnsOld,       \* hosts whose when_resolved_ is too long ago
    dnsPending,   \* pending_callers_ of each entry: sequence of <<fiber, call>>
    dnsGai,       \* host -> number of notify_complete objects of running lookups
    dnsCall,      \* fiber -> its current call [op, n, st]
    dnsFibers,    \* callbacks started by run_in_fiber: [to, n, op, err, at]
    dnsAnswers,   \* <<fiber, call>> -> how often the call was answered
    dnsSweep      \* the sweep: "scheduled", "running" or "none"

dnsVars == <<dnsEntry, dnsOld, dnsPending, dnsGai, dnsCall, dnsFibers,
             dnsAnswers, dnsSweep>>

DnsOps == {"get_addrinfo", "connect", "connect_and_run"}
DnsIds == DnsClients \X (1..DnsMaxCalls)

DnsInit ==
    /\ dnsEntry = [h \in DnsHosts |-> "none"]
    /\ dnsOld = {}
    /\ dnsPending = [h \in DnsHosts |-> <<>>]
    /\ dnsGai = [h \in DnsHosts |-> 0]
    /\ dnsCall = [c \in DnsClients |-> [op |-> "none", n |-> 0, st |-> "idle"]]
    /\ dnsFibers = {}
    /\ dnsAnswers = [i \in DnsIds |-> 0]
    /\ dnsSweep = "scheduled"

(* run_in_fiber of a callback; "callback" is where it starts. *)
Callback(id, op, err) ==
    [to |-> id[1], n |-> id[2], op |-> op, err |-> err, at |-> "callback"]

(* What a fiber does after its call of dns_entry::call returned false, or  *)
(* after it threw: connect_and_run does not wait.                          *)
AfterCall(op, threw) ==
    IF threw THEN "threw" ELSE IF op = "connect_and_run" THEN "idle" ELSE "wait"

Begin(c, op, st) ==
    dnsCall' = [dnsCall EXCEPT ![c] = [op |-> op, n |-> @.n + 1, st |-> st]]

MayCall(c) == dnsCall[c].st = "idle" /\ dnsCall[c].n < DnsMaxCalls

NextCall(c) == <<c, dnsCall[c].n + 1>>

(* No entry: call makes one and starts a lookup.                           *)
InitiateLookup(c, op, h) ==
    /\ MayCall(c) /\ dnsEntry[h] = "none"
    /\ dnsEntry' = [dnsEntry EXCEPT ![h] = "in_progress"]
    /\ dnsPending' = [dnsPending EXCEPT ![h] = << <<NextCall(c), op>> >>]
    /\ dnsGai' = [dnsGai EXCEPT ![h] = @ + 1]
    /\ Begin(c, op, AfterCall(op, FALSE))
    /\ UNCHANGED <<dnsOld, dnsFibers, dnsAnswers, dnsSweep>>

(* getaddrinfo_a, or setting up its thread, fails at once: the callback is *)
(* started with the error, the entry erased, and the caller gets an        *)
(* exception as well.                                                      *)
InitiateLookupFails(c, op, h) ==
    /\ MayCall(c) /\ dnsEntry[h] = "none"
    /\ dnsFibers' = dnsFibers \cup {Callback(NextCall(c), op, TRUE)}
    /\ Begin(c, op, AfterCall(op, TRUE))
    /\ UNCHANGED <<dnsEntry, dnsOld, dnsPending, dnsGai, dnsAnswers, dnsSweep>>

(* A lookup is running: the caller joins the ones that wait for it.        *)
JoinLookup(c, op, h) ==
    /\ MayCall(c) /\ dnsEntry[h] = "in_progress"
    /\ dnsPending' = [dnsPending EXCEPT ![h] = Append(@, <<NextCall(c), op>>)]
    /\ Begin(c, op, AfterCall(op, FALSE))
    /\ UNCHANGED <<dnsEntry, dnsOld, dnsGai, dnsFibers, dnsAnswers, dnsSweep>>

(* The entry is resolved: get_addrinfo has its answer without a callback,  *)
(* the others start one.                                                   *)
CallFromCache(c, op, h) ==
    /\ MayCall(c) /\ dnsEntry[h] = "resolved"
    /\ IF op = "get_addrinfo"
       THEN /\ dnsAnswers' = [dnsAnswers EXCEPT ![NextCall(c)] = @ + 1]
            /\ Begin(c, op, "idle")
            /\ UNCHANGED dnsFibers
       ELSE /\ dnsFibers' = dnsFibers \cup {Callback(NextCall(c), op, FALSE)}
            /\ Begin(c, op, AfterCall(op, FALSE))
            /\ UNCHANGED dnsAnswers
    /\ UNCHANGED <<dnsEntry, dnsOld, dnsPending, dnsGai, dnsSweep>>

(* Mutant: the first of the callers that wait is not informed.             *)
InformAllButFirst(h, err) ==
    dnsFibers' = dnsFibers \cup
        {Callback(p[1], p[2], err) : p \in ToSet(Tail(dnsPending[h]))}

(* One callback per waiting caller, each with the same result.             *)
InformAll(h, err) ==
    dnsFibers' = dnsFibers \cup
        {Callback(p[1], p[2], err) : p \in ToSet(dnsPending[h])}

(* The thread of getaddrinfo_a calls resolve_complete.                     *)
ResolveComplete(h) ==
    /\ dnsGai[h] > 0
    /\ dnsGai' = [dnsGai EXCEPT ![h] = @ - 1]
    /\ dnsPending' = [dnsPending EXCEPT ![h] = <<>>]
    /\ \/ /\ InformAll(h, TRUE)
          /\ dnsEntry' = [dnsEntry EXCEPT ![h] = "none"]
       \/ /\ InformAll(h, FALSE)
          /\ dnsEntry' = [dnsEntry EXCEPT ![h] = "resolved"]
    /\ dnsOld' = dnsOld \ {h}
    /\ UNCHANGED <<dnsCall, dnsAnswers, dnsSweep>>

(* The callback reaches its caller's frame: done, or err and fp, are set   *)
(* under the caller's mutex and the caller is notified.                    *)
Answer(f) ==
    /\ dnsFibers' = dnsFibers \ {f}
    /\ dnsAnswers' = [dnsAnswers EXCEPT ![<<f.to, f.n>>] = @ + 1]

(* A callback begins.  After a lookup that succeeded the ones of           *)
(* tcp_client make a socket and connect it; without a socket, or when      *)
(* connect fails at once or succeeds at once, the answer follows.          *)
RunCallback(f) ==
    /\ f.at = "callback"
    /\ \/ Answer(f)
       \/ /\ ~f.err /\ f.op # "get_addrinfo"
          /\ dnsFibers' = (dnsFibers \ {f}) \cup {[f EXCEPT !.at = "connecting"]}
          /\ UNCHANGED dnsAnswers
    /\ UNCHANGED <<dnsEntry, dnsOld, dnsPending, dnsGai, dnsCall, dnsSweep>>

(* The socket has become writable: SO_ERROR says how the connect ended,    *)
(* and either way the caller is told.                                      *)
ConnectDone(f) ==
    /\ f.at = "connecting"
    /\ Answer(f)
    /\ UNCHANGED <<dnsEntry, dnsOld, dnsPending, dnsGai, dnsCall, dnsSweep>>

(* The waiting fiber goes on, and its frame is gone.                       *)
Return(c) ==
    /\ dnsCall[c].st = "wait"
    /\ dnsAnswers[<<c, dnsCall[c].n>>] > 0
    /\ dnsCall' = [dnsCall EXCEPT ![c].st = "idle"]
    /\ UNCHANGED <<dnsEntry, dnsOld, dnsPending, dnsGai, dnsFibers, dnsAnswers,
                   dnsSweep>>

GrowOld(h) ==
    /\ dnsEntry[h] = "resolved" /\ h \notin dnsOld
    /\ dnsOld' = dnsOld \cup {h}
    /\ UNCHANGED <<dnsEntry, dnsPending, dnsGai, dnsCall, dnsFibers, dnsAnswers,
                   dnsSweep>>

(* Mutant: entries in use are swept as well.                               *)
SweptAll == {h \in DnsHosts : dnsEntry[h] # "none"}
Swept == {h \in dnsOld : dnsEntry[h] = "resolved"}

(* sweep_old_cache_entries erases what is resolved and old.                *)
SweepOldCacheEntries ==
    /\ dnsSweep = "scheduled"
    /\ dnsEntry' = [h \in DnsHosts |-> IF h \in Swept THEN "none" ELSE dnsEntry[h]]
    /\ dnsPending' = [h \in DnsHosts |->
                        IF h \in Swept THEN <<>> ELSE dnsPending[h]]
    /\ dnsOld' = dnsOld \ Swept
    /\ dnsSweep' = "running"
    /\ UNCHANGED <<dnsGai, dnsCall, dnsFibers, dnsAnswers>>

(* Its end schedules the next one; terminate removes the scheduled one,    *)
(* and has no effect on a sweep that is running.                           *)
RescheduleSweep ==
    /\ dnsSweep = "running" /\ dnsSweep' = "scheduled"
    /\ UNCHANGED <<dnsEntry, dnsOld, dnsPending, dnsGai, dnsCall, dnsFibers,
                   dnsAnswers>>

TerminateCache ==
    /\ dnsSweep = "scheduled" /\ dnsSweep' = "none"
    /\ UNCHANGED <<dnsEntry, dnsOld, dnsPending, dnsGai, dnsCall, dnsFibers,
                   dnsAnswers>>

DnsCalls(c) == \E op \in DnsOps, h \in DnsHosts :
    \/ InitiateLookup(c, op, h) \/ InitiateLookupFails(c, op, h)
    \/ JoinLookup(c, op, h) \/ CallFromCache(c, op, h)

DnsFiberStep == \E f \in dnsFibers : RunCallback(f) \/ ConnectDone(f)

DnsNext ==
    \/ \E c \in DnsClients : DnsCalls(c) \/ Return(c)
    \/ \E h \in DnsHosts : ResolveComplete(h) \/ GrowOld(h)
    \/ DnsFiberStep
    \/ SweepOldCacheEntries \/ RescheduleSweep \/ TerminateCache

DnsSpec == DnsInit /\ [][DnsNext]_dnsVars

(* getaddrinfo_a ends, fibers run, sockets become writable.                *)
DnsFairness ==
    /\ \A h \in DnsHosts : WF_dnsVars(ResolveComplete(h))
    /\ WF_dnsVars(DnsFiberStep)
    /\ \A c \in DnsClients : WF_dnsVars(Return(c))

-----------------------------------------------------------------------------
(* Where the call id stands in the lists of pending callers.               *)
Queued(id) == UNION {{<<h, k>> : k \in {i \in DOMAIN dnsPending[h] :
                                         dnsPending[h][i][1] = id}} : h \in DnsHosts}

InFlight(id) == {f \in dnsFibers : <<f.to, f.n>> = id}

(* Every call is answered exactly once: as long as no answer has been      *)
(* given the call stands in exactly one list of pending callers or has     *)
(* exactly one callback under way, and afterwards in none.                 *)
OneAnswer == \A id \in DnsIds :
    dnsAnswers[id] + Cardinality(InFlight(id)) + Cardinality(Queued(id))
        = IF id[2] <= dnsCall[id[1]].n THEN 1 ELSE 0

(* A callback in flight writes into a frame that still exists, unless the  *)
(* lookup could not even be started: then the caller was left by an        *)
(* exception and its callback still comes.  A lookup under way belongs to  *)
(* an entry that is in progress.                                           *)
FramesAlive ==
    /\ \A f \in dnsFibers : f.op # "connect_and_run" =>
         /\ dnsCall[f.to].n = f.n
         /\ dnsCall[f.to].st = "wait" \/ (dnsCall[f.to].st = "threw" /\ f.err)
    /\ \A h \in DnsHosts :
         dnsGai[h] = IF dnsEntry[h] = "in_progress" THEN 1 ELSE 0

(* OneAnswer and FramesAlive: dns_entry, its pending_callers_ and the      *)
(* references that get_addrinfo and connect put into their callbacks.      *)
DnsCallsSound == OneAnswer /\ FramesAlive

(* A fiber that waits in get_addrinfo or connect goes on.                  *)
DnsAnswered == \A c \in DnsClients :
    dnsCall[c].st = "wait" ~> dnsCall[c].st # "wait"
=============================================================================
