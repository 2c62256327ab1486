----------------------------- MODULE DnsLookup -----------------------------
(***************************************************************************)
(* dns_lookup.cpp: the addrinfo_service, a thread that reads lookups from  *)
(* a socket pair in the order they were written and answers each of them   *)
(* in a fiber of its own.  end_service writes a null command, waits for    *)
(* the thread to end and drops the singleton.  A lookup reads the          *)
(* singleton and writes to it in two steps, and neither it nor end_service *)
(* takes the mutex that create takes.                                      *)
(***************************************************************************)
EXTENDS Naturals, Sequences, SequencesExt

CONSTANT LkClients      \* fibers that call get_addrinfo, once each

LkNull == "null"        \* the command that ends the thread

ASSUME LkAssumption == LkClients \cap {LkNull, "none", "reading", "ended"} = {}

VARIABLES
    lkService,   \* the singleton is there
    lkPipe,      \* commands written and not yet read
    lkThread,    \* "none", "reading", "ended" or the fiber whose name it resolves
    lkStop,      \* end_service: "none", "joining", "done"
    lkClient,    \* fiber -> "new", "checked", "wait", "done", "threw", "crashed"
    lkFibers     \* fibers whose answer is under way

lkVars == <<lkService, lkPipe, lkThread, lkStop, lkClient, lkFibers>>

LkInit ==
    /\ lkService = FALSE /\ lkThread = "none" /\ lkStop = "none"
    /\ lkPipe = <<>> /\ lkFibers = {}
    /\ lkClient = [c \in LkClients |-> "new"]

(* create: under its mutex, the pipe, the singleton and the thread.        *)
StartService ==
    /\ ~lkService /\ lkStop = "none"
    /\ lkService' = TRUE /\ lkThread' = "reading"
    /\ UNCHANGED <<lkPipe, lkStop, lkClient, lkFibers>>

(* lookup throws when there is no service.                                 *)
LookupChecks(c) ==
    /\ lkClient[c] = "new"
    /\ lkClient' = [lkClient EXCEPT ![c] = IF lkService THEN "checked" ELSE "threw"]
    /\ UNCHANGED <<lkService, lkPipe, lkThread, lkStop, lkFibers>>

(* It writes the command; the result of write is ignored.  When the        *)
(* singleton has gone meanwhile the write reads a null pointer.            *)
LookupWrites(c) ==
    /\ lkClient[c] = "checked"
    /\ lkPipe' = IF lkService THEN Append(lkPipe, c) ELSE lkPipe
    /\ lkClient' = [lkClient EXCEPT ![c] = IF lkService THEN "wait" ELSE "crashed"]
    /\ UNCHANGED <<lkService, lkThread, lkStop, lkFibers>>

ReadCommand ==
    /\ lkThread = "reading" /\ lkPipe # <<>>
    /\ lkThread' = IF Head(lkPipe) = LkNull THEN "ended" ELSE Head(lkPipe)
    /\ lkPipe' = Tail(lkPipe)
    /\ UNCHANGED <<lkService, lkStop, lkClient, lkFibers>>

(* Mutant: an answer is given only when no other command waits.            *)
AnswerLastInFiber ==
    /\ lkThread \in LkClients
    /\ lkFibers' = IF lkPipe = <<>> THEN {lkThread} ELSE lkFibers
    /\ lkThread' = "reading"
    /\ UNCHANGED <<lkService, lkPipe, lkStop, lkClient>>

(* getaddrinfo has an answer, good or bad; it is given in a new fiber.     *)
AnswerInFiber ==
    /\ lkThread \in LkClients
    /\ lkFibers' = lkFibers \cup {lkThread}
    /\ lkThread' = "reading"
    /\ UNCHANGED <<lkService, lkPipe, lkStop, lkClient>>

(* The fiber fills in the result and wakes the one that waits.             *)
LookupReturns(c) ==
    /\ c \in lkFibers
    /\ lkFibers' = lkFibers \ {c}
    /\ lkClient' = [lkClient EXCEPT ![c] = "done"]
    /\ UNCHANGED <<lkService, lkPipe, lkThread, lkStop>>

EndService ==
    /\ lkService /\ lkStop = "none"
    /\ lkPipe' = Append(lkPipe, LkNull)
    /\ lkStop' = "joining"
    /\ UNCHANGED <<lkService, lkThread, lkClient, lkFibers>>

ThreadJoined ==
    /\ lkStop = "joining" /\ lkThread = "ended"
    /\ lkStop' = "done" /\ lkService' = FALSE
    /\ UNCHANGED <<lkPipe, lkThread, lkClient, lkFibers>>

LkThreadStep == ReadCommand \/ AnswerInFiber \/ ThreadJoined

LkNext ==
    \/ StartService \/ EndService \/ LkThreadStep
    \/ \E c \in LkClients : LookupChecks(c) \/ LookupWrites(c) \/ LookupReturns(c)

LkSpec == LkInit /\ [][LkNext]_lkVars

(* The thread keeps reading, getaddrinfo ends, fibers run.                 *)
LkFairness ==
    /\ WF_lkVars(LkThreadStep)
    /\ \A c \in LkClients : WF_lkVars(LookupReturns(c))

-----------------------------------------------------------------------------
(* Exactly the fibers that wait are on the way to an answer, each in one   *)
(* place: a command in the pipe, the lookup the thread is at, or a fiber   *)
(* that answers.  The thread ends for end_service alone, which has its     *)
(* null command in the pipe or its thread at the end while it waits, and   *)
(* only its return makes a lookup crash.                                   *)
LookupsKept ==
    /\ IsInjective(lkPipe) /\ lkThread \notin ToSet(lkPipe) \cup lkFibers
    /\ ToSet(lkPipe) \cap lkFibers = {}
    /\ {c \in LkClients : lkClient[c] = "wait"} =
         (ToSet(lkPipe) \cup {lkThread} \cup lkFibers) \cap LkClients
    /\ lkThread = "ended" \/ LkNull \in ToSet(lkPipe) <=> lkStop # "none"
    /\ \A c \in LkClients : lkClient[c] = "crashed" => lkStop = "done"

(* Position of the command in the pipe, 0 when it is not there.            *)
LkAt(x) == IF x \in ToSet(lkPipe) THEN CHOOSE i \in 1..Len(lkPipe) : lkPipe[i] = x
                                  ELSE 0

(* A lookup written before the null command of end_service is answered,    *)
(* and end_service returns; only one written after it waits for ever.      *)
LookupsAnswered ==
    /\ \A c \in LkClients :
         (lkClient[c] = "wait" /\ (lkStop = "none" \/ LkAt(c) < LkAt(LkNull)))
            ~> lkClient[c] = "done"
    /\ lkStop = "joining" ~> lkStop = "done"
=============================================================================
