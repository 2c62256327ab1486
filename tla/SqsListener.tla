---------------------------- MODULE SqsListener ----------------------------
(***************************************************************************)
(* aws_sqs_listener of aws_sqs.cpp.  One receive call at a time brings     *)
(* messages, each of which a fiber of its own hands to the application's   *)
(* function; a sweep keeps the messages in _alive_set invisible.  The      *)
(* function answers by its result (_process_msg) or through a callback     *)
(* that may be called later (_process_msg_del).  With                      *)
(* _single_concurrent_message the next receive waits for that answer.      *)
(*                                                                         *)
(* Everything that runs later refers to the listener weakly: a fiber or a  *)
(* callback that finds it gone does nothing.  The listener lives as long   *)
(* as its owner, a fiber that handles a message, or a receive callback     *)
(* that is sleeping, keeps it.                                             *)
(***************************************************************************)
EXTENDS Naturals, FiniteSets

CONSTANTS SqMsgs,       \* messages of the queue
          SqMaxRead,    \* messages a receive call may bring
          SqMaxFibers,  \* max_in_flight_fibers
          SqMaxErrors   \* consecutive errors after which it gives up

ASSUME SqAssumption ==
    /\ IsFiniteSet(SqMsgs)
    /\ SqMaxRead \in Nat \ {0} /\ SqMaxFibers \in Nat \ {0}

VARIABLES
    sqSingle,   \* _single_concurrent_message
    sqDel,      \* the function answers through the callback
    sqOwner,    \* the owner's pointer
    sqQueue,    \* message -> "queued", "flight", "held", "deleting", "deleted"
    sqFiber,    \* message -> "none", "spawned", "run"
    sqAlive,    \* _alive_set
    sqNum,      \* _num_fibers
    sqErrors,   \* _consecutive_errors
    sqExit,     \* _exit_now
    sqAsked,    \* fibers that will call start_listen
    sqRecv,     \* receive calls under way
    sqStall,    \* receive callbacks that sleep or wait for _num_fibers
    sqTimer,    \* the sweep is scheduled
    sqDtor,     \* the destructor: "new" (no listener yet), "no", "wait", "done"
    sqLeft,     \* fibers that ended without counting down
    sqThrew     \* messages whose function threw

sqVars == <<sqSingle, sqDel, sqOwner, sqQueue, sqFiber, sqAlive, sqNum, sqErrors,
            sqExit, sqAsked, sqRecv, sqStall, sqTimer, sqDtor, sqLeft, sqThrew>>
sqMode == <<sqSingle, sqDel>>

SqInit ==
    /\ sqSingle \in BOOLEAN /\ sqDel \in BOOLEAN /\ sqOwner = FALSE
    /\ sqQueue = [m \in SqMsgs |-> "queued"]
    /\ sqFiber = [m \in SqMsgs |-> "none"]
    /\ sqAlive = {} /\ sqNum = 0 /\ sqErrors = 0 /\ sqExit = FALSE
    /\ sqAsked = 0 /\ sqRecv = 0 /\ sqStall = 0 /\ sqTimer = FALSE
    /\ sqDtor = "new" /\ sqLeft = 0 /\ sqThrew = {}

Lives == sqOwner \/ sqStall > 0 \/ \E m \in SqMsgs : sqFiber[m] = "run"

(* new_listener and start.                                                 *)
NewListener ==
    /\ sqDtor = "new" /\ sqDtor' = "no"
    /\ sqOwner' = TRUE /\ sqAsked' = 1 /\ sqTimer' = TRUE
    /\ UNCHANGED <<sqMode, sqQueue, sqFiber, sqAlive, sqNum, sqErrors, sqExit,
                   sqRecv, sqStall, sqLeft, sqThrew>>

DropOwner ==
    /\ sqOwner /\ sqOwner' = FALSE
    /\ UNCHANGED <<sqMode, sqQueue, sqFiber, sqAlive, sqNum, sqErrors, sqExit,
                   sqAsked, sqRecv, sqStall, sqTimer, sqDtor, sqLeft, sqThrew>>

StartListen ==
    /\ sqAsked > 0 /\ sqAsked' = sqAsked - 1
    /\ sqRecv' = IF Lives THEN sqRecv + 1 ELSE sqRecv
    /\ UNCHANGED <<sqMode, sqOwner, sqQueue, sqFiber, sqAlive, sqNum, sqErrors,
                   sqExit, sqStall, sqTimer, sqDtor, sqLeft, sqThrew>>


(* The condition under which the callback starts the next receive call.    *)
ListensAgain(failed, n) == failed \/ ~sqSingle \/ n = 0

(* The callback of ReceiveMessageAsync; without messages the application   *)
(* may say that it does not want to go on.                                 *)
Received(S, failed, goOn) ==
    /\ sqRecv > 0 /\ sqRecv' = sqRecv - 1
    /\ \A m \in S : sqQueue[m] = "queued" /\ sqFiber[m] = "none" /\ ~failed
    /\ Cardinality(S) <= (IF sqSingle THEN 1 ELSE SqMaxRead)
    /\ sqQueue' = [m \in SqMsgs |-> IF m \in S THEN "flight" ELSE sqQueue[m]]
    /\ \/ ~Lives /\ UNCHANGED <<sqFiber, sqNum, sqErrors, sqExit, sqStall>>
       \/ /\ Lives
          /\ sqErrors' = IF ~failed THEN 0
                         ELSE IF sqErrors < SqMaxErrors THEN sqErrors + 1 ELSE sqErrors
          /\ sqFiber' = [m \in SqMsgs |-> IF m \in S THEN "spawned" ELSE sqFiber[m]]
          /\ sqNum' = sqNum + Cardinality(S)
          /\ sqExit' = (sqExit \/ (~failed /\ S = {} /\ ~goOn))
          /\ sqStall' = IF sqErrors' < SqMaxErrors /\ ListensAgain(failed, Cardinality(S))
                           /\ ~sqExit'
                        THEN sqStall + 1 ELSE sqStall
    /\ UNCHANGED <<sqMode, sqOwner, sqAlive, sqAsked, sqTimer, sqDtor, sqLeft, sqThrew>>

(* The callback goes on once there is room for more fibers.                *)
RestartListen ==
    /\ sqStall > 0 /\ sqNum < SqMaxFibers
    /\ sqStall' = sqStall - 1 /\ sqAsked' = sqAsked + 1
    /\ UNCHANGED <<sqMode, sqOwner, sqQueue, sqFiber, sqAlive, sqNum, sqErrors,
                   sqExit, sqRecv, sqTimer, sqDtor, sqLeft, sqThrew>>

(* The message's fiber starts; one that finds no listener returns before   *)
(* it counts down.                                                         *)
FiberStarts(m) ==
    /\ sqFiber[m] = "spawned"
    /\ \/ /\ Lives /\ sqFiber' = [sqFiber EXCEPT ![m] = "run"]
          /\ sqAlive' = sqAlive \cup {m} /\ UNCHANGED sqLeft
       \/ /\ ~Lives /\ sqFiber' = [sqFiber EXCEPT ![m] = "none"]
          /\ sqLeft' = sqLeft + 1 /\ UNCHANGED sqAlive
    /\ UNCHANGED <<sqMode, sqOwner, sqQueue, sqNum, sqErrors, sqExit, sqAsked,
                   sqRecv, sqStall, sqTimer, sqDtor, sqThrew>>

FiberEnds(m) ==
    /\ sqFiber[m] = "run" /\ sqFiber' = [sqFiber EXCEPT ![m] = "none"]
    /\ UNCHANGED <<sqMode, sqOwner, sqErrors, sqExit, sqAsked, sqStall, sqTimer, sqDtor>>

(* What js_wrap makes of the application's function: a message that is not *)
(* JSON, or that the function calls invalid, counts as processed, another  *)
(* exception as not processed.                                             *)
JsWrap(result) == result \in {"true", "unparsable", "invalid"}

(* The answer of the function: with true the message is deleted, or waits  *)
(* for the callback; with false it is made visible soon.                   *)
Processed(m, ok) ==
    /\ FiberEnds(m)
    /\ sqNum' = sqNum - 1
    /\ sqQueue' = [sqQueue EXCEPT ![m] = IF ~ok THEN "flight"
                                         ELSE IF sqDel THEN "held" ELSE "deleting"]
    /\ sqAlive' = IF ok THEN sqAlive ELSE sqAlive \ {m}
    /\ sqRecv' = IF ~sqDel /\ sqSingle /\ ~sqExit THEN sqRecv + 1 ELSE sqRecv
    /\ sqThrew' = IF sqDel /\ ~ok THEN sqThrew \cup {m} ELSE sqThrew
    /\ UNCHANGED sqLeft

(* The function throws: a throttling error sends a copy of the message and *)
(* deletes it, and if that throws too the fiber ends at once; any other    *)
(* exception leaves the message in _alive_set.  No next receive is started.*)
Throws(m) ==
    /\ FiberEnds(m)
    /\ \/ /\ sqNum' = sqNum - 1 /\ UNCHANGED sqLeft
          /\ \/ sqQueue' = [sqQueue EXCEPT ![m] = "deleting"]
             \/ UNCHANGED sqQueue
       \/ sqLeft' = sqLeft + 1 /\ UNCHANGED <<sqNum, sqQueue>>
    /\ sqThrew' = sqThrew \cup {m}
    /\ UNCHANGED <<sqAlive, sqRecv>>

(* The callback given to the function; a call made before the function     *)
(* returns is taken for one made right after it.                           *)
DelCallback(m, delete) ==
    /\ sqQueue[m] = "held"
    /\ \/ /\ Lives
          /\ sqQueue' = [sqQueue EXCEPT ![m] = IF delete THEN "deleting" ELSE "flight"]
          /\ sqAlive' = IF delete THEN sqAlive ELSE sqAlive \ {m}
          /\ sqRecv' = IF sqSingle /\ ~sqExit THEN sqRecv + 1 ELSE sqRecv
       \/ /\ ~Lives /\ sqQueue' = [sqQueue EXCEPT ![m] = "flight"]
          /\ UNCHANGED <<sqAlive, sqRecv>>
    /\ UNCHANGED <<sqMode, sqOwner, sqFiber, sqNum, sqErrors, sqExit, sqAsked,
                   sqStall, sqTimer, sqDtor, sqLeft, sqThrew>>

(* Mutant: the message of a handler that failed stays in _alive_set.       *)
AnsweredIfOk(m, ok) == IF Lives /\ ok THEN sqAlive \ {m} ELSE sqAlive

(* remove_from_keep_alive, whether the deletion succeeded or not.          *)
RemoveFromKeepAlive(m, ok) == IF Lives THEN sqAlive \ {m} ELSE sqAlive

(* The callback of DeleteMessageAsync.                                     *)
DeleteDone(m, ok) ==
    /\ sqQueue[m] = "deleting"
    /\ sqQueue' = [sqQueue EXCEPT ![m] = IF ok THEN "deleted" ELSE "flight"]
    /\ sqAlive' = RemoveFromKeepAlive(m, ok)
    /\ UNCHANGED <<sqMode, sqOwner, sqFiber, sqNum, sqErrors, sqExit, sqAsked,
                   sqRecv, sqStall, sqTimer, sqDtor, sqLeft, sqThrew>>

(* set_visibility_timeout schedules itself again.                          *)
Sweep ==
    /\ sqTimer /\ sqTimer' = Lives
    /\ UNCHANGED <<sqMode, sqOwner, sqQueue, sqFiber, sqAlive, sqNum, sqErrors,
                   sqExit, sqAsked, sqRecv, sqStall, sqDtor, sqLeft, sqThrew>>

(* A message that nobody keeps or handles becomes visible again.           *)
Visible(m) ==
    /\ sqQueue[m] = "flight" /\ sqFiber[m] = "none" /\ (m \in sqAlive => sqDtor = "done")
    /\ sqQueue' = [sqQueue EXCEPT ![m] = "queued"]
    /\ UNCHANGED <<sqMode, sqOwner, sqFiber, sqAlive, sqNum, sqErrors, sqExit,
                   sqAsked, sqRecv, sqStall, sqTimer, sqDtor, sqLeft, sqThrew>>

(* The last pointer is gone: the destructor waits for the fibers, none of  *)
(* which can have a pointer any more.                                      *)
Destroy ==
    /\ \/ /\ sqDtor = "no" /\ ~Lives
          /\ sqDtor' = "wait" /\ sqExit' = TRUE /\ UNCHANGED sqTimer
       \/ /\ sqDtor = "wait" /\ sqNum = 0
          /\ sqDtor' = "done" /\ sqTimer' = FALSE /\ UNCHANGED sqExit
    /\ UNCHANGED <<sqMode, sqOwner, sqQueue, sqFiber, sqAlive, sqNum, sqErrors,
                   sqAsked, sqRecv, sqStall, sqLeft, sqThrew>>

SqResults == {"true", "false", "unparsable", "invalid", "exception"}

SqNext ==
    \/ NewListener \/ DropOwner \/ StartListen \/ RestartListen \/ Sweep \/ Destroy
    \/ \E S \in SUBSET SqMsgs, failed, goOn \in BOOLEAN : Received(S, failed, goOn)
    \/ \E m \in SqMsgs :
         \/ FiberStarts(m) \/ Throws(m) \/ Visible(m)
         \/ \E r \in SqResults : Processed(m, JsWrap(r))
         \/ \E b \in BOOLEAN : DelCallback(m, b) \/ DeleteDone(m, b)

(* Fibers are scheduled, calls are answered, functions answer too.         *)
SqFairness ==
    /\ WF_sqVars(StartListen) /\ WF_sqVars(RestartListen)
    /\ WF_sqVars(\E S \in SUBSET SqMsgs, failed, goOn \in BOOLEAN : Received(S, failed, goOn))
    /\ \A m \in SqMsgs :
         /\ WF_sqVars(FiberStarts(m))
         /\ WF_sqVars(Throws(m) \/ \E r \in SqResults : Processed(m, JsWrap(r)))
         /\ WF_sqVars(\E b \in BOOLEAN : DelCallback(m, b))

-----------------------------------------------------------------------------
(* _num_fibers counts the fibers that have not ended and those that ended  *)
(* without counting down, so that only the latter can keep the destructor  *)
(* from returning; there is never more than one receive loop; and a        *)
(* message is kept invisible exactly from the start of its fiber until its *)
(* deletion is answered or it is given back, or for ever if its function   *)
(* threw.                                                                  *)
ListenerSound ==
    /\ sqNum = Cardinality({m \in SqMsgs : sqFiber[m] # "none"}) + sqLeft
    /\ sqNum < SqMaxFibers + SqMaxRead
    /\ sqAsked + sqRecv + sqStall <= 1
    /\ sqDtor = "done" => ~Lives /\ ~sqTimer
    /\ Lives => \A m \in SqMsgs :
         /\ sqFiber[m] = "run" \/ sqQueue[m] \in {"held", "deleting"} => m \in sqAlive
         /\ m \in sqAlive => \/ sqFiber[m] = "run" \/ m \in sqThrew
                             \/ sqQueue[m] \in {"held", "deleting"}

(* As long as the listener has its owner, is not told to stop and no       *)
(* function fails, it comes back to a receive call, in either mode and     *)
(* after failed calls, unless it gives up after too many of them.          *)
KeepsListening ==
    sqOwner ~> \/ sqRecv > 0 \/ ~sqOwner \/ sqExit \/ sqThrew # {}
               \/ sqErrors >= SqMaxErrors
=============================================================================
