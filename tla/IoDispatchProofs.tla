-------------------------- MODULE IoDispatchProofs --------------------------
(***************************************************************************)
(* Proofs about IoDispatch, for any number of io threads and other threads *)
(* and any number of calls.  Which calls may be mixed is a hypothesis of   *)
(* each theorem on Mixes: on_each and while_paused share num_paused_       *)
(* threads_, and while_paused takes part in the countdown of while_paused2 *)
(* without having started one.                                             *)
(***************************************************************************)
EXTENDS IoDispatch, FiniteSetTheorems, TLAPS

Kinds == {"k_wake", "k_pause", "k_on_each", "k_on_one"}
Cmds == [cmd : Kinds, id : Nat]
OfKind(s, k) == {i \in DOMAIN s : s[i].cmd = k}
OuterLabels == {"lock_com", "pause_wait", "f", "resume2_wait", "paused2_return", "each_exec",
                "each_f"}
EachLabels == {"k_on_each", "each_exec", "each_resume_wait", "each_wait", "each_f"}
PauseLabels == {"k_pause", "resume_wait", "lock_com", "pause_wait", "f", "resume2_wait",
                "paused2_return"}
OutsideLabels == {"idle", "lock_com", "pause_wait", "f", "each_wait", "each_f", "join", "joined"}

-----------------------------------------------------------------------------
(* What holds whatever the calls.                                          *)

(* The types, with numbers of calls that are not bounded.                  *)
IoType ==
    /\ running \in BOOLEAN /\ ctlArmed \in BOOLEAN
    /\ ctl \in Seq(Cmds)
    /\ numPaused \in Nat /\ numDone \in Nat /\ countdown \in Int
    /\ cd \in [IoThreads -> Nat]
    /\ pc \in [Threads -> Labels]
    /\ call \in [Threads -> [api : Apis \cup {"none"}, id : Nat]]
    /\ owed \subseteq IoThreads \X Nat
    /\ lastId \in Nat /\ left \in [Apis -> Nat]

(* Threads that are not io threads only make calls, and not while_paused2; *)
(* a call holds pause_outer_mutex_ until it returns, on_each only while    *)
(* its function runs on a thread.                                          *)
IoPlaces ==
    /\ \A t \in Outside : pc[t] \in OutsideLabels /\ call[t].api # "while_paused2"
    /\ \A t \in IoThreads : pc[t] # "idle"
    /\ \A t \in Threads : outer = t <=> pc[t] \in OuterLabels
    /\ \A t \in Threads : pc[t] \in {"lock_com", "pause_wait", "f"} =>
         call[t].api \in {"while_paused", "while_paused2"}
    /\ \A t \in Threads : pc[t] \in {"resume2_wait", "paused2_return"} =>
         t \in IoThreads /\ call[t].api = "while_paused2"

(* One thread has the right to arm the control pipe, while it is disarmed. *)
IoWatch ==
    /\ ctlArmed => \A t \in Threads : pc[t] \notin Kinds
    /\ ~ctlArmed => \E t \in Threads : pc[t] \in Kinds
    /\ \A t, u \in Threads : pc[t] \in Kinds /\ pc[u] \in Kinds => t = u

IoInv == IoType /\ IoPlaces /\ IoWatch

-----------------------------------------------------------------------------
(* Calls that are not made leave no trace.                                 *)

NoEach ==
    /\ left["on_each"] = 0
    /\ \A t \in Threads : pc[t] \notin EachLabels
    /\ \A i \in DOMAIN ctl : ctl[i].cmd # "k_on_each"

NoPause ==
    /\ left["while_paused"] = 0 /\ left["while_paused2"] = 0
    /\ \A t \in Threads : pc[t] \notin PauseLabels
    /\ \A i \in DOMAIN ctl : ctl[i].cmd # "k_pause"

NoPlain ==
    /\ left["while_paused"] = 0
    /\ \A t \in Threads : call[t].api # "while_paused"

NoPaused2 ==
    /\ left["while_paused2"] = 0 /\ atRest = <<>>
    /\ \A t \in Threads : call[t].api # "while_paused2"

-----------------------------------------------------------------------------
(* The pause.                                                              *)

Own(t) == IF t \in IoThreads THEN 1 ELSE 0
Stopped == At({"resume_wait"})

(* num_paused_threads_ counts no more than the threads that are stopped    *)
(* and the caller: nobody goes on before it is set to zero.                *)
PauseCount == \A t \in Threads :
    /\ pc[t] \in {"pause_wait", "f"} => numPaused <= Cardinality(Stopped) + Own(t)
    /\ pc[t] = "f" => numPaused = NumThreads

PauseInv == IoInv /\ (NoPause \/ (NoEach /\ PauseCount))

-----------------------------------------------------------------------------
(* The countdown.                                                          *)

(* The k_pause commands that are still in the pipe.                        *)
PausesLeft == OfKind(ctl, "k_pause")

(* Before f each io thread but the caller is stopped, reading its command  *)
(* or still to read one; nobody is or does outside a call.                 *)
PauseExact ==
    /\ At({"pause_wait"}) = {} => PausesLeft = {} /\ At({"k_pause"}) = {}
    /\ At({"pause_wait", "f", "resume2_wait"}) = {} => Stopped = {}
    /\ At({"pause_wait"}) # {} =>
         /\ numPaused = Cardinality(Stopped) + 1
         /\ Cardinality(PausesLeft) + Cardinality(At({"k_pause"})) + numPaused = NumThreads
    /\ At({"resume2_wait"}) # {} =>
         numPaused = 0 /\ numDone + Cardinality(Stopped) = NumThreads

(* thread_countdown_ is what the threads have to take off it at the top of *)
(* their loops and what those that are not resumed yet will add to that.   *)
Units == {x \in IoThreads \X (Nat \ {0}) : x[2] <= cd[x[1]]}
Pending == IF At({"resume2_wait"}) = {} THEN {} ELSE Stopped
CountdownExact == IsFiniteSet(Units) /\ countdown = Cardinality(Units) + Cardinality(Pending)

(* A thread that has not been back at the top since an at-rest function    *)
(* was registered has a share of the countdown.                            *)
OwedCounted ==
    /\ \A o \in owed : cd[o[1]] > 0 \/ o[1] \in Pending
    /\ At({"lock_rest", "at_rest"}) # {} => owed = {}

RestInv == IoInv /\
    (NoPaused2 \/ (NoEach /\ NoPlain /\ PauseCount /\ PauseExact /\ CountdownExact
                    /\ OwedCounted))

-----------------------------------------------------------------------------
(* on_each.                                                                *)

Callers == At({"each_wait", "each_f"})
Executed(c) == {u \in IoThreads : <<u, call[c].id>> \in ran}
InPipe == OfKind(ctl, "k_on_each")
InHand == At({"k_on_each", "each_exec"})

(* Numbers are given out once.                                             *)
IdsKnown ==
    /\ ran \subseteq IoThreads \X Nat
    /\ \A i \in DOMAIN ctl : ctl[i].id <= lastId
    /\ \A t \in Threads : call[t].id <= lastId
    /\ \A r \in ran : r[2] <= lastId
    /\ \A c \in Callers :
         /\ \A i \in DOMAIN ctl : ctl[i].cmd = "k_on_one" => ctl[i].id # call[c].id
         /\ \A t \in At({"k_on_one"}) : call[t].id # call[c].id

(* The command of on_each is in one place, as long as it has not been      *)
(* everywhere, and it is that of the caller.                               *)
OneCommand ==
    /\ \A i, j \in InPipe : i = j
    /\ InPipe # {} => InHand = {}
    /\ \A t, u \in InHand : t = u
    /\ InPipe # {} \/ InHand # {} => At({"each_wait"}) # {} /\ numPaused < NumThreads
    /\ \A c \in Callers : /\ \A i \in InPipe : ctl[i].id = call[c].id
                          /\ \A t \in InHand : call[t].id = call[c].id

(* One caller, who counts the threads that have executed the function;     *)
(* they are all stopped.                                                   *)
EachCount ==
    /\ left["on_each"] <= 1
    /\ left["on_each"] = 1 => \A t \in Threads : pc[t] \notin EachLabels
    /\ \A c, d \in Callers : c = d
    /\ \A c \in Callers :
         /\ numPaused = Cardinality(Executed(c)) + Own(c)
         /\ \A u \in Executed(c) : pc[u] = "each_resume_wait"
         /\ pc[c] = "each_f" => numPaused = NumThreads

EachInv == IoInv /\ (NoEach \/ (NoPause /\ IdsKnown /\ OneCommand /\ EachCount))

-----------------------------------------------------------------------------
(* The commands in the pipe.                                               *)

(* The first command is read.                                              *)
LEMMA PipeTail ==
  ASSUME NEW S, NEW s \in Seq(S), s # <<>>
  PROVE  /\ Head(s) \in S /\ Head(s) = s[1] /\ 1 \in DOMAIN s
         /\ Tail(s) \in Seq(S)
         /\ \A i : i \in DOMAIN Tail(s) <=> i \in Int /\ i >= 1 /\ i + 1 \in DOMAIN s
         /\ \A i \in DOMAIN Tail(s) : Tail(s)[i] = s[i + 1]
  OBVIOUS

(* A command is written.                                                   *)
LEMMA PipeAppend ==
  ASSUME NEW S, NEW s \in Seq(S), NEW e \in S
  PROVE  /\ Append(s, e) \in Seq(S)
         /\ DOMAIN Append(s, e) = DOMAIN s \cup {Len(s) + 1}
         /\ Len(s) \in Nat /\ DOMAIN s = 1..Len(s)
         /\ Append(s, e)[Len(s) + 1] = e
         /\ \A i \in DOMAIN s : Append(s, e)[i] = s[i]
  OBVIOUS

(* The same command is written n times.                                    *)
LEMMA PipeConcat ==
  ASSUME NEW S, NEW s \in Seq(S), NEW e \in S, NEW n \in Nat
  PROVE  LET r == s \o [i \in 1..n |-> e] IN
         /\ r \in Seq(S)
         /\ Len(s) \in Nat /\ DOMAIN s = 1..Len(s) /\ DOMAIN r = 1..(Len(s) + n)
         /\ \A i \in DOMAIN s : r[i] = s[i]
         /\ \A i \in (Len(s) + 1)..(Len(s) + n) : r[i] = e
<1> DEFINE q == [i \in 1..n |-> e]
<1>1. q \in Seq(S) /\ Len(q) = n
  OBVIOUS
<1>2. \A i \in 1..n : q[i] = e
  OBVIOUS
<1> HIDE DEF q
<1>3. /\ s \o q \in Seq(S) /\ Len(s) \in Nat /\ DOMAIN s = 1..Len(s)
      /\ DOMAIN (s \o q) = 1..(Len(s) + n)
      /\ \A i \in DOMAIN s : (s \o q)[i] = s[i]
      /\ \A i \in (Len(s) + 1)..(Len(s) + n) : (s \o q)[i] = q[i - Len(s)]
  BY <1>1
<1>4. \A i \in (Len(s) + 1)..(Len(s) + n) : (s \o q)[i] = e
  BY <1>2, <1>3
<1> QED BY <1>3, <1>4 DEF q

(* The number of io threads.                                               *)
LEMMA SomeThreads == NumThreads \in Nat /\ NumThreads >= 1 /\ IoThreads # {}
  BY IoDispatchAssumption, FS_CardinalityType, FS_EmptySet DEF IoDispatchAssumption, NumThreads

(* Threads that are not io threads are never in the loop.                  *)
LEMMA LoopThread ==
  ASSUME IoInv, NEW t \in Threads, pc[t] \notin OutsideLabels
  PROVE  t \in IoThreads
  BY DEF IoInv, IoPlaces, Threads

(* The io threads are threads apart, and "no owner" is none of them.       *)
LEMMA Apart == IoThreads \cap Outside = {} /\ NoThread \notin IoThreads \cup Outside
  BY IoDispatchAssumption DEF IoDispatchAssumption, Threads

LEMMA Less ==
  ASSUME NEW a \in Nat, NEW b \in Nat, b <= a
  PROVE  a - b \in Nat
  OBVIOUS

-----------------------------------------------------------------------------
(* Every step keeps IoInv.                                                 *)
LEMMA IoStep == IoInv /\ [Next]_vars => IoInv'
<1> SUFFICES ASSUME IoInv, [Next]_vars PROVE IoInv'
  OBVIOUS
<1> USE DEF Threads
<1>1. ASSUME NEW t \in Threads, LeaveLoop(t) PROVE IoInv'
  <2>1. IoType'
    BY <1>1, Apart
      DEF IoInv, IoType, IoPlaces, Kinds, Labels, Apis, OutsideLabels, LeaveLoop, Goto,
        pauseVars, callVars
  <2>2. IoPlaces'
    BY <1>1, Apart
      DEF IoInv, IoType, IoPlaces, IoWatch, OuterLabels, OutsideLabels, Labels, LeaveLoop,
        Goto, pauseVars, callVars
  <2>3. IoWatch'
    BY <1>1, Apart
      DEF IoInv, IoType, IoPlaces, IoWatch, Kinds, Labels, LeaveLoop, Goto, pauseVars,
        callVars
  <2> QED BY <2>1, <2>2, <2>3 DEF IoInv
<1>2. ASSUME NEW t \in Threads, LoopTop(t) PROVE IoInv'
  <2>i. t \in IoThreads
    BY <1>2, LoopThread DEF LoopTop, OutsideLabels
  <2>w. cd' \in [IoThreads -> Nat]
    BY <1>2, <2>i DEF LoopTop, IoInv, IoType
  <2>v. countdown' \in Int /\ numDone' \in Nat
    BY <1>2, <2>i DEF LoopTop, IoInv, IoType
  <2>u. owed' \subseteq IoThreads \X Nat
    BY <1>2, <2>i DEF LoopTop, IoInv, IoType
  <2>1. IoType'
    BY <1>2, Apart, <2>w, <2>v, <2>u
      DEF IoInv, IoType, IoPlaces, Kinds, Labels, Apis, OutsideLabels, LoopTop, Goto,
        pauseVars, callVars
  <2>2. IoPlaces'
    BY <1>2, Apart
      DEF IoInv, IoType, IoPlaces, IoWatch, OuterLabels, OutsideLabels, Labels, LoopTop, Goto,
        pauseVars, callVars
  <2>3. IoWatch'
    BY <1>2, Apart
      DEF IoInv, IoType, IoPlaces, IoWatch, Kinds, Labels, LoopTop, Goto, pauseVars, callVars
  <2> QED BY <2>1, <2>2, <2>3 DEF IoInv
<1>3. ASSUME NEW t \in Threads, LockAtRest(t) PROVE IoInv'
  <2>1. IoType'
    BY <1>3, Apart
      DEF IoInv, IoType, IoPlaces, Kinds, Labels, Apis, OutsideLabels, LockAtRest, Goto,
        pauseVars, callVars
  <2>2. IoPlaces'
    BY <1>3, Apart
      DEF IoInv, IoType, IoPlaces, IoWatch, OuterLabels, OutsideLabels, Labels, LockAtRest,
        Goto, pauseVars, callVars
  <2>3. IoWatch'
    BY <1>3, Apart
      DEF IoInv, IoType, IoPlaces, IoWatch, Kinds, Labels, LockAtRest, Goto, pauseVars,
        callVars
  <2> QED BY <2>1, <2>2, <2>3 DEF IoInv
<1>4. ASSUME NEW t \in Threads, RunAtRest(t) PROVE IoInv'
  <2>1. IoType'
    BY <1>4, Apart
      DEF IoInv, IoType, IoPlaces, Kinds, Labels, Apis, OutsideLabels, RunAtRest, Goto,
        pauseVars, callVars
  <2>2. IoPlaces'
    BY <1>4, Apart
      DEF IoInv, IoType, IoPlaces, IoWatch, OuterLabels, OutsideLabels, Labels, RunAtRest,
        Goto, pauseVars, callVars
  <2>3. IoWatch'
    BY <1>4, Apart
      DEF IoInv, IoType, IoPlaces, IoWatch, Kinds, Labels, RunAtRest, Goto, pauseVars,
        callVars
  <2> QED BY <2>1, <2>2, <2>3 DEF IoInv
<1>5. ASSUME NEW t \in Threads, EndEvent(t) PROVE IoInv'
  <2>1. IoType'
    BY <1>5, Apart
      DEF IoInv, IoType, IoPlaces, Kinds, Labels, Apis, OutsideLabels, EndEvent, Goto,
        pauseVars, callVars
  <2>2. IoPlaces'
    BY <1>5, Apart
      DEF IoInv, IoType, IoPlaces, IoWatch, OuterLabels, OutsideLabels, Labels, EndEvent, Goto,
        pauseVars, callVars
  <2>3. IoWatch'
    BY <1>5, Apart
      DEF IoInv, IoType, IoPlaces, IoWatch, Kinds, Labels, EndEvent, Goto, pauseVars, callVars
  <2> QED BY <2>1, <2>2, <2>3 DEF IoInv
<1>6. ASSUME NEW t \in Threads, HandleWake(t) PROVE IoInv'
  <2>c. Command("k_wake", 0) \in Cmds
    BY <1>6 DEF IoInv, IoType, Cmds, Kinds, Command
  <2>d. Append(ctl, Command("k_wake", 0)) \in Seq(Cmds)
    BY <2>c, PipeAppend DEF IoInv, IoType
  <2>w. ctl' \in Seq(Cmds)
    BY <1>6, <2>d DEF IoInv, IoType, HandleWake
  <2>1. IoType'
    BY <1>6, Apart, <2>w
      DEF IoInv, IoType, IoPlaces, Kinds, Labels, Apis, OutsideLabels, HandleWake, Goto,
        pauseVars, callVars
  <2>2. IoPlaces'
    BY <1>6, Apart
      DEF IoInv, IoType, IoPlaces, IoWatch, OuterLabels, OutsideLabels, Labels, HandleWake,
        Command, Goto, pauseVars, callVars
  <2>3. IoWatch'
    BY <1>6, Apart
      DEF IoInv, IoType, IoPlaces, IoWatch, Kinds, Labels, HandleWake, Command, Goto,
        pauseVars, callVars
  <2> QED BY <2>1, <2>2, <2>3 DEF IoInv
<1>7. ASSUME NEW t \in Threads, HandlePause(t) PROVE IoInv'
  <2>1. IoType'
    BY <1>7, Apart, SMTT(30)
      DEF IoInv, IoType, IoPlaces, Kinds, Labels, Apis, OutsideLabels, HandlePause, Goto,
        pauseVars, callVars
  <2>2. IoPlaces'
    BY <1>7, Apart
      DEF IoInv, IoType, IoPlaces, IoWatch, OuterLabels, OutsideLabels, Labels, HandlePause,
        Goto, pauseVars, callVars
  <2>3. IoWatch'
    BY <1>7, Apart
      DEF IoInv, IoType, IoPlaces, IoWatch, Kinds, Labels, HandlePause, Goto, pauseVars,
        callVars
  <2> QED BY <2>1, <2>2, <2>3 DEF IoInv
<1>8. ASSUME NEW t \in Threads, Resume(t) PROVE IoInv'
  <2>i. t \in IoThreads
    BY <1>8, LoopThread DEF Resume, OutsideLabels
  <2>w. cd' \in [IoThreads -> Nat]
    BY <1>8, <2>i DEF Resume, IoInv, IoType
  <2>v. countdown' \in Int /\ numDone' \in Nat
    BY <1>8, <2>i DEF Resume, IoInv, IoType
  <2>u. owed' \subseteq IoThreads \X Nat
    BY <1>8, <2>i DEF Resume, IoInv, IoType
  <2>1. IoType'
    BY <1>8, Apart, <2>w, <2>v, <2>u
      DEF IoInv, IoType, IoPlaces, Kinds, Labels, Apis, OutsideLabels, Resume, Goto, pauseVars,
        callVars
  <2>2. IoPlaces'
    BY <1>8, Apart
      DEF IoInv, IoType, IoPlaces, IoWatch, OuterLabels, OutsideLabels, Labels, Resume, Goto,
        pauseVars, callVars
  <2>3. IoWatch'
    BY <1>8, Apart
      DEF IoInv, IoType, IoPlaces, IoWatch, Kinds, Labels, Resume, Goto, pauseVars, callVars
  <2> QED BY <2>1, <2>2, <2>3 DEF IoInv
<1>9. ASSUME NEW t \in Threads, WaitAgain(t) PROVE IoInv'
  <2>1. IoType'
    BY <1>9, Apart
      DEF IoInv, IoType, IoPlaces, Kinds, Labels, Apis, OutsideLabels, WaitAgain, Goto,
        pauseVars, callVars
  <2>2. IoPlaces'
    BY <1>9, Apart
      DEF IoInv, IoType, IoPlaces, IoWatch, OuterLabels, OutsideLabels, Labels, WaitAgain,
        Goto, pauseVars, callVars
  <2>3. IoWatch'
    BY <1>9, Apart
      DEF IoInv, IoType, IoPlaces, IoWatch, Kinds, Labels, WaitAgain, Goto, pauseVars,
        callVars
  <2> QED BY <2>1, <2>2, <2>3 DEF IoInv
<1>10. ASSUME NEW t \in Threads, HandleOnEach(t) PROVE IoInv'
  <2>1. IoType'
    BY <1>10, Apart
      DEF IoInv, IoType, IoPlaces, Kinds, Labels, Apis, OutsideLabels, HandleOnEach, Goto,
        pauseVars, callVars
  <2>2. IoPlaces'
    BY <1>10, Apart
      DEF IoInv, IoType, IoPlaces, IoWatch, OuterLabels, OutsideLabels, Labels, HandleOnEach,
        Goto, pauseVars, callVars
  <2>3. IoWatch'
    BY <1>10, Apart
      DEF IoInv, IoType, IoPlaces, IoWatch, Kinds, Labels, HandleOnEach, Goto, pauseVars,
        callVars
  <2> QED BY <2>1, <2>2, <2>3 DEF IoInv
<1>11. ASSUME NEW t \in Threads, OnEachExecuted(t) PROVE IoInv'
  <2>c. Command("k_on_each", call[t].id) \in Cmds
    BY <1>11 DEF IoInv, IoType, Cmds, Kinds, Command, OnEachExecuted
  <2>d. Append(ctl, Command("k_on_each", call[t].id)) \in Seq(Cmds)
    BY <2>c, PipeAppend DEF IoInv, IoType
  <2>w. ctl' \in Seq(Cmds)
    BY <1>11, <2>d DEF IoInv, IoType, OnEachExecuted
  <2>1. IoType'
    BY <1>11, Apart, <2>w
      DEF IoInv, IoType, IoPlaces, Kinds, Labels, Apis, OutsideLabels, OnEachExecuted, Goto,
        pauseVars, callVars
  <2>2. IoPlaces'
    BY <1>11, Apart
      DEF IoInv, IoType, IoPlaces, IoWatch, OuterLabels, OutsideLabels, Labels, OnEachExecuted,
        Command, Goto, pauseVars, callVars
  <2>3. IoWatch'
    BY <1>11, Apart
      DEF IoInv, IoType, IoPlaces, IoWatch, Kinds, Labels, OnEachExecuted, Command, Goto,
        pauseVars, callVars
  <2> QED BY <2>1, <2>2, <2>3 DEF IoInv
<1>12. ASSUME NEW t \in Threads, OnEachResumed(t) PROVE IoInv'
  <2>1. IoType'
    BY <1>12, Apart
      DEF IoInv, IoType, IoPlaces, Kinds, Labels, Apis, OutsideLabels, OnEachResumed, Goto,
        pauseVars, callVars
  <2>2. IoPlaces'
    BY <1>12, Apart
      DEF IoInv, IoType, IoPlaces, IoWatch, OuterLabels, OutsideLabels, Labels, OnEachResumed,
        Goto, pauseVars, callVars
  <2>3. IoWatch'
    BY <1>12, Apart
      DEF IoInv, IoType, IoPlaces, IoWatch, Kinds, Labels, OnEachResumed, Goto, pauseVars,
        callVars
  <2> QED BY <2>1, <2>2, <2>3 DEF IoInv
<1>13. ASSUME NEW t \in Threads, HandleOnOne(t) PROVE IoInv'
  <2>1. IoType'
    BY <1>13, Apart
      DEF IoInv, IoType, IoPlaces, Kinds, Labels, Apis, OutsideLabels, HandleOnOne, Goto,
        pauseVars, callVars
  <2>2. IoPlaces'
    BY <1>13, Apart
      DEF IoInv, IoType, IoPlaces, IoWatch, OuterLabels, OutsideLabels, Labels, HandleOnOne,
        Goto, pauseVars, callVars
  <2>3. IoWatch'
    BY <1>13, Apart
      DEF IoInv, IoType, IoPlaces, IoWatch, Kinds, Labels, HandleOnOne, Goto, pauseVars,
        callVars
  <2> QED BY <2>1, <2>2, <2>3 DEF IoInv
<1>14. ASSUME NEW t \in Threads, SendPauses(t) PROVE IoInv'
  <2>c. Command("k_pause", 0) \in Cmds /\ numPaused' \in 0..NumThreads
    BY <1>14, SomeThreads DEF SendPauses, Cmds, Kinds, Command
  <2>n. NumThreads \in Nat
    BY SomeThreads
  <2>p. numPaused' \in Nat /\ numPaused' <= NumThreads
    BY <2>c, <2>n
  <2>d. NumThreads - numPaused' \in Nat
    BY <2>n, <2>p, Less
  <2>k. ASSUME NEW n \in Nat, NEW e \in Cmds PROVE ctl \o [i \in 1..n |-> e] \in Seq(Cmds)
    BY PipeConcat DEF IoInv, IoType
  <2>l. ctl' = ctl \o [i \in 1..(NumThreads - numPaused') |-> Command("k_pause", 0)]
    BY <1>14 DEF SendPauses
  <2>w. ctl' \in Seq(Cmds)
    BY <2>c, <2>d, <2>k, <2>l, Zenon
  <2>1. IoType'
    BY <1>14, Apart, <2>w, <2>c
      DEF IoInv, IoType, IoPlaces, Kinds, Labels, Apis, OutsideLabels, SendPauses, Command,
        Goto, pauseVars, callVars
  <2>2. IoPlaces'
    BY <1>14, Apart
      DEF IoInv, IoType, IoPlaces, IoWatch, OuterLabels, OutsideLabels, Labels, SendPauses,
        Command, Goto, pauseVars, callVars
  <2>3. IoWatch'
    BY <1>14, Apart
      DEF IoInv, IoType, IoPlaces, IoWatch, Kinds, Labels, SendPauses, Command, Goto,
        pauseVars, callVars
  <2> QED BY <2>1, <2>2, <2>3 DEF IoInv
<1>15. ASSUME NEW t \in Threads, AllPaused(t) PROVE IoInv'
  <2>1. IoType'
    BY <1>15, Apart
      DEF IoInv, IoType, IoPlaces, Kinds, Labels, Apis, OutsideLabels, AllPaused, Goto,
        pauseVars, callVars
  <2>2. IoPlaces'
    BY <1>15, Apart
      DEF IoInv, IoType, IoPlaces, IoWatch, OuterLabels, OutsideLabels, Labels, AllPaused,
        Goto, pauseVars, callVars
  <2>3. IoWatch'
    BY <1>15, Apart
      DEF IoInv, IoType, IoPlaces, IoWatch, Kinds, Labels, AllPaused, Goto, pauseVars,
        callVars
  <2> QED BY <2>1, <2>2, <2>3 DEF IoInv
<1>16. ASSUME NEW t \in Threads, EndWhilePaused(t) PROVE IoInv'
  <2>1. IoType'
    BY <1>16, Apart
      DEF IoInv, IoType, IoPlaces, Kinds, Labels, Apis, OutsideLabels, EndWhilePaused, Base,
        NoCall, Goto, pauseVars, callVars
  <2>2. IoPlaces'
    BY <1>16, Apart
      DEF IoInv, IoType, IoPlaces, IoWatch, OuterLabels, OutsideLabels, Labels, EndWhilePaused,
        Base, NoCall, Goto, pauseVars, callVars
  <2>3. IoWatch'
    BY <1>16, Apart
      DEF IoInv, IoType, IoPlaces, IoWatch, Kinds, Labels, EndWhilePaused, Base, NoCall, Goto,
        pauseVars, callVars
  <2> QED BY <2>1, <2>2, <2>3 DEF IoInv
<1>17. ASSUME NEW t \in Threads, EndWhilePaused2(t) PROVE IoInv'
  <2>1. IoType'
    <3>1. /\ t \in IoThreads /\ NumThreads \in Nat
          /\ UNCHANGED <<running, ctl, ctlArmed, call, lastId, left>>
      BY <1>17, Apart, SomeThreads
        DEF IoInv, IoPlaces, OutsideLabels, EndWhilePaused2, Threads, callVars
    <3>2. cd' \in [IoThreads -> Nat] /\ countdown' \in Int /\ numPaused' = 0 /\ numDone' = 1
      BY <1>17, <3>1 DEF IoInv, IoType, EndWhilePaused2
    <3>3. pc' \in [Threads -> Labels]
      BY <1>17 DEF IoInv, IoType, EndWhilePaused2, Goto, Labels
    <3>4. owed' \subseteq IoThreads \X Nat
      BY <1>17 DEF IoInv, IoType, EndWhilePaused2
    <3> QED BY <3>1, <3>2, <3>3, <3>4 DEF IoInv, IoType
  <2>2. IoPlaces'
    BY <1>17, Apart
      DEF IoInv, IoType, IoPlaces, IoWatch, OuterLabels, OutsideLabels, Labels,
        EndWhilePaused2, Goto, pauseVars, callVars
  <2>3. IoWatch'
    BY <1>17, Apart
      DEF IoInv, IoType, IoPlaces, IoWatch, Kinds, Labels, EndWhilePaused2, Goto, pauseVars,
        callVars
  <2> QED BY <2>1, <2>2, <2>3 DEF IoInv
<1>18. ASSUME NEW t \in Threads, Resume2(t) PROVE IoInv'
  <2>1. IoType'
    BY <1>18, Apart
      DEF IoInv, IoType, IoPlaces, Kinds, Labels, Apis, OutsideLabels, Resume2, Goto,
        pauseVars, callVars
  <2>2. IoPlaces'
    BY <1>18, Apart
      DEF IoInv, IoType, IoPlaces, IoWatch, OuterLabels, OutsideLabels, Labels, Resume2, Goto,
        pauseVars, callVars
  <2>3. IoWatch'
    BY <1>18, Apart
      DEF IoInv, IoType, IoPlaces, IoWatch, Kinds, Labels, Resume2, Goto, pauseVars, callVars
  <2> QED BY <2>1, <2>2, <2>3 DEF IoInv
<1>19. ASSUME NEW t \in Threads, WhilePaused2Return(t) PROVE IoInv'
  <2>1. IoType'
    BY <1>19, Apart
      DEF IoInv, IoType, IoPlaces, Kinds, Labels, Apis, OutsideLabels, WhilePaused2Return,
        Base, NoCall, Goto, pauseVars, callVars
  <2>2. IoPlaces'
    BY <1>19, Apart
      DEF IoInv, IoType, IoPlaces, IoWatch, OuterLabels, OutsideLabels, Labels,
        WhilePaused2Return, Base, NoCall, Goto, pauseVars, callVars
  <2>3. IoWatch'
    BY <1>19, Apart
      DEF IoInv, IoType, IoPlaces, IoWatch, Kinds, Labels, WhilePaused2Return, Base, NoCall,
        Goto, pauseVars, callVars
  <2> QED BY <2>1, <2>2, <2>3 DEF IoInv
<1>20. ASSUME NEW t \in Threads, AllExecuted(t) PROVE IoInv'
  <2>1. IoType'
    BY <1>20, Apart
      DEF IoInv, IoType, IoPlaces, Kinds, Labels, Apis, OutsideLabels, AllExecuted, Goto,
        pauseVars, callVars
  <2>2. IoPlaces'
    BY <1>20, Apart
      DEF IoInv, IoType, IoPlaces, IoWatch, OuterLabels, OutsideLabels, Labels, AllExecuted,
        Goto, pauseVars, callVars
  <2>3. IoWatch'
    BY <1>20, Apart
      DEF IoInv, IoType, IoPlaces, IoWatch, Kinds, Labels, AllExecuted, Goto, pauseVars,
        callVars
  <2> QED BY <2>1, <2>2, <2>3 DEF IoInv
<1>21. ASSUME NEW t \in Threads, EndOnEach(t) PROVE IoInv'
  <2>1. IoType'
    BY <1>21, Apart
      DEF IoInv, IoType, IoPlaces, Kinds, Labels, Apis, OutsideLabels, EndOnEach, Base, NoCall,
        Goto, pauseVars, callVars
  <2>2. IoPlaces'
    BY <1>21, Apart
      DEF IoInv, IoType, IoPlaces, IoWatch, OuterLabels, OutsideLabels, Labels, EndOnEach,
        Base, NoCall, Goto, pauseVars, callVars
  <2>3. IoWatch'
    BY <1>21, Apart
      DEF IoInv, IoType, IoPlaces, IoWatch, Kinds, Labels, EndOnEach, Base, NoCall, Goto,
        pauseVars, callVars
  <2> QED BY <2>1, <2>2, <2>3 DEF IoInv
<1>22. ASSUME NEW t \in Threads, Join(t) PROVE IoInv'
  <2>1. IoType'
    BY <1>22, Apart
      DEF IoInv, IoType, IoPlaces, Kinds, Labels, Apis, OutsideLabels, Join, Goto, pauseVars,
        callVars
  <2>2. IoPlaces'
    BY <1>22, Apart
      DEF IoInv, IoType, IoPlaces, IoWatch, OuterLabels, OutsideLabels, Labels, Join, Goto,
        pauseVars, callVars
  <2>3. IoWatch'
    BY <1>22, Apart
      DEF IoInv, IoType, IoPlaces, IoWatch, Kinds, Labels, Join, Goto, pauseVars, callVars
  <2> QED BY <2>1, <2>2, <2>3 DEF IoInv
<1>23. ASSUME NEW t \in Threads, TakeEvent(t) PROVE IoInv'
  <2>1. IoType'
    BY <1>23, Apart
      DEF IoInv, IoType, IoPlaces, Kinds, Labels, Apis, OutsideLabels, TakeEvent, Goto,
        pauseVars, callVars
  <2>2. IoPlaces'
    BY <1>23, Apart
      DEF IoInv, IoType, IoPlaces, IoWatch, OuterLabels, OutsideLabels, Labels, TakeEvent,
        Goto, pauseVars, callVars
  <2>3. IoWatch'
    BY <1>23, Apart
      DEF IoInv, IoType, IoPlaces, IoWatch, Kinds, Labels, TakeEvent, Goto, pauseVars,
        callVars
  <2> QED BY <2>1, <2>2, <2>3 DEF IoInv
<1>24. ASSUME NEW t \in Threads, TakeCommand(t) PROVE IoInv'
  <2>c. Head(ctl) \in Cmds /\ ctl' \in Seq(Cmds)
    BY <1>24, PipeTail DEF IoInv, IoType, TakeCommand
  <2>d. /\ pc' = [pc EXCEPT ![t] = Head(ctl).cmd] /\ ~ctlArmed' /\ ctlArmed /\ pc[t] = "epoll"
        /\ call' = [call EXCEPT ![t] = [api |-> "none", id |-> Head(ctl).id]]
        /\ UNCHANGED <<running, pauseVars, outer, notified, ran, lastId, left>>
    BY <1>24 DEF TakeCommand, Goto
  <2>e. Head(ctl).cmd \in Kinds /\ Head(ctl).id \in Nat
    BY <2>c DEF Cmds
  <2>f. ctlArmed' \in BOOLEAN
    BY <1>24 DEF TakeCommand
  <2>1. IoType'
    BY <2>c, <2>d, <2>e, <2>f, Apart
      DEF IoInv, IoType, IoPlaces, Kinds, Labels, Apis, OutsideLabels, Kinds, pauseVars
  <2>2. IoPlaces'
    BY <2>c, <2>d, <2>e, <2>f, Apart
      DEF IoInv, IoType, IoPlaces, IoWatch, OuterLabels, OutsideLabels, Labels, Kinds,
        pauseVars
  <2>3. IoWatch'
    BY <2>c, <2>d, <2>e, <2>f, Apart
      DEF IoInv, IoType, IoPlaces, IoWatch, Kinds, Labels, Kinds, pauseVars
  <2> QED BY <2>1, <2>2, <2>3 DEF IoInv
<1>25. ASSUME NEW t \in Threads, NEW api \in Apis, Busy(t, api) PROVE IoInv'
  <2>1. IoType'
    BY <1>25, Apart
      DEF IoInv, IoType, IoPlaces, Kinds, Labels, Apis, OutsideLabels, Busy, Begin, Base, Goto,
        pauseVars, callVars
  <2>2. IoPlaces'
    BY <1>25, Apart
      DEF IoInv, IoType, IoPlaces, IoWatch, OuterLabels, OutsideLabels, Labels, Busy, Begin,
        Base, Goto, pauseVars, callVars
  <2>3. IoWatch'
    BY <1>25, Apart
      DEF IoInv, IoType, IoPlaces, IoWatch, Kinds, Labels, Busy, Begin, Base, Goto, pauseVars,
        callVars
  <2> QED BY <2>1, <2>2, <2>3 DEF IoInv
<1>26. ASSUME NEW t \in Threads, NEW api \in Apis, WhilePaused(t, api) PROVE IoInv'
  <2>1. IoType'
    BY <1>26, Apart
      DEF IoInv, IoType, IoPlaces, Kinds, Labels, Apis, OutsideLabels, WhilePaused, Begin,
        Base, Goto, pauseVars, callVars
  <2>2. IoPlaces'
    BY <1>26, Apart
      DEF IoInv, IoType, IoPlaces, IoWatch, OuterLabels, OutsideLabels, Labels, WhilePaused,
        Begin, Base, Goto, pauseVars, callVars
  <2>3. IoWatch'
    BY <1>26, Apart
      DEF IoInv, IoType, IoPlaces, IoWatch, Kinds, Labels, WhilePaused, Begin, Base, Goto,
        pauseVars, callVars
  <2> QED BY <2>1, <2>2, <2>3 DEF IoInv
<1>27. ASSUME NEW t \in Threads, OnEach(t) PROVE IoInv'
  <2>c. Command("k_on_each", lastId') \in Cmds
    BY <1>27 DEF IoInv, IoType, Cmds, Kinds, Command, OnEach, Begin, Base
  <2>d. Append(ctl, Command("k_on_each", lastId')) \in Seq(Cmds)
    BY <2>c, PipeAppend DEF IoInv, IoType
  <2>w. ctl' \in Seq(Cmds)
    BY <1>27, <2>d DEF IoInv, IoType, OnEach, Begin, Base
  <2>v. running' \in BOOLEAN /\ left' \in [Apis -> Nat] /\ lastId' \in Nat
    BY <1>27 DEF OnEach, IoInv, IoType, Apis, Begin
  <2>1. IoType'
    BY <1>27, Apart, <2>w, <2>v, ZenonT(30)
      DEF IoInv, IoType, IoPlaces, Kinds, Labels, Apis, OutsideLabels, OnEach, Begin, Base,
        Goto, pauseVars, callVars
  <2>2. IoPlaces'
    BY <1>27, Apart
      DEF IoInv, IoType, IoPlaces, IoWatch, OuterLabels, OutsideLabels, Labels, OnEach, Begin,
        Base, Command, Goto, pauseVars, callVars
  <2>3. IoWatch'
    BY <1>27, Apart
      DEF IoInv, IoType, IoPlaces, IoWatch, Kinds, Labels, OnEach, Begin, Base, Command, Goto,
        pauseVars, callVars
  <2> QED BY <2>1, <2>2, <2>3 DEF IoInv
<1>28. ASSUME NEW t \in Threads, OnOne(t) PROVE IoInv'
  <2>c. Command("k_on_one", lastId') \in Cmds
    BY <1>28 DEF IoInv, IoType, Cmds, Kinds, Command, OnOne, Begin, Base
  <2>d. Append(ctl, Command("k_on_one", lastId')) \in Seq(Cmds)
    BY <2>c, PipeAppend DEF IoInv, IoType
  <2>w. ctl' \in Seq(Cmds)
    BY <1>28, <2>d DEF IoInv, IoType, OnOne, Begin, Base
  <2>v. running' \in BOOLEAN /\ left' \in [Apis -> Nat] /\ lastId' \in Nat
    BY <1>28 DEF OnOne, IoInv, IoType, Apis, Begin
  <2>1. IoType'
    BY <1>28, Apart, <2>w, <2>v
      DEF IoInv, IoType, IoPlaces, Kinds, Labels, Apis, OutsideLabels, OnOne, Begin, Base,
        Goto, pauseVars, callVars
  <2>2. IoPlaces'
    BY <1>28, Apart
      DEF IoInv, IoType, IoPlaces, IoWatch, OuterLabels, OutsideLabels, Labels, OnOne, Begin,
        Base, Command, Goto, pauseVars, callVars
  <2>3. IoWatch'
    BY <1>28, Apart
      DEF IoInv, IoType, IoPlaces, IoWatch, Kinds, Labels, OnOne, Begin, Base, Command, Goto,
        pauseVars, callVars
  <2> QED BY <2>1, <2>2, <2>3 DEF IoInv
<1>29. ASSUME NEW t \in Threads, Stop(t) PROVE IoInv'
  <2>c. Command("k_wake", 0) \in Cmds
    BY <1>29 DEF IoInv, IoType, Cmds, Kinds, Command
  <2>d. Append(ctl, Command("k_wake", 0)) \in Seq(Cmds)
    BY <2>c, PipeAppend DEF IoInv, IoType
  <2>w. ctl' \in Seq(Cmds)
    BY <1>29, <2>d DEF IoInv, IoType, Stop, Begin, Base
  <2>z. running' \in BOOLEAN
    BY <1>29, Zenon DEF Stop, IoInv, IoType, Apis, Begin
  <2>v. left' \in [Apis -> Nat] /\ lastId' \in Nat
    BY <1>29 DEF Stop, IoInv, IoType, Apis, Begin
  <2>1. IoType'
    BY <1>29, Apart, <2>w, <2>v, <2>z
      DEF IoInv, IoType, IoPlaces, Kinds, Labels, Apis, OutsideLabels, Stop, Begin, Base, Goto,
        pauseVars, callVars
  <2>2. IoPlaces'
    BY <1>29, Apart
      DEF IoInv, IoType, IoPlaces, IoWatch, OuterLabels, OutsideLabels, Labels, Stop, Begin,
        Base, Command, Goto, pauseVars, callVars
  <2>3. IoWatch'
    BY <1>29, Apart
      DEF IoInv, IoType, IoPlaces, IoWatch, Kinds, Labels, Stop, Begin, Base, Command, Goto,
        pauseVars, callVars
  <2> QED BY <2>1, <2>2, <2>3 DEF IoInv
<1>30. ASSUME NEW t \in Threads, SpuriousWakeup(t) PROVE IoInv'
  <2>1. IoType'
    BY <1>30, Apart
      DEF IoInv, IoType, IoPlaces, Kinds, Labels, Apis, OutsideLabels, SpuriousWakeup, Goto,
        pauseVars, callVars
  <2>2. IoPlaces'
    BY <1>30, Apart
      DEF IoInv, IoType, IoPlaces, IoWatch, OuterLabels, OutsideLabels, Labels, SpuriousWakeup,
        Goto, pauseVars, callVars
  <2>3. IoWatch'
    BY <1>30, Apart
      DEF IoInv, IoType, IoPlaces, IoWatch, Kinds, Labels, SpuriousWakeup, Goto, pauseVars,
        callVars
  <2> QED BY <2>1, <2>2, <2>3 DEF IoInv
<1>31. CASE UNCHANGED vars
  BY <1>31 DEF vars, IoInv, IoType, IoPlaces, IoWatch
<1> QED BY <1>1, <1>2, <1>3, <1>4, <1>5, <1>6, <1>7, <1>8, <1>9, <1>10, <1>11, <1>12, <1>13,
    <1>14, <1>15, <1>16, <1>17, <1>18, <1>19, <1>20, <1>21, <1>22, <1>23, <1>24, <1>25, <1>26,
    <1>27, <1>28, <1>29, <1>30, <1>31
  DEF Next, ThreadStep, MakeCall

(* IoInv holds at the start.                                               *)
LEMMA IoStart == Init => IoInv
<1> SUFFICES ASSUME Init PROVE IoInv
  OBVIOUS
<1>1. left \in [Apis -> Nat]
  BY IoDispatchAssumption DEF IoDispatchAssumption, Init
<1>2. IoType
  BY <1>1 DEF Init, IoType, Threads, Labels, NoCall
<1>3. IoPlaces
  BY Apart DEF Init, IoPlaces, Threads, OutsideLabels, OuterLabels, NoCall
<1>4. IoWatch
  BY DEF Init, IoWatch, Threads, Kinds
<1> QED BY <1>2, <1>3, <1>4 DEF IoInv

(* The invariant that does not depend on the mix of calls.                 *)
THEOREM IoInvariance == Spec => []IoInv
  BY IoStart, IoStep, PTL DEF Spec

(* The control pipe is never left unwatched, whatever the calls: when the  *)
(* one-shot watch is disarmed exactly one io thread is in                  *)
(* io_ctl_handler::io_avail and has yet to arm it again.                   *)
THEOREM PipeIsWatched == Spec => []ControlWatched
<1>1. IoInv => ControlWatched
  <2> SUFFICES ASSUME IoInv PROVE ControlWatched
    OBVIOUS
  <2>1. CASE ctlArmed
    <3>1. At(Kinds) = {}
      BY <2>1 DEF IoInv, IoWatch, At
    <3> QED BY <2>1, <3>1, FS_EmptySet DEF ControlWatched, Kinds
  <2>2. CASE ~ctlArmed
    <3>1. PICK t \in Threads : pc[t] \in Kinds
      BY <2>2 DEF IoInv, IoWatch
    <3>2. At(Kinds) = {t}
      BY <3>1 DEF IoInv, IoWatch, At
    <3>3. Cardinality(At(Kinds)) = 1
      BY <3>2, FS_Singleton
    <3> QED BY <2>2, <3>3 DEF ControlWatched, Kinds
  <2> QED BY <2>1, <2>2
<1> QED BY <1>1, IoInvariance, PTL

-----------------------------------------------------------------------------
(* Calls that are not made leave no trace.                                 *)

(* A kind of command that is not in the pipe is not read from it, and does *)
(* not appear by writing commands of other kinds.                          *)
LEMMA KindReads ==
  ASSUME ctl \in Seq(Cmds), NEW k, \A i \in DOMAIN ctl : ctl[i].cmd # k, ctl # <<>>
  PROVE  Head(ctl).cmd # k /\ \A i \in DOMAIN Tail(ctl) : Tail(ctl)[i].cmd # k
<1>1. \A i \in DOMAIN Tail(ctl) : i + 1 \in DOMAIN ctl /\ Tail(ctl)[i] = ctl[i + 1]
  BY PipeTail
<1>2. 1 \in DOMAIN ctl /\ Head(ctl) = ctl[1]
  BY PipeTail
<1> QED BY <1>1, <1>2

LEMMA ReadsKind ==
  ASSUME ctl \in Seq(Cmds), ctl # <<>>
  PROVE  Head(ctl).cmd \in Kinds /\ Head(ctl).id \in Nat
<1>1. Head(ctl) \in Cmds
  BY PipeTail
<1> QED BY <1>1 DEF Cmds

LEMMA KindAppends ==
  ASSUME ctl \in Seq(Cmds), NEW k, \A i \in DOMAIN ctl : ctl[i].cmd # k,
         NEW c \in Cmds, c.cmd # k
  PROVE  \A i \in DOMAIN Append(ctl, c) : Append(ctl, c)[i].cmd # k
<1>1. /\ \A i \in DOMAIN ctl : Append(ctl, c)[i] = ctl[i]
      /\ Append(ctl, c)[Len(ctl) + 1] = c
      /\ DOMAIN Append(ctl, c) = DOMAIN ctl \cup {Len(ctl) + 1}
  BY PipeAppend
<1> QED BY <1>1, Zenon

LEMMA KindConcats ==
  ASSUME ctl \in Seq(Cmds), NEW k, \A i \in DOMAIN ctl : ctl[i].cmd # k,
         NEW c \in Cmds, c.cmd # k, NEW n \in Nat
  PROVE  \A i \in DOMAIN (ctl \o [j \in 1..n |-> c]) : (ctl \o [j \in 1..n |-> c])[i].cmd # k
<1> DEFINE r == ctl \o [j \in 1..n |-> c]
<1>1. /\ Len(ctl) \in Nat /\ DOMAIN ctl = 1..Len(ctl) /\ DOMAIN r = 1..(Len(ctl) + n)
      /\ \A i \in DOMAIN ctl : r[i] = ctl[i]
      /\ \A i \in (Len(ctl) + 1)..(Len(ctl) + n) : r[i] = c
  BY PipeConcat
<1> HIDE DEF r
<1>2. \A i \in DOMAIN r : i \in DOMAIN ctl \/ i \in (Len(ctl) + 1)..(Len(ctl) + n)
  BY <1>1
<1>3. \A i \in DOMAIN r : r[i].cmd # k
  BY <1>1, <1>2, Zenon
<1> QED BY <1>3 DEF r

(* Without on_each there is no k_on_each.                                  *)
LEMMA NoEachStep == IoInv /\ NoEach /\ [Next]_vars => NoEach'
<1> SUFFICES ASSUME IoInv, NoEach, [Next]_vars PROVE NoEach'
  OBVIOUS
<1> USE DEF Threads, NoEach, EachLabels, IoInv, IoType, Apis, Labels
<1>1. ASSUME NEW t \in Threads, LeaveLoop(t) PROVE NoEach'
  BY <1>1 DEF LeaveLoop, Goto, pauseVars, callVars
<1>2. ASSUME NEW t \in Threads, LoopTop(t) PROVE NoEach'
  BY <1>2 DEF LoopTop, Goto, pauseVars, callVars
<1>3. ASSUME NEW t \in Threads, LockAtRest(t) PROVE NoEach'
  BY <1>3 DEF LockAtRest, Goto, pauseVars, callVars
<1>4. ASSUME NEW t \in Threads, RunAtRest(t) PROVE NoEach'
  BY <1>4 DEF RunAtRest, Goto, pauseVars, callVars
<1>5. ASSUME NEW t \in Threads, EndEvent(t) PROVE NoEach'
  BY <1>5 DEF EndEvent, Goto, pauseVars, callVars
<1>6. ASSUME NEW t \in Threads, HandleWake(t) PROVE NoEach'
  <2>1. Command("k_wake", 0) \in Cmds /\ Command("k_wake", 0).cmd # "k_on_each"
    BY <1>6 DEF Cmds, Kinds, Command
  <2>2. \A i \in DOMAIN Append(ctl, Command("k_wake", 0)) :
            Append(ctl, Command("k_wake", 0))[i].cmd # "k_on_each"
    BY <2>1, KindAppends
  <2>3. \A i \in DOMAIN ctl' : ctl'[i].cmd # "k_on_each"
    BY <1>6, <2>2 DEF HandleWake
  <2> QED BY <1>6, <2>3 DEF HandleWake, Goto, pauseVars, callVars
<1>7. ASSUME NEW t \in Threads, HandlePause(t) PROVE NoEach'
  BY <1>7 DEF HandlePause, Goto, pauseVars, callVars
<1>8. ASSUME NEW t \in Threads, Resume(t) PROVE NoEach'
  BY <1>8 DEF Resume, Goto, pauseVars, callVars
<1>9. ASSUME NEW t \in Threads, WaitAgain(t) PROVE NoEach'
  BY <1>9 DEF WaitAgain, Goto, pauseVars, callVars
<1>10. ASSUME NEW t \in Threads, HandleOnEach(t) PROVE NoEach'
  BY <1>10 DEF HandleOnEach, Goto, pauseVars, callVars
<1>11. ASSUME NEW t \in Threads, OnEachExecuted(t) PROVE NoEach'
  BY <1>11 DEF OnEachExecuted, Command, Goto, pauseVars, callVars
<1>12. ASSUME NEW t \in Threads, OnEachResumed(t) PROVE NoEach'
  BY <1>12 DEF OnEachResumed, Goto, pauseVars, callVars
<1>13. ASSUME NEW t \in Threads, HandleOnOne(t) PROVE NoEach'
  BY <1>13 DEF HandleOnOne, Goto, pauseVars, callVars
<1>14. ASSUME NEW t \in Threads, SendPauses(t) PROVE NoEach'
  <2>1. Command("k_pause", 0) \in Cmds /\ Command("k_pause", 0).cmd # "k_on_each"
    BY DEF Cmds, Kinds, Command
  <2>2. NumThreads \in Nat /\ numPaused' \in Nat /\ numPaused' <= NumThreads
    BY <1>14, SomeThreads DEF SendPauses
  <2>3. NumThreads - numPaused' \in Nat
    BY <2>2, Less
  <2>4. ctl' = ctl \o [i \in 1..(NumThreads - numPaused') |-> Command("k_pause", 0)]
    BY <1>14 DEF SendPauses
  <2>5. \A i \in DOMAIN ctl' : ctl'[i].cmd # "k_on_each"
    BY <2>1, <2>3, <2>4, KindConcats
  <2> QED BY <1>14, <2>5 DEF SendPauses, Goto, callVars
<1>15. ASSUME NEW t \in Threads, AllPaused(t) PROVE NoEach'
  BY <1>15 DEF AllPaused, Goto, pauseVars, callVars
<1>16. ASSUME NEW t \in Threads, EndWhilePaused(t) PROVE NoEach'
  BY <1>16 DEF EndWhilePaused, Base, NoCall, Goto, pauseVars, callVars
<1>17. ASSUME NEW t \in Threads, EndWhilePaused2(t) PROVE NoEach'
  BY <1>17 DEF EndWhilePaused2, Goto, pauseVars, callVars
<1>18. ASSUME NEW t \in Threads, Resume2(t) PROVE NoEach'
  BY <1>18 DEF Resume2, Goto, pauseVars, callVars
<1>19. ASSUME NEW t \in Threads, WhilePaused2Return(t) PROVE NoEach'
  BY <1>19 DEF WhilePaused2Return, Base, NoCall, Goto, pauseVars, callVars
<1>20. ASSUME NEW t \in Threads, AllExecuted(t) PROVE NoEach'
  BY <1>20 DEF AllExecuted, Goto, pauseVars, callVars
<1>21. ASSUME NEW t \in Threads, EndOnEach(t) PROVE NoEach'
  BY <1>21 DEF EndOnEach, Base, NoCall, Goto, pauseVars, callVars
<1>22. ASSUME NEW t \in Threads, Join(t) PROVE NoEach'
  BY <1>22 DEF Join, Goto, pauseVars, callVars
<1>23. ASSUME NEW t \in Threads, TakeEvent(t) PROVE NoEach'
  BY <1>23 DEF TakeEvent, Goto, pauseVars, callVars
<1>24. ASSUME NEW t \in Threads, TakeCommand(t) PROVE NoEach'
  <2>1. Head(ctl).cmd # "k_on_each" /\ \A i \in DOMAIN ctl' : ctl'[i].cmd # "k_on_each"
    BY <1>24, KindReads DEF TakeCommand
  <2>2. Head(ctl).cmd \in Kinds
    BY <1>24, ReadsKind DEF TakeCommand
  <2> QED BY <1>24, <2>1, <2>2 DEF TakeCommand, Goto, Kinds
<1>25. ASSUME NEW t \in Threads, NEW api \in Apis, Busy(t, api) PROVE NoEach'
  BY <1>25 DEF Busy, Begin, Base, Goto, pauseVars, callVars
<1>26. ASSUME NEW t \in Threads, NEW api \in Apis, WhilePaused(t, api) PROVE NoEach'
  BY <1>26 DEF WhilePaused, Begin, Base, Goto, pauseVars, callVars
<1>27. ASSUME NEW t \in Threads, OnEach(t) PROVE NoEach'
  BY <1>27 DEF OnEach, Begin, Base, Command, Goto, pauseVars, callVars
<1>28. ASSUME NEW t \in Threads, OnOne(t) PROVE NoEach'
  <2>1. Command("k_on_one", lastId') \in Cmds /\ Command("k_on_one", lastId').cmd # "k_on_each"
    BY <1>28 DEF Cmds, Kinds, Command, OnOne, Begin, Base
  <2>2. \A i \in DOMAIN Append(ctl, Command("k_on_one", lastId')) :
            Append(ctl, Command("k_on_one", lastId'))[i].cmd # "k_on_each"
    BY <2>1, KindAppends
  <2>3. \A i \in DOMAIN ctl' : ctl'[i].cmd # "k_on_each"
    BY <1>28, <2>2 DEF OnOne, Begin, Base
  <2> QED BY <1>28, <2>3 DEF OnOne, Begin, Base, Goto, pauseVars, callVars
<1>29. ASSUME NEW t \in Threads, Stop(t) PROVE NoEach'
  <2>1. Command("k_wake", 0) \in Cmds /\ Command("k_wake", 0).cmd # "k_on_each"
    BY <1>29 DEF Cmds, Kinds, Command
  <2>2. \A i \in DOMAIN Append(ctl, Command("k_wake", 0)) :
            Append(ctl, Command("k_wake", 0))[i].cmd # "k_on_each"
    BY <2>1, KindAppends
  <2>3. \A i \in DOMAIN ctl' : ctl'[i].cmd # "k_on_each"
    BY <1>29, <2>2 DEF Stop, Begin, Base
  <2> QED BY <1>29, <2>3 DEF Stop, Begin, Base, Goto, pauseVars, callVars
<1>30. ASSUME NEW t \in Threads, SpuriousWakeup(t) PROVE NoEach'
  BY <1>30 DEF SpuriousWakeup, Goto, pauseVars, callVars
<1>31. CASE UNCHANGED vars
  BY <1>31 DEF vars
<1> QED BY <1>1, <1>2, <1>3, <1>4, <1>5, <1>6, <1>7, <1>8, <1>9, <1>10, <1>11, <1>12, <1>13,
    <1>14, <1>15, <1>16, <1>17, <1>18, <1>19, <1>20, <1>21, <1>22, <1>23, <1>24, <1>25, <1>26,
    <1>27, <1>28, <1>29, <1>30, <1>31
  DEF Next, ThreadStep, MakeCall

(* Without while_paused and while_paused2 there is no k_pause.             *)
LEMMA NoPauseStep == IoInv /\ NoPause /\ [Next]_vars => NoPause'
<1> SUFFICES ASSUME IoInv, NoPause, [Next]_vars PROVE NoPause'
  OBVIOUS
<1> USE DEF Threads, NoPause, PauseLabels, IoInv, IoType, Apis, Labels
<1>1. ASSUME NEW t \in Threads, LeaveLoop(t) PROVE NoPause'
  BY <1>1 DEF LeaveLoop, Goto, pauseVars, callVars
<1>2. ASSUME NEW t \in Threads, LoopTop(t) PROVE NoPause'
  BY <1>2 DEF LoopTop, Goto, pauseVars, callVars
<1>3. ASSUME NEW t \in Threads, LockAtRest(t) PROVE NoPause'
  BY <1>3 DEF LockAtRest, Goto, pauseVars, callVars
<1>4. ASSUME NEW t \in Threads, RunAtRest(t) PROVE NoPause'
  BY <1>4 DEF RunAtRest, Goto, pauseVars, callVars
<1>5. ASSUME NEW t \in Threads, EndEvent(t) PROVE NoPause'
  BY <1>5 DEF EndEvent, Goto, pauseVars, callVars
<1>6. ASSUME NEW t \in Threads, HandleWake(t) PROVE NoPause'
  <2>1. Command("k_wake", 0) \in Cmds /\ Command("k_wake", 0).cmd # "k_pause"
    BY <1>6 DEF Cmds, Kinds, Command
  <2>2. \A i \in DOMAIN Append(ctl, Command("k_wake", 0)) :
            Append(ctl, Command("k_wake", 0))[i].cmd # "k_pause"
    BY <2>1, KindAppends
  <2>3. \A i \in DOMAIN ctl' : ctl'[i].cmd # "k_pause"
    BY <1>6, <2>2 DEF HandleWake
  <2> QED BY <1>6, <2>3 DEF HandleWake, Goto, pauseVars, callVars
<1>7. ASSUME NEW t \in Threads, HandlePause(t) PROVE NoPause'
  BY <1>7 DEF HandlePause, Goto, pauseVars, callVars
<1>8. ASSUME NEW t \in Threads, Resume(t) PROVE NoPause'
  BY <1>8 DEF Resume, Goto, pauseVars, callVars
<1>9. ASSUME NEW t \in Threads, WaitAgain(t) PROVE NoPause'
  BY <1>9 DEF WaitAgain, Goto, pauseVars, callVars
<1>10. ASSUME NEW t \in Threads, HandleOnEach(t) PROVE NoPause'
  BY <1>10 DEF HandleOnEach, Goto, pauseVars, callVars
<1>11. ASSUME NEW t \in Threads, OnEachExecuted(t) PROVE NoPause'
  <2>1. /\ Command("k_on_each", call[t].id) \in Cmds
        /\ Command("k_on_each", call[t].id).cmd # "k_pause"
    BY <1>11 DEF Cmds, Kinds, Command, OnEachExecuted
  <2>2. \A i \in DOMAIN Append(ctl, Command("k_on_each", call[t].id)) :
            Append(ctl, Command("k_on_each", call[t].id))[i].cmd # "k_pause"
    BY <2>1, KindAppends
  <2>3. \A i \in DOMAIN ctl' : ctl'[i].cmd # "k_pause"
    BY <1>11, <2>2 DEF OnEachExecuted
  <2> QED BY <1>11, <2>3 DEF OnEachExecuted, Goto, pauseVars, callVars
<1>12. ASSUME NEW t \in Threads, OnEachResumed(t) PROVE NoPause'
  BY <1>12 DEF OnEachResumed, Goto, pauseVars, callVars
<1>13. ASSUME NEW t \in Threads, HandleOnOne(t) PROVE NoPause'
  BY <1>13 DEF HandleOnOne, Goto, pauseVars, callVars
<1>14. ASSUME NEW t \in Threads, SendPauses(t) PROVE NoPause'
  BY <1>14 DEF SendPauses, Command, Goto, pauseVars, callVars
<1>15. ASSUME NEW t \in Threads, AllPaused(t) PROVE NoPause'
  BY <1>15 DEF AllPaused, Goto, pauseVars, callVars
<1>16. ASSUME NEW t \in Threads, EndWhilePaused(t) PROVE NoPause'
  BY <1>16 DEF EndWhilePaused, Base, NoCall, Goto, pauseVars, callVars
<1>17. ASSUME NEW t \in Threads, EndWhilePaused2(t) PROVE NoPause'
  BY <1>17 DEF EndWhilePaused2, Goto, pauseVars, callVars
<1>18. ASSUME NEW t \in Threads, Resume2(t) PROVE NoPause'
  BY <1>18 DEF Resume2, Goto, pauseVars, callVars
<1>19. ASSUME NEW t \in Threads, WhilePaused2Return(t) PROVE NoPause'
  BY <1>19 DEF WhilePaused2Return, Base, NoCall, Goto, pauseVars, callVars
<1>20. ASSUME NEW t \in Threads, AllExecuted(t) PROVE NoPause'
  BY <1>20 DEF AllExecuted, Goto, pauseVars, callVars
<1>21. ASSUME NEW t \in Threads, EndOnEach(t) PROVE NoPause'
  BY <1>21 DEF EndOnEach, Base, NoCall, Goto, pauseVars, callVars
<1>22. ASSUME NEW t \in Threads, Join(t) PROVE NoPause'
  BY <1>22 DEF Join, Goto, pauseVars, callVars
<1>23. ASSUME NEW t \in Threads, TakeEvent(t) PROVE NoPause'
  BY <1>23 DEF TakeEvent, Goto, pauseVars, callVars
<1>24. ASSUME NEW t \in Threads, TakeCommand(t) PROVE NoPause'
  <2>1. Head(ctl).cmd # "k_pause" /\ \A i \in DOMAIN ctl' : ctl'[i].cmd # "k_pause"
    BY <1>24, KindReads DEF TakeCommand
  <2>2. Head(ctl).cmd \in Kinds
    BY <1>24, ReadsKind DEF TakeCommand
  <2> QED BY <1>24, <2>1, <2>2 DEF TakeCommand, Goto, Kinds
<1>25. ASSUME NEW t \in Threads, NEW api \in Apis, Busy(t, api) PROVE NoPause'
  BY <1>25 DEF Busy, Begin, Base, Goto, pauseVars, callVars
<1>26. ASSUME NEW t \in Threads, NEW api \in Apis, WhilePaused(t, api) PROVE NoPause'
  BY <1>26 DEF WhilePaused, Begin, Base, Goto, pauseVars, callVars
<1>27. ASSUME NEW t \in Threads, OnEach(t) PROVE NoPause'
  <2>1. Command("k_on_each", lastId') \in Cmds /\ Command("k_on_each", lastId').cmd # "k_pause"
    BY <1>27 DEF Cmds, Kinds, Command, OnEach, Begin, Base
  <2>2. \A i \in DOMAIN Append(ctl, Command("k_on_each", lastId')) :
            Append(ctl, Command("k_on_each", lastId'))[i].cmd # "k_pause"
    BY <2>1, KindAppends
  <2>3. \A i \in DOMAIN ctl' : ctl'[i].cmd # "k_pause"
    BY <1>27, <2>2 DEF OnEach, Begin, Base
  <2> QED BY <1>27, <2>3 DEF OnEach, Begin, Base, Goto, pauseVars, callVars
<1>28. ASSUME NEW t \in Threads, OnOne(t) PROVE NoPause'
  <2>1. Command("k_on_one", lastId') \in Cmds /\ Command("k_on_one", lastId').cmd # "k_pause"
    BY <1>28 DEF Cmds, Kinds, Command, OnOne, Begin, Base
  <2>2. \A i \in DOMAIN Append(ctl, Command("k_on_one", lastId')) :
            Append(ctl, Command("k_on_one", lastId'))[i].cmd # "k_pause"
    BY <2>1, KindAppends
  <2>3. \A i \in DOMAIN ctl' : ctl'[i].cmd # "k_pause"
    BY <1>28, <2>2 DEF OnOne, Begin, Base
  <2> QED BY <1>28, <2>3 DEF OnOne, Begin, Base, Goto, pauseVars, callVars
<1>29. ASSUME NEW t \in Threads, Stop(t) PROVE NoPause'
  <2>1. Command("k_wake", 0) \in Cmds /\ Command("k_wake", 0).cmd # "k_pause"
    BY <1>29 DEF Cmds, Kinds, Command
  <2>2. \A i \in DOMAIN Append(ctl, Command("k_wake", 0)) :
            Append(ctl, Command("k_wake", 0))[i].cmd # "k_pause"
    BY <2>1, KindAppends
  <2>3. \A i \in DOMAIN ctl' : ctl'[i].cmd # "k_pause"
    BY <1>29, <2>2 DEF Stop, Begin, Base
  <2> QED BY <1>29, <2>3 DEF Stop, Begin, Base, Goto, pauseVars, callVars
<1>30. ASSUME NEW t \in Threads, SpuriousWakeup(t) PROVE NoPause'
  BY <1>30 DEF SpuriousWakeup, Goto, pauseVars, callVars
<1>31. CASE UNCHANGED vars
  BY <1>31 DEF vars
<1> QED BY <1>1, <1>2, <1>3, <1>4, <1>5, <1>6, <1>7, <1>8, <1>9, <1>10, <1>11, <1>12, <1>13,
    <1>14, <1>15, <1>16, <1>17, <1>18, <1>19, <1>20, <1>21, <1>22, <1>23, <1>24, <1>25, <1>26,
    <1>27, <1>28, <1>29, <1>30, <1>31
  DEF Next, ThreadStep, MakeCall

-----------------------------------------------------------------------------
(* The pause.                                                              *)

(* Only HandlePause and Resume change who is stopped.                      *)
LEMMA StoppedFinite ==
  IoInv => IsFiniteSet(Stopped) /\ Cardinality(Stopped) \in Nat /\ Stopped \subseteq IoThreads
<1> SUFFICES ASSUME IoInv
             PROVE  IsFiniteSet(Stopped) /\ Cardinality(Stopped) \in Nat /\ Stopped \subseteq IoThreads
  OBVIOUS
<1>1. Stopped \subseteq IoThreads
  BY DEF IoInv, IoPlaces, OutsideLabels, Stopped, At, Threads
<1>2. IsFiniteSet(Stopped)
  BY <1>1, FS_Subset, IoDispatchAssumption DEF IoDispatchAssumption
<1> QED BY <1>1, <1>2, FS_CardinalityType

(* A step of the pause keeps the count, when there is no on_each.          *)
LEMMA CountStep == IoInv /\ NoEach /\ PauseCount /\ [Next]_vars => PauseCount'
<1> SUFFICES ASSUME IoInv, NoEach, PauseCount, [Next]_vars PROVE PauseCount'
  OBVIOUS
<1> USE DEF Threads, PauseCount, Own
<1>0. IsFiniteSet(Stopped) /\ Cardinality(Stopped) \in Nat /\ Stopped \subseteq IoThreads
  BY StoppedFinite
<1>1. ASSUME NEW t \in Threads, LeaveLoop(t) PROVE PauseCount'
  <2>1. Stopped' = Stopped
    BY <1>1 DEF Stopped, At, IoInv, IoType, Labels, LeaveLoop, Goto, pauseVars, callVars
  <2>2. Cardinality(Stopped') = Cardinality(Stopped)
    BY <2>1, Zenon
  <2> QED BY <1>1, <1>0, <2>2, SomeThreads
    DEF IoInv, IoType, IoPlaces, OuterLabels, NoEach, EachLabels, Labels, LeaveLoop, Goto,
      pauseVars, callVars
<1>2. ASSUME NEW t \in Threads, LoopTop(t) PROVE PauseCount'
  <2>1. Stopped' = Stopped
    BY <1>2 DEF Stopped, At, IoInv, IoType, Labels, LoopTop, Goto, pauseVars, callVars
  <2>2. Cardinality(Stopped') = Cardinality(Stopped)
    BY <2>1, Zenon
  <2> QED BY <1>2, <1>0, <2>2, SomeThreads
    DEF IoInv, IoType, IoPlaces, OuterLabels, NoEach, EachLabels, Labels, LoopTop, Goto,
      pauseVars, callVars
<1>3. ASSUME NEW t \in Threads, LockAtRest(t) PROVE PauseCount'
  <2>1. Stopped' = Stopped
    BY <1>3 DEF Stopped, At, IoInv, IoType, Labels, LockAtRest, Goto, pauseVars, callVars
  <2>2. Cardinality(Stopped') = Cardinality(Stopped)
    BY <2>1, Zenon
  <2> QED BY <1>3, <1>0, <2>2, SomeThreads
    DEF IoInv, IoType, IoPlaces, OuterLabels, NoEach, EachLabels, Labels, LockAtRest, Goto,
      pauseVars, callVars
<1>4. ASSUME NEW t \in Threads, RunAtRest(t) PROVE PauseCount'
  <2>1. Stopped' = Stopped
    BY <1>4 DEF Stopped, At, IoInv, IoType, Labels, RunAtRest, Goto, pauseVars, callVars
  <2>2. Cardinality(Stopped') = Cardinality(Stopped)
    BY <2>1, Zenon
  <2> QED BY <1>4, <1>0, <2>2, SomeThreads
    DEF IoInv, IoType, IoPlaces, OuterLabels, NoEach, EachLabels, Labels, RunAtRest, Goto,
      pauseVars, callVars
<1>5. ASSUME NEW t \in Threads, EndEvent(t) PROVE PauseCount'
  <2>1. Stopped' = Stopped
    BY <1>5 DEF Stopped, At, IoInv, IoType, Labels, EndEvent, Goto, pauseVars, callVars
  <2>2. Cardinality(Stopped') = Cardinality(Stopped)
    BY <2>1, Zenon
  <2> QED BY <1>5, <1>0, <2>2, SomeThreads
    DEF IoInv, IoType, IoPlaces, OuterLabels, NoEach, EachLabels, Labels, EndEvent, Goto,
      pauseVars, callVars
<1>6. ASSUME NEW t \in Threads, HandleWake(t) PROVE PauseCount'
  <2>1. Stopped' = Stopped
    BY <1>6
      DEF Stopped, At, IoInv, IoType, Labels, HandleWake, Command, Goto, pauseVars, callVars
  <2>2. Cardinality(Stopped') = Cardinality(Stopped)
    BY <2>1, Zenon
  <2> QED BY <1>6, <1>0, <2>2, SomeThreads
    DEF IoInv, IoType, IoPlaces, OuterLabels, NoEach, EachLabels, Labels, HandleWake, Command,
      Goto, pauseVars, callVars
<1>7. ASSUME NEW t \in Threads, HandlePause(t) PROVE PauseCount'
  <2>1. Stopped' = Stopped \cup {t} /\ t \notin Stopped
    BY <1>7 DEF Stopped, At, IoInv, IoType, Labels, HandlePause, Goto, pauseVars, callVars
  <2>2. Cardinality(Stopped \cup {t}) = Cardinality(Stopped) + 1
    BY <1>0, <2>1, FS_AddElement
  <2>3. Cardinality(Stopped') = Cardinality(Stopped) + 1
    BY <2>1, <2>2, Zenon
  <2> QED BY <1>7, <1>0, <2>3
    DEF IoInv, IoType, IoPlaces, OuterLabels, NoEach, EachLabels, Labels, ComFree, HandlePause,
      Goto, pauseVars, callVars
<1>8. ASSUME NEW t \in Threads, Resume(t) PROVE PauseCount'
  <2>1. Stopped' = Stopped \ {t}
    BY <1>8 DEF Stopped, At, IoInv, IoType, Labels, Resume, Goto, pauseVars, callVars
  <2>2. IsFiniteSet(Stopped \ {t})
    BY <1>0, FS_RemoveElement
  <2>3. Cardinality(Stopped') \in Nat
    BY <2>1, <2>2, FS_CardinalityType, Zenon
  <2> QED BY <1>8, <1>0, <2>3
    DEF IoInv, IoType, IoPlaces, OuterLabels, NoEach, EachLabels, Labels, ComFree, Resume,
      Goto, pauseVars, callVars
<1>9. ASSUME NEW t \in Threads, WaitAgain(t) PROVE PauseCount'
  <2>1. Stopped' = Stopped
    BY <1>9 DEF Stopped, At, IoInv, IoType, Labels, WaitAgain, Goto, pauseVars, callVars
  <2>2. Cardinality(Stopped') = Cardinality(Stopped)
    BY <2>1, Zenon
  <2> QED BY <1>9, <1>0, <2>2, SomeThreads
    DEF IoInv, IoType, IoPlaces, OuterLabels, NoEach, EachLabels, Labels, WaitAgain, Goto,
      pauseVars, callVars
<1>10. ASSUME NEW t \in Threads, HandleOnEach(t) PROVE PauseCount'
  <2>1. Stopped' = Stopped
    BY <1>10 DEF Stopped, At, IoInv, IoType, Labels, HandleOnEach, Goto, pauseVars, callVars
  <2>2. Cardinality(Stopped') = Cardinality(Stopped)
    BY <2>1, Zenon
  <2> QED BY <1>10, <1>0, <2>2, SomeThreads
    DEF IoInv, IoType, IoPlaces, OuterLabels, NoEach, EachLabels, Labels, HandleOnEach, Goto,
      pauseVars, callVars
<1>11. ASSUME NEW t \in Threads, OnEachExecuted(t) PROVE PauseCount'
  <2>1. Stopped' = Stopped
    BY <1>11
      DEF Stopped, At, IoInv, IoType, Labels, OnEachExecuted, Command, Goto, pauseVars,
        callVars
  <2>2. Cardinality(Stopped') = Cardinality(Stopped)
    BY <2>1, Zenon
  <2> QED BY <1>11, <1>0, <2>2, SomeThreads
    DEF IoInv, IoType, IoPlaces, OuterLabels, NoEach, EachLabels, Labels, OnEachExecuted,
      Command, Goto, pauseVars, callVars
<1>12. ASSUME NEW t \in Threads, OnEachResumed(t) PROVE PauseCount'
  <2>1. Stopped' = Stopped
    BY <1>12 DEF Stopped, At, IoInv, IoType, Labels, OnEachResumed, Goto, pauseVars, callVars
  <2>2. Cardinality(Stopped') = Cardinality(Stopped)
    BY <2>1, Zenon
  <2> QED BY <1>12, <1>0, <2>2, SomeThreads
    DEF IoInv, IoType, IoPlaces, OuterLabels, NoEach, EachLabels, Labels, OnEachResumed, Goto,
      pauseVars, callVars
<1>13. ASSUME NEW t \in Threads, HandleOnOne(t) PROVE PauseCount'
  <2>1. Stopped' = Stopped
    BY <1>13 DEF Stopped, At, IoInv, IoType, Labels, HandleOnOne, Goto, pauseVars, callVars
  <2>2. Cardinality(Stopped') = Cardinality(Stopped)
    BY <2>1, Zenon
  <2> QED BY <1>13, <1>0, <2>2, SomeThreads
    DEF IoInv, IoType, IoPlaces, OuterLabels, NoEach, EachLabels, Labels, HandleOnOne, Goto,
      pauseVars, callVars
<1>14. ASSUME NEW t \in Threads, SendPauses(t) PROVE PauseCount'
  <2>1. Stopped' = Stopped
    BY <1>14
      DEF Stopped, At, IoInv, IoType, Labels, SendPauses, Command, Goto, pauseVars, callVars
  <2>2. Cardinality(Stopped') = Cardinality(Stopped)
    BY <2>1, Zenon
  <2> QED BY <1>14, <1>0, <2>2, SomeThreads
    DEF IoInv, IoType, IoPlaces, OuterLabels, NoEach, EachLabels, Labels, SendPauses, Command,
      Goto, pauseVars, callVars
<1>15. ASSUME NEW t \in Threads, AllPaused(t) PROVE PauseCount'
  <2>1. Stopped' = Stopped
    BY <1>15 DEF Stopped, At, IoInv, IoType, Labels, AllPaused, Goto, pauseVars, callVars
  <2>2. Cardinality(Stopped') = Cardinality(Stopped)
    BY <2>1, Zenon
  <2> QED BY <1>15, <1>0, <2>2, SomeThreads
    DEF IoInv, IoType, IoPlaces, OuterLabels, NoEach, EachLabels, Labels, AllPaused, Goto,
      pauseVars, callVars
<1>16. ASSUME NEW t \in Threads, EndWhilePaused(t) PROVE PauseCount'
  <2>1. Stopped' = Stopped
    BY <1>16
      DEF Stopped, At, IoInv, IoType, Labels, EndWhilePaused, Base, NoCall, Goto, pauseVars,
        callVars
  <2>2. Cardinality(Stopped') = Cardinality(Stopped)
    BY <2>1, Zenon
  <2> QED BY <1>16, <1>0, <2>2, SomeThreads
    DEF IoInv, IoType, IoPlaces, OuterLabels, NoEach, EachLabels, Labels, EndWhilePaused, Base,
      NoCall, Goto, pauseVars, callVars
<1>17. ASSUME NEW t \in Threads, EndWhilePaused2(t) PROVE PauseCount'
  <2>1. Stopped' = Stopped
    BY <1>17 DEF Stopped, At, IoInv, IoType, Labels, EndWhilePaused2, Goto, pauseVars, callVars
  <2>2. Cardinality(Stopped') = Cardinality(Stopped)
    BY <2>1, Zenon
  <2> QED BY <1>17, <1>0, <2>2, SomeThreads
    DEF IoInv, IoType, IoPlaces, OuterLabels, NoEach, EachLabels, Labels, EndWhilePaused2,
      Goto, pauseVars, callVars
<1>18. ASSUME NEW t \in Threads, Resume2(t) PROVE PauseCount'
  <2>1. Stopped' = Stopped
    BY <1>18 DEF Stopped, At, IoInv, IoType, Labels, Resume2, Goto, pauseVars, callVars
  <2>2. Cardinality(Stopped') = Cardinality(Stopped)
    BY <2>1, Zenon
  <2> QED BY <1>18, <1>0, <2>2, SomeThreads
    DEF IoInv, IoType, IoPlaces, OuterLabels, NoEach, EachLabels, Labels, Resume2, Goto,
      pauseVars, callVars
<1>19. ASSUME NEW t \in Threads, WhilePaused2Return(t) PROVE PauseCount'
  <2>1. Stopped' = Stopped
    BY <1>19
      DEF Stopped, At, IoInv, IoType, Labels, WhilePaused2Return, Base, NoCall, Goto,
        pauseVars, callVars
  <2>2. Cardinality(Stopped') = Cardinality(Stopped)
    BY <2>1, Zenon
  <2> QED BY <1>19, <1>0, <2>2, SomeThreads
    DEF IoInv, IoType, IoPlaces, OuterLabels, NoEach, EachLabels, Labels, WhilePaused2Return,
      Base, NoCall, Goto, pauseVars, callVars
<1>20. ASSUME NEW t \in Threads, AllExecuted(t) PROVE PauseCount'
  <2>1. Stopped' = Stopped
    BY <1>20 DEF Stopped, At, IoInv, IoType, Labels, AllExecuted, Goto, pauseVars, callVars
  <2>2. Cardinality(Stopped') = Cardinality(Stopped)
    BY <2>1, Zenon
  <2> QED BY <1>20, <1>0, <2>2, SomeThreads
    DEF IoInv, IoType, IoPlaces, OuterLabels, NoEach, EachLabels, Labels, AllExecuted, Goto,
      pauseVars, callVars
<1>21. ASSUME NEW t \in Threads, EndOnEach(t) PROVE PauseCount'
  <2>1. Stopped' = Stopped
    BY <1>21
      DEF Stopped, At, IoInv, IoType, Labels, EndOnEach, Base, NoCall, Goto, pauseVars,
        callVars
  <2>2. Cardinality(Stopped') = Cardinality(Stopped)
    BY <2>1, Zenon
  <2> QED BY <1>21, <1>0, <2>2, SomeThreads
    DEF IoInv, IoType, IoPlaces, OuterLabels, NoEach, EachLabels, Labels, EndOnEach, Base,
      NoCall, Goto, pauseVars, callVars
<1>22. ASSUME NEW t \in Threads, Join(t) PROVE PauseCount'
  <2>1. Stopped' = Stopped
    BY <1>22 DEF Stopped, At, IoInv, IoType, Labels, Join, Goto, pauseVars, callVars
  <2>2. Cardinality(Stopped') = Cardinality(Stopped)
    BY <2>1, Zenon
  <2> QED BY <1>22, <1>0, <2>2, SomeThreads
    DEF IoInv, IoType, IoPlaces, OuterLabels, NoEach, EachLabels, Labels, Join, Goto,
      pauseVars, callVars
<1>23. ASSUME NEW t \in Threads, TakeEvent(t) PROVE PauseCount'
  <2>1. Stopped' = Stopped
    BY <1>23 DEF Stopped, At, IoInv, IoType, Labels, TakeEvent, Goto, pauseVars, callVars
  <2>2. Cardinality(Stopped') = Cardinality(Stopped)
    BY <2>1, Zenon
  <2> QED BY <1>23, <1>0, <2>2, SomeThreads
    DEF IoInv, IoType, IoPlaces, OuterLabels, NoEach, EachLabels, Labels, TakeEvent, Goto,
      pauseVars, callVars
<1>24. ASSUME NEW t \in Threads, TakeCommand(t) PROVE PauseCount'
  <2>0. Head(ctl).cmd \in Kinds
    BY <1>24, ReadsKind DEF IoInv, IoType, TakeCommand
  <2>1. Stopped' = Stopped
    BY <1>24, <2>0 DEF Stopped, At, IoInv, IoType, Kinds, TakeCommand, Goto
  <2>2. Cardinality(Stopped') = Cardinality(Stopped)
    BY <2>1, Zenon
  <2> QED BY <1>24, <1>0, <2>0, <2>2
    DEF IoInv, IoType, IoPlaces, OuterLabels, NoEach, EachLabels, Labels, Kinds, TakeCommand,
      Goto, pauseVars, callVars
<1>25. ASSUME NEW t \in Threads, NEW api \in Apis, Busy(t, api) PROVE PauseCount'
  <2>1. Stopped' = Stopped
    BY <1>25
      DEF Stopped, At, IoInv, IoType, Labels, Busy, Begin, Base, Goto, pauseVars, callVars
  <2>2. Cardinality(Stopped') = Cardinality(Stopped)
    BY <2>1, Zenon
  <2> QED BY <1>25, <1>0, <2>2, SomeThreads
    DEF IoInv, IoType, IoPlaces, OuterLabels, NoEach, EachLabels, Labels, Busy, Begin, Base,
      Goto, pauseVars, callVars
<1>26. ASSUME NEW t \in Threads, NEW api \in Apis, WhilePaused(t, api) PROVE PauseCount'
  <2>1. Stopped' = Stopped
    BY <1>26
      DEF Stopped, At, IoInv, IoType, Labels, WhilePaused, Begin, Base, Goto, pauseVars,
        callVars
  <2>2. Cardinality(Stopped') = Cardinality(Stopped)
    BY <2>1, Zenon
  <2> QED BY <1>26, <1>0, <2>2, SomeThreads
    DEF IoInv, IoType, IoPlaces, OuterLabels, NoEach, EachLabels, Labels, WhilePaused, Begin,
      Base, Goto, pauseVars, callVars
<1>27. ASSUME NEW t \in Threads, OnEach(t) PROVE PauseCount'
  <2>1. Stopped' = Stopped
    BY <1>27
      DEF Stopped, At, IoInv, IoType, Labels, OnEach, Begin, Base, Command, Goto, pauseVars,
        callVars
  <2>2. Cardinality(Stopped') = Cardinality(Stopped)
    BY <2>1, Zenon
  <2> QED BY <1>27, <1>0, <2>2, SomeThreads
    DEF IoInv, IoType, IoPlaces, OuterLabels, NoEach, EachLabels, Labels, OnEach, Begin, Base,
      Command, Goto, pauseVars, callVars
<1>28. ASSUME NEW t \in Threads, OnOne(t) PROVE PauseCount'
  <2>1. Stopped' = Stopped
    BY <1>28
      DEF Stopped, At, IoInv, IoType, Labels, OnOne, Begin, Base, Command, Goto, pauseVars,
        callVars
  <2>2. Cardinality(Stopped') = Cardinality(Stopped)
    BY <2>1, Zenon
  <2> QED BY <1>28, <1>0, <2>2, SomeThreads
    DEF IoInv, IoType, IoPlaces, OuterLabels, NoEach, EachLabels, Labels, OnOne, Begin, Base,
      Command, Goto, pauseVars, callVars
<1>29. ASSUME NEW t \in Threads, Stop(t) PROVE PauseCount'
  <2>1. Stopped' = Stopped
    BY <1>29
      DEF Stopped, At, IoInv, IoType, Labels, Stop, Begin, Base, Command, Goto, pauseVars,
        callVars
  <2>2. Cardinality(Stopped') = Cardinality(Stopped)
    BY <2>1, Zenon
  <2> QED BY <1>29, <1>0, <2>2, SomeThreads
    DEF IoInv, IoType, IoPlaces, OuterLabels, NoEach, EachLabels, Labels, Stop, Begin, Base,
      Command, Goto, pauseVars, callVars
<1>30. ASSUME NEW t \in Threads, SpuriousWakeup(t) PROVE PauseCount'
  <2>1. Stopped' = Stopped
    BY <1>30 DEF Stopped, At, IoInv, IoType, Labels, SpuriousWakeup, Goto, pauseVars, callVars
  <2>2. Cardinality(Stopped') = Cardinality(Stopped)
    BY <2>1, Zenon
  <2> QED BY <1>30, <1>0, <2>2, SomeThreads
    DEF IoInv, IoType, IoPlaces, OuterLabels, NoEach, EachLabels, Labels, SpuriousWakeup, Goto,
      pauseVars, callVars
<1>31. CASE UNCHANGED vars
  BY <1>31 DEF vars, Stopped, At
<1> QED BY <1>1, <1>2, <1>3, <1>4, <1>5, <1>6, <1>7, <1>8, <1>9, <1>10, <1>11, <1>12, <1>13,
    <1>14, <1>15, <1>16, <1>17, <1>18, <1>19, <1>20, <1>21, <1>22, <1>23, <1>24, <1>25, <1>26,
    <1>27, <1>28, <1>29, <1>30, <1>31
  DEF Next, ThreadStep, MakeCall

(* Mixes whose calls do not share num_paused_threads_.                     *)
Unmixed == \A mix \in Mixes :
    mix["on_each"] = 0 \/ (mix["while_paused"] = 0 /\ mix["while_paused2"] = 0)

(* The invariant of the pause.                                             *)
LEMMA PauseInvariance == ASSUME Unmixed PROVE Spec => []PauseInv
<1>1. Init => PauseInv
  <2> SUFFICES ASSUME Init PROVE PauseInv
    OBVIOUS
  <2>1. /\ \A t \in Threads : pc[t] \in {"top", "idle"}
        /\ ctl = <<>> /\ left \in Mixes
    BY DEF Init
  <2>2. left["on_each"] = 0 \/ (left["while_paused"] = 0 /\ left["while_paused2"] = 0)
    BY <2>1, Unmixed DEF Unmixed
  <2>3. PauseCount
    BY <2>1 DEF PauseCount
  <2>4. NoPause \/ NoEach
    BY <2>1, <2>2 DEF NoPause, NoEach, PauseLabels, EachLabels
  <2> QED BY <2>3, <2>4, IoStart DEF PauseInv
<1>2. PauseInv /\ [Next]_vars => PauseInv'
  BY IoStep, NoEachStep, NoPauseStep, CountStep DEF PauseInv
<1> QED BY <1>1, <1>2, PTL DEF Spec

(* The io threads other than a thread.                                     *)
LEMMA OthersCount ==
  ASSUME NEW t
  PROVE  /\ IsFiniteSet(IoThreads \ {t})
         /\ Cardinality(IoThreads \ {t}) = NumThreads - Own(t)
<1>1. IsFiniteSet(IoThreads)
  BY IoDispatchAssumption DEF IoDispatchAssumption
<1>2. /\ IsFiniteSet(IoThreads \ {t})
      /\ Cardinality(IoThreads \ {t}) =
            IF t \in IoThreads THEN Cardinality(IoThreads) - 1 ELSE Cardinality(IoThreads)
  BY <1>1, FS_RemoveElement
<1> QED BY <1>1, <1>2, FS_CardinalityType DEF Own, NumThreads

(* The caller in f is alone: NumThreads threads are counted, and those     *)
(* counted besides the caller are stopped.                                 *)
LEMMA StoppedAll == PauseInv => PausedAlone
<1> SUFFICES ASSUME PauseInv, NEW t \in Threads, pc[t] = "f", NEW u \in IoThreads \ {t}
             PROVE  pc[u] = "resume_wait"
  BY DEF PausedAlone, At
<1>1. NumThreads <= Cardinality(Stopped) + Own(t)
  BY DEF PauseInv, NoPause, PauseLabels, PauseCount
<1>2. Stopped \subseteq IoThreads \ {t}
  BY StoppedFinite DEF PauseInv, Stopped, At
<1>3. /\ IsFiniteSet(IoThreads \ {t})
      /\ Cardinality(IoThreads \ {t}) = NumThreads - Own(t)
  BY OthersCount
<1>4. Cardinality(Stopped) <= Cardinality(IoThreads \ {t}) /\ Cardinality(Stopped) \in Nat
  BY <1>2, <1>3, FS_Subset, FS_CardinalityType
<1>5. Cardinality(IoThreads \ {t}) = Cardinality(Stopped)
  BY <1>1, <1>3, <1>4, SomeThreads DEF Own
<1>6. IoThreads \ {t} = Stopped
  BY <1>2, <1>3, <1>5, FS_Subset
<1> QED BY <1>6 DEF Stopped, At

(* While f of while_paused or while_paused2 runs every other io thread is  *)
(* stopped in the k_pause branch, however many io threads and calls there  *)
(* are, if no call of on_each is mixed with them: on_each counts in the    *)
(* same num_paused_threads_.                                               *)
THEOREM PausesAreExclusive == ASSUME Unmixed PROVE Spec => []PausedAlone
  BY PauseInvariance, StoppedAll, PTL

-----------------------------------------------------------------------------
(* The commands of a kind in the pipe, as the pipe is read and written.    *)

LEMMA Interval ==
  ASSUME NEW a \in Nat, NEW n \in Nat
  PROVE  Cardinality((a + 1)..(a + n)) = n
<1>1. PICK lo \in Int, hi \in Int : lo = a + 1 /\ hi = a + n
  OBVIOUS
<1>2. Cardinality(lo..hi) = IF lo > hi THEN 0 ELSE hi - lo + 1
  BY FS_Interval
<1> QED BY <1>1, <1>2

LEMMA KindFinite ==
  ASSUME NEW s \in Seq(Cmds), NEW k
  PROVE  IsFiniteSet(OfKind(s, k)) /\ Cardinality(OfKind(s, k)) \in Nat
<1>1. Len(s) \in Nat /\ OfKind(s, k) \subseteq 1..Len(s)
  BY DEF OfKind
<1>2. IsFiniteSet(1..Len(s))
  BY <1>1, FS_Interval
<1>3. IsFiniteSet(OfKind(s, k))
  BY <1>1, <1>2, FS_Subset
<1> QED BY <1>3, FS_CardinalityType

LEMMA KindTail ==
  ASSUME NEW s \in Seq(Cmds), NEW k, s # <<>>
  PROVE  /\ (1 \in OfKind(s, k)) <=> (Head(s).cmd = k)
         /\ \A i : i \in OfKind(Tail(s), k) <=> i \in Nat \ {0} /\ i + 1 \in OfKind(s, k)
         /\ Cardinality(OfKind(Tail(s), k)) = Cardinality(OfKind(s, k) \ {1})
<1>1. /\ Head(s) = s[1] /\ 1 \in DOMAIN s
      /\ \A i : i \in DOMAIN Tail(s) <=> i \in Int /\ i >= 1 /\ i + 1 \in DOMAIN s
      /\ \A i \in DOMAIN Tail(s) : Tail(s)[i] = s[i + 1]
  BY PipeTail
<1>2. (1 \in OfKind(s, k)) <=> (Head(s).cmd = k)
  BY <1>1 DEF OfKind
<1>3. ASSUME NEW i PROVE i \in OfKind(Tail(s), k) <=> i \in Nat \ {0} /\ i + 1 \in OfKind(s, k)
  BY <1>1 DEF OfKind
<1> DEFINE A == OfKind(s, k) \ {1}
           B == OfKind(Tail(s), k)
           f == [i \in A |-> i - 1]
<1>4. \A i \in A : i \in Nat /\ i >= 2
  BY DEF OfKind
<1>5. \A i \in B : i \in Nat /\ i + 1 \in A
  BY <1>3
<1>6. \A i \in A : i - 1 \in B
  BY <1>3, <1>4
<1>7. IsFiniteSet(A)
  BY KindFinite, FS_RemoveElement
<1> HIDE DEF A, B
<1>8. f \in Bijection(A, B)
  <2>1. f \in Injection(A, B)
    BY <1>4, <1>6 DEF Injection, IsInjective
  <2>2. \A j \in B : j + 1 \in A /\ f[j + 1] = j
    BY <1>5
  <2>3. f \in Surjection(A, B)
    BY <2>2, <1>6 DEF Surjection
  <2> QED BY <2>1, <2>3 DEF Bijection
<1>9. Cardinality(B) = Cardinality(A)
  BY <1>7, <1>8, FS_Bijection DEF ExistsBijection
<1> QED BY <1>2, <1>3, <1>9 DEF A, B

LEMMA KindAppend ==
  ASSUME NEW s \in Seq(Cmds), NEW k, NEW c \in Cmds
  PROVE  /\ OfKind(Append(s, c), k) =
              IF c.cmd = k THEN OfKind(s, k) \cup {Len(s) + 1} ELSE OfKind(s, k)
         /\ Len(s) + 1 \notin OfKind(s, k)
<1>1. /\ DOMAIN Append(s, c) = DOMAIN s \cup {Len(s) + 1}
      /\ Len(s) \in Nat /\ DOMAIN s = 1..Len(s)
      /\ Append(s, c)[Len(s) + 1] = c
      /\ \A i \in DOMAIN s : Append(s, c)[i] = s[i]
  BY PipeAppend
<1>2. Len(s) + 1 \notin DOMAIN s
  BY <1>1
<1> QED BY <1>1, <1>2, Zenon DEF OfKind

LEMMA KindConcat ==
  ASSUME NEW s \in Seq(Cmds), NEW c \in Cmds, NEW n \in Nat, OfKind(s, c.cmd) = {}
  PROVE  Cardinality(OfKind(s \o [j \in 1..n |-> c], c.cmd)) = n
<1> DEFINE r == s \o [j \in 1..n |-> c]
<1>1. /\ Len(s) \in Nat /\ DOMAIN s = 1..Len(s) /\ DOMAIN r = 1..(Len(s) + n)
      /\ \A i \in DOMAIN s : r[i] = s[i]
      /\ \A i \in (Len(s) + 1)..(Len(s) + n) : r[i] = c
  BY PipeConcat
<1> HIDE DEF r
<1>2. \A i \in DOMAIN r : i \in DOMAIN s \/ i \in (Len(s) + 1)..(Len(s) + n)
  BY <1>1
<1>3. \A i \in (Len(s) + 1)..(Len(s) + n) : i \in DOMAIN r
  BY <1>1
<1>4. OfKind(r, c.cmd) = (Len(s) + 1)..(Len(s) + n)
  <2>1. \A i \in DOMAIN s : s[i].cmd # c.cmd
    BY DEF OfKind
  <2>2. \A i \in DOMAIN r : r[i].cmd = c.cmd <=> i \in (Len(s) + 1)..(Len(s) + n)
    <3> TAKE i \in DOMAIN r
    <3>1. i \in (Len(s) + 1)..(Len(s) + n) => r[i] = c
      BY <1>1
    <3>2. i \in DOMAIN s => r[i].cmd # c.cmd
      BY <1>1, <2>1
    <3> QED BY <1>2, <3>1, <3>2, Zenon
  <2>3. OfKind(r, c.cmd) = {i \in DOMAIN r : i \in (Len(s) + 1)..(Len(s) + n)}
    BY <2>2, Zenon DEF OfKind
  <2> QED BY <1>3, <2>3, Zenon
<1>5. Cardinality((Len(s) + 1)..(Len(s) + n)) = n
  BY <1>1, Interval
<1> QED BY <1>4, <1>5 DEF r

-----------------------------------------------------------------------------
(* on_each.                                                                *)

(* A step of a single on_each, without pauses.                             *)
LEMMA EachStep ==
  IoInv /\ NoPause /\ IdsKnown /\ OneCommand /\ EachCount /\ [Next]_vars
    => IdsKnown' /\ OneCommand' /\ EachCount'
<1> SUFFICES ASSUME IoInv, NoPause, IdsKnown, OneCommand, EachCount, [Next]_vars
             PROVE  IdsKnown' /\ OneCommand' /\ EachCount'
  OBVIOUS
<1> DEFINE Goal == IdsKnown' /\ OneCommand' /\ EachCount'
<1> USE DEF Threads
<1>0. ctl \in Seq(Cmds)
  BY DEF IoInv, IoType
<1>a. \A i \in DOMAIN ctl : ctl[i].id \in Nat /\ ctl[i].cmd \in Kinds
  <2>1. \A i \in DOMAIN ctl : ctl[i] \in Cmds
    BY <1>0
  <2> QED BY <2>1 DEF Cmds
<1>b. lastId \in Nat /\ \A u \in Threads : call[u].id \in Nat
  BY DEF IoInv, IoType
<1>c. \A r \in ran : r[1] \in IoThreads /\ r[2] \in Nat
  BY DEF IdsKnown
<1>e. \A c \in Callers : c \in Threads /\ Executed(c) \subseteq IoThreads
  BY DEF Callers, At, Executed
<1>f. \A c \in Callers : IsFiniteSet(Executed(c)) /\ Cardinality(Executed(c)) \in Nat
  BY <1>e, FS_Subset, FS_CardinalityType, IoDispatchAssumption DEF IoDispatchAssumption
<1>1. ASSUME NEW t \in Threads, LeaveLoop(t) PROVE Goal
  <2>3. UNCHANGED ctl
    BY <1>1 DEF LeaveLoop
  <2>4. InPipe' = InPipe
    BY <2>3 DEF InPipe
  <2>5. Callers' = Callers /\ InHand' = InHand /\ At({"each_wait"})' = At({"each_wait"})
    BY <1>1 DEF Callers, InHand, At, IoInv, IoType, LeaveLoop, Goto, pauseVars, callVars
  <2>6. \A c \in Callers : call'[c] = call[c] /\ Executed(c)' = Executed(c)
    BY <1>1
      DEF Callers, At, Executed, IdsKnown, IoInv, IoType, LeaveLoop, Goto, pauseVars, callVars
  <2>7. \A c \in Callers : Cardinality(Executed(c)') = Cardinality(Executed(c))
    BY <2>6, Zenon
  <2>8. IdsKnown'
    BY <1>1, <1>a, <1>b, <1>c, <2>3, <2>4, <2>5, <2>6
      DEF IdsKnown, Callers, At, IoInv, IoType, Command, LeaveLoop, Goto, pauseVars, callVars
  <2>9. OneCommand'
    BY <1>1, <2>3, <2>4, <2>5, <2>6
      DEF OneCommand, InPipe, OfKind, InHand, Callers, At, IoInv, IoType, LeaveLoop, Goto,
        pauseVars, callVars
  <2>10. EachCount'
    BY <1>1, <1>e, <2>5, <2>6, <2>7
      DEF EachCount, EachLabels, Callers, At, Own, IoInv, IoType, Apis, LeaveLoop, Goto,
        pauseVars, callVars
  <2> QED BY <2>8, <2>9, <2>10
<1>2. ASSUME NEW t \in Threads, LoopTop(t) PROVE Goal
  <2>3. UNCHANGED ctl
    BY <1>2 DEF LoopTop
  <2>4. InPipe' = InPipe
    BY <2>3 DEF InPipe
  <2>5. Callers' = Callers /\ InHand' = InHand /\ At({"each_wait"})' = At({"each_wait"})
    BY <1>2 DEF Callers, InHand, At, IoInv, IoType, LoopTop, Goto, pauseVars, callVars
  <2>6. \A c \in Callers : call'[c] = call[c] /\ Executed(c)' = Executed(c)
    BY <1>2
      DEF Callers, At, Executed, IdsKnown, IoInv, IoType, LoopTop, Goto, pauseVars, callVars
  <2>7. \A c \in Callers : Cardinality(Executed(c)') = Cardinality(Executed(c))
    BY <2>6, Zenon
  <2>8. IdsKnown'
    BY <1>2, <1>a, <1>b, <1>c, <2>3, <2>4, <2>5, <2>6
      DEF IdsKnown, Callers, At, IoInv, IoType, Command, LoopTop, Goto, pauseVars, callVars
  <2>9. OneCommand'
    BY <1>2, <2>3, <2>4, <2>5, <2>6
      DEF OneCommand, InPipe, OfKind, InHand, Callers, At, IoInv, IoType, LoopTop, Goto,
        pauseVars, callVars
  <2>10. EachCount'
    BY <1>2, <1>e, <2>5, <2>6, <2>7
      DEF EachCount, EachLabels, Callers, At, Own, IoInv, IoType, Apis, LoopTop, Goto,
        pauseVars, callVars
  <2> QED BY <2>8, <2>9, <2>10
<1>3. ASSUME NEW t \in Threads, LockAtRest(t) PROVE Goal
  <2>3. UNCHANGED ctl
    BY <1>3 DEF LockAtRest
  <2>4. InPipe' = InPipe
    BY <2>3 DEF InPipe
  <2>5. Callers' = Callers /\ InHand' = InHand /\ At({"each_wait"})' = At({"each_wait"})
    BY <1>3 DEF Callers, InHand, At, IoInv, IoType, LockAtRest, Goto, pauseVars, callVars
  <2>6. \A c \in Callers : call'[c] = call[c] /\ Executed(c)' = Executed(c)
    BY <1>3
      DEF Callers, At, Executed, IdsKnown, IoInv, IoType, LockAtRest, Goto, pauseVars,
        callVars
  <2>7. \A c \in Callers : Cardinality(Executed(c)') = Cardinality(Executed(c))
    BY <2>6, Zenon
  <2>8. IdsKnown'
    BY <1>3, <1>a, <1>b, <1>c, <2>3, <2>4, <2>5, <2>6
      DEF IdsKnown, Callers, At, IoInv, IoType, Command, LockAtRest, Goto, pauseVars, callVars
  <2>9. OneCommand'
    BY <1>3, <2>3, <2>4, <2>5, <2>6
      DEF OneCommand, InPipe, OfKind, InHand, Callers, At, IoInv, IoType, LockAtRest, Goto,
        pauseVars, callVars
  <2>10. EachCount'
    BY <1>3, <1>e, <2>5, <2>6, <2>7
      DEF EachCount, EachLabels, Callers, At, Own, IoInv, IoType, Apis, LockAtRest, Goto,
        pauseVars, callVars
  <2> QED BY <2>8, <2>9, <2>10
<1>4. ASSUME NEW t \in Threads, RunAtRest(t) PROVE Goal
  <2>3. UNCHANGED ctl
    BY <1>4 DEF RunAtRest
  <2>4. InPipe' = InPipe
    BY <2>3 DEF InPipe
  <2>5. Callers' = Callers /\ InHand' = InHand /\ At({"each_wait"})' = At({"each_wait"})
    BY <1>4 DEF Callers, InHand, At, IoInv, IoType, RunAtRest, Goto, pauseVars, callVars
  <2>6. \A c \in Callers : call'[c] = call[c] /\ Executed(c)' = Executed(c)
    BY <1>4
      DEF Callers, At, Executed, IdsKnown, IoInv, IoType, RunAtRest, Goto, pauseVars, callVars
  <2>7. \A c \in Callers : Cardinality(Executed(c)') = Cardinality(Executed(c))
    BY <2>6, Zenon
  <2>8. IdsKnown'
    BY <1>4, <1>a, <1>b, <1>c, <2>3, <2>4, <2>5, <2>6
      DEF IdsKnown, Callers, At, IoInv, IoType, Command, RunAtRest, Goto, pauseVars, callVars
  <2>9. OneCommand'
    BY <1>4, <2>3, <2>4, <2>5, <2>6
      DEF OneCommand, InPipe, OfKind, InHand, Callers, At, IoInv, IoType, RunAtRest, Goto,
        pauseVars, callVars
  <2>10. EachCount'
    BY <1>4, <1>e, <2>5, <2>6, <2>7
      DEF EachCount, EachLabels, Callers, At, Own, IoInv, IoType, Apis, RunAtRest, Goto,
        pauseVars, callVars
  <2> QED BY <2>8, <2>9, <2>10
<1>5. ASSUME NEW t \in Threads, EndEvent(t) PROVE Goal
  <2>3. UNCHANGED ctl
    BY <1>5 DEF EndEvent
  <2>4. InPipe' = InPipe
    BY <2>3 DEF InPipe
  <2>5. Callers' = Callers /\ InHand' = InHand /\ At({"each_wait"})' = At({"each_wait"})
    BY <1>5 DEF Callers, InHand, At, IoInv, IoType, EndEvent, Goto, pauseVars, callVars
  <2>6. \A c \in Callers : call'[c] = call[c] /\ Executed(c)' = Executed(c)
    BY <1>5
      DEF Callers, At, Executed, IdsKnown, IoInv, IoType, EndEvent, Goto, pauseVars, callVars
  <2>7. \A c \in Callers : Cardinality(Executed(c)') = Cardinality(Executed(c))
    BY <2>6, Zenon
  <2>8. IdsKnown'
    BY <1>5, <1>a, <1>b, <1>c, <2>3, <2>4, <2>5, <2>6
      DEF IdsKnown, Callers, At, IoInv, IoType, Command, EndEvent, Goto, pauseVars, callVars
  <2>9. OneCommand'
    BY <1>5, <2>3, <2>4, <2>5, <2>6
      DEF OneCommand, InPipe, OfKind, InHand, Callers, At, IoInv, IoType, EndEvent, Goto,
        pauseVars, callVars
  <2>10. EachCount'
    BY <1>5, <1>e, <2>5, <2>6, <2>7
      DEF EachCount, EachLabels, Callers, At, Own, IoInv, IoType, Apis, EndEvent, Goto,
        pauseVars, callVars
  <2> QED BY <2>8, <2>9, <2>10
<1>6. ASSUME NEW t \in Threads, HandleWake(t) PROVE Goal
  <2>1. Command("k_wake", 0) \in Cmds /\ Command("k_wake", 0).cmd # "k_on_each"
    BY <1>6 DEF IoInv, IoType, Cmds, Kinds, Command
  <2>2. OfKind(Append(ctl, Command("k_wake", 0)), "k_on_each") = OfKind(ctl, "k_on_each")
    BY <1>0, <2>1, KindAppend
  <2>3. InPipe' = InPipe
    BY <1>6, <2>2 DEF InPipe, HandleWake
  <2>4. \A i \in DOMAIN ctl' :
            (i \in DOMAIN ctl /\ ctl'[i] = ctl[i]) \/ ctl'[i] = Command("k_wake", 0)
    BY <1>6, <1>0, <2>1, PipeAppend DEF HandleWake
  <2>5. Callers' = Callers /\ InHand' = InHand /\ At({"each_wait"})' = At({"each_wait"})
    BY <1>6 DEF Callers, InHand, At, IoInv, IoType, HandleWake, Goto, pauseVars, callVars
  <2>6. \A c \in Callers : call'[c] = call[c] /\ Executed(c)' = Executed(c)
    BY <1>6
      DEF Callers, At, Executed, IdsKnown, IoInv, IoType, HandleWake, Goto, pauseVars,
        callVars
  <2>7. \A c \in Callers : Cardinality(Executed(c)') = Cardinality(Executed(c))
    BY <2>6, Zenon
  <2>8. IdsKnown'
    BY <1>6, <1>a, <1>b, <1>c, <2>3, <2>4, <2>5, <2>6
      DEF IdsKnown, Callers, At, IoInv, IoType, Command, HandleWake, Goto, pauseVars, callVars
  <2>9. OneCommand'
    BY <1>6, <2>3, <2>4, <2>5, <2>6
      DEF OneCommand, InPipe, OfKind, InHand, Callers, At, IoInv, IoType, HandleWake, Goto,
        pauseVars, callVars
  <2>10. EachCount'
    BY <1>6, <1>e, <2>5, <2>6, <2>7
      DEF EachCount, EachLabels, Callers, At, Own, IoInv, IoType, Apis, HandleWake, Goto,
        pauseVars, callVars
  <2> QED BY <2>8, <2>9, <2>10
<1>7. ASSUME NEW t \in Threads, HandlePause(t) PROVE Goal
  BY <1>7 DEF NoPause, PauseLabels, HandlePause
<1>8. ASSUME NEW t \in Threads, Resume(t) PROVE Goal
  BY <1>8 DEF NoPause, PauseLabels, Resume
<1>9. ASSUME NEW t \in Threads, WaitAgain(t) PROVE Goal
  <2>3. UNCHANGED ctl
    BY <1>9 DEF WaitAgain
  <2>4. InPipe' = InPipe
    BY <2>3 DEF InPipe
  <2>5. Callers' = Callers /\ InHand' = InHand /\ At({"each_wait"})' = At({"each_wait"})
    BY <1>9 DEF Callers, InHand, At, IoInv, IoType, WaitAgain, Goto, pauseVars, callVars
  <2>6. \A c \in Callers : call'[c] = call[c] /\ Executed(c)' = Executed(c)
    BY <1>9
      DEF Callers, At, Executed, IdsKnown, IoInv, IoType, WaitAgain, Goto, pauseVars, callVars
  <2>7. \A c \in Callers : Cardinality(Executed(c)') = Cardinality(Executed(c))
    BY <2>6, Zenon
  <2>8. IdsKnown'
    BY <1>9, <1>a, <1>b, <1>c, <2>3, <2>4, <2>5, <2>6
      DEF IdsKnown, Callers, At, IoInv, IoType, Command, WaitAgain, Goto, pauseVars, callVars
  <2>9. OneCommand'
    BY <1>9, <2>3, <2>4, <2>5, <2>6
      DEF OneCommand, InPipe, OfKind, InHand, Callers, At, IoInv, IoType, WaitAgain, Goto,
        pauseVars, callVars
  <2>10. EachCount'
    BY <1>9, <1>e, <2>5, <2>6, <2>7
      DEF EachCount, EachLabels, Callers, At, Own, IoInv, IoType, Apis, WaitAgain, Goto,
        pauseVars, callVars
  <2> QED BY <2>8, <2>9, <2>10
<1>10. ASSUME NEW t \in Threads, HandleOnEach(t) PROVE Goal
  <2>3. UNCHANGED ctl
    BY <1>10 DEF HandleOnEach
  <2>4. InPipe' = InPipe
    BY <2>3 DEF InPipe
  <2>5. Callers' = Callers /\ InHand' = InHand /\ At({"each_wait"})' = At({"each_wait"})
    BY <1>10 DEF Callers, InHand, At, IoInv, IoType, HandleOnEach, Goto, pauseVars, callVars
  <2>6. \A c \in Callers : call'[c] = call[c] /\ Executed(c)' = Executed(c)
    BY <1>10
      DEF Callers, At, Executed, IdsKnown, IoInv, IoType, HandleOnEach, Goto, pauseVars,
        callVars
  <2>7. \A c \in Callers : Cardinality(Executed(c)') = Cardinality(Executed(c))
    BY <2>6, Zenon
  <2>8. IdsKnown'
    BY <1>10, <1>a, <1>b, <1>c, <2>3, <2>4, <2>5, <2>6
      DEF IdsKnown, Callers, At, IoInv, IoType, Command, HandleOnEach, Goto, pauseVars,
        callVars
  <2>9. OneCommand'
    BY <1>10, <2>3, <2>4, <2>5, <2>6
      DEF OneCommand, InPipe, OfKind, InHand, Callers, At, IoInv, IoType, HandleOnEach, Goto,
        pauseVars, callVars
  <2>10. EachCount'
    BY <1>10, <1>e, <2>5, <2>6, <2>7
      DEF EachCount, EachLabels, Callers, At, Own, IoInv, IoType, Apis, HandleOnEach, Goto,
        pauseVars, callVars
  <2> QED BY <2>8, <2>9, <2>10
<1>11. ASSUME NEW t \in Threads, OnEachExecuted(t) PROVE Goal
  <2>1. t \in InHand /\ t \in Threads /\ t \in IoThreads /\ pc[t] = "each_exec"
    BY <1>11, LoopThread DEF InHand, At, OnEachExecuted, OutsideLabels
  <2>2. InPipe = {} /\ InHand = {t} /\ numPaused < NumThreads
    BY <2>1 DEF OneCommand
  <2>3. PICK c \in Threads : pc[c] = "each_wait"
    BY <2>1 DEF OneCommand, At
  <2>4. Callers = {c} /\ c # t
    BY <2>1, <2>3 DEF EachCount, Callers, At
  <2>5. Callers' = {c} /\ At({"each_wait"})' = At({"each_wait"}) /\ pc'[c] = "each_wait"
    BY <1>11, <2>3, <2>4 DEF Callers, At, IoInv, IoType, OnEachExecuted, Goto
  <2>6. InHand' = {}
    BY <1>11, <2>2 DEF InHand, At, IoInv, IoType, OnEachExecuted, Goto
  <2>7. call[t].id = call[c].id /\ call' = call /\ lastId' = lastId /\ left' = left
    BY <1>11, <2>2, <2>4 DEF OneCommand, OnEachExecuted, callVars
  <2>8. t \notin Executed(c)
    BY <2>1, <2>4 DEF EachCount
  <2>9. Executed(c)' = Executed(c) \cup {t}
    BY <1>11, <2>1, <2>7 DEF Executed, OnEachExecuted
  <2>10. Cardinality(Executed(c) \cup {t}) = Cardinality(Executed(c)) + 1
    BY <1>f, <2>4, <2>8, FS_AddElement
  <2>11. Cardinality(Executed(c)') = Cardinality(Executed(c)) + 1
    BY <2>9, <2>10, Zenon
  <2>12. numPaused' = numPaused + 1 /\ numPaused \in Nat
    BY <1>11 DEF OnEachExecuted, IoInv, IoType
  <2> DEFINE e == Command("k_on_each", call[t].id)
  <2>13. e \in Cmds /\ e.cmd = "k_on_each" /\ e.id = call[c].id
    BY <1>b, <2>1, <2>7 DEF Command, Cmds, Kinds
  <2>14. /\ \A i \in DOMAIN ctl' : (i \in DOMAIN ctl /\ ctl'[i] = ctl[i]) \/ ctl'[i] = e
         /\ (InPipe' = {} \/ (InPipe' = {Len(ctl) + 1} /\ numPaused' # NumThreads))
         /\ \A i \in InPipe' : ctl'[i] = e
    <3> HIDE DEF e
    <3>1. CASE numPaused' = NumThreads
      <4>1. ctl' = ctl
        BY <1>11, <3>1 DEF OnEachExecuted
      <4> QED BY <2>2, <4>1 DEF InPipe
    <3>2. CASE numPaused' # NumThreads
      <4>1. ctl' = Append(ctl, e)
        BY <1>11, <3>2 DEF OnEachExecuted, e
      <4>2. OfKind(Append(ctl, e), "k_on_each") = OfKind(ctl, "k_on_each") \cup {Len(ctl) + 1}
        BY <1>0, <2>13, KindAppend
      <4>3. InPipe' = {Len(ctl) + 1}
        BY <2>2, <4>1, <4>2 DEF InPipe
      <4>4. Append(ctl, e)[Len(ctl) + 1] = e
        BY <1>0, <2>13, PipeAppend
      <4>5. \A i \in DOMAIN ctl' : (i \in DOMAIN ctl /\ ctl'[i] = ctl[i]) \/ ctl'[i] = e
        BY <1>0, <2>13, <4>1, PipeAppend
      <4> QED BY <3>2, <4>1, <4>3, <4>4, <4>5
    <3> QED BY <3>1, <3>2
  <2> HIDE DEF e
  <2>15. IdsKnown'
    <3>1. ran' \subseteq IoThreads \X Nat /\ \A r \in ran' : r[2] <= lastId'
      BY <1>11, <1>b, <2>1 DEF IdsKnown, OnEachExecuted, callVars
    <3>2. \A i \in DOMAIN ctl' : ctl'[i].id <= lastId'
      BY <2>7, <2>13, <2>14 DEF IdsKnown
    <3>3. \A u \in Threads : call'[u].id <= lastId'
      BY <2>7 DEF IdsKnown
    <3>4. \A i \in DOMAIN ctl' : ctl'[i].cmd = "k_on_one" => ctl'[i].id # call'[c].id
      BY <2>4, <2>7, <2>13, <2>14 DEF IdsKnown
    <3>5. \A u \in At({"k_on_one"})' : call'[u].id # call'[c].id
      BY <1>11, <2>4, <2>7 DEF IdsKnown, At, IoInv, IoType, OnEachExecuted, Goto
    <3> QED BY <2>5, <3>1, <3>2, <3>3, <3>4, <3>5 DEF IdsKnown
  <2>16. OneCommand'
    <3>1. numPaused' = NumThreads \/ numPaused' < NumThreads
      BY <2>2, <2>12, SomeThreads
    <3>2. At({"each_wait"})' # {}
      BY <2>3, <2>5 DEF At
    <3> QED BY <2>5, <2>6, <2>7, <2>13, <2>14, <3>1, <3>2 DEF OneCommand
  <2>17. EachCount'
    <3>1. numPaused' = Cardinality(Executed(c)') + Own(c)
      BY <1>f, <2>4, <2>11, <2>12 DEF EachCount, Own
    <3>2. \A u \in Executed(c)' : pc'[u] = "each_resume_wait"
      BY <1>11, <1>e, <2>1, <2>4, <2>9 DEF EachCount, IoInv, IoType, OnEachExecuted, Goto
    <3>3. left'["on_each"] <= 1 /\ left'["on_each"] # 1
      BY <1>11 DEF EachCount, EachLabels, OnEachExecuted, callVars
    <3> QED BY <2>5, <3>1, <3>2, <3>3 DEF EachCount
  <2> QED BY <2>15, <2>16, <2>17
<1>12. ASSUME NEW t \in Threads, OnEachResumed(t) PROVE Goal
  <2>1. UNCHANGED ctl /\ InPipe' = InPipe
    BY <1>12 DEF OnEachResumed, InPipe
  <2>2. Callers' = Callers /\ InHand' = InHand /\ At({"each_wait"})' = At({"each_wait"})
    BY <1>12 DEF Callers, InHand, At, IoInv, IoType, OnEachResumed, Goto
  <2>3. \A c \in Callers : call'[c] = call[c] /\ Executed(c)' = Executed(c)
    BY <1>12 DEF Executed, OnEachResumed, callVars
  <2>4. \A c \in Callers : Cardinality(Executed(c)') = Cardinality(Executed(c))
    BY <2>3, Zenon
  <2>5. \A c \in Callers : Cardinality(Executed(c)) = 0
    BY <1>12, <1>f DEF EachCount, OnEachResumed, Own
  <2>6. \A c \in Callers : Executed(c) = {}
    BY <1>f, <2>5, FS_EmptySet
  <2>7. IdsKnown'
    BY <1>12, <2>1, <2>2, <2>3 DEF IdsKnown, At, IoInv, IoType, OnEachResumed, Goto, callVars
  <2>8. OneCommand'
    BY <1>12, <2>1, <2>2, <2>3
      DEF OneCommand, InHand, Callers, At, OnEachResumed, pauseVars, callVars
  <2>9. EachCount'
    BY <1>12, <2>2, <2>3, <2>4, <2>6
      DEF EachCount, EachLabels, Callers, At, Own, IoInv, IoType,
          OnEachResumed, Goto, pauseVars, callVars
  <2> QED BY <2>7, <2>8, <2>9
<1>13. ASSUME NEW t \in Threads, HandleOnOne(t) PROVE Goal
  <2>3. UNCHANGED ctl
    BY <1>13 DEF HandleOnOne
  <2>4. InPipe' = InPipe
    BY <2>3 DEF InPipe
  <2>5. Callers' = Callers /\ InHand' = InHand /\ At({"each_wait"})' = At({"each_wait"})
    BY <1>13 DEF Callers, InHand, At, IoInv, IoType, HandleOnOne, Goto, pauseVars, callVars
  <2>6. \A c \in Callers : call'[c] = call[c] /\ Executed(c)' = Executed(c)
    BY <1>13
      DEF Callers, At, Executed, IdsKnown, IoInv, IoType, HandleOnOne, Goto, pauseVars,
        callVars
  <2>7. \A c \in Callers : Cardinality(Executed(c)') = Cardinality(Executed(c))
    BY <2>6, Zenon
  <2>8. IdsKnown'
    <3>1. ran' \subseteq IoThreads \X Nat /\ \A r \in ran' : r[2] <= lastId'
      <4>1. t \in IoThreads
        BY <1>13, LoopThread DEF HandleOnOne, OutsideLabels
      <4> QED BY <1>13, <1>b, <4>1 DEF IdsKnown, HandleOnOne, callVars
    <3>2. \A i \in DOMAIN ctl' : ctl'[i].id <= lastId'
      BY <1>13, <1>a, <1>b, <2>3, <2>4
        DEF IdsKnown, Command, HandleOnOne, Goto, pauseVars, callVars
    <3>3. \A u \in Threads : call'[u].id <= lastId'
      BY <1>13, <1>b DEF IdsKnown, HandleOnOne, Goto, pauseVars, callVars
    <3>4. \A c \in Callers : \A i \in DOMAIN ctl' : ctl'[i].cmd = "k_on_one" =>
              ctl'[i].id # call'[c].id
      BY <1>13, <1>a, <1>b, <1>e, <2>3, <2>4, <2>6
        DEF IdsKnown, Command, HandleOnOne, Goto, pauseVars, callVars
    <3>5. \A c \in Callers : \A u \in At({"k_on_one"})' : call'[u].id # call'[c].id
      BY <1>13, <2>6 DEF IdsKnown, At, IoInv, IoType, HandleOnOne, Goto, pauseVars, callVars
    <3> QED BY <2>5, <3>1, <3>2, <3>3, <3>4, <3>5 DEF IdsKnown
  <2>9. OneCommand'
    BY <1>13, <2>3, <2>4, <2>5, <2>6
      DEF OneCommand, InPipe, OfKind, InHand, Callers, At, IoInv, IoType, HandleOnOne, Goto,
        pauseVars, callVars
  <2>10. EachCount'
    BY <1>13, <1>e, <2>5, <2>6, <2>7
      DEF EachCount, EachLabels, Callers, At, Own, IoInv, IoType, Apis, HandleOnOne, Goto,
        pauseVars, callVars
  <2> QED BY <2>8, <2>9, <2>10
<1>14. ASSUME NEW t \in Threads, SendPauses(t) PROVE Goal
  BY <1>14 DEF NoPause, PauseLabels, SendPauses
<1>15. ASSUME NEW t \in Threads, AllPaused(t) PROVE Goal
  BY <1>15 DEF NoPause, PauseLabels, AllPaused
<1>16. ASSUME NEW t \in Threads, EndWhilePaused(t) PROVE Goal
  BY <1>16 DEF NoPause, PauseLabels, EndWhilePaused, Base, NoCall
<1>17. ASSUME NEW t \in Threads, EndWhilePaused2(t) PROVE Goal
  BY <1>17 DEF NoPause, PauseLabels, EndWhilePaused2
<1>18. ASSUME NEW t \in Threads, Resume2(t) PROVE Goal
  BY <1>18 DEF NoPause, PauseLabels, Resume2
<1>19. ASSUME NEW t \in Threads, WhilePaused2Return(t) PROVE Goal
  BY <1>19 DEF NoPause, PauseLabels, WhilePaused2Return, Base, NoCall
<1>20. ASSUME NEW t \in Threads, AllExecuted(t) PROVE Goal
  <2>1. UNCHANGED ctl /\ InPipe' = InPipe
    BY <1>20 DEF AllExecuted, InPipe
  <2>2. Callers' = Callers /\ InHand' = InHand
    BY <1>20 DEF Callers, InHand, At, IoInv, IoType, AllExecuted, Goto
  <2>3. \A c \in Callers : call'[c] = call[c] /\ Executed(c)' = Executed(c)
    BY <1>20 DEF Executed, AllExecuted, callVars
  <2>4. \A c \in Callers : Cardinality(Executed(c)') = Cardinality(Executed(c))
    BY <2>3, Zenon
  <2>5. InPipe = {} /\ InHand = {}
    BY <1>20, SomeThreads DEF OneCommand, AllExecuted
  <2>6. t \in Callers /\ t \in Threads
    BY <1>20 DEF Callers, At, AllExecuted
  <2>7. IdsKnown'
    BY <1>20, <2>1, <2>2, <2>3 DEF IdsKnown, At, IoInv, IoType, AllExecuted, Goto, callVars
  <2>8. OneCommand'
    BY <2>1, <2>2, <2>5 DEF OneCommand
  <2>9. EachCount'
    BY <1>20, <1>e, <2>2, <2>3, <2>4, <2>6
      DEF EachCount, EachLabels, Callers, At, Own, IoInv, IoType,
          AllExecuted, Goto, pauseVars, callVars
  <2> QED BY <2>7, <2>8, <2>9
<1>21. ASSUME NEW t \in Threads, EndOnEach(t) PROVE Goal
  <2>1. UNCHANGED ctl /\ InPipe' = InPipe
    BY <1>21 DEF EndOnEach, InPipe
  <2>2. t \in Callers /\ t \in Threads /\ numPaused = NumThreads
    BY <1>21 DEF Callers, At, EndOnEach, EachCount
  <2>3. Callers' = {}
    BY <1>21, <2>2 DEF EachCount, Callers, At, IoInv, IoType, EndOnEach, Goto, Base
  <2>4. InPipe = {} /\ InHand = {}
    BY <2>2, SomeThreads DEF OneCommand
  <2>5. InHand' = {}
    BY <1>21, <2>4 DEF InHand, At, IoInv, IoType, EndOnEach, Goto, Base
  <2>6. IdsKnown'
    <3>1. ran' \subseteq IoThreads \X Nat /\ \A r \in ran' : r[2] <= lastId'
      BY <1>21, <1>b DEF IdsKnown, EndOnEach
    <3>2. \A i \in DOMAIN ctl' : ctl'[i].id <= lastId'
      BY <1>21 DEF IdsKnown, EndOnEach
    <3>3. \A u \in Threads : call'[u].id <= lastId'
      BY <1>21, <1>b DEF IdsKnown, EndOnEach, NoCall, IoInv, IoType
    <3> QED BY <2>3, <3>1, <3>2, <3>3 DEF IdsKnown
  <2>7. OneCommand'
    BY <2>1, <2>3, <2>4, <2>5 DEF OneCommand
  <2>8. EachCount'
    BY <1>21, <2>2, <2>3 DEF EachCount, EachLabels, At, IoInv, IoType, EndOnEach, Goto, Base
  <2> QED BY <2>6, <2>7, <2>8
<1>22. ASSUME NEW t \in Threads, Join(t) PROVE Goal
  <2>3. UNCHANGED ctl
    BY <1>22 DEF Join
  <2>4. InPipe' = InPipe
    BY <2>3 DEF InPipe
  <2>5. Callers' = Callers /\ InHand' = InHand /\ At({"each_wait"})' = At({"each_wait"})
    BY <1>22 DEF Callers, InHand, At, IoInv, IoType, Join, Goto, pauseVars, callVars
  <2>6. \A c \in Callers : call'[c] = call[c] /\ Executed(c)' = Executed(c)
    BY <1>22 DEF Callers, At, Executed, IdsKnown, IoInv, IoType, Join, Goto, pauseVars, callVars
  <2>7. \A c \in Callers : Cardinality(Executed(c)') = Cardinality(Executed(c))
    BY <2>6, Zenon
  <2>8. IdsKnown'
    BY <1>22, <1>a, <1>b, <1>c, <2>3, <2>4, <2>5, <2>6
      DEF IdsKnown, Callers, At, IoInv, IoType, Command, Join, Goto, pauseVars, callVars
  <2>9. OneCommand'
    BY <1>22, <2>3, <2>4, <2>5, <2>6
      DEF OneCommand, InPipe, OfKind, InHand, Callers, At, IoInv, IoType, Join, Goto,
        pauseVars, callVars
  <2>10. EachCount'
    BY <1>22, <1>e, <2>5, <2>6, <2>7
      DEF EachCount, EachLabels, Callers, At, Own, IoInv, IoType, Apis, Join, Goto, pauseVars,
        callVars
  <2> QED BY <2>8, <2>9, <2>10
<1>23. ASSUME NEW t \in Threads, TakeEvent(t) PROVE Goal
  <2>3. UNCHANGED ctl
    BY <1>23 DEF TakeEvent
  <2>4. InPipe' = InPipe
    BY <2>3 DEF InPipe
  <2>5. Callers' = Callers /\ InHand' = InHand /\ At({"each_wait"})' = At({"each_wait"})
    BY <1>23 DEF Callers, InHand, At, IoInv, IoType, TakeEvent, Goto, pauseVars, callVars
  <2>6. \A c \in Callers : call'[c] = call[c] /\ Executed(c)' = Executed(c)
    BY <1>23
      DEF Callers, At, Executed, IdsKnown, IoInv, IoType, TakeEvent, Goto, pauseVars, callVars
  <2>7. \A c \in Callers : Cardinality(Executed(c)') = Cardinality(Executed(c))
    BY <2>6, Zenon
  <2>8. IdsKnown'
    BY <1>23, <1>a, <1>b, <1>c, <2>3, <2>4, <2>5, <2>6
      DEF IdsKnown, Callers, At, IoInv, IoType, Command, TakeEvent, Goto, pauseVars, callVars
  <2>9. OneCommand'
    BY <1>23, <2>3, <2>4, <2>5, <2>6
      DEF OneCommand, InPipe, OfKind, InHand, Callers, At, IoInv, IoType, TakeEvent, Goto,
        pauseVars, callVars
  <2>10. EachCount'
    BY <1>23, <1>e, <2>5, <2>6, <2>7
      DEF EachCount, EachLabels, Callers, At, Own, IoInv, IoType, Apis, TakeEvent, Goto,
        pauseVars, callVars
  <2> QED BY <2>8, <2>9, <2>10
<1>24. ASSUME NEW t \in Threads, TakeCommand(t) PROVE Goal
  <2>1. /\ t \in Threads /\ t \in IoThreads /\ pc[t] = "epoll"
        /\ t \notin Callers /\ t \notin InHand /\ ctl # <<>>
    BY <1>24, LoopThread DEF Callers, InHand, At, TakeCommand, OutsideLabels
  <2>2. /\ ctl' = Tail(ctl) /\ pc' = [pc EXCEPT ![t] = Head(ctl).cmd]
        /\ call' = [call EXCEPT ![t] = [api |-> "none", id |-> Head(ctl).id]]
        /\ UNCHANGED <<numPaused, ran, lastId, left>>
    BY <1>24 DEF TakeCommand, Goto, pauseVars
  <2>3. /\ Head(ctl).cmd \in Kinds /\ Head(ctl).id \in Nat
        /\ Head(ctl) = ctl[1] /\ 1 \in DOMAIN ctl
        /\ \A i \in DOMAIN Tail(ctl) : i \in Int /\ i >= 1 /\ i + 1 \in DOMAIN ctl /\ Tail(ctl)[i] = ctl[i + 1]
    BY <1>0, <2>1, ReadsKind, PipeTail
  <2>4. /\ (1 \in InPipe) <=> (Head(ctl).cmd = "k_on_each")
        /\ \A i \in OfKind(Tail(ctl), "k_on_each") : i \in Nat \ {0} /\ i + 1 \in InPipe
    BY <1>0, <2>1, KindTail DEF InPipe
  <2>5. \A i \in InPipe' : i \in Nat \ {0} /\ i + 1 \in InPipe /\ ctl'[i] = ctl[i + 1]
    BY <2>2, <2>3, <2>4 DEF InPipe, OfKind
  <2>6. Callers' = Callers /\ At({"each_wait"})' = At({"each_wait"})
    BY <2>1, <2>2, <2>3 DEF Callers, At, IoInv, IoType, Kinds
  <2>7. \A c \in Callers : call'[c] = call[c] /\ Executed(c)' = Executed(c)
    BY <2>1, <2>2 DEF Callers, At, Executed, IoInv, IoType
  <2>8. \A c \in Callers : Cardinality(Executed(c)') = Cardinality(Executed(c))
    BY <2>7, Zenon
  <2>9. \A u \in InHand' : u \in InHand \/ (u = t /\ 1 \in InPipe)
    BY <2>1, <2>2, <2>3, <2>4 DEF InHand, At, IoInv, IoType, Kinds
  <2>10. call'[t].id = ctl[1].id /\ \A u \in Threads : u # t => call'[u] = call[u] /\ pc'[u] = pc[u]
    BY <2>1, <2>2, <2>3 DEF IoInv, IoType
  <2>11. IdsKnown'
    <3>1. ran' \subseteq IoThreads \X Nat /\ \A r \in ran' : r[2] <= lastId'
      BY <2>2 DEF IdsKnown
    <3>2. \A i \in DOMAIN ctl' : ctl'[i].id <= lastId'
      BY <2>2, <2>3 DEF IdsKnown
    <3>3. \A u \in Threads : call'[u].id <= lastId'
      BY <2>2, <2>3, <2>10 DEF IdsKnown
    <3>4. \A c \in Callers : \A i \in DOMAIN ctl' : ctl'[i].cmd = "k_on_one" =>
              ctl'[i].id # call'[c].id
      BY <2>2, <2>3, <2>7 DEF IdsKnown
    <3>5. \A c \in Callers : \A u \in At({"k_on_one"})' : call'[u].id # call'[c].id
      <4> TAKE c \in Callers
      <4>1. TAKE u \in At({"k_on_one"})'
      <4>2. CASE u = t
        <5>1. Head(ctl).cmd = "k_on_one"
          BY <2>1, <2>2, <4>1, <4>2 DEF At, IoInv, IoType
        <5> QED BY <2>3, <2>7, <2>10, <4>2, <5>1 DEF IdsKnown
      <4>3. CASE u # t
        BY <2>7, <2>10, <4>1, <4>3 DEF IdsKnown, At
      <4> QED BY <4>2, <4>3
    <3> QED BY <2>6, <3>1, <3>2, <3>3, <3>4, <3>5 DEF IdsKnown
  <2>12. OneCommand'
    <3>1. \A i, j \in InPipe' : i = j
      BY <2>5 DEF OneCommand
    <3>2. InPipe' # {} => InPipe # {} /\ 1 \notin InPipe
      BY <2>5 DEF OneCommand
    <3>3. InPipe' # {} => InHand' = {}
      BY <2>9, <3>2 DEF OneCommand
    <3>4. \A u, v \in InHand' : u = v
      BY <2>9 DEF OneCommand
    <3>5. InPipe' # {} \/ InHand' # {} => At({"each_wait"})' # {} /\ numPaused' < NumThreads
      BY <2>2, <2>6, <2>9, <3>2 DEF OneCommand
    <3>6. \A c \in Callers : \A i \in InPipe' : ctl'[i].id = call'[c].id
      BY <2>5, <2>7 DEF OneCommand
    <3>7. \A c \in Callers : \A u \in InHand' : call'[u].id = call'[c].id
      <4> TAKE c \in Callers
      <4>1. TAKE u \in InHand'
      <4>2. CASE u \in InHand
        <5>1. u \in Threads /\ u # t
          BY <2>1, <4>2 DEF InHand, At
        <5> QED BY <2>7, <2>10, <4>2, <5>1 DEF OneCommand
      <4>3. CASE u = t /\ 1 \in InPipe
        BY <2>7, <2>10, <4>3 DEF OneCommand
      <4> QED BY <2>9, <4>1, <4>2, <4>3
    <3> QED BY <2>6, <3>1, <3>3, <3>4, <3>5, <3>6, <3>7 DEF OneCommand
  <2>13. EachCount'
    <3>1. \A c \in Callers : \A u \in Executed(c)' : pc'[u] = "each_resume_wait"
      BY <1>e, <2>1, <2>7, <2>10 DEF EachCount
    <3>2. \A c \in Callers : /\ numPaused' = Cardinality(Executed(c)') + Own(c)
                             /\ pc'[c] = "each_f" => numPaused' = NumThreads
      BY <1>e, <2>1, <2>2, <2>8, <2>10 DEF EachCount
    <3>3. ASSUME left'["on_each"] = 1 PROVE \A u \in Threads : pc'[u] \notin EachLabels
      <4>1. InPipe = {}
        BY <2>2, <3>3 DEF EachCount, EachLabels, OneCommand, At
      <4> QED BY <2>2, <2>3, <2>4, <2>10, <3>3, <4>1
        DEF EachCount, EachLabels, Kinds, IoInv, IoType
    <3> QED BY <2>2, <2>6, <3>1, <3>2, <3>3 DEF EachCount
  <2> QED BY <2>11, <2>12, <2>13
<1>25. ASSUME NEW t \in Threads, NEW api \in Apis, Busy(t, api) PROVE Goal
  <2>3. UNCHANGED ctl
    BY <1>25 DEF Busy, Begin, Base
  <2>4. InPipe' = InPipe
    BY <2>3 DEF InPipe
  <2>5. Callers' = Callers /\ InHand' = InHand /\ At({"each_wait"})' = At({"each_wait"})
    BY <1>25
      DEF Callers, InHand, At, IoInv, IoType, Busy, Begin, Base, Goto, pauseVars, callVars
  <2>6. \A c \in Callers : call'[c] = call[c] /\ Executed(c)' = Executed(c)
    BY <1>25
      DEF Callers, At, Executed, IdsKnown, IoInv, IoType, Busy, Begin, Base, Goto, pauseVars,
        callVars
  <2>7. \A c \in Callers : Cardinality(Executed(c)') = Cardinality(Executed(c))
    BY <2>6, Zenon
  <2>8. IdsKnown'
    BY <1>25, <1>a, <1>b, <1>c, <2>3, <2>4, <2>5, <2>6
      DEF IdsKnown, Callers, At, IoInv, IoType, Command, Busy, Begin, Base, Goto, pauseVars,
        callVars
  <2>9. OneCommand'
    BY <1>25, <2>3, <2>4, <2>5, <2>6
      DEF OneCommand, InPipe, OfKind, InHand, Callers, At, IoInv, IoType, Busy, Begin, Base,
        Goto, pauseVars, callVars
  <2>10. EachCount'
    BY <1>25, <1>e, <2>5, <2>6, <2>7
      DEF EachCount, EachLabels, Callers, At, Own, IoInv, IoType, Apis, Busy, Begin, Base,
        Goto, pauseVars, callVars
  <2> QED BY <2>8, <2>9, <2>10
<1>26. ASSUME NEW t \in Threads, NEW api \in Apis, WhilePaused(t, api) PROVE Goal
  BY <1>26 DEF NoPause, PauseLabels, WhilePaused, Begin, Base
<1>27. ASSUME NEW t \in Threads, OnEach(t) PROVE Goal
  <2>1. /\ t \in Threads /\ left["on_each"] = 1 /\ lastId' = lastId + 1 /\ left'["on_each"] = 0
        /\ call' = [call EXCEPT ![t] = [api |-> "on_each", id |-> lastId']]
        /\ numPaused' = Own(t) /\ ran' = ran
    BY <1>27 DEF OnEach, Begin, EachCount, Own, IoInv, IoType, Apis
  <2>2. Callers = {} /\ InHand = {} /\ InPipe = {}
    BY <2>1 DEF EachCount, EachLabels, OneCommand, Callers, InHand, At
  <2>3. /\ numPaused' < NumThreads => pc' = [pc EXCEPT ![t] = "each_wait"]
        /\ ~(numPaused' < NumThreads) => pc' = [pc EXCEPT ![t] = "each_f"]
    BY <1>27 DEF OnEach, Goto
  <2>4. Callers' = {t} /\ InHand' = {} /\ (numPaused' < NumThreads => At({"each_wait"})' = {t})
    BY <2>1, <2>2, <2>3 DEF Callers, InHand, At, IoInv, IoType
  <2>5. call'[t].id = lastId + 1 /\ \A u \in Threads : u # t => call'[u] = call[u]
    BY <2>1 DEF IoInv, IoType
  <2>6. Executed(t)' = {}
    BY <1>b, <1>c, <2>1, <2>5 DEF Executed, IdsKnown
  <2>7. Cardinality(Executed(t)') = 0
    BY <2>6, FS_EmptySet, Zenon
  <2> DEFINE e == Command("k_on_each", lastId')
  <2>8. e \in Cmds /\ e.cmd = "k_on_each" /\ e.id = call'[t].id /\ e.id = lastId'
    BY <1>b, <2>1, <2>5 DEF Command, Cmds, Kinds
  <2>9. /\ \A i \in DOMAIN ctl' : (i \in DOMAIN ctl /\ ctl'[i] = ctl[i]) \/ ctl'[i] = e
        /\ (InPipe' = {} \/ (InPipe' = {Len(ctl) + 1} /\ numPaused' < NumThreads))
        /\ \A i \in InPipe' : ctl'[i] = e
    <3> HIDE DEF e
    <3>1. CASE ~(numPaused' < NumThreads)
      <4>1. ctl' = ctl
        BY <1>27, <3>1 DEF OnEach
      <4> QED BY <2>2, <4>1 DEF InPipe
    <3>2. CASE numPaused' < NumThreads
      <4>1. ctl' = Append(ctl, e)
        BY <1>27, <3>2 DEF OnEach, e
      <4>2. OfKind(Append(ctl, e), "k_on_each") = OfKind(ctl, "k_on_each") \cup {Len(ctl) + 1}
        BY <1>0, <2>8, KindAppend
      <4>3. InPipe' = {Len(ctl) + 1}
        BY <2>2, <4>1, <4>2 DEF InPipe
      <4>4. Append(ctl, e)[Len(ctl) + 1] = e
        BY <1>0, <2>8, PipeAppend
      <4>5. \A i \in DOMAIN ctl' : (i \in DOMAIN ctl /\ ctl'[i] = ctl[i]) \/ ctl'[i] = e
        BY <1>0, <2>8, <4>1, PipeAppend
      <4> QED BY <3>2, <4>1, <4>3, <4>4, <4>5
    <3> QED BY <3>1, <3>2
  <2> HIDE DEF e
  <2>10. IdsKnown'
    <3>1. ran' \subseteq IoThreads \X Nat /\ \A r \in ran' : r[2] <= lastId'
      BY <1>b, <1>c, <2>1 DEF IdsKnown
    <3>2. \A i \in DOMAIN ctl' : ctl'[i].id <= lastId'
      BY <1>a, <1>b, <2>1, <2>8, <2>9 DEF IdsKnown
    <3>3. \A u \in Threads : call'[u].id <= lastId'
      BY <1>b, <2>1, <2>5 DEF IdsKnown
    <3>4. \A i \in DOMAIN ctl' : ctl'[i].cmd = "k_on_one" => ctl'[i].id # call'[t].id
      BY <1>a, <1>b, <2>5, <2>8, <2>9 DEF IdsKnown
    <3>5. \A u \in At({"k_on_one"})' : call'[u].id # call'[t].id
      <4>1. \A u \in At({"k_on_one"})' : u \in Threads /\ u # t
        BY <2>1, <2>3 DEF At, IoInv, IoType
      <4>2. \A u \in Threads : call[u].id <= lastId
        BY DEF IdsKnown
      <4> QED BY <1>b, <2>5, <4>1, <4>2
    <3> QED BY <2>4, <3>1, <3>2, <3>3, <3>4, <3>5 DEF IdsKnown
  <2>11. OneCommand'
    BY <2>4, <2>8, <2>9 DEF OneCommand
  <2>12. EachCount'
    <3>1. numPaused' = Cardinality(Executed(t)') + Own(t)
      BY <2>1, <2>7 DEF Own
    <3>2. pc'[t] = "each_f" => numPaused' = NumThreads
      BY <2>1, <2>3, SomeThreads DEF Own, IoInv, IoType
    <3>3. left'["on_each"] <= 1 /\ left'["on_each"] # 1
      BY <2>1
    <3>4. \A c \in Callers' : c = t
      BY <2>4
    <3>5. \A c \in Callers' :
            /\ numPaused' = Cardinality(Executed(c)') + Own(c)
            /\ \A u \in Executed(c)' : pc'[u] = "each_resume_wait"
            /\ pc'[c] = "each_f" => numPaused' = NumThreads
      BY <2>6, <3>1, <3>2, <3>4, Zenon
    <3>6. \A c, d \in Callers' : c = d
      BY <3>4
    <3> QED BY <3>3, <3>5, <3>6 DEF EachCount
  <2> QED BY <2>10, <2>11, <2>12
<1>28. ASSUME NEW t \in Threads, OnOne(t) PROVE Goal
  <2>1. Command("k_on_one", lastId') \in Cmds /\ Command("k_on_one", lastId').cmd # "k_on_each"
    BY <1>28 DEF IoInv, IoType, Cmds, Kinds, Command, OnOne, Begin, Base
  <2>2. OfKind(Append(ctl, Command("k_on_one", lastId')), "k_on_each") = OfKind(ctl, "k_on_each")
    BY <1>0, <2>1, KindAppend
  <2>3. InPipe' = InPipe
    BY <1>28, <2>2 DEF InPipe, OnOne, Begin, Base
  <2>4. \A i \in DOMAIN ctl' :
            (i \in DOMAIN ctl /\ ctl'[i] = ctl[i]) \/ ctl'[i] = Command("k_on_one", lastId')
    BY <1>28, <1>0, <2>1, PipeAppend DEF OnOne, Begin, Base
  <2>5. Callers' = Callers /\ InHand' = InHand /\ At({"each_wait"})' = At({"each_wait"})
    BY <1>28
      DEF Callers, InHand, At, IoInv, IoType, OnOne, Begin, Base, Goto, pauseVars, callVars
  <2>6. \A c \in Callers : call'[c] = call[c] /\ Executed(c)' = Executed(c)
    BY <1>28
      DEF Callers, At, Executed, IdsKnown, IoInv, IoType, OnOne, Begin, Base, Goto, pauseVars,
        callVars
  <2>7. \A c \in Callers : Cardinality(Executed(c)') = Cardinality(Executed(c))
    BY <2>6, Zenon
  <2>8. IdsKnown'
    <3>1. ran' \subseteq IoThreads \X Nat /\ \A r \in ran' : r[2] <= lastId'
      BY <1>28, <1>b, <1>c DEF IdsKnown, OnOne, Begin
    <3>2. \A i \in DOMAIN ctl' : ctl'[i].id <= lastId'
      BY <1>28, <1>a, <1>b, <2>3, <2>4
        DEF IdsKnown, Command, OnOne, Begin, Base, Goto, pauseVars, callVars
    <3>3. \A u \in Threads : call'[u].id <= lastId'
      BY <1>28, <1>b DEF IdsKnown, OnOne, Begin, Base, Goto, pauseVars, callVars
    <3>4. \A c \in Callers : \A i \in DOMAIN ctl' : ctl'[i].cmd = "k_on_one" =>
              ctl'[i].id # call'[c].id
      BY <1>28, <1>a, <1>b, <1>e, <2>3, <2>4, <2>6
        DEF IdsKnown, Command, OnOne, Begin, Base, Goto, pauseVars, callVars
    <3>5. \A c \in Callers : \A u \in At({"k_on_one"})' : call'[u].id # call'[c].id
      BY <1>28, <2>6
        DEF IdsKnown, At, IoInv, IoType, OnOne, Begin, Base, Goto, pauseVars, callVars
    <3> QED BY <2>5, <3>1, <3>2, <3>3, <3>4, <3>5 DEF IdsKnown
  <2>9. OneCommand'
    BY <1>28, <2>3, <2>4, <2>5, <2>6
      DEF OneCommand, InPipe, OfKind, InHand, Callers, At, IoInv, IoType, OnOne, Begin, Base,
        Goto, pauseVars, callVars
  <2>10. EachCount'
    BY <1>28, <1>e, <2>5, <2>6, <2>7
      DEF EachCount, EachLabels, Callers, At, Own, IoInv, IoType, Apis, OnOne, Begin, Base,
        Goto, pauseVars, callVars
  <2> QED BY <2>8, <2>9, <2>10
<1>29. ASSUME NEW t \in Threads, Stop(t) PROVE Goal
  <2>1. Command("k_wake", 0) \in Cmds /\ Command("k_wake", 0).cmd # "k_on_each"
    BY <1>29 DEF IoInv, IoType, Cmds, Kinds, Command
  <2>2. OfKind(Append(ctl, Command("k_wake", 0)), "k_on_each") = OfKind(ctl, "k_on_each")
    BY <1>0, <2>1, KindAppend
  <2>3. InPipe' = InPipe
    BY <1>29, <2>2 DEF InPipe, Stop, Begin, Base
  <2>4. \A i \in DOMAIN ctl' :
            (i \in DOMAIN ctl /\ ctl'[i] = ctl[i]) \/ ctl'[i] = Command("k_wake", 0)
    BY <1>29, <1>0, <2>1, PipeAppend DEF Stop, Begin, Base
  <2>5. Callers' = Callers /\ InHand' = InHand /\ At({"each_wait"})' = At({"each_wait"})
    BY <1>29
      DEF Callers, InHand, At, IoInv, IoType, Stop, Begin, Base, Goto, pauseVars, callVars
  <2>6. \A c \in Callers : call'[c] = call[c] /\ Executed(c)' = Executed(c)
    BY <1>29
      DEF Callers, At, Executed, IdsKnown, IoInv, IoType, Stop, Begin, Base, Goto, pauseVars,
        callVars
  <2>7. \A c \in Callers : Cardinality(Executed(c)') = Cardinality(Executed(c))
    BY <2>6, Zenon
  <2>8. IdsKnown'
    BY <1>29, <1>a, <1>b, <1>c, <2>3, <2>4, <2>5, <2>6
      DEF IdsKnown, Callers, At, IoInv, IoType, Command, Stop, Begin, Base, Goto, pauseVars,
        callVars
  <2>9. OneCommand'
    BY <1>29, <2>3, <2>4, <2>5, <2>6
      DEF OneCommand, InPipe, OfKind, InHand, Callers, At, IoInv, IoType, Stop, Begin, Base,
        Goto, pauseVars, callVars
  <2>10. EachCount'
    BY <1>29, <1>e, <2>5, <2>6, <2>7
      DEF EachCount, EachLabels, Callers, At, Own, IoInv, IoType, Apis, Stop, Begin, Base,
        Goto, pauseVars, callVars
  <2> QED BY <2>8, <2>9, <2>10
<1>30. ASSUME NEW t \in Threads, SpuriousWakeup(t) PROVE Goal
  <2>3. UNCHANGED ctl
    BY <1>30 DEF SpuriousWakeup
  <2>4. InPipe' = InPipe
    BY <2>3 DEF InPipe
  <2>5. Callers' = Callers /\ InHand' = InHand /\ At({"each_wait"})' = At({"each_wait"})
    BY <1>30 DEF Callers, InHand, At, IoInv, IoType, SpuriousWakeup, Goto, pauseVars, callVars
  <2>6. \A c \in Callers : call'[c] = call[c] /\ Executed(c)' = Executed(c)
    BY <1>30
      DEF Callers, At, Executed, IdsKnown, IoInv, IoType, SpuriousWakeup, Goto, pauseVars,
        callVars
  <2>7. \A c \in Callers : Cardinality(Executed(c)') = Cardinality(Executed(c))
    BY <2>6, Zenon
  <2>8. IdsKnown'
    BY <1>30, <1>a, <1>b, <1>c, <2>3, <2>4, <2>5, <2>6
      DEF IdsKnown, Callers, At, IoInv, IoType, Command, SpuriousWakeup, Goto, pauseVars,
        callVars
  <2>9. OneCommand'
    BY <1>30, <2>3, <2>4, <2>5, <2>6
      DEF OneCommand, InPipe, OfKind, InHand, Callers, At, IoInv, IoType, SpuriousWakeup, Goto,
        pauseVars, callVars
  <2>10. EachCount'
    BY <1>30, <1>e, <2>5, <2>6, <2>7
      DEF EachCount, EachLabels, Callers, At, Own, IoInv, IoType, Apis, SpuriousWakeup, Goto,
        pauseVars, callVars
  <2> QED BY <2>8, <2>9, <2>10
<1>31. CASE UNCHANGED vars
  <2>1. \A c : Executed(c)' = Executed(c)
    BY <1>31 DEF vars, Executed
  <2>2. \A c : Cardinality(Executed(c)') = Cardinality(Executed(c))
    BY <2>1, Zenon
  <2> QED BY <1>31, <2>1, <2>2
    DEF vars, IdsKnown, OneCommand, EachCount, Callers, InPipe, InHand, At
<1> QED BY <1>1, <1>2, <1>3, <1>4, <1>5, <1>6, <1>7, <1>8, <1>9, <1>10, <1>11, <1>12, <1>13,
    <1>14, <1>15, <1>16, <1>17, <1>18, <1>19, <1>20, <1>21, <1>22, <1>23, <1>24, <1>25, <1>26,
    <1>27, <1>28, <1>29, <1>30, <1>31
  DEF Next, ThreadStep, MakeCall
(* Mixes with one call of on_each at most, and then no pause.              *)
OneEach == \A mix \in Mixes :
    \/ mix["on_each"] = 0
    \/ mix["on_each"] = 1 /\ mix["while_paused"] = 0 /\ mix["while_paused2"] = 0

(* The invariant of on_each.                                               *)
LEMMA EachInvariance == ASSUME OneEach PROVE Spec => []EachInv
<1>1. Init => EachInv
  <2> SUFFICES ASSUME Init PROVE EachInv
    OBVIOUS
  <2>1. /\ \A t \in Threads : pc[t] \in {"top", "idle"}
        /\ ctl = <<>> /\ left \in Mixes /\ ran = {} /\ lastId = 0
        /\ \A t \in Threads : call[t].id = 0
    BY DEF Init, NoCall
  <2>2. Callers = {} /\ InPipe = {} /\ InHand = {}
    BY <2>1 DEF Callers, InPipe, InHand, OfKind, At
  <2>3. \/ left["on_each"] = 0
        \/ left["on_each"] = 1 /\ left["while_paused"] = 0 /\ left["while_paused2"] = 0
    BY <2>1, OneEach DEF OneEach
  <2>4. CASE left["on_each"] = 0
    <3>1. NoEach
      BY <2>1, <2>4 DEF NoEach, EachLabels
    <3> QED BY <3>1, IoStart DEF EachInv
  <2>5. CASE left["on_each"] = 1 /\ left["while_paused"] = 0 /\ left["while_paused2"] = 0
    <3>1. NoPause
      BY <2>1, <2>5 DEF NoPause, PauseLabels
    <3>2. IdsKnown /\ OneCommand
      BY <2>1, <2>2 DEF IdsKnown, OneCommand
    <3>3. EachCount
      BY <2>1, <2>2, <2>5 DEF EachCount, EachLabels
    <3> QED BY <3>1, <3>2, <3>3, IoStart DEF EachInv
  <2> QED BY <2>3, <2>4, <2>5
<1>2. EachInv /\ [Next]_vars => EachInv'
  BY IoStep, NoEachStep, NoPauseStep, EachStep DEF EachInv
<1> QED BY <1>1, <1>2, PTL DEF Spec

(* on_each is exact: nobody who has executed is about to do so again, and  *)
(* a full count means that all the others have.                            *)
LEMMA EachIsExact == EachInv => OnEachExact
<1> SUFFICES ASSUME EachInv PROVE OnEachExact
  OBVIOUS
<1>1. CASE NoEach
  BY <1>1 DEF NoEach, EachLabels, OnEachExact, At
<1>2. CASE OneCommand /\ EachCount
  <2>1. ASSUME NEW t \in Threads, pc[t] = "each_exec" PROVE <<t, call[t].id>> \notin ran
    <3>1. t \in InHand /\ t \in IoThreads
      BY <2>1, LoopThread DEF EachInv, InHand, At, OutsideLabels
    <3>2. PICK c \in Threads : pc[c] = "each_wait"
      BY <1>2, <3>1 DEF OneCommand, At
    <3>3. c \in Callers
      BY <3>2 DEF Callers, At
    <3>4. call[t].id = call[c].id
      BY <1>2, <3>1, <3>3 DEF OneCommand
    <3>5. t \notin Executed(c)
      BY <1>2, <2>1, <3>3 DEF EachCount
    <3> QED BY <3>1, <3>4, <3>5 DEF Executed
  <2>2. ASSUME NEW t \in Threads, pc[t] = "each_f", NEW u \in IoThreads \ {t}
        PROVE  <<u, call[t].id>> \in ran
    <3>1. t \in Callers
      BY <2>2 DEF Callers, At
    <3>2. NumThreads = Cardinality(Executed(t)) + Own(t)
      BY <1>2, <2>2, <3>1 DEF EachCount
    <3>3. Executed(t) \subseteq IoThreads \ {t}
      BY <1>2, <2>2, <3>1 DEF EachCount, Executed
    <3>4. /\ IsFiniteSet(IoThreads \ {t})
          /\ Cardinality(IoThreads \ {t}) = NumThreads - Own(t)
      BY OthersCount, <2>2
    <3>5. Cardinality(Executed(t)) \in Nat
      BY <3>3, <3>4, FS_Subset, FS_CardinalityType
    <3>6. Cardinality(IoThreads \ {t}) = Cardinality(Executed(t))
      BY <3>2, <3>4, <3>5 DEF Own
    <3>7. IoThreads \ {t} = Executed(t)
      BY <3>3, <3>4, <3>6, FS_Subset
    <3> QED BY <3>7 DEF Executed
  <2> QED BY <2>1, <2>2 DEF OnEachExact, At
<1> QED BY <1>1, <1>2 DEF EachInv

(* A call of on_each executes its function exactly once on each io thread, *)
(* however many io threads there are, with any number of on_one and stop   *)
(* calls beside it; a second on_each or a while_paused that begins before  *)
(* the stopped threads have gone on shares num_paused_threads_ with it.    *)
THEOREM EachExecutesOnce == ASSUME OneEach PROVE Spec => []OnEachExact
  BY EachInvariance, EachIsExact, PTL

-----------------------------------------------------------------------------
(* The countdown.                                                          *)

(* Without while_paused2 nothing is left to run at rest.                   *)
LEMMA NoPaused2Step == IoInv /\ NoPaused2 /\ [Next]_vars => NoPaused2'
<1> SUFFICES ASSUME IoInv, NoPaused2, [Next]_vars PROVE NoPaused2'
  OBVIOUS
<1> USE DEF Threads, NoPaused2, IoInv, IoType, Apis
<1>1. ASSUME NEW t \in Threads, LeaveLoop(t) PROVE NoPaused2'
  BY <1>1 DEF LeaveLoop, pauseVars, callVars
<1>2. ASSUME NEW t \in Threads, LoopTop(t) PROVE NoPaused2'
  BY <1>2 DEF LoopTop, pauseVars, callVars
<1>3. ASSUME NEW t \in Threads, LockAtRest(t) PROVE NoPaused2'
  BY <1>3 DEF LockAtRest, pauseVars, callVars
<1>4. ASSUME NEW t \in Threads, RunAtRest(t) PROVE NoPaused2'
  BY <1>4 DEF RunAtRest, pauseVars, callVars
<1>5. ASSUME NEW t \in Threads, EndEvent(t) PROVE NoPaused2'
  BY <1>5 DEF EndEvent, pauseVars, callVars
<1>6. ASSUME NEW t \in Threads, HandleWake(t) PROVE NoPaused2'
  BY <1>6 DEF HandleWake, pauseVars, callVars
<1>7. ASSUME NEW t \in Threads, HandlePause(t) PROVE NoPaused2'
  BY <1>7 DEF HandlePause, pauseVars, callVars
<1>8. ASSUME NEW t \in Threads, Resume(t) PROVE NoPaused2'
  BY <1>8 DEF Resume, pauseVars, callVars
<1>9. ASSUME NEW t \in Threads, WaitAgain(t) PROVE NoPaused2'
  BY <1>9 DEF WaitAgain, pauseVars, callVars
<1>10. ASSUME NEW t \in Threads, HandleOnEach(t) PROVE NoPaused2'
  BY <1>10 DEF HandleOnEach, pauseVars, callVars
<1>11. ASSUME NEW t \in Threads, OnEachExecuted(t) PROVE NoPaused2'
  BY <1>11 DEF OnEachExecuted, pauseVars, callVars
<1>12. ASSUME NEW t \in Threads, OnEachResumed(t) PROVE NoPaused2'
  BY <1>12 DEF OnEachResumed, pauseVars, callVars
<1>13. ASSUME NEW t \in Threads, HandleOnOne(t) PROVE NoPaused2'
  BY <1>13 DEF HandleOnOne, pauseVars, callVars
<1>14. ASSUME NEW t \in Threads, SendPauses(t) PROVE NoPaused2'
  BY <1>14 DEF SendPauses, pauseVars, callVars
<1>15. ASSUME NEW t \in Threads, AllPaused(t) PROVE NoPaused2'
  BY <1>15 DEF AllPaused, pauseVars, callVars
<1>16. ASSUME NEW t \in Threads, EndWhilePaused(t) PROVE NoPaused2'
  BY <1>16 DEF EndWhilePaused, Base, NoCall, pauseVars, callVars
<1>17. ASSUME NEW t \in Threads, EndWhilePaused2(t) PROVE NoPaused2'
  BY <1>17 DEF EndWhilePaused2, pauseVars, callVars
<1>18. ASSUME NEW t \in Threads, Resume2(t) PROVE NoPaused2'
  BY <1>18 DEF Resume2, pauseVars, callVars
<1>19. ASSUME NEW t \in Threads, WhilePaused2Return(t) PROVE NoPaused2'
  BY <1>19 DEF WhilePaused2Return, Base, NoCall, pauseVars, callVars
<1>20. ASSUME NEW t \in Threads, AllExecuted(t) PROVE NoPaused2'
  BY <1>20 DEF AllExecuted, pauseVars, callVars
<1>21. ASSUME NEW t \in Threads, EndOnEach(t) PROVE NoPaused2'
  BY <1>21 DEF EndOnEach, Base, NoCall, pauseVars, callVars
<1>22. ASSUME NEW t \in Threads, Join(t) PROVE NoPaused2'
  BY <1>22 DEF Join, pauseVars, callVars
<1>23. ASSUME NEW t \in Threads, TakeEvent(t) PROVE NoPaused2'
  BY <1>23 DEF TakeEvent, pauseVars, callVars
<1>24. ASSUME NEW t \in Threads, TakeCommand(t) PROVE NoPaused2'
  BY <1>24 DEF TakeCommand, pauseVars, callVars
<1>25. ASSUME NEW t \in Threads, NEW api \in Apis, Busy(t, api) PROVE NoPaused2'
  BY <1>25 DEF Busy, Begin, Base, pauseVars, callVars
<1>26. ASSUME NEW t \in Threads, NEW api \in Apis, WhilePaused(t, api) PROVE NoPaused2'
  BY <1>26 DEF WhilePaused, Begin, Base, pauseVars, callVars
<1>27. ASSUME NEW t \in Threads, OnEach(t) PROVE NoPaused2'
  BY <1>27 DEF OnEach, Begin, Base, pauseVars, callVars
<1>28. ASSUME NEW t \in Threads, OnOne(t) PROVE NoPaused2'
  BY <1>28 DEF OnOne, Begin, Base, pauseVars, callVars
<1>29. ASSUME NEW t \in Threads, Stop(t) PROVE NoPaused2'
  BY <1>29 DEF Stop, Begin, Base, pauseVars, callVars
<1>30. ASSUME NEW t \in Threads, SpuriousWakeup(t) PROVE NoPaused2'
  BY <1>30 DEF SpuriousWakeup, pauseVars, callVars
<1>31. CASE UNCHANGED vars
  BY <1>31 DEF vars
<1> QED BY <1>1, <1>2, <1>3, <1>4, <1>5, <1>6, <1>7, <1>8, <1>9, <1>10, <1>11, <1>12, <1>13,
    <1>14, <1>15, <1>16, <1>17, <1>18, <1>19, <1>20, <1>21, <1>22, <1>23, <1>24, <1>25, <1>26,
    <1>27, <1>28, <1>29, <1>30, <1>31
  DEF Next, ThreadStep, MakeCall

(* Without while_paused none is in progress.                               *)
LEMMA NoPlainStep == IoInv /\ NoPlain /\ [Next]_vars => NoPlain'
<1> SUFFICES ASSUME IoInv, NoPlain, [Next]_vars PROVE NoPlain'
  OBVIOUS
<1> USE DEF Threads, NoPlain, IoInv, IoType, Apis
<1>1. ASSUME NEW t \in Threads, LeaveLoop(t) PROVE NoPlain'
  BY <1>1 DEF LeaveLoop, pauseVars, callVars
<1>2. ASSUME NEW t \in Threads, LoopTop(t) PROVE NoPlain'
  BY <1>2 DEF LoopTop, pauseVars, callVars
<1>3. ASSUME NEW t \in Threads, LockAtRest(t) PROVE NoPlain'
  BY <1>3 DEF LockAtRest, pauseVars, callVars
<1>4. ASSUME NEW t \in Threads, RunAtRest(t) PROVE NoPlain'
  BY <1>4 DEF RunAtRest, pauseVars, callVars
<1>5. ASSUME NEW t \in Threads, EndEvent(t) PROVE NoPlain'
  BY <1>5 DEF EndEvent, pauseVars, callVars
<1>6. ASSUME NEW t \in Threads, HandleWake(t) PROVE NoPlain'
  BY <1>6 DEF HandleWake, pauseVars, callVars
<1>7. ASSUME NEW t \in Threads, HandlePause(t) PROVE NoPlain'
  BY <1>7 DEF HandlePause, pauseVars, callVars
<1>8. ASSUME NEW t \in Threads, Resume(t) PROVE NoPlain'
  BY <1>8 DEF Resume, pauseVars, callVars
<1>9. ASSUME NEW t \in Threads, WaitAgain(t) PROVE NoPlain'
  BY <1>9 DEF WaitAgain, pauseVars, callVars
<1>10. ASSUME NEW t \in Threads, HandleOnEach(t) PROVE NoPlain'
  BY <1>10 DEF HandleOnEach, pauseVars, callVars
<1>11. ASSUME NEW t \in Threads, OnEachExecuted(t) PROVE NoPlain'
  BY <1>11 DEF OnEachExecuted, pauseVars, callVars
<1>12. ASSUME NEW t \in Threads, OnEachResumed(t) PROVE NoPlain'
  BY <1>12 DEF OnEachResumed, pauseVars, callVars
<1>13. ASSUME NEW t \in Threads, HandleOnOne(t) PROVE NoPlain'
  BY <1>13 DEF HandleOnOne, pauseVars, callVars
<1>14. ASSUME NEW t \in Threads, SendPauses(t) PROVE NoPlain'
  BY <1>14 DEF SendPauses, pauseVars, callVars
<1>15. ASSUME NEW t \in Threads, AllPaused(t) PROVE NoPlain'
  BY <1>15 DEF AllPaused, pauseVars, callVars
<1>16. ASSUME NEW t \in Threads, EndWhilePaused(t) PROVE NoPlain'
  BY <1>16 DEF EndWhilePaused, Base, NoCall, pauseVars, callVars
<1>17. ASSUME NEW t \in Threads, EndWhilePaused2(t) PROVE NoPlain'
  BY <1>17 DEF EndWhilePaused2, pauseVars, callVars
<1>18. ASSUME NEW t \in Threads, Resume2(t) PROVE NoPlain'
  BY <1>18 DEF Resume2, pauseVars, callVars
<1>19. ASSUME NEW t \in Threads, WhilePaused2Return(t) PROVE NoPlain'
  BY <1>19 DEF WhilePaused2Return, Base, NoCall, pauseVars, callVars
<1>20. ASSUME NEW t \in Threads, AllExecuted(t) PROVE NoPlain'
  BY <1>20 DEF AllExecuted, pauseVars, callVars
<1>21. ASSUME NEW t \in Threads, EndOnEach(t) PROVE NoPlain'
  BY <1>21 DEF EndOnEach, Base, NoCall, pauseVars, callVars
<1>22. ASSUME NEW t \in Threads, Join(t) PROVE NoPlain'
  BY <1>22 DEF Join, pauseVars, callVars
<1>23. ASSUME NEW t \in Threads, TakeEvent(t) PROVE NoPlain'
  BY <1>23 DEF TakeEvent, pauseVars, callVars
<1>24. ASSUME NEW t \in Threads, TakeCommand(t) PROVE NoPlain'
  BY <1>24 DEF TakeCommand, pauseVars, callVars
<1>25. ASSUME NEW t \in Threads, NEW api \in Apis, Busy(t, api) PROVE NoPlain'
  BY <1>25 DEF Busy, Begin, Base, pauseVars, callVars
<1>26. ASSUME NEW t \in Threads, NEW api \in Apis, WhilePaused(t, api) PROVE NoPlain'
  BY <1>26 DEF WhilePaused, Begin, Base, pauseVars, callVars
<1>27. ASSUME NEW t \in Threads, OnEach(t) PROVE NoPlain'
  BY <1>27 DEF OnEach, Begin, Base, pauseVars, callVars
<1>28. ASSUME NEW t \in Threads, OnOne(t) PROVE NoPlain'
  BY <1>28 DEF OnOne, Begin, Base, pauseVars, callVars
<1>29. ASSUME NEW t \in Threads, Stop(t) PROVE NoPlain'
  BY <1>29 DEF Stop, Begin, Base, pauseVars, callVars
<1>30. ASSUME NEW t \in Threads, SpuriousWakeup(t) PROVE NoPlain'
  BY <1>30 DEF SpuriousWakeup, pauseVars, callVars
<1>31. CASE UNCHANGED vars
  BY <1>31 DEF vars
<1> QED BY <1>1, <1>2, <1>3, <1>4, <1>5, <1>6, <1>7, <1>8, <1>9, <1>10, <1>11, <1>12, <1>13,
    <1>14, <1>15, <1>16, <1>17, <1>18, <1>19, <1>20, <1>21, <1>22, <1>23, <1>24, <1>25, <1>26,
    <1>27, <1>28, <1>29, <1>30, <1>31
  DEF Next, ThreadStep, MakeCall
(* A thread with n shares has n units.                                     *)
LEMMA ThreadUnits ==
  ASSUME NEW t, NEW n \in Nat
  PROVE  IsFiniteSet({t} \X (1..n)) /\ Cardinality({t} \X (1..n)) = n
<1>1. IsFiniteSet({t}) /\ Cardinality({t}) = 1
  BY FS_Singleton
<1>2. IsFiniteSet(1..n) /\ Cardinality(1..n) = n
  BY FS_Interval
<1>3. /\ IsFiniteSet({t} \X (1..n))
      /\ Cardinality({t} \X (1..n)) = Cardinality({t}) * Cardinality(1..n)
  BY <1>1, <1>2, FS_Product
<1> QED BY <1>1, <1>2, <1>3

(* Who is where in a pause, and how many commands are left: a step that    *)
(* changes none of it keeps the counts.                                    *)
PausePlaces == <<Stopped, PausesLeft, At({"k_pause"}), At({"pause_wait"}), At({"f"}),
                 At({"resume2_wait"}), At({"pause_wait", "f", "resume2_wait"})>>
PauseNumbers == <<numPaused, numDone, countdown, cd, owed>>

LEMMA PauseFrame ==
  ASSUME PauseExact, CountdownExact, OwedCounted, UNCHANGED PausePlaces, UNCHANGED PauseNumbers,
         At({"lock_rest", "at_rest"})' \subseteq At({"lock_rest", "at_rest"})
  PROVE  PauseExact' /\ CountdownExact' /\ OwedCounted'
<1>1. /\ Stopped' = Stopped /\ PausesLeft' = PausesLeft /\ At({"k_pause"})' = At({"k_pause"})
      /\ At({"pause_wait"})' = At({"pause_wait"}) /\ At({"f"})' = At({"f"})
      /\ At({"resume2_wait"})' = At({"resume2_wait"})
      /\ At({"pause_wait", "f", "resume2_wait"})' = At({"pause_wait", "f", "resume2_wait"})
  BY DEF PausePlaces
<1>2. /\ numPaused' = numPaused /\ numDone' = numDone /\ countdown' = countdown
      /\ cd' = cd /\ owed' = owed
  BY DEF PauseNumbers
<1>3. /\ Cardinality(Stopped') = Cardinality(Stopped)
      /\ Cardinality(PausesLeft') = Cardinality(PausesLeft)
      /\ Cardinality(At({"k_pause"})') = Cardinality(At({"k_pause"}))
  BY <1>1, Zenon
<1>4. PauseExact'
  BY <1>1, <1>2, <1>3 DEF PauseExact
<1>5. Units' = Units /\ Pending' = Pending
  BY <1>1, <1>2 DEF Units, Pending
<1>6. IsFiniteSet(Units') /\ countdown' = Cardinality(Units') + Cardinality(Pending')
  BY <1>2, <1>5, Zenon DEF CountdownExact
<1>7. OwedCounted'
  BY <1>2, <1>5 DEF OwedCounted
<1> QED BY <1>4, <1>6, <1>7 DEF CountdownExact

(* pause_outer_mutex_ has one owner.                                       *)
LEMMA OneOuter ==
  ASSUME IoInv, NEW t \in Threads, NEW u \in Threads, pc[t] \in OuterLabels, pc[u] \in OuterLabels
  PROVE  t = u
  BY DEF IoInv, IoPlaces

(* A thread takes one share more.                                          *)
LEMMA AddUnit ==
  ASSUME cd \in [IoThreads -> Nat], NEW t \in IoThreads, cd' = [cd EXCEPT ![t] = @ + 1]
  PROVE  Units' = Units \cup {<<t, cd[t] + 1>>} /\ <<t, cd[t] + 1>> \notin Units
<1>1. cd[t] \in Nat /\ cd'[t] = cd[t] + 1 /\ \A u \in IoThreads : u # t => cd'[u] = cd[u]
  OBVIOUS
<1>2. ASSUME NEW u \in IoThreads, NEW n \in Nat \ {0}
      PROVE  n <= cd'[u] <=> (n <= cd[u] \/ <<u, n>> = <<t, cd[t] + 1>>)
  BY <1>1
<1>3. \A x \in IoThreads \X (Nat \ {0}) :
          x = <<x[1], x[2]>> /\ x[1] \in IoThreads /\ x[2] \in Nat \ {0}
  OBVIOUS
<1>4. \A x \in IoThreads \X (Nat \ {0}) :
          x[2] <= cd'[x[1]] <=> (x[2] <= cd[x[1]] \/ x = <<t, cd[t] + 1>>)
  BY <1>2, <1>3
<1>5. <<t, cd[t] + 1>> \in IoThreads \X (Nat \ {0})
  BY <1>1
<1>6. Units' = Units \cup {<<t, cd[t] + 1>>}
  BY <1>4, <1>5 DEF Units
<1> QED BY <1>1, <1>6 DEF Units

(* A step of while_paused2, when neither while_paused nor on_each is mixed *)
(* with it, keeps the counts of the pause and of the countdown.            *)
LEMMA RestStep ==
  IoInv /\ NoEach /\ NoPlain /\ PauseCount /\ PauseExact /\ CountdownExact /\ OwedCounted
        /\ [Next]_vars
    => PauseExact' /\ CountdownExact' /\ OwedCounted'
<1> SUFFICES ASSUME IoInv, NoEach, NoPlain, PauseCount, PauseExact, CountdownExact, OwedCounted,
                    [Next]_vars
             PROVE  PauseExact' /\ CountdownExact' /\ OwedCounted'
  OBVIOUS
<1> DEFINE Goal == PauseExact' /\ CountdownExact' /\ OwedCounted'
<1> USE DEF Threads
<1>0. ctl \in Seq(Cmds)
  BY DEF IoInv, IoType
<1>d. /\ numPaused \in Nat /\ numDone \in Nat /\ countdown \in Int /\ cd \in [IoThreads -> Nat]
      /\ owed \subseteq IoThreads \X Nat
  BY DEF IoInv, IoType
<1>n. NumThreads \in Nat /\ NumThreads >= 1
  BY SomeThreads
<1>s. IsFiniteSet(Stopped) /\ Cardinality(Stopped) \in Nat /\ Stopped \subseteq IoThreads
  BY StoppedFinite
<1>u. IsFiniteSet(Units) /\ Cardinality(Units) \in Nat
  BY FS_CardinalityType DEF CountdownExact
<1>p. IsFiniteSet(Pending) /\ Cardinality(Pending) \in Nat
  BY <1>s, FS_EmptySet DEF Pending
<1>l. /\ IsFiniteSet(PausesLeft) /\ Cardinality(PausesLeft) \in Nat
      /\ IsFiniteSet(At({"k_pause"})) /\ Cardinality(At({"k_pause"})) \in Nat
  <2>1. At({"k_pause"}) \subseteq IoThreads
    BY DEF IoInv, IoPlaces, OutsideLabels, At
  <2>2. IsFiniteSet(At({"k_pause"}))
    BY <2>1, FS_Subset, IoDispatchAssumption DEF IoDispatchAssumption
  <2> QED BY <1>0, <2>2, KindFinite, FS_CardinalityType DEF PausesLeft
<1>w. \A t \in Threads : pc[t] \in {"lock_com", "pause_wait", "f"} => t \in IoThreads
  BY DEF IoInv, IoPlaces, NoPlain
<1>1. ASSUME NEW t \in Threads, LeaveLoop(t) PROVE Goal
  <2>3. PausesLeft' = PausesLeft
    BY <1>1 DEF PausesLeft, LeaveLoop
  <2>4. /\ UNCHANGED PausePlaces
        /\ At({"lock_rest", "at_rest"})' \subseteq At({"lock_rest", "at_rest"})
    BY <1>1, <2>3
      DEF PausePlaces, Stopped, At, IoInv, IoType, LeaveLoop, Goto, pauseVars, callVars
  <2>5. UNCHANGED PauseNumbers
    BY <1>1 DEF PauseNumbers, LeaveLoop, pauseVars
  <2> QED BY <2>4, <2>5, PauseFrame
<1>2. ASSUME NEW t \in Threads, LoopTop(t) PROVE Goal
  <2>1. t \in IoThreads /\ cd[t] \in Nat
    BY <1>2, <1>d, LoopThread DEF LoopTop, OutsideLabels
  <2>2. /\ countdown' = countdown - cd[t] /\ cd' = [cd EXCEPT ![t] = 0]
        /\ owed' = {o \in owed : o[1] # t} /\ UNCHANGED <<numPaused, numDone, ctl>>
    BY <1>2 DEF LoopTop
  <2>3. /\ pc' = [pc EXCEPT ![t] = "lock_rest"] /\ cd[t] # 0 /\ countdown' = 0
        \/ pc' = [pc EXCEPT ![t] = "epoll"]
    BY <1>2 DEF LoopTop, Goto
  <2>4. pc[t] = "top" /\ pc \in [Threads -> Labels]
    BY <1>2 DEF LoopTop, IoInv, IoType
  <2>5. /\ UNCHANGED PausePlaces
        /\ Stopped' = Stopped /\ PausesLeft' = PausesLeft /\ At({"k_pause"})' = At({"k_pause"})
        /\ At({"pause_wait"})' = At({"pause_wait"})
        /\ At({"resume2_wait"})' = At({"resume2_wait"})
        /\ At({"pause_wait", "f", "resume2_wait"})' = At({"pause_wait", "f", "resume2_wait"})
    BY <2>2, <2>3, <2>4 DEF PausePlaces, Stopped, PausesLeft, At
  <2>6. /\ Cardinality(Stopped') = Cardinality(Stopped)
        /\ Cardinality(PausesLeft') = Cardinality(PausesLeft)
        /\ Cardinality(At({"k_pause"})') = Cardinality(At({"k_pause"}))
    BY <2>5, Zenon
  <2>7. PauseExact'
    BY <2>2, <2>5, <2>6 DEF PauseExact
  <2> DEFINE T == {t} \X (1..cd[t])
  <2>8. T \subseteq Units /\ Units' = Units \ T
    BY <1>d, <2>1, <2>2 DEF Units
  <2>9. IsFiniteSet(T) /\ Cardinality(T) = cd[t]
    BY <2>1, ThreadUnits
  <2> HIDE DEF T
  <2>10. Units \cap T = T
    BY <2>8
  <2>11. /\ IsFiniteSet(Units \ T)
         /\ Cardinality(Units \ T) = Cardinality(Units) - Cardinality(Units \cap T)
    BY <1>u, FS_Difference
  <2>12. IsFiniteSet(Units') /\ Cardinality(Units') = Cardinality(Units) - cd[t]
    BY <2>8, <2>9, <2>10, <2>11, Zenon
  <2>13. Pending' = Pending
    BY <2>5 DEF Pending
  <2>14. Cardinality(Pending') = Cardinality(Pending)
    BY <2>13, Zenon
  <2>15. CountdownExact'
    BY <1>d, <1>u, <1>p, <2>1, <2>2, <2>12, <2>14 DEF CountdownExact
  <2>16. \A o \in owed' : cd'[o[1]] > 0 \/ o[1] \in Pending'
    BY <1>d, <2>2, <2>13 DEF OwedCounted
  <2>17. ASSUME countdown' = 0 PROVE owed' = {}
    <3>1. Cardinality(Units') \in Nat /\ Cardinality(Pending') \in Nat
      BY <1>p, <2>12, <2>14, FS_CardinalityType
    <3>2. Cardinality(Units') = 0 /\ Cardinality(Pending') = 0
      BY <2>15, <2>17, <3>1 DEF CountdownExact
    <3>3. Units' = {} /\ Pending' = {}
      BY <1>p, <2>12, <2>13, <3>2, FS_EmptySet
    <3>4. \A u \in IoThreads : ~(cd'[u] > 0)
      <4> SUFFICES ASSUME NEW u \in IoThreads, cd'[u] > 0 PROVE FALSE
        OBVIOUS
      <4>1. cd'[u] \in Nat
        BY <1>d, <2>1, <2>2
      <4>2. <<u, 1>> \in Units'
        BY <4>1 DEF Units
      <4> QED BY <3>3, <4>2
    <3>5. \A o \in owed' : o[1] \in IoThreads
      BY <1>d, <2>2
    <3> QED BY <2>16, <3>3, <3>4, <3>5
  <2>18. At({"lock_rest", "at_rest"})' # {} => owed' = {}
    <3>1. CASE countdown' = 0
      BY <2>17, <3>1
    <3>2. CASE pc' = [pc EXCEPT ![t] = "epoll"]
      <4>1. At({"lock_rest", "at_rest"})' \subseteq At({"lock_rest", "at_rest"})
        BY <2>4, <3>2 DEF At
      <4> QED BY <2>2, <4>1 DEF OwedCounted
    <3> QED BY <2>3, <3>1, <3>2
  <2> QED BY <2>7, <2>15, <2>16, <2>18 DEF OwedCounted
<1>3. ASSUME NEW t \in Threads, LockAtRest(t) PROVE Goal
  <2>3. PausesLeft' = PausesLeft
    BY <1>3 DEF PausesLeft, LockAtRest
  <2>4. /\ UNCHANGED PausePlaces
        /\ At({"lock_rest", "at_rest"})' \subseteq At({"lock_rest", "at_rest"})
    BY <1>3, <2>3
      DEF PausePlaces, Stopped, At, IoInv, IoType, LockAtRest, Goto, pauseVars, callVars
  <2>5. UNCHANGED PauseNumbers
    BY <1>3 DEF PauseNumbers, LockAtRest, pauseVars
  <2> QED BY <2>4, <2>5, PauseFrame
<1>4. ASSUME NEW t \in Threads, RunAtRest(t) PROVE Goal
  <2>3. PausesLeft' = PausesLeft
    BY <1>4 DEF PausesLeft, RunAtRest
  <2>4. /\ UNCHANGED PausePlaces
        /\ At({"lock_rest", "at_rest"})' \subseteq At({"lock_rest", "at_rest"})
    BY <1>4, <2>3
      DEF PausePlaces, Stopped, At, IoInv, IoType, RunAtRest, Goto, pauseVars, callVars
  <2>5. UNCHANGED PauseNumbers
    BY <1>4 DEF PauseNumbers, RunAtRest, pauseVars
  <2> QED BY <2>4, <2>5, PauseFrame
<1>5. ASSUME NEW t \in Threads, EndEvent(t) PROVE Goal
  <2>3. PausesLeft' = PausesLeft
    BY <1>5 DEF PausesLeft, EndEvent
  <2>4. /\ UNCHANGED PausePlaces
        /\ At({"lock_rest", "at_rest"})' \subseteq At({"lock_rest", "at_rest"})
    BY <1>5, <2>3
      DEF PausePlaces, Stopped, At, IoInv, IoType, EndEvent, Goto, pauseVars, callVars
  <2>5. UNCHANGED PauseNumbers
    BY <1>5 DEF PauseNumbers, EndEvent, pauseVars
  <2> QED BY <2>4, <2>5, PauseFrame
<1>6. ASSUME NEW t \in Threads, HandleWake(t) PROVE Goal
  <2>1. Command("k_wake", 0) \in Cmds /\ Command("k_wake", 0).cmd # "k_pause"
    BY <1>6 DEF IoInv, IoType, Cmds, Kinds, Command
  <2>2. OfKind(Append(ctl, Command("k_wake", 0)), "k_pause") = OfKind(ctl, "k_pause")
    BY <1>0, <2>1, KindAppend
  <2>3. PausesLeft' = PausesLeft
    BY <1>6, <2>2 DEF PausesLeft, HandleWake
  <2>4. /\ UNCHANGED PausePlaces
        /\ At({"lock_rest", "at_rest"})' \subseteq At({"lock_rest", "at_rest"})
    BY <1>6, <2>3
      DEF PausePlaces, Stopped, At, IoInv, IoType, HandleWake, Goto, pauseVars, callVars
  <2>5. UNCHANGED PauseNumbers
    BY <1>6 DEF PauseNumbers, HandleWake, pauseVars
  <2> QED BY <2>4, <2>5, PauseFrame
<1>7. ASSUME NEW t \in Threads, HandlePause(t) PROVE Goal
  <2>1. /\ pc[t] = "k_pause" /\ pc' = [pc EXCEPT ![t] = "resume_wait"]
        /\ numPaused' = numPaused + 1
        /\ UNCHANGED <<numDone, countdown, cd, owed, ctl>> /\ pc \in [Threads -> Labels]
    BY <1>7 DEF HandlePause, Goto, IoInv, IoType
  <2>2. t \in At({"k_pause"}) /\ t \in Threads
    BY <2>1 DEF At
  <2>3. At({"pause_wait"}) # {}
    BY <2>2 DEF PauseExact
  <2>4. /\ At({"k_pause"}) = {t} /\ At({"k_pause"})' = {}
        /\ Stopped' = Stopped \cup {t} /\ t \notin Stopped
        /\ At({"pause_wait"})' = At({"pause_wait"})
        /\ At({"resume2_wait"})' = At({"resume2_wait"})
        /\ At({"pause_wait", "f", "resume2_wait"})' = At({"pause_wait", "f", "resume2_wait"})
        /\ At({"lock_rest", "at_rest"})' = At({"lock_rest", "at_rest"})
    BY <2>1, <2>2 DEF IoInv, IoWatch, Kinds, Stopped, At
  <2>5. At({"resume2_wait"}) = {}
    BY <2>3, OneOuter DEF At, OuterLabels
  <2>6. Cardinality(Stopped \cup {t}) = Cardinality(Stopped) + 1
    BY <1>s, <2>4, FS_AddElement
  <2>7. Cardinality(Stopped') = Cardinality(Stopped) + 1
    BY <2>4, <2>6, Zenon
  <2>8. Cardinality(At({"k_pause"})) = 1 /\ Cardinality(At({"k_pause"})') = 0
    BY <2>4, FS_Singleton, FS_EmptySet, Zenon
  <2>9. PausesLeft' = PausesLeft
    BY <2>1 DEF PausesLeft
  <2>10. Cardinality(PausesLeft') = Cardinality(PausesLeft)
    BY <2>9, Zenon
  <2>11. PauseExact'
    <3>1. numPaused' = Cardinality(Stopped') + 1
      BY <1>s, <1>d, <2>1, <2>3, <2>7 DEF PauseExact
    <3>2. Cardinality(PausesLeft') + Cardinality(At({"k_pause"})') + numPaused' = NumThreads
      BY <1>d, <1>l, <2>1, <2>3, <2>8, <2>10 DEF PauseExact
    <3>3. At({"pause_wait", "f", "resume2_wait"}) # {}
      BY <2>3 DEF At
    <3> QED BY <2>3, <2>4, <2>5, <3>1, <3>2, <3>3 DEF PauseExact
  <2>12. Pending = {} /\ Pending' = Pending /\ Units' = Units
    BY <2>1, <2>4, <2>5 DEF Pending, Units
  <2>13. IsFiniteSet(Units') /\ countdown' = Cardinality(Units') + Cardinality(Pending')
    BY <2>1, <2>12, Zenon DEF CountdownExact
  <2>14. OwedCounted'
    BY <2>1, <2>4, <2>12 DEF OwedCounted
  <2> QED BY <2>11, <2>13, <2>14 DEF CountdownExact
<1>8. ASSUME NEW t \in Threads, Resume(t) PROVE Goal
  <2>1. /\ pc[t] = "resume_wait" /\ pc' = [pc EXCEPT ![t] = "top"] /\ numPaused = 0 /\ ComFree
        /\ numDone' = numDone + 1 /\ cd' = [cd EXCEPT ![t] = @ + 1]
        /\ UNCHANGED <<numPaused, countdown, owed, ctl>> /\ pc \in [Threads -> Labels]
    BY <1>8 DEF Resume, Goto, IoInv, IoType
  <2>2. t \in Stopped /\ t \in Threads /\ t \in IoThreads
    BY <2>1, <1>s DEF Stopped, At
  <2>3. At({"pause_wait"}) = {} /\ At({"f"}) = {}
    <3>1. At({"pause_wait"}) = {}
      BY <1>s, <2>1 DEF PauseExact
    <3> QED BY <2>1, <3>1 DEF ComFree, At
  <2>4. At({"resume2_wait"}) # {}
    BY <2>2, <2>3 DEF PauseExact, At
  <2>5. /\ Stopped' = Stopped \ {t} /\ At({"k_pause"})' = At({"k_pause"})
        /\ At({"pause_wait"})' = At({"pause_wait"})
        /\ At({"resume2_wait"})' = At({"resume2_wait"})
        /\ At({"lock_rest", "at_rest"})' = At({"lock_rest", "at_rest"})
        /\ At({"pause_wait", "f", "resume2_wait"})' = At({"pause_wait", "f", "resume2_wait"})
    BY <2>1, <2>2 DEF Stopped, At
  <2>6. /\ IsFiniteSet(Stopped \ {t})
        /\ Cardinality(Stopped \ {t}) = Cardinality(Stopped) - 1
    BY <1>s, <2>2, FS_RemoveElement
  <2>7. Cardinality(Stopped') = Cardinality(Stopped) - 1
    BY <2>5, <2>6, Zenon
  <2>8. PausesLeft' = PausesLeft
    BY <2>1 DEF PausesLeft
  <2>9. PauseExact'
    <3>1. numPaused' = 0 /\ numDone' + Cardinality(Stopped') = NumThreads
      BY <1>s, <1>d, <2>1, <2>4, <2>7 DEF PauseExact
    <3>2. PausesLeft = {} /\ At({"k_pause"}) = {}
      BY <2>3 DEF PauseExact
    <3>3. At({"pause_wait", "f", "resume2_wait"}) # {}
      BY <2>4 DEF At
    <3> QED BY <2>3, <2>5, <2>8, <3>1, <3>2, <3>3 DEF PauseExact
  <2>10. Pending = Stopped /\ Pending' = Stopped \ {t}
    BY <2>4, <2>5 DEF Pending
  <2>11. cd[t] \in Nat /\ cd'[t] = cd[t] + 1 /\ \A u \in IoThreads : u # t => cd'[u] = cd[u]
    BY <1>d, <2>1, <2>2
  <2>12. Units' = Units \cup {<<t, cd[t] + 1>>} /\ <<t, cd[t] + 1>> \notin Units
    BY <1>d, <2>1, <2>2, AddUnit
  <2>13. /\ IsFiniteSet(Units \cup {<<t, cd[t] + 1>>})
         /\ Cardinality(Units \cup {<<t, cd[t] + 1>>}) = Cardinality(Units) + 1
    BY <1>u, <2>12, FS_AddElement
  <2>14. IsFiniteSet(Units') /\ Cardinality(Units') = Cardinality(Units) + 1
    BY <2>12, <2>13, Zenon
  <2>15. /\ Cardinality(Pending) = Cardinality(Stopped)
         /\ Cardinality(Pending') = Cardinality(Stopped) - 1
    BY <2>6, <2>10, Zenon
  <2>16. CountdownExact'
    BY <1>d, <1>u, <1>s, <2>1, <2>14, <2>15 DEF CountdownExact
  <2>17. OwedCounted'
    <3>1. \A o \in owed : o[1] \in IoThreads
      BY <1>d
    <3>2. \A o \in owed' : cd'[o[1]] > 0 \/ o[1] \in Pending'
      BY <2>1, <2>10, <2>11, <3>1 DEF OwedCounted
    <3> QED BY <2>1, <2>5, <3>2 DEF OwedCounted
  <2> QED BY <2>9, <2>16, <2>17
<1>9. ASSUME NEW t \in Threads, WaitAgain(t) PROVE Goal
  <2>3. PausesLeft' = PausesLeft
    BY <1>9 DEF PausesLeft, WaitAgain
  <2>4. /\ UNCHANGED PausePlaces
        /\ At({"lock_rest", "at_rest"})' \subseteq At({"lock_rest", "at_rest"})
    BY <1>9, <2>3
      DEF PausePlaces, Stopped, At, IoInv, IoType, WaitAgain, Goto, pauseVars, callVars
  <2>5. UNCHANGED PauseNumbers
    BY <1>9 DEF PauseNumbers, WaitAgain, pauseVars
  <2> QED BY <2>4, <2>5, PauseFrame
<1>10. ASSUME NEW t \in Threads, HandleOnEach(t) PROVE Goal
  BY <1>10 DEF NoEach, NoPlain, EachLabels, HandleOnEach
<1>11. ASSUME NEW t \in Threads, OnEachExecuted(t) PROVE Goal
  BY <1>11 DEF NoEach, NoPlain, EachLabels, OnEachExecuted
<1>12. ASSUME NEW t \in Threads, OnEachResumed(t) PROVE Goal
  BY <1>12 DEF NoEach, NoPlain, EachLabels, OnEachResumed
<1>13. ASSUME NEW t \in Threads, HandleOnOne(t) PROVE Goal
  <2>3. PausesLeft' = PausesLeft
    BY <1>13 DEF PausesLeft, HandleOnOne
  <2>4. /\ UNCHANGED PausePlaces
        /\ At({"lock_rest", "at_rest"})' \subseteq At({"lock_rest", "at_rest"})
    BY <1>13, <2>3
      DEF PausePlaces, Stopped, At, IoInv, IoType, HandleOnOne, Goto, pauseVars, callVars
  <2>5. UNCHANGED PauseNumbers
    BY <1>13 DEF PauseNumbers, HandleOnOne, pauseVars
  <2> QED BY <2>4, <2>5, PauseFrame
<1>14. ASSUME NEW t \in Threads, SendPauses(t) PROVE Goal
  <2>1. /\ pc[t] = "lock_com" /\ t \in Threads /\ pc \in [Threads -> Labels] /\ t \in IoThreads
    BY <1>14, <1>w DEF SendPauses, IoInv, IoType
  <2>2. /\ numPaused' = 1 /\ UNCHANGED <<numDone, countdown, cd, owed>>
        /\ ctl' = ctl \o [i \in 1..(NumThreads - numPaused') |-> Command("k_pause", 0)]
        /\ pc' = [pc EXCEPT ![t] = IF numPaused' = NumThreads THEN "f" ELSE "pause_wait"]
    BY <1>14, <2>1 DEF SendPauses, Goto
  <2>3. /\ At({"pause_wait"}) = {} /\ At({"resume2_wait"}) = {} /\ At({"f"}) = {}
        /\ At({"pause_wait", "f", "resume2_wait"}) = {}
    BY <2>1, OneOuter DEF At, OuterLabels
  <2>4. Stopped = {} /\ PausesLeft = {} /\ At({"k_pause"}) = {}
    BY <2>3 DEF PauseExact
  <2>5. /\ Stopped' = {} /\ At({"k_pause"})' = {} /\ At({"resume2_wait"})' = {}
        /\ At({"lock_rest", "at_rest"})' = At({"lock_rest", "at_rest"})
        /\ NumThreads # 1 => At({"pause_wait"})' # {}
        /\ NumThreads = 1 => At({"pause_wait"})' = {}
    BY <2>1, <2>2, <2>3, <2>4 DEF Stopped, At
  <2>6. NumThreads - 1 \in Nat
    BY <1>n
  <2>7. Command("k_pause", 0) \in Cmds /\ Command("k_pause", 0).cmd = "k_pause"
    BY DEF Cmds, Kinds, Command
  <2>8. ASSUME NEW e \in Cmds, e.cmd = "k_pause"
        PROVE  /\ Cardinality(OfKind(ctl \o [i \in 1..(NumThreads - 1) |-> e], "k_pause")) = NumThreads - 1
               /\ ctl \o [i \in 1..(NumThreads - 1) |-> e] \in Seq(Cmds)
    BY <1>0, <2>4, <2>6, <2>8, KindConcat, PipeConcat DEF PausesLeft
  <2>9. Cardinality(PausesLeft') = NumThreads - 1 /\ IsFiniteSet(PausesLeft')
    <3>1. ctl' = ctl \o [i \in 1..(NumThreads - 1) |-> Command("k_pause", 0)]
      BY <2>2
    <3>2. Cardinality(OfKind(ctl', "k_pause")) = NumThreads - 1 /\ ctl' \in Seq(Cmds)
      BY <2>7, <2>8, <3>1, Zenon
    <3> QED BY <3>2, KindFinite DEF PausesLeft
  <2>10. Cardinality(Stopped') = 0 /\ Cardinality(At({"k_pause"})') = 0
    BY <2>5, FS_EmptySet, Zenon
  <2>11. PauseExact'
    <3>1. NumThreads = 1 => PausesLeft' = {}
      BY <2>9, FS_EmptySet
    <3> QED BY <1>n, <2>2, <2>5, <2>9, <2>10, <3>1 DEF PauseExact
  <2>12. Pending' = Pending /\ Units' = Units
    BY <2>2, <2>3, <2>5 DEF Pending, Units
  <2>13. IsFiniteSet(Units') /\ countdown' = Cardinality(Units') + Cardinality(Pending')
    BY <2>2, <2>12, Zenon DEF CountdownExact
  <2>14. OwedCounted'
    BY <2>2, <2>5, <2>12 DEF OwedCounted
  <2> QED BY <2>11, <2>13, <2>14 DEF CountdownExact
<1>15. ASSUME NEW t \in Threads, AllPaused(t) PROVE Goal
  <2>1. /\ pc[t] = "pause_wait" /\ t \in Threads
        /\ pc \in [Threads -> Labels] /\ numPaused = NumThreads
        /\ pc' = [pc EXCEPT ![t] = "f"]
        /\ UNCHANGED <<numPaused, numDone, countdown, cd, owed, ctl>>
    BY <1>15 DEF AllPaused, Goto, IoInv, IoType, pauseVars
  <2>2. At({"pause_wait"}) = {t} /\ At({"resume2_wait"}) = {}
    BY <2>1, OneOuter DEF At, OuterLabels
  <2>3. Cardinality(PausesLeft) = 0 /\ Cardinality(At({"k_pause"})) = 0
    BY <1>l, <1>n, <2>1, <2>2 DEF PauseExact
  <2>4. PausesLeft = {} /\ At({"k_pause"}) = {}
    BY <1>l, <2>3, FS_EmptySet
  <2>5. /\ Stopped' = Stopped /\ PausesLeft' = {} /\ At({"k_pause"})' = {}
        /\ At({"resume2_wait"})' = {} /\ At({"pause_wait"})' = {} /\ t \in At({"f"})'
        /\ At({"lock_rest", "at_rest"})' = At({"lock_rest", "at_rest"})
    BY <2>1, <2>2, <2>4 DEF Stopped, PausesLeft, At
  <2>6. PauseExact'
    <3>1. At({"pause_wait", "f", "resume2_wait"})' # {}
      BY <2>5 DEF At
    <3> QED BY <2>5, <3>1 DEF PauseExact
  <2>7. Pending' = Pending /\ Units' = Units
    BY <2>1, <2>2, <2>5 DEF Pending, Units
  <2>8. IsFiniteSet(Units') /\ countdown' = Cardinality(Units') + Cardinality(Pending')
    BY <2>1, <2>7, Zenon DEF CountdownExact
  <2>9. OwedCounted'
    BY <2>1, <2>5, <2>7 DEF OwedCounted
  <2> QED BY <2>6, <2>8, <2>9 DEF CountdownExact
<1>16. ASSUME NEW t \in Threads, EndWhilePaused(t) PROVE Goal
  BY <1>16 DEF NoEach, NoPlain, EachLabels, EndWhilePaused, Base, NoCall
<1>17. ASSUME NEW t \in Threads, EndWhilePaused2(t) PROVE Goal
  <2>1. /\ pc[t] = "f" /\ t \in Threads /\ pc \in [Threads -> Labels] /\ t \in IoThreads
        /\ numPaused' = 0 /\ numDone' = 1 /\ ctl' = ctl
        /\ countdown' = countdown + NumThreads /\ cd' = [cd EXCEPT ![t] = @ + 1]
        /\ pc' = [pc EXCEPT ![t] = IF NumThreads = 1 THEN "paused2_return" ELSE "resume2_wait"]
    BY <1>17, <1>w DEF EndWhilePaused2, Goto, IoInv, IoType
  <2>2. \A o \in owed' : o \in owed \/ o[1] \in IoThreads
    BY <1>17 DEF EndWhilePaused2
  <2>3. At({"pause_wait"}) = {} /\ At({"resume2_wait"}) = {} /\ At({"f"}) = {t}
    BY <2>1, OneOuter DEF At, OuterLabels
  <2>4. PausesLeft = {} /\ At({"k_pause"}) = {} /\ Pending = {}
    BY <2>3 DEF PauseExact, Pending
  <2>5. \A u \in IoThreads \ {t} : pc[u] = "resume_wait"
    BY <2>1, StoppedAll DEF PauseInv, PausedAlone, At
  <2>6. Stopped = IoThreads \ {t}
    BY <1>s, <2>1, <2>5 DEF Stopped, At
  <2>7. Cardinality(Stopped) = NumThreads - 1
    BY <2>1, <2>6, OthersCount DEF Own
  <2>8. /\ Stopped' = Stopped /\ PausesLeft' = {}
        /\ At({"k_pause"})' = {} /\ At({"pause_wait"})' = {}
        /\ NumThreads # 1 => t \in At({"resume2_wait"})'
        /\ NumThreads = 1 => At({"resume2_wait"})' = {}
    BY <2>1, <2>3, <2>4 DEF Stopped, PausesLeft, At
  <2>9. NumThreads = 1 => Stopped = {}
    BY <1>s, <2>7, FS_EmptySet
  <2>10. Cardinality(Stopped') = NumThreads - 1
    BY <2>7, <2>8, Zenon
  <2>11. PauseExact'
    <3>1. NumThreads # 1 => At({"pause_wait", "f", "resume2_wait"})' # {}
      BY <2>8 DEF At
    <3> QED BY <1>n, <2>1, <2>8, <2>9, <2>10, <3>1 DEF PauseExact
  <2>12. Pending' = Stopped
    BY <2>8, <2>9 DEF Pending
  <2>13. Units' = Units \cup {<<t, cd[t] + 1>>} /\ <<t, cd[t] + 1>> \notin Units
    BY <1>d, <2>1, AddUnit
  <2>14. /\ IsFiniteSet(Units \cup {<<t, cd[t] + 1>>})
         /\ Cardinality(Units \cup {<<t, cd[t] + 1>>}) = Cardinality(Units) + 1
    BY <1>u, <2>13, FS_AddElement
  <2>15. IsFiniteSet(Units') /\ Cardinality(Units') = Cardinality(Units) + 1
    BY <2>13, <2>14, Zenon
  <2>16. Cardinality(Pending) = 0 /\ Cardinality(Pending') = NumThreads - 1
    BY <2>4, <2>7, <2>12, FS_EmptySet, Zenon
  <2>17. CountdownExact'
    BY <1>d, <1>u, <1>n, <2>1, <2>15, <2>16 DEF CountdownExact
  <2>18. \A u \in IoThreads : cd'[u] > 0 \/ u \in Pending'
    BY <1>d, <2>1, <2>6, <2>12
  <2>19. At({"lock_rest", "at_rest"})' = {}
    <3>1. \A u \in Threads : u \in IoThreads \/ pc[u] \in OutsideLabels
      BY DEF IoInv, IoPlaces
    <3> QED BY <2>1, <2>5, <3>1 DEF At, OutsideLabels
  <2>20. OwedCounted'
    BY <1>d, <2>2, <2>18, <2>19 DEF OwedCounted
  <2> QED BY <2>11, <2>17, <2>20
<1>18. ASSUME NEW t \in Threads, Resume2(t) PROVE Goal
  <2>1. /\ pc[t] = "resume2_wait" /\ t \in Threads
        /\ pc \in [Threads -> Labels] /\ numDone = NumThreads
        /\ pc' = [pc EXCEPT ![t] = "paused2_return"]
        /\ UNCHANGED <<numPaused, numDone, countdown, cd, owed, ctl>>
    BY <1>18 DEF Resume2, Goto, IoInv, IoType, pauseVars
  <2>2. At({"resume2_wait"}) = {t} /\ At({"pause_wait"}) = {}
    BY <2>1, OneOuter DEF At, OuterLabels
  <2>3. Cardinality(Stopped) = 0
    BY <1>s, <1>n, <2>1, <2>2 DEF PauseExact
  <2>4. Stopped = {}
    BY <1>s, <2>3, FS_EmptySet
  <2>5. PausesLeft = {} /\ At({"k_pause"}) = {}
    BY <2>2 DEF PauseExact
  <2>6. /\ Stopped' = {} /\ PausesLeft' = {} /\ At({"k_pause"})' = {}
        /\ At({"resume2_wait"})' = {} /\ At({"pause_wait"})' = {}
        /\ At({"lock_rest", "at_rest"})' = At({"lock_rest", "at_rest"})
    BY <2>1, <2>2, <2>4, <2>5 DEF Stopped, PausesLeft, At
  <2>7. PauseExact'
    BY <2>6 DEF PauseExact
  <2>8. Pending' = Pending /\ Units' = Units
    BY <2>1, <2>4, <2>6 DEF Pending, Units
  <2>9. IsFiniteSet(Units') /\ countdown' = Cardinality(Units') + Cardinality(Pending')
    BY <2>1, <2>8, Zenon DEF CountdownExact
  <2>10. OwedCounted'
    BY <2>1, <2>6, <2>8 DEF OwedCounted
  <2> QED BY <2>7, <2>9, <2>10 DEF CountdownExact
<1>19. ASSUME NEW t \in Threads, WhilePaused2Return(t) PROVE Goal
  <2>3. PausesLeft' = PausesLeft
    BY <1>19 DEF PausesLeft, WhilePaused2Return, Base, NoCall
  <2>4. /\ UNCHANGED PausePlaces
        /\ At({"lock_rest", "at_rest"})' \subseteq At({"lock_rest", "at_rest"})
    BY <1>19, <2>3
      DEF PausePlaces, Stopped, At, IoInv, IoType, WhilePaused2Return, Base, NoCall, Goto,
        pauseVars, callVars
  <2>5. UNCHANGED PauseNumbers
    BY <1>19 DEF PauseNumbers, WhilePaused2Return, Base, NoCall, pauseVars
  <2> QED BY <2>4, <2>5, PauseFrame
<1>20. ASSUME NEW t \in Threads, AllExecuted(t) PROVE Goal
  BY <1>20 DEF NoEach, NoPlain, EachLabels, AllExecuted
<1>21. ASSUME NEW t \in Threads, EndOnEach(t) PROVE Goal
  BY <1>21 DEF NoEach, NoPlain, EachLabels, EndOnEach, Base, NoCall
<1>22. ASSUME NEW t \in Threads, Join(t) PROVE Goal
  <2>3. PausesLeft' = PausesLeft
    BY <1>22 DEF PausesLeft, Join
  <2>4. /\ UNCHANGED PausePlaces
        /\ At({"lock_rest", "at_rest"})' \subseteq At({"lock_rest", "at_rest"})
    BY <1>22, <2>3 DEF PausePlaces, Stopped, At, IoInv, IoType, Join, Goto, pauseVars, callVars
  <2>5. UNCHANGED PauseNumbers
    BY <1>22 DEF PauseNumbers, Join, pauseVars
  <2> QED BY <2>4, <2>5, PauseFrame
<1>23. ASSUME NEW t \in Threads, TakeEvent(t) PROVE Goal
  <2>3. PausesLeft' = PausesLeft
    BY <1>23 DEF PausesLeft, TakeEvent
  <2>4. /\ UNCHANGED PausePlaces
        /\ At({"lock_rest", "at_rest"})' \subseteq At({"lock_rest", "at_rest"})
    BY <1>23, <2>3
      DEF PausePlaces, Stopped, At, IoInv, IoType, TakeEvent, Goto, pauseVars, callVars
  <2>5. UNCHANGED PauseNumbers
    BY <1>23 DEF PauseNumbers, TakeEvent, pauseVars
  <2> QED BY <2>4, <2>5, PauseFrame
<1>24. ASSUME NEW t \in Threads, TakeCommand(t) PROVE Goal
  <2>1. /\ pc[t] = "epoll" /\ t \in Threads /\ pc \in [Threads -> Labels]
        /\ ctl # <<>> /\ ctlArmed
        /\ pc' = [pc EXCEPT ![t] = Head(ctl).cmd] /\ ctl' = Tail(ctl)
        /\ UNCHANGED <<numPaused, numDone, countdown, cd, owed>>
    BY <1>24 DEF TakeCommand, Goto, IoInv, IoType, pauseVars
  <2>2. Head(ctl).cmd \in Kinds
    BY <1>0, <2>1, ReadsKind
  <2>3. /\ (1 \in PausesLeft) <=> (Head(ctl).cmd = "k_pause")
        /\ Cardinality(PausesLeft') = Cardinality(PausesLeft \ {1})
        /\ \A i \in PausesLeft' : i + 1 \in PausesLeft
    <3>1. /\ (1 \in OfKind(ctl, "k_pause")) <=> (Head(ctl).cmd = "k_pause")
          /\ \A i : i \in OfKind(Tail(ctl), "k_pause") => i + 1 \in OfKind(ctl, "k_pause")
          /\ Cardinality(OfKind(Tail(ctl), "k_pause")) = Cardinality(OfKind(ctl, "k_pause") \ {1})
      BY <1>0, <2>1, KindTail
    <3> QED BY <2>1, <3>1 DEF PausesLeft
  <2>4. At({"k_pause"}) = {}
    BY <2>1 DEF IoInv, IoWatch, At, Kinds
  <2>5. /\ Stopped' = Stopped /\ At({"pause_wait"})' = At({"pause_wait"})
        /\ At({"resume2_wait"})' = At({"resume2_wait"})
        /\ At({"lock_rest", "at_rest"})' = At({"lock_rest", "at_rest"})
        /\ At({"pause_wait", "f", "resume2_wait"})' = At({"pause_wait", "f", "resume2_wait"})
        /\ At({"k_pause"})' = IF 1 \in PausesLeft THEN {t} ELSE {}
    BY <2>1, <2>2, <2>3, <2>4 DEF Stopped, At, Kinds
  <2>6. Cardinality(PausesLeft \ {1}) =
          IF 1 \in PausesLeft THEN Cardinality(PausesLeft) - 1 ELSE Cardinality(PausesLeft)
    BY <1>l, FS_RemoveElement
  <2>7. /\ Cardinality(At({"k_pause"})) = 0
        /\ Cardinality(At({"k_pause"})') = IF 1 \in PausesLeft THEN 1 ELSE 0
    <3>1. Cardinality({t}) = 1 /\ Cardinality({}) = 0
      BY FS_Singleton, FS_EmptySet
    <3> QED BY <2>4, <2>5, <3>1, Zenon
  <2>8. Cardinality(Stopped') = Cardinality(Stopped)
    BY <2>5, Zenon
  <2>9. PauseExact'
    <3>1. At({"pause_wait"}) = {} => PausesLeft' = {} /\ At({"k_pause"})' = {}
      BY <2>3, <2>5 DEF PauseExact
    <3>2. At({"pause_wait"}) # {} =>
            Cardinality(PausesLeft') + Cardinality(At({"k_pause"})') + numPaused' = NumThreads
      BY <1>l, <1>n, <1>d, <2>1, <2>3, <2>6, <2>7 DEF PauseExact
    <3> QED BY <2>1, <2>5, <2>8, <3>1, <3>2 DEF PauseExact
  <2>10. Pending' = Pending /\ Units' = Units
    BY <2>1, <2>5 DEF Pending, Units
  <2>11. IsFiniteSet(Units') /\ countdown' = Cardinality(Units') + Cardinality(Pending')
    BY <2>1, <2>10, Zenon DEF CountdownExact
  <2>12. OwedCounted'
    BY <2>1, <2>5, <2>10 DEF OwedCounted
  <2> QED BY <2>9, <2>11, <2>12 DEF CountdownExact
<1>25. ASSUME NEW t \in Threads, NEW api \in Apis, Busy(t, api) PROVE Goal
  <2>3. PausesLeft' = PausesLeft
    BY <1>25 DEF PausesLeft, Busy, Begin, Base
  <2>4. /\ UNCHANGED PausePlaces
        /\ At({"lock_rest", "at_rest"})' \subseteq At({"lock_rest", "at_rest"})
    BY <1>25, <2>3
      DEF PausePlaces, Stopped, At, IoInv, IoType, Busy, Begin, Base, Goto, pauseVars,
        callVars
  <2>5. UNCHANGED PauseNumbers
    BY <1>25 DEF PauseNumbers, Busy, Begin, Base, pauseVars
  <2> QED BY <2>4, <2>5, PauseFrame
<1>26. ASSUME NEW t \in Threads, NEW api \in Apis, WhilePaused(t, api) PROVE Goal
  <2>3. PausesLeft' = PausesLeft
    BY <1>26 DEF PausesLeft, WhilePaused, Begin, Base
  <2>4. /\ UNCHANGED PausePlaces
        /\ At({"lock_rest", "at_rest"})' \subseteq At({"lock_rest", "at_rest"})
    BY <1>26, <2>3
      DEF PausePlaces, Stopped, At, IoInv, IoType, WhilePaused, Begin, Base, Goto, pauseVars,
        callVars
  <2>5. UNCHANGED PauseNumbers
    BY <1>26 DEF PauseNumbers, WhilePaused, Begin, Base, pauseVars
  <2> QED BY <2>4, <2>5, PauseFrame
<1>27. ASSUME NEW t \in Threads, OnEach(t) PROVE Goal
  BY <1>27 DEF NoEach, NoPlain, EachLabels, OnEach, Begin, Base
<1>28. ASSUME NEW t \in Threads, OnOne(t) PROVE Goal
  <2>1. Command("k_on_one", lastId') \in Cmds /\ Command("k_on_one", lastId').cmd # "k_pause"
    BY <1>28 DEF IoInv, IoType, Cmds, Kinds, Command, OnOne, Begin, Base
  <2>2. OfKind(Append(ctl, Command("k_on_one", lastId')), "k_pause") = OfKind(ctl, "k_pause")
    BY <1>0, <2>1, KindAppend
  <2>3. PausesLeft' = PausesLeft
    BY <1>28, <2>2 DEF PausesLeft, OnOne, Begin, Base
  <2>4. /\ UNCHANGED PausePlaces
        /\ At({"lock_rest", "at_rest"})' \subseteq At({"lock_rest", "at_rest"})
    BY <1>28, <2>3
      DEF PausePlaces, Stopped, At, IoInv, IoType, OnOne, Begin, Base, Goto, pauseVars,
        callVars
  <2>5. UNCHANGED PauseNumbers
    BY <1>28 DEF PauseNumbers, OnOne, Begin, Base, pauseVars
  <2> QED BY <2>4, <2>5, PauseFrame
<1>29. ASSUME NEW t \in Threads, Stop(t) PROVE Goal
  <2>1. Command("k_wake", 0) \in Cmds /\ Command("k_wake", 0).cmd # "k_pause"
    BY <1>29 DEF IoInv, IoType, Cmds, Kinds, Command
  <2>2. OfKind(Append(ctl, Command("k_wake", 0)), "k_pause") = OfKind(ctl, "k_pause")
    BY <1>0, <2>1, KindAppend
  <2>3. PausesLeft' = PausesLeft
    BY <1>29, <2>2 DEF PausesLeft, Stop, Begin, Base
  <2>4. /\ UNCHANGED PausePlaces
        /\ At({"lock_rest", "at_rest"})' \subseteq At({"lock_rest", "at_rest"})
    BY <1>29, <2>3
      DEF PausePlaces, Stopped, At, IoInv, IoType, Stop, Begin, Base, Goto, pauseVars,
        callVars
  <2>5. UNCHANGED PauseNumbers
    BY <1>29 DEF PauseNumbers, Stop, Begin, Base, pauseVars
  <2> QED BY <2>4, <2>5, PauseFrame
<1>30. ASSUME NEW t \in Threads, SpuriousWakeup(t) PROVE Goal
  <2>3. PausesLeft' = PausesLeft
    BY <1>30 DEF PausesLeft, SpuriousWakeup
  <2>4. /\ UNCHANGED PausePlaces
        /\ At({"lock_rest", "at_rest"})' \subseteq At({"lock_rest", "at_rest"})
    BY <1>30, <2>3
      DEF PausePlaces, Stopped, At, IoInv, IoType, SpuriousWakeup, Goto, pauseVars, callVars
  <2>5. UNCHANGED PauseNumbers
    BY <1>30 DEF PauseNumbers, SpuriousWakeup, pauseVars
  <2> QED BY <2>4, <2>5, PauseFrame
<1>31. CASE UNCHANGED vars
  <2>1. /\ UNCHANGED PausePlaces
        /\ UNCHANGED PauseNumbers /\ UNCHANGED At({"lock_rest", "at_rest"})
    BY <1>31 DEF vars, PausePlaces, PauseNumbers, Stopped, PausesLeft, At
  <2> QED BY <2>1, PauseFrame
<1> QED BY <1>1, <1>2, <1>3, <1>4, <1>5, <1>6, <1>7, <1>8, <1>9, <1>10, <1>11, <1>12, <1>13,
    <1>14, <1>15, <1>16, <1>17, <1>18, <1>19, <1>20, <1>21, <1>22, <1>23, <1>24, <1>25, <1>26,
    <1>27, <1>28, <1>29, <1>30, <1>31
  DEF Next, ThreadStep, MakeCall
(* Mixes in which no other call takes part in the countdown of             *)
(* while_paused2.                                                          *)
Paused2Alone == \A mix \in Mixes :
    mix["while_paused2"] = 0 \/ (mix["while_paused"] = 0 /\ mix["on_each"] = 0)

(* The invariant of the countdown.                                         *)
LEMMA RestInvariance == ASSUME Paused2Alone PROVE Spec => []RestInv
<1>1. Init => RestInv
  <2> SUFFICES ASSUME Init PROVE RestInv
    OBVIOUS
  <2>1. /\ \A t \in Threads : pc[t] \in {"top", "idle"}
        /\ ctl = <<>> /\ left \in Mixes /\ owed = {} /\ countdown = 0 /\ atRest = <<>>
        /\ cd = [t \in IoThreads |-> 0]
        /\ \A t \in Threads : call[t].api = "none"
    BY DEF Init, NoCall
  <2>2. left["while_paused2"] = 0 \/ (left["while_paused"] = 0 /\ left["on_each"] = 0)
    BY <2>1, Paused2Alone DEF Paused2Alone
  <2>3. CASE left["while_paused2"] = 0
    <3>1. NoPaused2
      BY <2>1, <2>3 DEF NoPaused2
    <3> QED BY <3>1, IoStart DEF RestInv
  <2>4. CASE left["while_paused"] = 0 /\ left["on_each"] = 0
    <3>1. NoEach /\ NoPlain
      BY <2>1, <2>4 DEF NoEach, NoPlain, EachLabels
    <3>2. PauseCount
      BY <2>1 DEF PauseCount
    <3>3. PauseExact
      BY <2>1 DEF PauseExact, PausesLeft, OfKind, Stopped, At
    <3>4. Units = {} /\ Pending = {}
      BY <2>1 DEF Units, Pending, At
    <3>5. CountdownExact
      BY <2>1, <3>4, FS_EmptySet DEF CountdownExact
    <3>6. OwedCounted
      BY <2>1 DEF OwedCounted
    <3> QED BY <3>1, <3>2, <3>3, <3>5, <3>6, IoStart DEF RestInv
  <2> QED BY <2>2, <2>3, <2>4
<1>2. RestInv /\ [Next]_vars => RestInv'
  BY IoStep, NoEachStep, NoPlainStep, NoPaused2Step, CountStep, RestStep DEF RestInv
<1> QED BY <1>1, <1>2, PTL DEF Spec

(* An at-rest function runs only when every io thread has been back at the *)
(* top of epoll_loop since the while_paused2 that registered it, however   *)
(* many sweeps overlap: the countdown of all of them together reaches zero *)
(* only when nobody has a share of it left.  Calls of while_paused would   *)
(* take part in the countdown without having started one.                  *)
THEOREM AtRestAfterTop == ASSUME Paused2Alone PROVE Spec => []AtRestFlushed
<1>1. RestInv => AtRestFlushed
  <2> SUFFICES ASSUME RestInv, NEW t \in Threads, pc[t] = "at_rest", NEW o \in owed,
                      NEW i \in DOMAIN atRest
               PROVE  o[2] # atRest[i]
    BY DEF AtRestFlushed, At
  <2>1. CASE NoPaused2
    BY <2>1 DEF NoPaused2
  <2>2. CASE OwedCounted
    <3>1. At({"lock_rest", "at_rest"}) # {}
      BY DEF At
    <3> QED BY <2>2, <3>1 DEF OwedCounted
  <2> QED BY <2>1, <2>2 DEF RestInv
<1> QED BY <1>1, RestInvariance, PTL
=============================================================================
