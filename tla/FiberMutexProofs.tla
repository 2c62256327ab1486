-------------------------- MODULE FiberMutexProofs --------------------------
(***************************************************************************)
(* IInv of FiberMutex is an invariant for every set of fibers and every    *)
(* finite set of threads; the safety properties follow from it.  With it,  *)
(* no fiber is dropped or in two places, and FiberMutex implements the     *)
(* monitor of FiberMonitor.                                                *)
(***************************************************************************)
EXTENDS FiberMutex, SequenceTheorems, FiniteSetTheorems, TLAPS

(* What the list operations of the code do to the elements of a list.      *)

(* The null list has no fibers.                                            *)
LEMMA EmptyList ==
    Range(<<>>) = {} /\ IsInjective(<<>>)
  BY DEF Range, IsInjective

(* A list of one fiber, as wake_all makes of its argument.                 *)
LEMMA OneElement ==
    ASSUME NEW S, NEW e \in S
    PROVE  /\ <<e>> \in Seq(S)
           /\ Range(<<e>>) = {e}
           /\ IsInjective(<<e>>)
  BY DEF Range, IsInjective

(* Putting one list in front of another that shares no fiber with it.      *)
LEMMA Concat ==
    ASSUME NEW S, NEW s \in Seq(S), NEW u \in Seq(S)
    PROVE  /\ s \o u \in Seq(S)
           /\ Range(s \o u) = Range(s) \cup Range(u)
           /\ IsInjective(s) /\ IsInjective(u) /\ Range(s) \cap Range(u) = {}
                => IsInjective(s \o u)
  <1>1. /\ Len(s) \in Nat /\ Len(u) \in Nat
        /\ DOMAIN s = 1..Len(s) /\ DOMAIN u = 1..Len(u)
        /\ DOMAIN (s \o u) = 1..(Len(s) + Len(u))
        /\ s \o u \in Seq(S)
    OBVIOUS
  <1>2. \A i \in 1..(Len(s) + Len(u)) :
           (s \o u)[i] = IF i <= Len(s) THEN s[i] ELSE u[i - Len(s)]
    BY ConcatProperties
  <1>3. Range(s) \subseteq Range(s \o u)
    BY <1>1, <1>2 DEF Range
  <1>4. Range(u) \subseteq Range(s \o u)
    <2>1. SUFFICES ASSUME NEW j \in 1..Len(u)
                   PROVE  u[j] \in Range(s \o u)
      BY <1>1 DEF Range
    <2>2. /\ Len(s) + j \in 1..(Len(s) + Len(u))
          /\ (s \o u)[Len(s) + j] = u[j]
      BY <1>1, <1>2
    <2>3. QED
      BY <1>1, <2>2 DEF Range
  <1>5. Range(s \o u) \subseteq Range(s) \cup Range(u)
    BY <1>1, <1>2 DEF Range
  <1>6. ASSUME IsInjective(s), IsInjective(u), Range(s) \cap Range(u) = {}
        PROVE  IsInjective(s \o u)
    <2>1. \A i \in 1..Len(s), j \in 1..Len(u) : s[i] # u[j]
      BY <1>1, <1>6 DEF Range
    <2>2. SUFFICES ASSUME NEW i \in 1..(Len(s) + Len(u)),
                          NEW j \in 1..(Len(s) + Len(u)),
                          (s \o u)[i] = (s \o u)[j]
                   PROVE  i = j
      BY <1>1 DEF IsInjective
    <2>3. CASE i <= Len(s) /\ j <= Len(s)
      BY <1>1, <1>2, <1>6, <2>2, <2>3 DEF IsInjective
    <2>4. CASE ~(i <= Len(s)) /\ ~(j <= Len(s))
      <3>1. /\ i - Len(s) \in 1..Len(u) /\ j - Len(s) \in 1..Len(u)
            /\ u[i - Len(s)] = u[j - Len(s)]
        BY <1>1, <1>2, <2>2, <2>4
      <3>2. QED
        BY <1>1, <1>6, <3>1 DEF IsInjective
    <2>5. CASE i <= Len(s) /\ ~(j <= Len(s))
      BY <1>1, <1>2, <2>1, <2>2, <2>5
    <2>6. CASE ~(i <= Len(s)) /\ j <= Len(s)
      BY <1>1, <1>2, <2>1, <2>2, <2>6
    <2>7. QED
      BY <2>3, <2>4, <2>5, <2>6
  <1>7. QED
    BY <1>1, <1>3, <1>4, <1>5, <1>6

(* Pushing a fiber in front of a list that it is not in.                   *)
LEMMA PushOne ==
    ASSUME NEW S, NEW s \in Seq(S), NEW e \in S
    PROVE  /\ <<e>> \o s \in Seq(S) /\ <<e>> \o s # <<>>
           /\ Range(<<e>> \o s) = {e} \cup Range(s)
           /\ IsInjective(s) /\ e \notin Range(s) => IsInjective(<<e>> \o s)
  <1>1. <<e>> \in Seq(S) /\ Range(<<e>>) = {e} /\ IsInjective(<<e>>)
    BY OneElement
  <1>2. /\ <<e>> \o s \in Seq(S)
        /\ Range(<<e>> \o s) = Range(<<e>>) \cup Range(s)
        /\ IsInjective(<<e>>) /\ IsInjective(s) /\ Range(<<e>>) \cap Range(s) = {}
             => IsInjective(<<e>> \o s)
    BY <1>1, Concat
  <1>3. <<e>> \o s # <<>>
    BY <1>2, <1>1, EmptyList
  <1>4. QED
    BY <1>1, <1>2, <1>3

(* Appending a fiber to a list that it is not in.                          *)
LEMMA AppendOne ==
    ASSUME NEW S, NEW s \in Seq(S), NEW e \in S
    PROVE  /\ Append(s, e) \in Seq(S)
           /\ Range(Append(s, e)) = Range(s) \cup {e}
           /\ IsInjective(s) /\ e \notin Range(s) => IsInjective(Append(s, e))
  <1>1. Append(s, e) = s \o <<e>>
    OBVIOUS
  <1>2. <<e>> \in Seq(S) /\ Range(<<e>>) = {e} /\ IsInjective(<<e>>)
    BY OneElement
  <1>3. /\ s \o <<e>> \in Seq(S)
        /\ Range(s \o <<e>>) = Range(s) \cup Range(<<e>>)
        /\ IsInjective(s) /\ IsInjective(<<e>>) /\ Range(s) \cap Range(<<e>>) = {}
             => IsInjective(s \o <<e>>)
    BY <1>2, Concat
  <1>4. QED
    BY <1>1, <1>2, <1>3

(* Popping the first fiber of a list.                                      *)
LEMMA HeadTail ==
    ASSUME NEW S, NEW s \in Seq(S), s # <<>>
    PROVE  /\ Head(s) \in S /\ Tail(s) \in Seq(S)
           /\ Range(s) = {Head(s)} \cup Range(Tail(s))
           /\ IsInjective(s) => /\ IsInjective(Tail(s))
                                /\ Head(s) \notin Range(Tail(s))
  <1>1. /\ Len(s) \in Nat \ {0} /\ DOMAIN s = 1..Len(s)
        /\ Head(s) = s[1] /\ Head(s) \in S
        /\ Tail(s) \in Seq(S) /\ DOMAIN Tail(s) = 1..(Len(s) - 1)
        /\ \A i \in 1..(Len(s) - 1) : Tail(s)[i] = s[i + 1]
    BY HeadTailProperties, EmptySeq, LenProperties
  <1>2. Range(Tail(s)) \subseteq Range(s) /\ Head(s) \in Range(s)
    BY <1>1 DEF Range
  <1>3. Range(s) \subseteq {Head(s)} \cup Range(Tail(s))
    <2>1. SUFFICES ASSUME NEW i \in 1..Len(s), i # 1
                   PROVE  s[i] \in Range(Tail(s))
      BY <1>1 DEF Range
    <2>2. i - 1 \in 1..(Len(s) - 1) /\ Tail(s)[i - 1] = s[i]
      BY <1>1, <2>1
    <2>3. QED
      BY <1>1, <2>2 DEF Range
  <1>4. ASSUME IsInjective(s)
        PROVE  IsInjective(Tail(s)) /\ Head(s) \notin Range(Tail(s))
    BY <1>1, <1>4 DEF IsInjective, Range
  <1>5. QED
    BY <1>1, <1>2, <1>3, <1>4

(* The sets that state_ counts, when thread t moves to step l.             *)

(* The lockers that are backing off can be counted.                        *)
LEMMA BackersFinite ==
    IsFiniteSet(Backers) /\ Cardinality(Backers) \in Nat
           /\ (Cardinality(Backers) = 0 <=> Backers = {})
  BY FiberMutexAssumption, FS_Subset, FS_CardinalityType, FS_EmptySet DEF Backers

(* Their set is unchanged by a step that is no part of the back-off.       *)
LEMMA SameBackers ==
    ASSUME TypeOK, NEW t \in Threads, NEW l, pc' = [pc EXCEPT ![t] = l],
           pc[t] # "backoff", l # "backoff"
    PROVE  Backers' = Backers
  BY DEF TypeOK, Backers

(* The users of the mutex's wake list are unchanged by a step that neither *)
(* takes nor gives up the list.                                            *)
LEMMA SameListUsers ==
    ASSUME TypeOK, NEW t \in Threads, NEW l, pc' = [pc EXCEPT ![t] = l],
           pc[t] \in ListPc <=> l \in ListPc
    PROVE  ListUsers' = ListUsers
  BY DEF TypeOK, ListUsers

(* Every action preserves the invariant.                                   *)

USE FiberMutexAssumption DEF Goto, Spend, SwitchToParent, PushAll,
    OutsidePc, HoldingPc, ParentPc, ListPc

(* The return of wake_all keeps the invariant.                             *)
LEMMA EndWakeAllStep ==
    ASSUME IInv, NEW t \in Threads, EndWakeAll(t)
    PROVE  IInv'
  <1> USE DEF IInv, EndWakeAll
  <1>1. Backers' = Backers
    BY SameBackers DEF TypeOK
  <1>2. ListUsers' = ListUsers
    BY SameListUsers DEF TypeOK
  <1>3. TypeOK'
    BY DEF TypeOK
  <1>4. StackInv'
    BY DEF TypeOK, StackInv
  <1>5. DistinctInv'
    BY DEF TypeOK, DistinctInv
  <1>6. CarriedInv'
    BY DEF TypeOK, StackInv, CarriedInv
  <1>7. SavedInv'
    BY DEF TypeOK, StackInv, SavedInv, RunnableIsSaved
  <1>8. HolderInv'
    BY DEF TypeOK, StackInv, HolderInv, MutualExclusion, ParentUnlocks
  <1>9. CountInv'
    BY <1>1, <1>2 DEF TypeOK, StackInv, HolderInv, CountInv
  <1>10. QED
    BY <1>3, <1>4, <1>5, <1>6, <1>7, <1>8, <1>9

(* A call of lock keeps the invariant: nothing is touched before the       *)
(* fetch_add.                                                              *)
LEMMA CallLockStep ==
    ASSUME IInv, NEW t \in Threads, CallLock(t)
    PROVE  IInv'
  <1> USE DEF IInv, CallLock
  <1>1. Backers' = Backers
    BY SameBackers DEF TypeOK
  <1>2. ListUsers' = ListUsers
    BY SameListUsers DEF TypeOK
  <1>3. TypeOK'
    BY DEF TypeOK
  <1>4. StackInv'
    BY DEF TypeOK, StackInv
  <1>5. DistinctInv'
    BY DEF TypeOK, DistinctInv
  <1>6. CarriedInv'
    BY DEF TypeOK, StackInv, CarriedInv
  <1>7. SavedInv'
    BY DEF TypeOK, StackInv, SavedInv, RunnableIsSaved
  <1>8. HolderInv'
    BY DEF TypeOK, StackInv, HolderInv, MutualExclusion, ParentUnlocks
  <1>9. CountInv'
    BY <1>1, <1>2 DEF TypeOK, StackInv, HolderInv, CountInv
  <1>10. QED
    BY <1>3, <1>4, <1>5, <1>6, <1>7, <1>8, <1>9

(* A call of unlock keeps the invariant.                                   *)
LEMMA CallUnlockStep ==
    ASSUME IInv, NEW t \in Threads, CallUnlock(t)
    PROVE  IInv'
  <1> USE DEF IInv, CallUnlock
  <1>1. Backers' = Backers
    BY SameBackers DEF TypeOK
  <1>2. ListUsers' = ListUsers
    BY SameListUsers DEF TypeOK
  <1>3. TypeOK'
    BY DEF TypeOK
  <1>4. StackInv'
    BY DEF TypeOK, StackInv
  <1>5. DistinctInv'
    BY DEF TypeOK, DistinctInv
  <1>6. CarriedInv'
    BY DEF TypeOK, StackInv, CarriedInv
  <1>7. SavedInv'
    BY DEF TypeOK, StackInv, SavedInv, RunnableIsSaved
  <1>8. HolderInv'
    BY DEF TypeOK, StackInv, HolderInv, MutualExclusion, ParentUnlocks
  <1>9. CountInv'
    BY <1>1, <1>2 DEF TypeOK, StackInv, HolderInv, CountInv
  <1>10. QED
    BY <1>3, <1>4, <1>5, <1>6, <1>7, <1>8, <1>9

(* The end of a fiber's function keeps the invariant: the fiber is in no   *)
(* list.                                                                   *)
LEMMA ExitStep ==
    ASSUME IInv, NEW t \in Threads, Exit(t)
    PROVE  IInv'
  <1> USE DEF IInv, Exit
  <1>1. Backers' = Backers
    BY SameBackers DEF TypeOK
  <1>2. ListUsers' = ListUsers
    BY SameListUsers DEF TypeOK
  <1>3. TypeOK'
    BY DEF TypeOK
  <1>4. StackInv'
    BY DEF TypeOK, StackInv
  <1>5. DistinctInv'
    BY DEF TypeOK, DistinctInv, SavedInv, RunnableIsSaved
  <1>6. CarriedInv'
    BY DEF TypeOK, StackInv, CarriedInv, SavedInv, RunnableIsSaved
  <1>7. SavedInv'
    BY DEF TypeOK, StackInv, SavedInv, RunnableIsSaved, DistinctInv, CarriedInv
  <1>8. HolderInv'
    BY DEF TypeOK, StackInv, HolderInv, MutualExclusion, ParentUnlocks, SavedInv
  <1>9. CountInv'
    BY <1>1, <1>2 DEF TypeOK, StackInv, HolderInv, CountInv
  <1>10. QED
    BY <1>3, <1>4, <1>5, <1>6, <1>7, <1>8, <1>9

(* A blocking read, write or msleep keeps the invariant: the event is      *)
(* armed only after the switch.                                            *)
LEMMA SleepStep ==
    ASSUME IInv, NEW t \in Threads, Sleep(t)
    PROVE  IInv'
  <1> USE DEF IInv, Sleep
  <1>1. cur[t] \notin armed /\ \A u \in Threads : cur[t] \notin Range(runq[u])
    BY DEF StackInv, SavedInv, RunnableIsSaved
  <1>2. saved' \in [Fibers -> {"none", "run", "lock", "cs", "done"}]
    BY DEF TypeOK
  <1>3. Backers' = Backers
    BY SameBackers DEF TypeOK
  <1>4. ListUsers' = ListUsers
    BY SameListUsers DEF TypeOK
  <1>5. TypeOK'
    BY <1>2 DEF TypeOK
  <1>6. StackInv'
    BY DEF TypeOK, StackInv
  <1>7. DistinctInv'
    BY <1>1 DEF TypeOK, DistinctInv
  <1>8. CarriedInv'
    BY <1>1 DEF TypeOK, StackInv, CarriedInv
  <1>9. SavedInv'
    BY DEF TypeOK, StackInv, SavedInv, RunnableIsSaved, HolderInv, DistinctInv, CarriedInv
  <1>10. HolderInv'
    BY DEF TypeOK, StackInv, HolderInv, MutualExclusion, ParentUnlocks
  <1>11. CountInv'
    BY <1>3, <1>4 DEF TypeOK, StackInv, HolderInv, CountInv
  <1>12. QED
    BY <1>5, <1>6, <1>7, <1>8, <1>9, <1>10, <1>11

(* Arming the event on the parent stack keeps the invariant: the context   *)
(* has been saved.                                                         *)
LEMMA ArmStep ==
    ASSUME IInv, NEW t \in Threads, Arm(t)
    PROVE  IInv'
  <1> USE DEF IInv, Arm
  <1>1. Backers' = Backers
    BY SameBackers DEF TypeOK
  <1>2. ListUsers' = ListUsers
    BY SameListUsers DEF TypeOK
  <1>3. TypeOK'
    BY ZenonT(30) DEF TypeOK, StackInv
  <1>4. StackInv'
    BY DEF TypeOK, StackInv
  <1>5. DistinctInv'
    BY DEF TypeOK, DistinctInv, CarriedInv, StackInv
  <1>6. CarriedInv'
    BY DEF TypeOK, StackInv, CarriedInv
  <1>7. SavedInv'
    BY DEF TypeOK, StackInv, SavedInv, RunnableIsSaved, DistinctInv, CarriedInv
  <1>8. HolderInv'
    BY DEF TypeOK, StackInv, HolderInv, MutualExclusion, ParentUnlocks
  <1>9. CountInv'
    BY <1>1, <1>2 DEF TypeOK, StackInv, HolderInv, CountInv
  <1>10. QED
    BY <1>3, <1>4, <1>5, <1>6, <1>7, <1>8, <1>9

(* The deferred decrement of oc_mutex_suspend keeps the invariant: the     *)
(* thread gives up the wake list.                                          *)
LEMMA SuspendDoneStep ==
    ASSUME IInv, NEW t \in Threads, SuspendDone(t)
    PROVE  IInv'
  <1> USE DEF IInv, SuspendDone
  <1>1. ListUsers # {} /\ ListUsers' = {}
    BY DEF TypeOK, CountInv, ListUsers
  <1>2. Cardinality(Backers) \in Nat
    BY BackersFinite
  <1>3. Backers' = Backers
    BY SameBackers DEF TypeOK
  <1>4. TypeOK'
    BY DEF TypeOK
  <1>5. StackInv'
    BY DEF TypeOK, StackInv
  <1>6. DistinctInv'
    BY DEF TypeOK, DistinctInv
  <1>7. CarriedInv'
    BY DEF TypeOK, StackInv, CarriedInv
  <1>8. SavedInv'
    BY DEF TypeOK, StackInv, SavedInv, RunnableIsSaved
  <1>9. HolderInv'
    BY DEF TypeOK, StackInv, HolderInv, MutualExclusion, ParentUnlocks
  <1>10. CountInv'
    <2>1. state = (IF holding = {} THEN 0 ELSE 1) + 1 + Cardinality(Backers)
      BY <1>1 DEF CountInv
    <2>2. state' = (IF holding = {} THEN 0 ELSE 1) + Cardinality(Backers)
      BY <2>1, <1>2
    <2>3. /\ \A u \in Threads : pc'[u] \notin ListPc
          /\ holding # {}
      BY <1>1 DEF CountInv, ListUsers
    <2>4. QED
      BY <2>2, <2>3, <1>1, <1>3 DEF TypeOK, CountInv
  <1>11. QED
    BY <1>4, <1>5, <1>6, <1>7, <1>8, <1>9, <1>10

(* A fetch_add that finds 0 keeps the invariant: there is no other holder. *)
LEMMA LockAcquiredStep ==
    ASSUME IInv, NEW t \in Threads, LockAcquired(t)
    PROVE  IInv'
  <1> USE DEF IInv, LockAcquired
  <1>1. Cardinality(Backers) \in Nat
    BY BackersFinite
  <1>2. holding = {}
    BY <1>1 DEF CountInv
  <1>3. cur[t] \in Fibers
    BY DEF StackInv
  <1>4. Backers' = Backers
    BY SameBackers DEF TypeOK
  <1>5. ListUsers' = ListUsers
    BY SameListUsers DEF TypeOK
  <1>6. TypeOK'
    BY <1>3 DEF TypeOK
  <1>7. StackInv'
    BY DEF TypeOK, StackInv
  <1>8. DistinctInv'
    BY DEF TypeOK, DistinctInv
  <1>9. CarriedInv'
    BY DEF TypeOK, StackInv, CarriedInv
  <1>10. SavedInv'
    BY DEF TypeOK, StackInv, SavedInv, RunnableIsSaved
  <1>11. HolderInv'
    BY <1>2 DEF TypeOK, StackInv, HolderInv, MutualExclusion, ParentUnlocks
  <1>12. CountInv'
    BY <1>2, <1>1, <1>4, <1>5 DEF TypeOK, StackInv, CountInv
  <1>13. QED
    BY <1>6, <1>7, <1>8, <1>9, <1>10, <1>11, <1>12

(* A fetch_add that finds 1 keeps the invariant: nobody else uses the wake *)
(* list.                                                                   *)
LEMMA LockContendedStep ==
    ASSUME IInv, NEW t \in Threads, LockContended(t)
    PROVE  IInv'
  <1> USE DEF IInv, LockContended
  <1>1. Cardinality(Backers) \in Nat /\ (Cardinality(Backers) = 0 <=> Backers = {})
    BY BackersFinite
  <1>2. holding # {} /\ ListUsers = {} /\ Backers = {}
    BY <1>1 DEF CountInv
  <1>3. ListUsers' # {}
    BY DEF TypeOK, ListUsers
  <1>4. Backers' = Backers
    BY SameBackers DEF TypeOK
  <1>5. TypeOK'
    BY DEF TypeOK
  <1>6. StackInv'
    BY DEF TypeOK, StackInv
  <1>7. DistinctInv'
    BY DEF TypeOK, DistinctInv
  <1>8. CarriedInv'
    BY DEF TypeOK, StackInv, CarriedInv
  <1>9. SavedInv'
    BY DEF TypeOK, StackInv, SavedInv, RunnableIsSaved
  <1>10. HolderInv'
    BY DEF TypeOK, StackInv, HolderInv, MutualExclusion, ParentUnlocks
  <1>11. CountInv'
    BY <1>2, <1>1, <1>3, <1>4 DEF TypeOK, StackInv, CountInv, ListUsers
  <1>12. QED
    BY <1>5, <1>6, <1>7, <1>8, <1>9, <1>10, <1>11

(* A fetch_add that finds more keeps the invariant: one more locker is     *)
(* backing off.                                                            *)
LEMMA LockBusyStep ==
    ASSUME IInv, NEW t \in Threads, LockBusy(t)
    PROVE  IInv'
  <1> USE DEF IInv, LockBusy
  <1>1. Cardinality(Backers) \in Nat
    BY BackersFinite
  <1>2. holding # {}
    <2>1. SUFFICES ASSUME holding = {} PROVE FALSE
      OBVIOUS
    <2>2. ListUsers = {} /\ Backers = {}
      BY <2>1 DEF CountInv
    <2>3. Cardinality(Backers) = 0
      BY <2>2, BackersFinite
    <2>4. state = 0
      BY <2>1, <2>2, <2>3 DEF CountInv
    <2> QED
      BY <2>4
  <1>3. Backers' = Backers \cup {t} /\ t \notin Backers
    BY DEF TypeOK, Backers
  <1>4. Cardinality(Backers') = Cardinality(Backers) + 1
    BY <1>3, BackersFinite, FS_AddElement
  <1>5. ListUsers' = ListUsers
    BY SameListUsers DEF TypeOK
  <1>6. TypeOK'
    BY DEF TypeOK
  <1>7. StackInv'
    BY DEF TypeOK, StackInv
  <1>8. DistinctInv'
    BY DEF TypeOK, DistinctInv
  <1>9. CarriedInv'
    BY DEF TypeOK, StackInv, CarriedInv
  <1>10. SavedInv'
    BY DEF TypeOK, StackInv, SavedInv, RunnableIsSaved
  <1>11. HolderInv'
    BY DEF TypeOK, StackInv, HolderInv, MutualExclusion, ParentUnlocks
  <1>12. CountInv'
    <2> DEFINE h == IF holding = {} THEN 0 ELSE 1
               l == IF ListUsers = {} THEN 0 ELSE 1
               b == Cardinality(Backers)
               c == Cardinality(Backers')
    <2>1. h \in Int /\ l \in Int /\ b \in Int /\ c = b + 1
      BY <1>1, <1>4
    <2>2. state = h + l + b /\ state' = state + 1
      BY DEF CountInv
    <2>3. state' = h + l + c
      <3> HIDE DEF h, l, b, c
      <3> QED BY <2>1, <2>2
    <2>4. QED
      BY <2>3, <1>2, <1>5 DEF TypeOK, CountInv
  <1>13. QED
    BY <1>6, <1>7, <1>8, <1>9, <1>10, <1>11, <1>12

(* The decrement of a locker that backs off keeps the invariant.           *)
LEMMA BackoffStep ==
    ASSUME IInv, NEW t \in Threads, Backoff(t)
    PROVE  IInv'
  <1> USE DEF IInv, Backoff
  <1>1. Cardinality(Backers) \in Nat
    BY BackersFinite
  <1>2. Backers' = Backers \ {t} /\ t \in Backers
    BY DEF TypeOK, Backers
  <1>3. Cardinality(Backers') = Cardinality(Backers) - 1
    BY <1>2, BackersFinite, FS_RemoveElement
  <1>4. ListUsers' = ListUsers
    BY SameListUsers DEF TypeOK
  <1>5. TypeOK'
    BY DEF TypeOK
  <1>6. StackInv'
    BY DEF TypeOK, StackInv
  <1>7. DistinctInv'
    BY DEF TypeOK, DistinctInv
  <1>8. CarriedInv'
    BY DEF TypeOK, StackInv, CarriedInv
  <1>9. SavedInv'
    BY DEF TypeOK, StackInv, SavedInv, RunnableIsSaved
  <1>10. HolderInv'
    BY DEF TypeOK, StackInv, HolderInv, MutualExclusion, ParentUnlocks
  <1>11. CountInv'
    <2> DEFINE h == IF holding = {} THEN 0 ELSE 1
               l == IF ListUsers = {} THEN 0 ELSE 1
               b == Cardinality(Backers)
               c == Cardinality(Backers')
    <2>1. h \in Int /\ l \in Int /\ b \in Int /\ c = b - 1
      BY <1>1, <1>3
    <2>2. state = h + l + b /\ state' = state - 1
      BY DEF CountInv
    <2>3. state' = h + l + c
      <3> HIDE DEF h, l, b, c
      <3> QED BY <2>1, <2>2
    <2>4. QED
      BY <2>3, <1>2, <1>4 DEF TypeOK, CountInv
  <1>12. QED
    BY <1>5, <1>6, <1>7, <1>8, <1>9, <1>10, <1>11

(* The delivery of an event keeps the invariant: the fiber moves from the  *)
(* armed ones to a wake list.                                              *)
LEMMA WakeAllStep ==
    ASSUME IInv, NEW t \in Threads, NEW f \in Fibers, WakeAll(t, f)
    PROVE  IInv'
  <1> USE DEF IInv
  <1>1. /\ pc[t] = "epoll" /\ pc' = [pc EXCEPT ![t] = "loop"]
        /\ f \in armed /\ armed' = armed \ {f}
        /\ UNCHANGED <<state, wakeList, condList, cur, ctx, saved, holding, left>>
    BY DEF WakeAll
  <1>2. /\ <<f>> \o runq[t] \in Seq(Fibers)
        /\ Range(<<f>> \o runq[t]) = {f} \cup Range(runq[t])
        /\ IsInjective(<<f>> \o runq[t])
    BY <1>1, PushOne DEF TypeOK, DistinctInv, CarriedInv
  <1>3. /\ runq' \in [Threads -> Seq(Fibers)]
        /\ Range(runq'[t]) = {f} \cup Range(runq[t]) /\ IsInjective(runq'[t])
        /\ \A u \in Threads \ {t} : runq'[u] = runq[u]
    BY <1>2 DEF TypeOK, DistinctInv, CarriedInv, WakeAll
  <1>4. Backers' = Backers
    BY <1>1, SameBackers DEF TypeOK
  <1>5. ListUsers' = ListUsers
    BY <1>1, SameListUsers DEF TypeOK
  <1>6. TypeOK'
    BY <1>1, <1>3 DEF TypeOK
  <1>7. StackInv'
    BY <1>1 DEF TypeOK, StackInv
  <1>8. DistinctInv'
    <2>1. /\ f \notin Range(wakeList) \cup Range(condList)
          /\ \A u \in Threads : f \notin Range(runq[u])
      BY <1>1 DEF DistinctInv
    <2>2. \A u \in Threads : /\ IsInjective(runq'[u])
                             /\ Range(runq'[u]) \cap Range(wakeList) = {}
                             /\ Range(runq'[u]) \cap Range(condList) = {}
                             /\ Range(runq'[u]) \cap armed' = {}
      BY <1>1, <1>3, <2>1, SMTT(30) DEF DistinctInv
    <2>3. \A u, v \in Threads : u # v => Range(runq'[u]) \cap Range(runq'[v]) = {}
      <3> SUFFICES ASSUME NEW u \in Threads, NEW v \in Threads, u # v
                   PROVE  Range(runq'[u]) \cap Range(runq'[v]) = {}
        OBVIOUS
      <3>1. Range(runq[u]) \cap Range(runq[v]) = {}
        BY DEF DistinctInv
      <3>2. CASE u = t
        BY <3>1, <3>2, <1>3, <2>1
      <3>3. CASE v = t
        BY <3>1, <3>3, <1>3, <2>1
      <3>4. CASE u # t /\ v # t
        <4>1. runq'[u] = runq[u] /\ runq'[v] = runq[v]
          BY <3>4, <1>3
        <4>2. QED
          BY <3>1, <4>1
      <3>5. QED
        BY <3>2, <3>3, <3>4
    <2>4. QED
      BY <1>1, <2>2, <2>3 DEF DistinctInv
  <1>9. CarriedInv'
    <2>1. \A u \in Threads : pc[u] = "arm" => cur[u] # f
      BY <1>1 DEF CarriedInv
    <2>2. QED
      BY <1>1, <1>3, <2>1 DEF TypeOK, CarriedInv
  <1>10. SavedInv'
    <2>1. RunnableIsSaved'
      BY <1>1, <1>3 DEF SavedInv, RunnableIsSaved
    <2>2. QED
      BY <1>1, <2>1 DEF TypeOK, SavedInv
  <1>11. HolderInv'
    BY <1>1 DEF TypeOK, StackInv, HolderInv, MutualExclusion, ParentUnlocks
  <1>12. CountInv'
    BY <1>1, <1>4, <1>5 DEF TypeOK, StackInv, HolderInv, CountInv
  <1>13. QED
    BY <1>6, <1>7, <1>8, <1>9, <1>10, <1>11, <1>12

(* The switch to the first fiber of a wake list keeps the invariant: its   *)
(* context was saved, and is now in use.                                   *)
LEMMA SwitchToFiberStep ==
    ASSUME IInv, NEW t \in Threads, SwitchToFiber(t)
    PROVE  IInv'
  <1> USE DEF IInv, SwitchToFiber
  <1>1. /\ Head(runq[t]) \in Fibers /\ Tail(runq[t]) \in Seq(Fibers)
        /\ Range(runq[t]) = {Head(runq[t])} \cup Range(Tail(runq[t]))
        /\ IsInjective(Tail(runq[t])) /\ Head(runq[t]) \notin Range(Tail(runq[t]))
    BY HeadTail DEF TypeOK, DistinctInv, CarriedInv
  <1>2. saved[Head(runq[t])] \in {"run", "lock", "cs"}
    BY <1>1 DEF SavedInv, RunnableIsSaved
  <1>3. TypeOK'
    BY <1>1, <1>2 DEF TypeOK
  <1>4. StackInv'
    BY <1>1, <1>2 DEF TypeOK, StackInv, DistinctInv, CarriedInv
  <1>5. DistinctInv'
    BY <1>1, <1>2 DEF TypeOK, DistinctInv
  <1>6. CarriedInv'
    BY <1>1, <1>2 DEF TypeOK, StackInv, CarriedInv, DistinctInv
  <1>7. SavedInv'
    BY <1>1, <1>2 DEF TypeOK, StackInv, DistinctInv, CarriedInv, SavedInv, RunnableIsSaved
  <1>8. HolderInv'
    BY <1>1, <1>2 DEF TypeOK, StackInv, DistinctInv, CarriedInv, SavedInv, HolderInv, MutualExclusion, ParentUnlocks
  <1>9. CountInv'
    <2>1. Backers' = Backers
      BY <1>2, SameBackers DEF TypeOK
    <2>2. ListUsers' = ListUsers
      BY <1>2, SameListUsers DEF TypeOK
    <2>3. UNCHANGED <<state, holding, wakeList>>
      OBVIOUS
    <2>4. \A u \in Threads : pc'[u] \in ListPc \cup {"release"} => pc[u] = pc'[u]
      BY <1>2 DEF TypeOK, ListPc
    <2>5. QED
      BY <2>1, <2>2, <2>3, <2>4 DEF CountInv
  <1>10. QED
    BY <1>3, <1>4, <1>5, <1>6, <1>7, <1>8, <1>9

(* Joining the mutex's wake list keeps the invariant: the thread alone     *)
(* uses the list.                                                          *)
LEMMA SleepTillWokenStep ==
    ASSUME IInv, NEW t \in Threads, SleepTillWoken(t)
    PROVE  IInv'
  <1> USE DEF IInv
  <1>1. cur[t] \in Fibers
    BY DEF SleepTillWoken, StackInv
  <1>2. /\ pc[t] = "enqueue" /\ pc' = [pc EXCEPT ![t] = "switch_suspend"]
        /\ ctx[t] = "fiber"
        /\ UNCHANGED <<state, condList, runq, cur, ctx, saved, armed, holding, left>>
    BY DEF SleepTillWoken, StackInv
  <1>3. /\ wakeList' \in Seq(Fibers) /\ wakeList' # <<>>
        /\ Range(wakeList') = {cur[t]} \cup Range(wakeList)
        /\ IsInjective(wakeList')
    BY <1>2, <1>1, PushOne DEF TypeOK, DistinctInv, CarriedInv, SleepTillWoken
  <1>4. \A u \in Threads \ {t} : ctx[u] = "fiber" \/ pc[u] = "arm" => cur[u] # cur[t]
    BY <1>2 DEF StackInv
  <1>5. cur[t] \notin armed /\ \A u \in Threads : cur[t] \notin Range(runq[u])
    BY <1>2 DEF StackInv, SavedInv, RunnableIsSaved
  <1>6. Backers' = Backers
    BY <1>2, SameBackers DEF TypeOK
  <1>7. ListUsers' = ListUsers
    BY <1>2, SameListUsers DEF TypeOK
  <1>8. TypeOK'
    BY <1>2, <1>3 DEF TypeOK
  <1>9. StackInv'
    BY <1>2 DEF TypeOK, StackInv
  <1>10. DistinctInv'
    BY <1>2, <1>3, <1>4, <1>5 DEF TypeOK, DistinctInv, CarriedInv
  <1>11. CarriedInv'
    BY <1>2, <1>3, <1>4, <1>5 DEF TypeOK, StackInv, CarriedInv
  <1>12. SavedInv'
    BY <1>2, <1>3 DEF TypeOK, StackInv, SavedInv, RunnableIsSaved
  <1>13. HolderInv'
    BY <1>2 DEF TypeOK, StackInv, HolderInv, MutualExclusion, ParentUnlocks
  <1>14. CountInv'
    BY <1>2, <1>3, <1>6, <1>7 DEF TypeOK, StackInv, HolderInv, CountInv, ListUsers
  <1>15. QED
    BY <1>8, <1>9, <1>10, <1>11, <1>12, <1>13, <1>14

(* The switch to the parent in sleep_till_woken keeps the invariant: the   *)
(* context in the wake list is saved.                                      *)
LEMMA SwitchSuspendStep ==
    ASSUME IInv, NEW t \in Threads, SwitchSuspend(t)
    PROVE  IInv'
  <1> USE DEF IInv, SwitchSuspend
  <1>1. Backers' = Backers
    BY SameBackers DEF TypeOK
  <1>2. ListUsers' = ListUsers
    BY SameListUsers DEF TypeOK
  <1>3. TypeOK'
    BY DEF TypeOK
  <1>4. StackInv'
    BY DEF TypeOK, StackInv
  <1>5. DistinctInv'
    BY DEF TypeOK, DistinctInv
  <1>6. CarriedInv'
    BY DEF TypeOK, StackInv, CarriedInv
  <1>7. SavedInv'
    <2>1. saved' = [saved EXCEPT ![cur[t]] = "lock"] /\ cur[t] \in Fibers
      BY DEF StackInv
    <2>2. RunnableIsSaved'
      BY <2>1 DEF TypeOK, SavedInv, RunnableIsSaved
    <2>3. \A f \in Fibers : saved[f] = "lock" => saved'[f] = "lock"
      BY <2>1 DEF TypeOK
    <2>4. \A u \in Threads : /\ cur'[u] = cur[u]
                             /\ u # t => pc'[u] = pc[u]
      BY DEF TypeOK
    <2>5. QED
      BY <2>1, <2>2, <2>3, <2>4 DEF TypeOK, SavedInv
  <1>8. HolderInv'
    BY DEF TypeOK, StackInv, HolderInv, MutualExclusion, ParentUnlocks
  <1>9. CountInv'
    BY <1>1, <1>2 DEF TypeOK, StackInv, HolderInv, CountInv
  <1>10. QED
    BY <1>3, <1>4, <1>5, <1>6, <1>7, <1>8, <1>9

(* The compare-and-swap from 1 to 2 keeps the invariant: the unlocker gets *)
(* the wake list.                                                          *)
LEMMA UnlockBeginStep ==
    ASSUME IInv, NEW t \in Threads, UnlockBegin(t)
    PROVE  IInv'
  <1> USE DEF IInv, UnlockBegin
  <1>1. Cardinality(Backers) \in Nat /\ (Cardinality(Backers) = 0 <=> Backers = {})
    BY BackersFinite
  <1>2. ListUsers = {} /\ Backers = {} /\ holding # {}
    BY <1>1 DEF CountInv
  <1>3. ListUsers' # {}
    BY DEF TypeOK, ListUsers
  <1>4. Backers' = Backers
    BY SameBackers DEF TypeOK
  <1>5. TypeOK'
    BY DEF TypeOK
  <1>6. StackInv'
    BY DEF TypeOK, StackInv
  <1>7. DistinctInv'
    BY DEF TypeOK, DistinctInv
  <1>8. CarriedInv'
    BY DEF TypeOK, StackInv, CarriedInv
  <1>9. SavedInv'
    BY DEF TypeOK, StackInv, SavedInv, RunnableIsSaved
  <1>10. HolderInv'
    BY DEF TypeOK, StackInv, HolderInv, MutualExclusion, ParentUnlocks
  <1>11. CountInv'
    <2>1. \A u \in Threads : pc[u] \notin ListPc
      BY <1>2 DEF ListUsers
    <2>2. \A u, v \in Threads : pc'[u] \in ListPc /\ pc'[v] \in ListPc => u = v
      BY <2>1 DEF TypeOK
    <2>3. \A u \in Threads : pc'[u] = "release" => FALSE
      BY <2>1 DEF TypeOK
    <2>4. QED
      BY <2>2, <2>3, <1>2, <1>1, <1>3, <1>4 DEF CountInv
  <1>12. QED
    BY <1>5, <1>6, <1>7, <1>8, <1>9, <1>10, <1>11

(* The compare-and-swap from 2 to 0 keeps the invariant: nobody sleeps,    *)
(* backs off or uses the list.                                             *)
LEMMA UnlockEndStep ==
    ASSUME IInv, NEW t \in Threads, UnlockEnd(t)
    PROVE  IInv'
  <1> USE DEF IInv, UnlockEnd
  <1>1. Cardinality(Backers) \in Nat /\ (Cardinality(Backers) = 0 <=> Backers = {})
    BY BackersFinite
  <1>2. cur[t] \in holding /\ holding' = {}
    BY DEF HolderInv, MutualExclusion, TypeOK
  <1>3. t \in ListUsers
    BY DEF ListUsers
  <1>4. Backers = {} /\ wakeList = <<>>
    BY <1>1, <1>2, <1>3 DEF CountInv
  <1>5. ListUsers' = {}
    BY DEF TypeOK, ListUsers, CountInv
  <1>6. \A u \in Threads \ {t} : pc[u] \notin HoldingPc /\ pc'[u] = pc[u]
    BY DEF HolderInv, TypeOK
  <1>7. Backers' = Backers
    BY SameBackers DEF TypeOK
  <1>8. TypeOK'
    BY <1>2 DEF TypeOK
  <1>9. StackInv'
    BY DEF TypeOK, StackInv
  <1>10. DistinctInv'
    BY DEF TypeOK, DistinctInv
  <1>11. CarriedInv'
    BY DEF TypeOK, StackInv, CarriedInv
  <1>12. SavedInv'
    <2>1. \A f \in Fibers : saved[f] # "cs"
      <3> SUFFICES ASSUME NEW f \in Fibers, saved[f] = "cs"
                   PROVE  FALSE
        OBVIOUS
      <3>1. f = cur[t]
        BY <1>2 DEF SavedInv, HolderInv, MutualExclusion
      <3>2. ctx[t] = "parent"
        BY <3>1 DEF StackInv, TypeOK
      <3>3. f \in Range(condList)
        BY <3>1, <3>2 DEF HolderInv, ParentUnlocks
      <3>4. QED
        BY <3>3, <1>6 DEF SavedInv
    <2>2. QED
      BY <2>1, <1>6 DEF TypeOK, SavedInv, RunnableIsSaved
  <1>13. HolderInv'
    BY <1>2, <1>6 DEF TypeOK, HolderInv, MutualExclusion, ParentUnlocks
  <1>14. CountInv'
    <2>1. \A u \in Threads : pc'[u] \notin ListPc
      BY <1>5 DEF ListUsers
    <2>2. QED
      BY <2>1, <1>1, <1>2, <1>4, <1>5, <1>7 DEF CountInv
  <1>15. QED
    BY <1>8, <1>9, <1>10, <1>11, <1>12, <1>13, <1>14

(* wake_sleepers keeps the invariant: the sleepers move to the thread's    *)
(* wake list with their contexts saved.                                    *)
LEMMA WakeSleepersStep ==
    ASSUME IInv, NEW t \in Threads, WakeSleepers(t)
    PROVE  IInv'
  <1> USE DEF IInv
  <1>1. /\ pc[t] = "wake" /\ pc' = [pc EXCEPT ![t] = "release"] /\ wakeList' = <<>>
        /\ UNCHANGED <<state, condList, cur, ctx, saved, armed, holding, left>>
    BY DEF WakeSleepers
  <1>2. /\ wakeList \o runq[t] \in Seq(Fibers)
        /\ Range(wakeList \o runq[t]) = Range(wakeList) \cup Range(runq[t])
        /\ IsInjective(wakeList \o runq[t])
    BY Concat DEF TypeOK, DistinctInv
  <1>3. /\ runq' \in [Threads -> Seq(Fibers)]
        /\ Range(runq'[t]) = Range(wakeList) \cup Range(runq[t]) /\ IsInjective(runq'[t])
        /\ \A u \in Threads \ {t} : runq'[u] = runq[u]
    BY <1>2 DEF TypeOK, WakeSleepers
  <1>4. Range(wakeList') = {} /\ IsInjective(wakeList') /\ wakeList' \in Seq(Fibers)
    BY <1>1, EmptyList, EmptySeq
  <1>5. \A f \in Range(wakeList) : saved[f] = "lock"
    BY <1>1 DEF SavedInv, CountInv
  <1>6. Backers' = Backers
    BY <1>1, SameBackers DEF TypeOK
  <1>7. ListUsers' = ListUsers
    BY <1>1, SameListUsers DEF TypeOK
  <1>8. TypeOK'
    BY <1>1, <1>3, <1>4 DEF TypeOK
  <1>9. StackInv'
    BY <1>1 DEF TypeOK, StackInv
  <1>10. DistinctInv'
    <2>1. \A u \in Threads : /\ IsInjective(runq'[u])
                             /\ Range(runq'[u]) \cap Range(condList) = {}
                             /\ Range(runq'[u]) \cap armed = {}
      BY <1>1, <1>3 DEF DistinctInv
    <2>2. \A u, v \in Threads : u # v => Range(runq'[u]) \cap Range(runq'[v]) = {}
      <3> SUFFICES ASSUME NEW u \in Threads, NEW v \in Threads, u # v
                   PROVE  Range(runq'[u]) \cap Range(runq'[v]) = {}
        OBVIOUS
      <3>1. /\ Range(runq[u]) \cap Range(runq[v]) = {}
            /\ Range(runq[u]) \cap Range(wakeList) = {}
            /\ Range(runq[v]) \cap Range(wakeList) = {}
        BY DEF DistinctInv
      <3>2. CASE u = t
        BY <3>1, <3>2, <1>3
      <3>3. CASE v = t
        BY <3>1, <3>3, <1>3
      <3>4. CASE u # t /\ v # t
        <4>1. runq'[u] = runq[u] /\ runq'[v] = runq[v]
          BY <3>4, <1>3
        <4>2. QED
          BY <3>1, <4>1
      <3>5. QED
        BY <3>2, <3>3, <3>4
    <2>3. QED
      BY <1>1, <1>4, <2>1, <2>2 DEF DistinctInv
  <1>11. CarriedInv'
    <2>1. \A u, v \in Threads : pc[u] = "arm" => cur[u] \notin Range(runq'[v])
      BY <1>3 DEF CarriedInv
    <2>2. QED
      BY <1>1, <1>4, <2>1 DEF TypeOK, CarriedInv
  <1>12. SavedInv'
    <2>1. RunnableIsSaved'
      BY <1>1, <1>3, <1>5 DEF SavedInv, RunnableIsSaved
    <2>2. QED
      BY <1>1, <1>4, <2>1 DEF TypeOK, SavedInv
  <1>13. HolderInv'
    BY <1>1 DEF TypeOK, StackInv, HolderInv, MutualExclusion, ParentUnlocks
  <1>14. CountInv'
    BY <1>1, <1>6, <1>7 DEF TypeOK, StackInv, HolderInv, CountInv, ListUsers
  <1>15. QED
    BY <1>8, <1>9, <1>10, <1>11, <1>12, <1>13, <1>14

(* Joining the list of the condition keeps the invariant.                  *)
LEMMA WaitStep ==
    ASSUME IInv, NEW t \in Threads, Wait(t)
    PROVE  IInv'
  <1> USE DEF IInv
  <1>1. cur[t] \in Fibers /\ ctx[t] = "fiber"
    BY DEF Wait, StackInv
  <1>2. /\ pc[t] = "cs" /\ pc' = [pc EXCEPT ![t] = "switch_cond"]
        /\ left' \in 0..MaxOps
        /\ UNCHANGED <<state, wakeList, runq, cur, ctx, saved, armed, holding>>
    BY DEF Wait, TypeOK
  <1>3. /\ condList' \in Seq(Fibers)
        /\ Range(condList') = Range(condList) \cup {cur[t]}
        /\ IsInjective(condList')
    BY <1>2, <1>1, AppendOne DEF TypeOK, DistinctInv, CarriedInv, Wait
  <1>4. \A u \in Threads \ {t} : ctx[u] = "fiber" \/ pc[u] = "arm" => cur[u] # cur[t]
    BY <1>2, <1>1 DEF StackInv
  <1>5. cur[t] \notin armed /\ \A u \in Threads : cur[t] \notin Range(runq[u])
    BY <1>2, <1>1 DEF StackInv, SavedInv, RunnableIsSaved
  <1>6. Backers' = Backers
    BY <1>2, SameBackers DEF TypeOK
  <1>7. ListUsers' = ListUsers
    BY <1>2, SameListUsers DEF TypeOK
  <1>8. TypeOK'
    BY <1>2, <1>1, <1>3 DEF TypeOK
  <1>9. StackInv'
    BY <1>2, <1>1 DEF TypeOK, StackInv
  <1>10. DistinctInv'
    BY <1>2, <1>1, <1>3, <1>4, <1>5 DEF TypeOK, DistinctInv, CarriedInv
  <1>11. CarriedInv'
    BY <1>2, <1>1, <1>3, <1>4, <1>5 DEF TypeOK, StackInv, CarriedInv
  <1>12. SavedInv'
    BY <1>2, <1>1, <1>3 DEF TypeOK, StackInv, SavedInv, RunnableIsSaved
  <1>13. HolderInv'
    BY <1>2, <1>1, <1>3 DEF TypeOK, StackInv, HolderInv, MutualExclusion, ParentUnlocks
  <1>14. CountInv'
    BY <1>2, <1>1, <1>6, <1>7 DEF TypeOK, StackInv, HolderInv, CountInv
  <1>15. QED
    BY <1>8, <1>9, <1>10, <1>11, <1>12, <1>13, <1>14

(* The switch to the parent in fiber_cond::wait keeps the invariant: the   *)
(* mutex stays held until the parent unlocks it.                           *)
LEMMA SwitchCondStep ==
    ASSUME IInv, NEW t \in Threads, SwitchCond(t)
    PROVE  IInv'
  <1> USE DEF IInv, SwitchCond
  <1>1. Backers' = Backers
    BY SameBackers DEF TypeOK
  <1>2. ListUsers' = ListUsers
    BY SameListUsers DEF TypeOK
  <1>3. TypeOK'
    BY DEF TypeOK
  <1>4. StackInv'
    BY DEF TypeOK, StackInv
  <1>5. DistinctInv'
    BY DEF TypeOK, DistinctInv
  <1>6. CarriedInv'
    BY DEF TypeOK, StackInv, CarriedInv
  <1>7. SavedInv'
    <2>1. saved' = [saved EXCEPT ![cur[t]] = "lock"] /\ cur[t] \in Fibers
      BY DEF StackInv
    <2>2. RunnableIsSaved'
      BY <2>1 DEF TypeOK, SavedInv, RunnableIsSaved
    <2>3. \A f \in Fibers : saved[f] = "lock" => saved'[f] = "lock"
      BY <2>1 DEF TypeOK
    <2>4. \A u \in Threads : /\ cur'[u] = cur[u]
                             /\ u # t => pc'[u] = pc[u]
      BY DEF TypeOK
    <2>5. QED
      BY <2>1, <2>2, <2>3, <2>4 DEF TypeOK, SavedInv
  <1>8. HolderInv'
    BY DEF TypeOK, StackInv, HolderInv, MutualExclusion, ParentUnlocks
  <1>9. CountInv'
    BY <1>1, <1>2 DEF TypeOK, StackInv, HolderInv, CountInv
  <1>10. QED
    BY <1>3, <1>4, <1>5, <1>6, <1>7, <1>8, <1>9

(* notify_one keeps the invariant: the first waiter moves to the thread's  *)
(* wake list; nobody is between joining the list and the switch, because   *)
(* the notifier holds the mutex.                                           *)
LEMMA NotifyOneStep ==
    ASSUME IInv, NEW t \in Threads, NotifyOne(t)
    PROVE  IInv'
  <1> USE DEF IInv
  <1>1. /\ pc[t] = "cs" /\ condList # <<>>
        /\ UNCHANGED <<state, wakeList, cur, ctx, pc, saved, armed, holding, left>>
    BY DEF NotifyOne
  <1>2. /\ Head(condList) \in Fibers /\ Tail(condList) \in Seq(Fibers)
        /\ Range(condList) = {Head(condList)} \cup Range(Tail(condList))
        /\ IsInjective(Tail(condList)) /\ Head(condList) \notin Range(Tail(condList))
    BY <1>1, HeadTail DEF TypeOK, DistinctInv
  <1>3. /\ <<Head(condList)>> \o runq[t] \in Seq(Fibers)
        /\ Range(<<Head(condList)>> \o runq[t]) = {Head(condList)} \cup Range(runq[t])
        /\ IsInjective(<<Head(condList)>> \o runq[t])
    BY <1>2, PushOne DEF TypeOK, DistinctInv
  <1>4. /\ condList' \in Seq(Fibers) /\ IsInjective(condList')
        /\ Range(condList') \subseteq Range(condList)
        /\ Head(condList) \in Range(condList) \ Range(condList')
    BY <1>2 DEF NotifyOne
  <1>5. /\ runq' \in [Threads -> Seq(Fibers)]
        /\ Range(runq'[t]) = {Head(condList)} \cup Range(runq[t]) /\ IsInjective(runq'[t])
        /\ \A u \in Threads \ {t} : runq'[u] = runq[u]
    BY <1>3 DEF TypeOK, NotifyOne
  <1>6. \A f \in Range(condList) : saved[f] = "lock"
    BY <1>1 DEF SavedInv, HolderInv
  <1>7. \A u \in Threads \ {t} : pc[u] \notin HoldingPc
    BY <1>1 DEF HolderInv
  <1>8. Backers' = Backers
    BY <1>1 DEF Backers
  <1>9. ListUsers' = ListUsers
    BY <1>1 DEF ListUsers
  <1>10. TypeOK'
    BY <1>1, <1>5, <1>4 DEF TypeOK
  <1>11. StackInv'
    BY <1>1 DEF TypeOK, StackInv
  <1>12. DistinctInv'
    <2>1. \A u \in Threads : /\ IsInjective(runq'[u])
                             /\ Range(runq'[u]) \cap Range(wakeList) = {}
                             /\ Range(runq'[u]) \cap Range(condList') = {}
                             /\ Range(runq'[u]) \cap armed = {}
      BY <1>1, <1>5, <1>4 DEF DistinctInv
    <2>2. \A u, v \in Threads : u # v => Range(runq'[u]) \cap Range(runq'[v]) = {}
      <3> SUFFICES ASSUME NEW u \in Threads, NEW v \in Threads, u # v
                   PROVE  Range(runq'[u]) \cap Range(runq'[v]) = {}
        OBVIOUS
      <3>1. /\ Range(runq[u]) \cap Range(runq[v]) = {}
            /\ Range(runq[u]) \cap Range(condList) = {}
            /\ Range(runq[v]) \cap Range(condList) = {}
        BY DEF DistinctInv
      <3>2. CASE u = t
        BY <3>1, <3>2, <1>5, <1>4
      <3>3. CASE v = t
        BY <3>1, <3>3, <1>5, <1>4
      <3>4. CASE u # t /\ v # t
        <4>1. runq'[u] = runq[u] /\ runq'[v] = runq[v]
          BY <3>4, <1>5
        <4>2. QED
          BY <3>1, <4>1
      <3>5. QED
        BY <3>2, <3>3, <3>4
    <2>3. QED
      BY <1>1, <1>4, <2>1, <2>2 DEF DistinctInv
  <1>13. CarriedInv'
    <2>1. \A u, v \in Threads : pc[u] = "arm" => cur[u] \notin Range(runq'[v])
      BY <1>5, <1>4 DEF CarriedInv
    <2>2. QED
      BY <1>1, <1>4, <2>1 DEF CarriedInv
  <1>14. SavedInv'
    <2>1. RunnableIsSaved'
      BY <1>1, <1>5, <1>4, <1>6 DEF SavedInv, RunnableIsSaved
    <2>2. QED
      BY <1>1, <1>4, <2>1 DEF SavedInv
  <1>15. HolderInv'
    BY <1>1, <1>7 DEF TypeOK, StackInv, HolderInv, MutualExclusion, ParentUnlocks
  <1>16. CountInv'
    BY <1>1, <1>8, <1>9 DEF TypeOK, StackInv, HolderInv, CountInv
  <1>17. QED
    BY <1>10, <1>11, <1>12, <1>13, <1>14, <1>15, <1>16

(* notify_all keeps the invariant, for the same reason as notify_one.      *)
LEMMA NotifyAllStep ==
    ASSUME IInv, NEW t \in Threads, NotifyAll(t)
    PROVE  IInv'
  <1> USE DEF IInv
  <1>1. /\ pc[t] = "cs" /\ condList # <<>>
        /\ UNCHANGED <<state, wakeList, cur, ctx, pc, saved, armed, holding, left>>
    BY DEF NotifyAll
  <1>2. /\ condList \o runq[t] \in Seq(Fibers)
        /\ Range(condList \o runq[t]) = Range(condList) \cup Range(runq[t])
        /\ IsInjective(condList \o runq[t])
    BY Concat DEF TypeOK, DistinctInv
  <1>3. condList' \in Seq(Fibers) /\ IsInjective(condList') /\ Range(condList') = {}
    BY EmptyList, EmptySeq DEF NotifyAll
  <1>4. /\ runq' \in [Threads -> Seq(Fibers)]
        /\ Range(runq'[t]) = Range(condList) \cup Range(runq[t]) /\ IsInjective(runq'[t])
        /\ \A u \in Threads \ {t} : runq'[u] = runq[u]
    BY <1>2 DEF TypeOK, NotifyAll
  <1>5. \A f \in Range(condList) : saved[f] = "lock"
    BY <1>1 DEF SavedInv, HolderInv
  <1>6. \A u \in Threads \ {t} : pc[u] \notin HoldingPc
    BY <1>1 DEF HolderInv
  <1>7. Backers' = Backers
    BY <1>1 DEF Backers
  <1>8. ListUsers' = ListUsers
    BY <1>1 DEF ListUsers
  <1>9. TypeOK'
    BY <1>1, <1>4, <1>3 DEF TypeOK
  <1>10. StackInv'
    BY <1>1 DEF TypeOK, StackInv
  <1>11. DistinctInv'
    <2>1. \A u \in Threads : /\ IsInjective(runq'[u])
                             /\ Range(runq'[u]) \cap Range(wakeList) = {}
                             /\ Range(runq'[u]) \cap Range(condList') = {}
                             /\ Range(runq'[u]) \cap armed = {}
      BY <1>1, <1>4, <1>3 DEF DistinctInv
    <2>2. \A u, v \in Threads : u # v => Range(runq'[u]) \cap Range(runq'[v]) = {}
      <3> SUFFICES ASSUME NEW u \in Threads, NEW v \in Threads, u # v
                   PROVE  Range(runq'[u]) \cap Range(runq'[v]) = {}
        OBVIOUS
      <3>1. /\ Range(runq[u]) \cap Range(runq[v]) = {}
            /\ Range(runq[u]) \cap Range(condList) = {}
            /\ Range(runq[v]) \cap Range(condList) = {}
        BY DEF DistinctInv
      <3>2. CASE u = t
        BY <3>1, <3>2, <1>4, <1>3
      <3>3. CASE v = t
        BY <3>1, <3>3, <1>4, <1>3
      <3>4. CASE u # t /\ v # t
        <4>1. runq'[u] = runq[u] /\ runq'[v] = runq[v]
          BY <3>4, <1>4
        <4>2. QED
          BY <3>1, <4>1
      <3>5. QED
        BY <3>2, <3>3, <3>4
    <2>3. QED
      BY <1>1, <1>3, <2>1, <2>2 DEF DistinctInv
  <1>12. CarriedInv'
    <2>1. \A u, v \in Threads : pc[u] = "arm" => cur[u] \notin Range(runq'[v])
      BY <1>4, <1>3 DEF CarriedInv
    <2>2. QED
      BY <1>1, <1>3, <2>1 DEF CarriedInv
  <1>13. SavedInv'
    <2>1. RunnableIsSaved'
      BY <1>1, <1>4, <1>3, <1>5 DEF SavedInv, RunnableIsSaved
    <2>2. QED
      BY <1>1, <1>3, <2>1 DEF SavedInv
  <1>14. HolderInv'
    BY <1>1, <1>6 DEF TypeOK, StackInv, HolderInv, MutualExclusion, ParentUnlocks
  <1>15. CountInv'
    BY <1>1, <1>7, <1>8 DEF TypeOK, StackInv, HolderInv, CountInv
  <1>16. QED
    BY <1>9, <1>10, <1>11, <1>12, <1>13, <1>14, <1>15

-----------------------------------------------------------------------------
(* The initial state satisfies the inductive invariant.                    *)
LEMMA InitIInv == Init => IInv
  <1> SUFFICES ASSUME Init PROVE IInv
    OBVIOUS
  <1>1. Range(wakeList) = {} /\ Range(condList) = {} /\ IsInjective(<<>>)
        /\ \A t \in Threads : runq[t] = <<>> /\ Range(runq[t]) = {}
    BY EmptyList DEF Init
  <1>2. TypeOK
    BY EmptySeq DEF Init, TypeOK
  <1>3. StackInv /\ CarriedInv
    BY <1>1 DEF Init, StackInv, CarriedInv
  <1>4. DistinctInv
    BY <1>1 DEF Init, DistinctInv
  <1>5. SavedInv
    BY <1>1 DEF Init, SavedInv, RunnableIsSaved
  <1>6. HolderInv
    BY DEF Init, HolderInv, MutualExclusion, ParentUnlocks
  <1>7. CountInv
    <2>1. Backers = {} /\ ListUsers = {}
      BY DEF Init, Backers, ListUsers
    <2>2. Cardinality(Backers) = 0
      BY <2>1, FS_EmptySet
    <2>3. QED
      BY <2>1, <2>2 DEF Init, CountInv
  <1>8. QED
    BY <1>2, <1>3, <1>4, <1>5, <1>6, <1>7 DEF IInv

(* Every step keeps the inductive invariant.                               *)
LEMMA NextIInv == IInv /\ [Next]_vars => IInv'
  <1> SUFFICES ASSUME IInv, [Next]_vars PROVE IInv'
    OBVIOUS
  <1>1. ASSUME NEW t \in Threads, NEW f \in Fibers, WakeAll(t, f) PROVE IInv'
    BY <1>1, WakeAllStep
  <1>2. ASSUME NEW t \in Threads, SwitchToFiber(t) PROVE IInv'
    BY <1>2, SwitchToFiberStep
  <1>3. ASSUME NEW t \in Threads, EndWakeAll(t) PROVE IInv'
    BY <1>3, EndWakeAllStep
  <1>4. ASSUME NEW t \in Threads, SuspendDone(t) PROVE IInv'
    BY <1>4, SuspendDoneStep
  <1>5. ASSUME NEW t \in Threads, Arm(t) PROVE IInv'
    BY <1>5, ArmStep
  <1>6. ASSUME NEW t \in Threads, Sleep(t) PROVE IInv'
    BY <1>6, SleepStep
  <1>7. ASSUME NEW t \in Threads, CallLock(t) PROVE IInv'
    BY <1>7, CallLockStep
  <1>8. ASSUME NEW t \in Threads, CallUnlock(t) PROVE IInv'
    BY <1>8, CallUnlockStep
  <1>9. ASSUME NEW t \in Threads, Exit(t) PROVE IInv'
    BY <1>9, ExitStep
  <1>10. ASSUME NEW t \in Threads, LockAcquired(t) PROVE IInv'
    BY <1>10, LockAcquiredStep
  <1>11. ASSUME NEW t \in Threads, LockContended(t) PROVE IInv'
    BY <1>11, LockContendedStep
  <1>12. ASSUME NEW t \in Threads, LockBusy(t) PROVE IInv'
    BY <1>12, LockBusyStep
  <1>13. ASSUME NEW t \in Threads, Backoff(t) PROVE IInv'
    BY <1>13, BackoffStep
  <1>14. ASSUME NEW t \in Threads, SleepTillWoken(t) PROVE IInv'
    BY <1>14, SleepTillWokenStep
  <1>15. ASSUME NEW t \in Threads, SwitchSuspend(t) PROVE IInv'
    BY <1>15, SwitchSuspendStep
  <1>16. ASSUME NEW t \in Threads, UnlockBegin(t) PROVE IInv'
    BY <1>16, UnlockBeginStep
  <1>17. ASSUME NEW t \in Threads, WakeSleepers(t) PROVE IInv'
    BY <1>17, WakeSleepersStep
  <1>18. ASSUME NEW t \in Threads, UnlockEnd(t) PROVE IInv'
    BY <1>18, UnlockEndStep
  <1>19. ASSUME NEW t \in Threads, Wait(t) PROVE IInv'
    BY <1>19, WaitStep
  <1>20. ASSUME NEW t \in Threads, SwitchCond(t) PROVE IInv'
    BY <1>20, SwitchCondStep
  <1>21. ASSUME NEW t \in Threads, NotifyOne(t) PROVE IInv'
    BY <1>21, NotifyOneStep
  <1>22. ASSUME NEW t \in Threads, NotifyAll(t) PROVE IInv'
    BY <1>22, NotifyAllStep
  <1>23. CASE UNCHANGED vars
    BY <1>23 DEF vars, IInv, TypeOK, StackInv, DistinctInv, CarriedInv, SavedInv,
       RunnableIsSaved, HolderInv, MutualExclusion, ParentUnlocks, CountInv,
       Backers, ListUsers
  <1>24. QED
    BY <1>1, <1>2, <1>3, <1>4, <1>5, <1>6, <1>7, <1>8, <1>9, <1>10, <1>11, <1>12, <1>13, <1>14, <1>15, <1>16, <1>17, <1>18, <1>19, <1>20, <1>21, <1>22, <1>23 DEF Next, ThreadStep

(* IInv holds in every reachable state, whatever the numbers of fibers and *)
(* of threads and the bound on the operations.                             *)
THEOREM Invariance == Spec => []IInv
  <1>1. QED
    BY InitIInv, NextIInv, PTL DEF Spec

(* The variables keep their types: every pc is a step of the code, and     *)
(* current_fiber_ and the lists hold fibers only.                          *)
THEOREM TypeCorrect == Spec => []TypeOK
  <1>1. IInv => TypeOK
    BY DEF IInv
  <1>2. QED
    BY <1>1, Invariance, PTL

(* fiber_mutex is a mutual exclusion lock: lock() never returns to a fiber *)
(* while another is before the last step of unlock().                      *)
THEOREM Exclusion == Spec => []MutualExclusion
  <1>1. IInv => MutualExclusion
    BY DEF IInv, HolderInv
  <1>2. QED
    BY <1>1, Invariance, PTL

(* No wakeup is lost: there is a holder, which will run wake_sleepers,     *)
(* whenever a fiber sleeps in sleep_till_woken.                            *)
THEOREM NoLostWakeup == Spec => []SleeperHasWaker
  <1>1. IInv => SleeperHasWaker
    BY DEF IInv, CountInv, SleeperHasWaker
  <1>2. QED
    BY <1>1, Invariance, PTL

(* No thread can switch to a fiber whose context is still in use by        *)
(* another thread: the decrement of state_ after the switch suffices.      *)
THEOREM NoEarlyResume == Spec => []RunnableIsSaved
  <1>1. IInv => RunnableIsSaved
    BY DEF IInv, SavedInv
  <1>2. QED
    BY <1>1, Invariance, PTL

(* The fibers that thread t refers to, and those that no thread does.      *)
Held(t) == Range(runq[t]) \cup Carried(t)
Listed == armed \cup Range(wakeList) \cup Range(condList)

(* No fiber is dropped: until it exits, it is carried by a thread, armed   *)
(* or in a list.                                                           *)
NoneLost ==
    \A f \in Fibers :
        saved[f] = "done" \/ f \in Listed \/ \E t \in Threads : f \in Held(t)

(* A step of thread t drops no fiber when each that leaves t or a shared   *)
(* list goes to the other, or exits.                                       *)
LEMMA KeptBy ==
    ASSUME NoneLost, NEW t \in Threads,
           \A u \in Threads \ {t} : Held(u)' = Held(u),
           \A f \in Fibers : saved[f] = "done" => saved'[f] = "done",
           \A f \in Fibers : f \in Listed \cup Held(t) =>
               f \in Listed' \cup Held(t)' \/ saved'[f] = "done"
    PROVE  NoneLost'
  BY DEF NoneLost

(* The threads that a step leaves alone refer to the same fibers.          *)
LEMMA SameHeld ==
    ASSUME NEW u \in Threads, runq'[u] = runq[u], cur'[u] = cur[u],
           ctx'[u] = ctx[u], pc'[u] = pc[u]
    PROVE  Held(u)' = Held(u)
  BY DEF Held, Carried

(* Every step keeps NoneLost: what leaves a list or a thread goes to       *)
(* another.                                                                *)
LEMMA NoneLostStep == IInv /\ NoneLost /\ [Next]_vars => NoneLost'
  <1> SUFFICES ASSUME IInv, NoneLost, [Next]_vars PROVE NoneLost'
    OBVIOUS
  <1> USE DEF IInv
  <1>1. ASSUME NEW t \in Threads, NEW f \in Fibers, WakeAll(t, f)
        PROVE  NoneLost'
    <2>1. \A u \in Threads \ {t} : Held(u)' = Held(u)
      <3>1. \A u \in Threads \ {t} : /\ runq'[u] = runq[u] /\ cur'[u] = cur[u]
                                     /\ ctx'[u] = ctx[u] /\ pc'[u] = pc[u]
        BY <1>1 DEF WakeAll, TypeOK
      <3>2. QED
        BY <3>1, SameHeld
    <2>2. \A g \in Fibers : saved[g] = "done" => saved'[g] = "done"
      BY <1>1 DEF WakeAll
    <2>3. Range(<<f>> \o runq[t]) = {f} \cup Range(runq[t])
      BY PushOne DEF TypeOK
    <2>4. runq'[t] = <<f>> \o runq[t] /\ pc'[t] = "loop" /\ pc[t] = "epoll"
      BY <1>1 DEF WakeAll, TypeOK
    <2>5. Held(t)' = {f} \cup Range(runq[t]) /\ Held(t) = Range(runq[t])
      BY <2>3, <2>4 DEF Held, Carried
    <2>6. Listed' \cup {f} = Listed \cup {f}
      BY <1>1 DEF WakeAll, Listed
    <2>7. QED
      BY <2>1, <2>2, <2>5, <2>6, KeptBy
  <1>2. ASSUME NEW t \in Threads, SwitchToFiber(t) PROVE NoneLost'
    <2>1. \A u \in Threads \ {t} : Held(u)' = Held(u)
      <3>1. \A u \in Threads \ {t} : /\ runq'[u] = runq[u] /\ cur'[u] = cur[u]
                                     /\ ctx'[u] = ctx[u] /\ pc'[u] = pc[u]
        BY <1>2 DEF SwitchToFiber, TypeOK
      <3>2. QED
        BY <3>1, SameHeld
    <2>2. /\ Head(runq[t]) \in Fibers
          /\ Range(runq[t]) = {Head(runq[t])} \cup Range(Tail(runq[t]))
      BY <1>2, HeadTail DEF SwitchToFiber, TypeOK
    <2>3. saved[Head(runq[t])] \in {"run", "lock", "cs"}
      BY <2>2 DEF SavedInv, RunnableIsSaved
    <2>4. \A f \in Fibers : saved[f] = "done" => saved'[f] = "done"
      BY <1>2, <2>2, <2>3 DEF SwitchToFiber, TypeOK
    <2>5. /\ cur'[t] = Head(runq[t]) /\ runq'[t] = Tail(runq[t])
          /\ ctx'[t] = "fiber" /\ pc'[t] \in {"run", "lock", "cs"} /\ pc[t] = "loop"
      BY <1>2, <2>2, <2>3 DEF SwitchToFiber, TypeOK
    <2>6. Held(t)' = Range(runq[t]) /\ Held(t) = Range(runq[t])
      BY <2>2, <2>5 DEF Held, Carried
    <2>7. Listed' = Listed
      BY <1>2 DEF SwitchToFiber, Listed
    <2>8. QED
      BY <2>1, <2>4, <2>6, <2>7, KeptBy
  <1>3. ASSUME NEW t \in Threads, EndWakeAll(t) PROVE NoneLost'
    <2>1. \A u \in Threads \ {t} : Held(u)' = Held(u)
      <3>1. \A u \in Threads \ {t} : /\ runq'[u] = runq[u] /\ cur'[u] = cur[u]
                                     /\ ctx'[u] = ctx[u] /\ pc'[u] = pc[u]
        BY <1>3 DEF EndWakeAll, TypeOK
      <3>2. QED
        BY <3>1, SameHeld
    <2>2. \A f \in Fibers : saved[f] = "done" => saved'[f] = "done"
      BY <1>3 DEF EndWakeAll
    <2>3. Listed' = Listed
      BY <1>3 DEF EndWakeAll, Listed
    <2>4. Held(t)' = Held(t)
      <3>1. /\ runq'[t] = runq[t]
        BY <1>3 DEF EndWakeAll, TypeOK
      <3>2. Carried(t)' = Carried(t)
        BY <1>3 DEF EndWakeAll, Carried, TypeOK, StackInv
      <3>3. QED
        BY <3>1, <3>2 DEF Held
    <2>5. QED
      BY <2>1, <2>2, <2>3, <2>4, KeptBy
  <1>4. ASSUME NEW t \in Threads, SuspendDone(t) PROVE NoneLost'
    <2>1. \A u \in Threads \ {t} : Held(u)' = Held(u)
      <3>1. \A u \in Threads \ {t} : /\ runq'[u] = runq[u] /\ cur'[u] = cur[u]
                                     /\ ctx'[u] = ctx[u] /\ pc'[u] = pc[u]
        BY <1>4 DEF SuspendDone, TypeOK
      <3>2. QED
        BY <3>1, SameHeld
    <2>2. \A f \in Fibers : saved[f] = "done" => saved'[f] = "done"
      BY <1>4 DEF SuspendDone
    <2>3. Listed' = Listed
      BY <1>4 DEF SuspendDone, Listed
    <2>4. Held(t)' = Held(t)
      <3>1. /\ runq'[t] = runq[t]
        BY <1>4 DEF SuspendDone, TypeOK
      <3>2. Carried(t)' = Carried(t)
        BY <1>4 DEF SuspendDone, Carried, TypeOK, StackInv
      <3>3. QED
        BY <3>1, <3>2 DEF Held
    <2>5. QED
      BY <2>1, <2>2, <2>3, <2>4, KeptBy
  <1>5. ASSUME NEW t \in Threads, Arm(t) PROVE NoneLost'
    <2>1. \A u \in Threads \ {t} : Held(u)' = Held(u)
      <3>1. \A u \in Threads \ {t} : /\ runq'[u] = runq[u] /\ cur'[u] = cur[u]
                                     /\ ctx'[u] = ctx[u] /\ pc'[u] = pc[u]
        BY <1>5 DEF Arm, TypeOK
      <3>2. QED
        BY <3>1, SameHeld
    <2>2. \A f \in Fibers : saved[f] = "done" => saved'[f] = "done"
      BY <1>5 DEF Arm
    <2>3. cur[t] \in Fibers
      BY <1>5 DEF Arm, StackInv
    <2>5. Listed' = Listed \cup {cur[t]}
      BY <1>5 DEF Arm, Listed
    <2>6. Held(t) \subseteq Held(t)' \cup {cur[t]}
      BY <1>5 DEF Arm, Held, Carried
    <2>7. QED
      BY <2>1, <2>2, <2>5, <2>6, KeptBy
  <1>6. ASSUME NEW t \in Threads, Sleep(t) PROVE NoneLost'
    <2>1. \A u \in Threads \ {t} : Held(u)' = Held(u)
      <3>1. \A u \in Threads \ {t} : /\ runq'[u] = runq[u] /\ cur'[u] = cur[u]
                                     /\ ctx'[u] = ctx[u] /\ pc'[u] = pc[u]
        BY <1>6 DEF Sleep, TypeOK
      <3>2. QED
        BY <3>1, SameHeld
    <2>2. \A f \in Fibers : saved[f] = "done" => saved'[f] = "done"
      <3>1. cur[t] \in Fibers /\ saved[cur[t]] = "none"
        BY <1>6 DEF Sleep, StackInv
      <3>2. QED
        BY <1>6, <3>1 DEF Sleep, TypeOK
    <2>3. Listed' = Listed
      BY <1>6 DEF Sleep, Listed
    <2>4. Held(t)' = Held(t)
      <3>1. /\ runq'[t] = runq[t]
        BY <1>6 DEF Sleep, TypeOK
      <3>2. Carried(t)' = Carried(t)
        BY <1>6 DEF Sleep, Carried, TypeOK, StackInv
      <3>3. QED
        BY <3>1, <3>2 DEF Held
    <2>5. QED
      BY <2>1, <2>2, <2>3, <2>4, KeptBy
  <1>7. ASSUME NEW t \in Threads, CallLock(t) PROVE NoneLost'
    <2>1. \A u \in Threads \ {t} : Held(u)' = Held(u)
      <3>1. \A u \in Threads \ {t} : /\ runq'[u] = runq[u] /\ cur'[u] = cur[u]
                                     /\ ctx'[u] = ctx[u] /\ pc'[u] = pc[u]
        BY <1>7 DEF CallLock, TypeOK
      <3>2. QED
        BY <3>1, SameHeld
    <2>2. \A f \in Fibers : saved[f] = "done" => saved'[f] = "done"
      BY <1>7 DEF CallLock
    <2>3. Listed' = Listed
      BY <1>7 DEF CallLock, Listed
    <2>4. Held(t)' = Held(t)
      <3>1. /\ runq'[t] = runq[t]
        BY <1>7 DEF CallLock, TypeOK
      <3>2. Carried(t)' = Carried(t)
        BY <1>7 DEF CallLock, Carried, TypeOK, StackInv
      <3>3. QED
        BY <3>1, <3>2 DEF Held
    <2>5. QED
      BY <2>1, <2>2, <2>3, <2>4, KeptBy
  <1>8. ASSUME NEW t \in Threads, CallUnlock(t) PROVE NoneLost'
    <2>1. \A u \in Threads \ {t} : Held(u)' = Held(u)
      <3>1. \A u \in Threads \ {t} : /\ runq'[u] = runq[u] /\ cur'[u] = cur[u]
                                     /\ ctx'[u] = ctx[u] /\ pc'[u] = pc[u]
        BY <1>8 DEF CallUnlock, TypeOK
      <3>2. QED
        BY <3>1, SameHeld
    <2>2. \A f \in Fibers : saved[f] = "done" => saved'[f] = "done"
      BY <1>8 DEF CallUnlock
    <2>3. Listed' = Listed
      BY <1>8 DEF CallUnlock, Listed
    <2>4. Held(t)' = Held(t)
      <3>1. /\ runq'[t] = runq[t]
        BY <1>8 DEF CallUnlock, TypeOK
      <3>2. Carried(t)' = Carried(t)
        BY <1>8 DEF CallUnlock, Carried, TypeOK, StackInv
      <3>3. QED
        BY <3>1, <3>2 DEF Held
    <2>5. QED
      BY <2>1, <2>2, <2>3, <2>4, KeptBy
  <1>9. ASSUME NEW t \in Threads, Exit(t) PROVE NoneLost'
    <2>1. \A u \in Threads \ {t} : Held(u)' = Held(u)
      <3>1. \A u \in Threads \ {t} : /\ runq'[u] = runq[u] /\ cur'[u] = cur[u]
                                     /\ ctx'[u] = ctx[u] /\ pc'[u] = pc[u]
        BY <1>9 DEF Exit, TypeOK
      <3>2. QED
        BY <3>1, SameHeld
    <2>2. \A f \in Fibers : saved[f] = "done" => saved'[f] = "done"
      <3>1. cur[t] \in Fibers /\ saved[cur[t]] = "none"
        BY <1>9 DEF Exit, StackInv
      <3>2. QED
        BY <1>9, <3>1 DEF Exit, TypeOK
    <2>3. Listed' = Listed
      BY <1>9 DEF Exit, Listed
    <2>4. cur[t] \in Fibers
      BY <1>9 DEF Exit, StackInv
    <2>5. Held(t) \subseteq Held(t)' \cup {cur[t]} /\ saved'[cur[t]] = "done"
      BY <1>9, <2>4 DEF Exit, Held, Carried, TypeOK
    <2>6. QED
      BY <2>1, <2>2, <2>3, <2>5, KeptBy
  <1>10. ASSUME NEW t \in Threads, LockAcquired(t) PROVE NoneLost'
    <2>1. \A u \in Threads \ {t} : Held(u)' = Held(u)
      <3>1. \A u \in Threads \ {t} : /\ runq'[u] = runq[u] /\ cur'[u] = cur[u]
                                     /\ ctx'[u] = ctx[u] /\ pc'[u] = pc[u]
        BY <1>10 DEF LockAcquired, TypeOK
      <3>2. QED
        BY <3>1, SameHeld
    <2>2. \A f \in Fibers : saved[f] = "done" => saved'[f] = "done"
      BY <1>10 DEF LockAcquired
    <2>3. Listed' = Listed
      BY <1>10 DEF LockAcquired, Listed
    <2>4. Held(t)' = Held(t)
      <3>1. /\ runq'[t] = runq[t]
        BY <1>10 DEF LockAcquired, TypeOK
      <3>2. Carried(t)' = Carried(t)
        BY <1>10 DEF LockAcquired, Carried, TypeOK, StackInv
      <3>3. QED
        BY <3>1, <3>2 DEF Held
    <2>5. QED
      BY <2>1, <2>2, <2>3, <2>4, KeptBy
  <1>11. ASSUME NEW t \in Threads, LockContended(t) PROVE NoneLost'
    <2>1. \A u \in Threads \ {t} : Held(u)' = Held(u)
      <3>1. \A u \in Threads \ {t} : /\ runq'[u] = runq[u] /\ cur'[u] = cur[u]
                                     /\ ctx'[u] = ctx[u] /\ pc'[u] = pc[u]
        BY <1>11 DEF LockContended, TypeOK
      <3>2. QED
        BY <3>1, SameHeld
    <2>2. \A f \in Fibers : saved[f] = "done" => saved'[f] = "done"
      BY <1>11 DEF LockContended
    <2>3. Listed' = Listed
      BY <1>11 DEF LockContended, Listed
    <2>4. Held(t)' = Held(t)
      <3>1. /\ runq'[t] = runq[t]
        BY <1>11 DEF LockContended, TypeOK
      <3>2. Carried(t)' = Carried(t)
        BY <1>11 DEF LockContended, Carried, TypeOK, StackInv
      <3>3. QED
        BY <3>1, <3>2 DEF Held
    <2>5. QED
      BY <2>1, <2>2, <2>3, <2>4, KeptBy
  <1>12. ASSUME NEW t \in Threads, LockBusy(t) PROVE NoneLost'
    <2>1. \A u \in Threads \ {t} : Held(u)' = Held(u)
      <3>1. \A u \in Threads \ {t} : /\ runq'[u] = runq[u] /\ cur'[u] = cur[u]
                                     /\ ctx'[u] = ctx[u] /\ pc'[u] = pc[u]
        BY <1>12 DEF LockBusy, TypeOK
      <3>2. QED
        BY <3>1, SameHeld
    <2>2. \A f \in Fibers : saved[f] = "done" => saved'[f] = "done"
      BY <1>12 DEF LockBusy
    <2>3. Listed' = Listed
      BY <1>12 DEF LockBusy, Listed
    <2>4. Held(t)' = Held(t)
      <3>1. /\ runq'[t] = runq[t]
        BY <1>12 DEF LockBusy, TypeOK
      <3>2. Carried(t)' = Carried(t)
        BY <1>12 DEF LockBusy, Carried, TypeOK, StackInv
      <3>3. QED
        BY <3>1, <3>2 DEF Held
    <2>5. QED
      BY <2>1, <2>2, <2>3, <2>4, KeptBy
  <1>13. ASSUME NEW t \in Threads, Backoff(t) PROVE NoneLost'
    <2>1. \A u \in Threads \ {t} : Held(u)' = Held(u)
      <3>1. \A u \in Threads \ {t} : /\ runq'[u] = runq[u] /\ cur'[u] = cur[u]
                                     /\ ctx'[u] = ctx[u] /\ pc'[u] = pc[u]
        BY <1>13 DEF Backoff, TypeOK
      <3>2. QED
        BY <3>1, SameHeld
    <2>2. \A f \in Fibers : saved[f] = "done" => saved'[f] = "done"
      BY <1>13 DEF Backoff
    <2>3. Listed' = Listed
      BY <1>13 DEF Backoff, Listed
    <2>4. Held(t)' = Held(t)
      <3>1. /\ runq'[t] = runq[t]
        BY <1>13 DEF Backoff, TypeOK
      <3>2. Carried(t)' = Carried(t)
        BY <1>13 DEF Backoff, Carried, TypeOK, StackInv
      <3>3. QED
        BY <3>1, <3>2 DEF Held
    <2>5. QED
      BY <2>1, <2>2, <2>3, <2>4, KeptBy
  <1>14. ASSUME NEW t \in Threads, SleepTillWoken(t) PROVE NoneLost'
    <2>1. \A u \in Threads \ {t} : Held(u)' = Held(u)
      <3>1. \A u \in Threads \ {t} : /\ runq'[u] = runq[u] /\ cur'[u] = cur[u]
                                     /\ ctx'[u] = ctx[u] /\ pc'[u] = pc[u]
        BY <1>14 DEF SleepTillWoken, TypeOK
      <3>2. QED
        BY <3>1, SameHeld
    <2>2. \A f \in Fibers : saved[f] = "done" => saved'[f] = "done"
      BY <1>14 DEF SleepTillWoken
    <2>3. cur[t] \in Fibers
      BY <1>14 DEF SleepTillWoken, StackInv
    <2>4. Range(<<cur[t]>> \o wakeList) = {cur[t]} \cup Range(wakeList)
      BY <2>3, PushOne DEF TypeOK
    <2>5. Listed' = Listed \cup {cur[t]}
      BY <1>14, <2>4 DEF SleepTillWoken, Listed
    <2>6. Held(t) \subseteq Held(t)' \cup {cur[t]}
      BY <1>14 DEF SleepTillWoken, Held, Carried
    <2>7. QED
      BY <2>1, <2>2, <2>5, <2>6, KeptBy
  <1>15. ASSUME NEW t \in Threads, SwitchSuspend(t) PROVE NoneLost'
    <2>1. \A u \in Threads \ {t} : Held(u)' = Held(u)
      <3>1. \A u \in Threads \ {t} : /\ runq'[u] = runq[u] /\ cur'[u] = cur[u]
                                     /\ ctx'[u] = ctx[u] /\ pc'[u] = pc[u]
        BY <1>15 DEF SwitchSuspend, TypeOK
      <3>2. QED
        BY <3>1, SameHeld
    <2>2. \A f \in Fibers : saved[f] = "done" => saved'[f] = "done"
      <3>1. cur[t] \in Fibers /\ saved[cur[t]] = "none"
        BY <1>15 DEF SwitchSuspend, StackInv
      <3>2. QED
        BY <1>15, <3>1 DEF SwitchSuspend, TypeOK
    <2>3. Listed' = Listed
      BY <1>15 DEF SwitchSuspend, Listed
    <2>4. Held(t)' = Held(t)
      <3>1. /\ runq'[t] = runq[t]
        BY <1>15 DEF SwitchSuspend, TypeOK
      <3>2. Carried(t)' = Carried(t)
        BY <1>15 DEF SwitchSuspend, Carried, TypeOK, StackInv
      <3>3. QED
        BY <3>1, <3>2 DEF Held
    <2>5. QED
      BY <2>1, <2>2, <2>3, <2>4, KeptBy
  <1>16. ASSUME NEW t \in Threads, UnlockBegin(t) PROVE NoneLost'
    <2>1. \A u \in Threads \ {t} : Held(u)' = Held(u)
      <3>1. \A u \in Threads \ {t} : /\ runq'[u] = runq[u] /\ cur'[u] = cur[u]
                                     /\ ctx'[u] = ctx[u] /\ pc'[u] = pc[u]
        BY <1>16 DEF UnlockBegin, TypeOK
      <3>2. QED
        BY <3>1, SameHeld
    <2>2. \A f \in Fibers : saved[f] = "done" => saved'[f] = "done"
      BY <1>16 DEF UnlockBegin
    <2>3. Listed' = Listed
      BY <1>16 DEF UnlockBegin, Listed
    <2>4. Held(t)' = Held(t)
      <3>1. /\ runq'[t] = runq[t]
        BY <1>16 DEF UnlockBegin, TypeOK
      <3>2. Carried(t)' = Carried(t)
        BY <1>16 DEF UnlockBegin, Carried, TypeOK, StackInv
      <3>3. QED
        BY <3>1, <3>2 DEF Held
    <2>5. QED
      BY <2>1, <2>2, <2>3, <2>4, KeptBy
  <1>17. ASSUME NEW t \in Threads, WakeSleepers(t) PROVE NoneLost'
    <2>1. \A u \in Threads \ {t} : Held(u)' = Held(u)
      <3>1. \A u \in Threads \ {t} : /\ runq'[u] = runq[u] /\ cur'[u] = cur[u]
                                     /\ ctx'[u] = ctx[u] /\ pc'[u] = pc[u]
        BY <1>17 DEF WakeSleepers, TypeOK
      <3>2. QED
        BY <3>1, SameHeld
    <2>2. \A f \in Fibers : saved[f] = "done" => saved'[f] = "done"
      BY <1>17 DEF WakeSleepers
    <2>3. Range(wakeList \o runq[t]) = Range(wakeList) \cup Range(runq[t])
      BY Concat DEF TypeOK
    <2>4. /\ runq'[t] = wakeList \o runq[t] /\ cur'[t] = cur[t] /\ ctx'[t] = ctx[t]
          /\ pc[t] \in {"cs", "wake"} /\ pc'[t] \in {"cs", "release"}
      BY <1>17 DEF WakeSleepers, TypeOK
    <2>5. Held(t)' = Range(wakeList) \cup Held(t)
      BY <2>3, <2>4 DEF Held, Carried
    <2>6. Listed \subseteq Listed' \cup Range(wakeList)
      BY <1>17 DEF WakeSleepers, Listed
    <2>7. QED
      BY <2>1, <2>2, <2>5, <2>6, KeptBy
  <1>18. ASSUME NEW t \in Threads, UnlockEnd(t) PROVE NoneLost'
    <2>1. \A u \in Threads \ {t} : Held(u)' = Held(u)
      <3>1. \A u \in Threads \ {t} : /\ runq'[u] = runq[u] /\ cur'[u] = cur[u]
                                     /\ ctx'[u] = ctx[u] /\ pc'[u] = pc[u]
        BY <1>18 DEF UnlockEnd, TypeOK
      <3>2. QED
        BY <3>1, SameHeld
    <2>2. \A f \in Fibers : saved[f] = "done" => saved'[f] = "done"
      BY <1>18 DEF UnlockEnd
    <2>3. Listed' = Listed
      BY <1>18 DEF UnlockEnd, Listed
    <2>4. Held(t)' = Held(t)
      <3>1. /\ runq'[t] = runq[t]
        BY <1>18 DEF UnlockEnd, TypeOK
      <3>2. Carried(t)' = Carried(t)
        BY <1>18 DEF UnlockEnd, Carried, TypeOK, StackInv
      <3>3. QED
        BY <3>1, <3>2 DEF Held
    <2>5. QED
      BY <2>1, <2>2, <2>3, <2>4, KeptBy
  <1>19. ASSUME NEW t \in Threads, Wait(t) PROVE NoneLost'
    <2>1. \A u \in Threads \ {t} : Held(u)' = Held(u)
      <3>1. \A u \in Threads \ {t} : /\ runq'[u] = runq[u] /\ cur'[u] = cur[u]
                                     /\ ctx'[u] = ctx[u] /\ pc'[u] = pc[u]
        BY <1>19 DEF Wait, TypeOK
      <3>2. QED
        BY <3>1, SameHeld
    <2>2. \A f \in Fibers : saved[f] = "done" => saved'[f] = "done"
      BY <1>19 DEF Wait
    <2>3. cur[t] \in Fibers
      BY <1>19 DEF Wait, StackInv
    <2>4. Range(Append(condList, cur[t])) = {cur[t]} \cup Range(condList)
      BY <2>3, AppendOne DEF TypeOK
    <2>5. Listed' = Listed \cup {cur[t]}
      BY <1>19, <2>4 DEF Wait, Listed
    <2>6. Held(t) \subseteq Held(t)' \cup {cur[t]}
      BY <1>19 DEF Wait, Held, Carried
    <2>7. QED
      BY <2>1, <2>2, <2>5, <2>6, KeptBy
  <1>20. ASSUME NEW t \in Threads, SwitchCond(t) PROVE NoneLost'
    <2>1. \A u \in Threads \ {t} : Held(u)' = Held(u)
      <3>1. \A u \in Threads \ {t} : /\ runq'[u] = runq[u] /\ cur'[u] = cur[u]
                                     /\ ctx'[u] = ctx[u] /\ pc'[u] = pc[u]
        BY <1>20 DEF SwitchCond, TypeOK
      <3>2. QED
        BY <3>1, SameHeld
    <2>2. \A f \in Fibers : saved[f] = "done" => saved'[f] = "done"
      <3>1. cur[t] \in Fibers /\ saved[cur[t]] = "none"
        BY <1>20 DEF SwitchCond, StackInv
      <3>2. QED
        BY <1>20, <3>1 DEF SwitchCond, TypeOK
    <2>3. Listed' = Listed
      BY <1>20 DEF SwitchCond, Listed
    <2>4. Held(t)' = Held(t)
      <3>1. /\ runq'[t] = runq[t]
        BY <1>20 DEF SwitchCond, TypeOK
      <3>2. Carried(t)' = Carried(t)
        BY <1>20 DEF SwitchCond, Carried, TypeOK, StackInv
      <3>3. QED
        BY <3>1, <3>2 DEF Held
    <2>5. QED
      BY <2>1, <2>2, <2>3, <2>4, KeptBy
  <1>21. ASSUME NEW t \in Threads, NotifyOne(t) PROVE NoneLost'
    <2>1. \A u \in Threads \ {t} : Held(u)' = Held(u)
      <3>1. \A u \in Threads \ {t} : /\ runq'[u] = runq[u] /\ cur'[u] = cur[u]
                                     /\ ctx'[u] = ctx[u] /\ pc'[u] = pc[u]
        BY <1>21 DEF NotifyOne, TypeOK
      <3>2. QED
        BY <3>1, SameHeld
    <2>2. \A f \in Fibers : saved[f] = "done" => saved'[f] = "done"
      BY <1>21 DEF NotifyOne
    <2>3. /\ Head(condList) \in Fibers
          /\ Range(condList) = {Head(condList)} \cup Range(Tail(condList))
      BY <1>21, HeadTail DEF NotifyOne, TypeOK
    <2>4. Range(<<Head(condList)>> \o runq[t]) = {Head(condList)} \cup Range(runq[t])
      BY <2>3, PushOne DEF TypeOK
    <2>5. /\ runq'[t] = <<Head(condList)>> \o runq[t] /\ cur'[t] = cur[t]
          /\ ctx'[t] = ctx[t] /\ pc'[t] = pc[t]
      BY <1>21 DEF NotifyOne, TypeOK
    <2>6. Held(t)' = {Head(condList)} \cup Held(t)
      BY <2>4, <2>5 DEF Held, Carried
    <2>7. Listed \subseteq Listed' \cup {Head(condList)}
      BY <1>21, <2>3 DEF NotifyOne, Listed
    <2>8. QED
      BY <2>1, <2>2, <2>6, <2>7, KeptBy
  <1>22. ASSUME NEW t \in Threads, NotifyAll(t) PROVE NoneLost'
    <2>1. \A u \in Threads \ {t} : Held(u)' = Held(u)
      <3>1. \A u \in Threads \ {t} : /\ runq'[u] = runq[u] /\ cur'[u] = cur[u]
                                     /\ ctx'[u] = ctx[u] /\ pc'[u] = pc[u]
        BY <1>22 DEF NotifyAll, TypeOK
      <3>2. QED
        BY <3>1, SameHeld
    <2>2. \A f \in Fibers : saved[f] = "done" => saved'[f] = "done"
      BY <1>22 DEF NotifyAll
    <2>3. Range(condList \o runq[t]) = Range(condList) \cup Range(runq[t])
      BY Concat DEF TypeOK
    <2>4. /\ runq'[t] = condList \o runq[t] /\ cur'[t] = cur[t] /\ ctx'[t] = ctx[t]
          /\ pc[t] \in {"cs", "wake"} /\ pc'[t] \in {"cs", "release"}
      BY <1>22 DEF NotifyAll, TypeOK
    <2>5. Held(t)' = Range(condList) \cup Held(t)
      BY <2>3, <2>4 DEF Held, Carried
    <2>6. Listed \subseteq Listed' \cup Range(condList)
      BY <1>22 DEF NotifyAll, Listed
    <2>7. QED
      BY <2>1, <2>2, <2>5, <2>6, KeptBy
  <1>23. CASE UNCHANGED vars
    <2>1. Listed' = Listed /\ saved' = saved /\ \A u \in Threads : Held(u)' = Held(u)
      BY <1>23 DEF vars, Listed, Held, Carried
    <2>2. QED
      BY <2>1 DEF NoneLost
  <1>24. QED
    BY <1>1, <1>2, <1>3, <1>4, <1>5, <1>6, <1>7, <1>8, <1>9, <1>10, <1>11, <1>12, <1>13, <1>14, <1>15, <1>16, <1>17, <1>18, <1>19, <1>20, <1>21, <1>22, <1>23
    DEF Next, ThreadStep

(* A fiber that a thread carries is in no list, carried by no other thread *)
(* and has not exited.                                                     *)
LEMMA CarriedAlone ==
    ASSUME IInv, NEW f \in Fibers, NEW t \in Threads, f \in Carried(t)
    PROVE  /\ f \notin Listed
           /\ \A u \in Threads : f \notin Range(runq[u]) /\ (f \in Carried(u) => u = t)
           /\ saved[f] # "done"
  <1> USE DEF IInv
  <1>1. \A u \in Threads : f \in Carried(u) =>
          /\ f = cur[u]
          /\ \/ ctx[u] = "fiber" /\ pc[u] \notin {"switch_suspend", "switch_cond", "arm"}
             \/ ctx[u] = "parent" /\ pc[u] = "arm"
    BY DEF Carried, TypeOK, StackInv
  <1>2. CASE ctx[t] = "fiber" /\ pc[t] \notin {"switch_suspend", "switch_cond", "arm"}
    <2>1. saved[f] = "none" /\ f \notin Range(wakeList) \cup Range(condList)
      BY <1>1, <1>2 DEF StackInv, CarriedInv
    <2>2. f \notin armed /\ \A u \in Threads : f \notin Range(runq[u])
      BY <2>1 DEF SavedInv, RunnableIsSaved
    <2>3. ASSUME NEW u \in Threads, f \in Carried(u) PROVE u = t
      <3>1. pc[u] # "arm"
        BY <1>1, <2>1, <2>3 DEF StackInv
      <3>2. QED
        BY <1>1, <1>2, <2>3, <3>1 DEF StackInv
    <2>4. QED
      BY <2>1, <2>2, <2>3 DEF Listed
  <1>3. CASE ctx[t] = "parent" /\ pc[t] = "arm"
    <2>1. saved[f] \in {"run", "cs"} /\ f \notin Listed
      BY <1>1, <1>3 DEF StackInv, CarriedInv, Listed
    <2>2. \A u \in Threads : f \notin Range(runq[u])
      BY <1>1, <1>3 DEF CarriedInv
    <2>3. ASSUME NEW u \in Threads, f \in Carried(u) PROVE u = t
      <3>1. ctx[u] # "fiber"
        BY <1>1, <2>1, <2>3 DEF StackInv
      <3>2. QED
        BY <1>1, <1>3, <2>3, <3>1 DEF StackInv
    <2>4. QED
      BY <2>1, <2>2, <2>3
  <1>4. QED
    BY <1>1, <1>2, <1>3

(* What a place of a fiber says of the state.                              *)
LEMMA PlacesAre ==
    ASSUME NEW f, NEW p
    PROVE  p \in Places(f) <=>
             \/ \E t \in Threads : p = <<"carried", t>> /\ f \in Carried(t)
             \/ \E i \in DOMAIN wakeList : p = <<"wakeList", i>> /\ wakeList[i] = f
             \/ \E i \in DOMAIN condList : p = <<"condList", i>> /\ condList[i] = f
             \/ \E t \in Threads : \E i \in DOMAIN runq[t] :
                   p = <<"runq", t, i>> /\ runq[t][i] = f
             \/ p = <<"armed">> /\ f \in armed
  <1> DEFINE Q(t) == {<<"runq", t, i>> : i \in {j \in DOMAIN runq[t] : runq[t][j] = f}}
             A == {<<"carried", t>> : t \in {u \in Threads : f \in Carried(u)}}
             W == {<<"wakeList", i>> : i \in {j \in DOMAIN wakeList : wakeList[j] = f}}
             C == {<<"condList", i>> : i \in {j \in DOMAIN condList : condList[j] = f}}
             U == UNION {Q(t) : t \in Threads}
             E == IF f \in armed THEN {<<"armed">>} ELSE {}
  <1>1. p \in A <=> \E t \in Threads : p = <<"carried", t>> /\ f \in Carried(t)
    OBVIOUS
  <1>2. p \in W <=> \E i \in DOMAIN wakeList : p = <<"wakeList", i>> /\ wakeList[i] = f
    OBVIOUS
  <1>3. p \in C <=> \E i \in DOMAIN condList : p = <<"condList", i>> /\ condList[i] = f
    OBVIOUS
  <1>4. \A t \in Threads : p \in Q(t) <=>
          \E i \in DOMAIN runq[t] : p = <<"runq", t, i>> /\ runq[t][i] = f
    OBVIOUS
  <1>5. p \in U <=> \E t \in Threads : p \in Q(t)
    BY Zenon
  <1>6. p \in E <=> p = <<"armed">> /\ f \in armed
    OBVIOUS
  <1>7. Places(f) = A \cup W \cup C \cup U \cup E
    BY Zenon DEF Places
  <1> HIDE DEF A, W, C, Q, U, E
  <1>8. p \in Places(f) <=> p \in A \/ p \in W \/ p \in C \/ p \in U \/ p \in E
    BY <1>7, Zenon
  <1>9. QED
    BY <1>1, <1>2, <1>3, <1>4, <1>5, <1>6, <1>8, Zenon

(* A fiber is in one place at most, and in none once it has exited.        *)
LEMMA OnePlaceAtMost ==
    ASSUME IInv, NEW f \in Fibers
    PROVE  /\ \A p, q \in Places(f) : p = q
           /\ saved[f] = "done" => Places(f) = {}
  <1> USE DEF IInv
  <1>1. ASSUME NEW t \in Threads, f \in Carried(t)
        PROVE  /\ f \notin armed \cup Range(wakeList) \cup Range(condList)
               /\ \A u \in Threads : f \notin Range(runq[u]) /\ (f \in Carried(u) => u = t)
               /\ saved[f] # "done"
    BY <1>1, CarriedAlone DEF Listed
  <1>2. saved[f] = "done" =>
          /\ f \notin armed \cup Range(wakeList) \cup Range(condList)
          /\ \A t \in Threads : f \notin Range(runq[t])
    <2>1. saved[f] = "done" => f \notin armed /\ \A t \in Threads : f \notin Range(runq[t])
      BY DEF SavedInv, RunnableIsSaved
    <2>2. saved[f] = "done" => f \notin Range(wakeList) \cup Range(condList)
      BY DEF SavedInv, StackInv, OutsidePc
    <2>3. QED
      BY <2>1, <2>2
  <1>3. /\ \A i, j \in DOMAIN wakeList : wakeList[i] = wakeList[j] => i = j
        /\ \A i, j \in DOMAIN condList : condList[i] = condList[j] => i = j
        /\ \A t \in Threads : \A i, j \in DOMAIN runq[t] : runq[t][i] = runq[t][j] => i = j
    BY DEF DistinctInv, IsInjective
  <1>4. /\ \A i \in DOMAIN wakeList : wakeList[i] \in Range(wakeList)
        /\ \A i \in DOMAIN condList : condList[i] \in Range(condList)
        /\ \A t \in Threads : \A i \in DOMAIN runq[t] : runq[t][i] \in Range(runq[t])
    BY DEF Range
  <1>5. /\ f \in Range(wakeList) => f \notin Range(condList) \cup armed
        /\ f \in Range(condList) => f \notin armed
        /\ \A t \in Threads : f \in Range(runq[t]) =>
             /\ f \notin Range(wakeList) \cup Range(condList) \cup armed
             /\ \A u \in Threads : f \in Range(runq[u]) => u = t
    BY DEF DistinctInv
  <1>6. ASSUME NEW p \in Places(f)
        PROVE  \/ \E t \in Threads : p = <<"carried", t>> /\ f \in Carried(t)
               \/ \E i \in DOMAIN wakeList : p = <<"wakeList", i>> /\ wakeList[i] = f
               \/ \E i \in DOMAIN condList : p = <<"condList", i>> /\ condList[i] = f
               \/ \E t \in Threads : \E i \in DOMAIN runq[t] :
                     p = <<"runq", t, i>> /\ runq[t][i] = f
               \/ p = <<"armed">> /\ f \in armed
    BY PlacesAre, Zenon
  <1>7. ASSUME NEW p \in Places(f), NEW q \in Places(f) PROVE p = q
    <2>1. CASE \E t \in Threads : p = <<"carried", t>> /\ f \in Carried(t)
      BY <1>1, <1>4, <1>6, <2>1
    <2>2. CASE \E i \in DOMAIN wakeList : p = <<"wakeList", i>> /\ wakeList[i] = f
      BY <1>1, <1>3, <1>4, <1>5, <1>6, <2>2
    <2>3. CASE \E i \in DOMAIN condList : p = <<"condList", i>> /\ condList[i] = f
      BY <1>1, <1>3, <1>4, <1>5, <1>6, <2>3
    <2>4. CASE \E t \in Threads : \E i \in DOMAIN runq[t] :
                 p = <<"runq", t, i>> /\ runq[t][i] = f
      BY <1>1, <1>3, <1>4, <1>5, <1>6, <2>4
    <2>5. CASE p = <<"armed">> /\ f \in armed
      BY <1>1, <1>4, <1>5, <1>6, <2>5
    <2>6. QED
      BY <1>6, <2>1, <2>2, <2>3, <2>4, <2>5
  <1>8. ASSUME saved[f] = "done", NEW p \in Places(f) PROVE FALSE
    BY <1>1, <1>2, <1>4, <1>6, <1>8
  <1>9. QED
    BY <1>7, <1>8

(* A fiber that is not lost has a place.                                   *)
LEMMA SomePlace ==
    ASSUME NEW f, f \in Listed \/ \E t \in Threads : f \in Held(t)
    PROVE  \E p : p \in Places(f)
  <1>1. CASE f \in armed
    <2>1. <<"armed">> \in Places(f)
      BY <1>1, PlacesAre, Zenon
    <2>2. QED
      BY <2>1
  <1>2. CASE f \in Range(wakeList)
    <2>1. PICK i \in DOMAIN wakeList : wakeList[i] = f
      BY <1>2 DEF Range
    <2>2. <<"wakeList", i>> \in Places(f)
      BY <2>1, PlacesAre, Zenon
    <2>3. QED
      BY <2>2
  <1>3. CASE f \in Range(condList)
    <2>1. PICK i \in DOMAIN condList : condList[i] = f
      BY <1>3 DEF Range
    <2>2. <<"condList", i>> \in Places(f)
      BY <2>1, PlacesAre, Zenon
    <2>3. QED
      BY <2>2
  <1>4. ASSUME NEW t \in Threads, f \in Range(runq[t]) PROVE \E p : p \in Places(f)
    <2>1. PICK i \in DOMAIN runq[t] : runq[t][i] = f
      BY <1>4 DEF Range
    <2>2. <<"runq", t, i>> \in Places(f)
      BY <2>1, PlacesAre, Zenon
    <2>3. QED
      BY <2>2
  <1>5. ASSUME NEW t \in Threads, f \in Carried(t) PROVE \E p : p \in Places(f)
    <2>1. <<"carried", t>> \in Places(f)
      BY <1>5, PlacesAre, Zenon
    <2>2. QED
      BY <2>1
  <1>6. QED
    BY <1>1, <1>2, <1>3, <1>4, <1>5 DEF Listed, Held

(* No fiber is dropped and none is in two places, whatever the numbers of  *)
(* fibers and threads: until it exits, a fiber is run by one thread, about *)
(* to be armed, armed, or once in one of the lists linked by next_wake_.   *)
THEOREM FibersKept == Spec => []ExactlyOnePlace
  <1>1. Init => NoneLost
    BY DEF Init, NoneLost, Listed
  <1>2. IInv /\ NoneLost => ExactlyOnePlace
    <2> SUFFICES ASSUME IInv, NoneLost, NEW f \in Fibers
                 PROVE  Cardinality(Places(f)) = IF saved[f] = "done" THEN 0 ELSE 1
      BY DEF ExactlyOnePlace
    <2>1. CASE saved[f] = "done"
      <3>1. Places(f) = {}
        BY <2>1, OnePlaceAtMost
      <3>2. QED
        BY <2>1, <3>1, FS_EmptySet
    <2>2. CASE saved[f] # "done"
      <3>1. PICK p : p \in Places(f)
        BY <2>2, SomePlace DEF NoneLost
      <3>2. Places(f) = {p}
        BY <3>1, OnePlaceAtMost
      <3>3. Cardinality(Places(f)) = 1
        BY <3>2, FS_Singleton
      <3>4. QED
        BY <2>2, <3>3
    <2>3. QED
      BY <2>1, <2>2
  <1>3. QED
    BY <1>1, <1>2, Invariance, NoneLostStep, PTL DEF Spec

(* The fiber that is leaving the monitor in fiber_cond::wait is the last   *)
(* that joined the condition's list.                                       *)
TailInv ==
    \A t \in Threads : pc[t] = "switch_cond" \/ ParentUnlocks(t) =>
        condList # <<>> /\ condList[Len(condList)] = cur[t]

(* Dropping and adding the last element of a list are inverse.             *)
LEMMA LastOfList ==
    ASSUME NEW S, NEW s \in Seq(S)
    PROVE  /\ \A e \in S : /\ Append(s, e) # <<>>
                           /\ Append(s, e)[Len(Append(s, e))] = e
                           /\ SubSeq(Append(s, e), 1, Len(Append(s, e)) - 1) = s
           /\ s # <<>> => /\ Len(s) \in DOMAIN s
                          /\ s = Append(SubSeq(s, 1, Len(s) - 1), s[Len(s)])
  <1>1. ASSUME NEW e \in S
        PROVE  /\ Append(s, e) # <<>>
               /\ Append(s, e)[Len(Append(s, e))] = e
               /\ SubSeq(Append(s, e), 1, Len(Append(s, e)) - 1) = s
    <2>1. /\ Append(s, e) \in Seq(S) /\ Len(Append(s, e)) = Len(s) + 1 /\ Len(s) \in Nat
          /\ Append(s, e)[Len(s) + 1] = e
          /\ \A i \in 1..Len(s) : Append(s, e)[i] = s[i]
      BY AppendProperties, LenProperties
    <2>2. SubSeq(Append(s, e), 1, Len(s)) = s
      BY <2>1
    <2>3. QED
      BY <2>1, <2>2
  <1>2. ASSUME s # <<>>
        PROVE  /\ Len(s) \in DOMAIN s
               /\ s = Append(SubSeq(s, 1, Len(s) - 1), s[Len(s)])
    <2>1. Len(s) \in Nat \ {0} /\ DOMAIN s = 1..Len(s)
      BY <1>2, EmptySeq, LenProperties
    <2>2. QED
      BY <2>1
  <1>3. QED
    BY <1>1, <1>2

(* A fiber that is inside the monitor and not leaving it is in no list of  *)
(* waiters, so the monitor's waiters are the condition's list.             *)
LEMMA InsideQueue ==
    ASSUME IInv, NEW t \in Threads, pc[t] = "cs"
    PROVE  /\ holding = {cur[t]} /\ cur[t] \in Fibers
           /\ cur[t] \notin Range(condList)
           /\ MonitorQueue = condList
  <1> USE DEF IInv
  <1>1. holding = {cur[t]} /\ cur[t] \in Fibers /\ cur[t] \notin Range(condList)
    BY DEF HolderInv, MutualExclusion, StackInv, CarriedInv, TypeOK
  <1>2. condList # <<>> => condList[Len(condList)] \in Range(condList)
    BY LastOfList DEF TypeOK, Range
  <1>3. QED
    BY <1>1, <1>2 DEF MonitorQueue

(* Only a fiber inside the monitor changes the condition's list, and it is *)
(* then the only one that leaves.                                          *)
LEMMA TailStep == IInv /\ TailInv /\ [Next]_vars => TailInv'
  <1> SUFFICES ASSUME IInv, TailInv, [Next]_vars PROVE TailInv'
    OBVIOUS
  <1> USE DEF IInv, TailInv, ParentUnlocks
  <1>1. ASSUME NEW t \in Threads, NEW f \in Fibers, WakeAll(t, f)
        PROVE  TailInv'
    BY <1>1 DEF WakeAll, TypeOK, StackInv
  <1>2. ASSUME NEW t \in Threads, SwitchToFiber(t) PROVE TailInv'
    <2>1. Head(runq[t]) \in Fibers /\ Head(runq[t]) \in Range(runq[t])
      BY <1>2, HeadTail DEF SwitchToFiber, TypeOK
    <2>2. saved[Head(runq[t])] \in {"run", "lock", "cs"}
      BY <2>1 DEF SavedInv, RunnableIsSaved
    <2>3. QED
      BY <1>2, <2>1, <2>2 DEF SwitchToFiber, TypeOK
  <1>3. ASSUME NEW t \in Threads, EndWakeAll(t) PROVE TailInv'
    BY <1>3 DEF EndWakeAll, TypeOK, StackInv
  <1>4. ASSUME NEW t \in Threads, SuspendDone(t) PROVE TailInv'
    BY <1>4 DEF SuspendDone, TypeOK, StackInv
  <1>5. ASSUME NEW t \in Threads, Arm(t) PROVE TailInv'
    BY <1>5 DEF Arm, TypeOK, StackInv
  <1>6. ASSUME NEW t \in Threads, Sleep(t) PROVE TailInv'
    BY <1>6 DEF Sleep, TypeOK, StackInv
  <1>7. ASSUME NEW t \in Threads, CallLock(t) PROVE TailInv'
    BY <1>7 DEF CallLock, TypeOK, StackInv
  <1>8. ASSUME NEW t \in Threads, CallUnlock(t) PROVE TailInv'
    BY <1>8 DEF CallUnlock, TypeOK, StackInv
  <1>9. ASSUME NEW t \in Threads, Exit(t) PROVE TailInv'
    BY <1>9 DEF Exit, TypeOK, StackInv
  <1>10. ASSUME NEW t \in Threads, LockAcquired(t) PROVE TailInv'
    BY <1>10 DEF LockAcquired, TypeOK, StackInv
  <1>11. ASSUME NEW t \in Threads, LockContended(t) PROVE TailInv'
    BY <1>11 DEF LockContended, TypeOK, StackInv
  <1>12. ASSUME NEW t \in Threads, LockBusy(t) PROVE TailInv'
    BY <1>12 DEF LockBusy, TypeOK, StackInv
  <1>13. ASSUME NEW t \in Threads, Backoff(t) PROVE TailInv'
    BY <1>13 DEF Backoff, TypeOK, StackInv
  <1>14. ASSUME NEW t \in Threads, SleepTillWoken(t) PROVE TailInv'
    BY <1>14 DEF SleepTillWoken, TypeOK, StackInv
  <1>15. ASSUME NEW t \in Threads, SwitchSuspend(t) PROVE TailInv'
    BY <1>15 DEF SwitchSuspend, TypeOK, StackInv
  <1>16. ASSUME NEW t \in Threads, UnlockBegin(t) PROVE TailInv'
    BY <1>16 DEF UnlockBegin, TypeOK, StackInv
  <1>17. ASSUME NEW t \in Threads, WakeSleepers(t) PROVE TailInv'
    BY <1>17 DEF WakeSleepers, TypeOK, StackInv
  <1>18. ASSUME NEW t \in Threads, UnlockEnd(t) PROVE TailInv'
    BY <1>18 DEF UnlockEnd, TypeOK, StackInv
  <1>19. ASSUME NEW t \in Threads, Wait(t) PROVE TailInv'
    <2>1. cur[t] \in Fibers /\ \A u \in Threads : pc[u] \in HoldingPc => u = t
      BY <1>19 DEF Wait, HolderInv, StackInv
    <2>2. condList' # <<>> /\ condList'[Len(condList')] = cur[t]
      <3>1. /\ Append(condList, cur[t]) # <<>>
            /\ Append(condList, cur[t])[Len(Append(condList, cur[t]))] = cur[t]
        BY <2>1, LastOfList DEF TypeOK
      <3>2. condList' = Append(condList, cur[t])
        BY <1>19 DEF Wait
      <3>3. QED
        BY <3>1, <3>2, Zenon
    <2>3. QED
      BY <1>19, <2>1, <2>2 DEF Wait, TypeOK
  <1>20. ASSUME NEW t \in Threads, SwitchCond(t) PROVE TailInv'
    BY <1>20 DEF SwitchCond, TypeOK, StackInv
  <1>21. ASSUME NEW t \in Threads, NotifyOne(t) PROVE TailInv'
    BY <1>21 DEF NotifyOne, HolderInv
  <1>22. ASSUME NEW t \in Threads, NotifyAll(t) PROVE TailInv'
    BY <1>22 DEF NotifyAll, HolderInv
  <1>23. CASE UNCHANGED vars
    BY <1>23 DEF vars
  <1>24. QED
    BY <1>1, <1>2, <1>3, <1>4, <1>5, <1>6, <1>7, <1>8, <1>9, <1>10, <1>11, <1>12, <1>13, <1>14, <1>15, <1>16, <1>17, <1>18, <1>19, <1>20, <1>21, <1>22, <1>23
    DEF Next, ThreadStep

(* Every step of the mutex and the condition is a step of the monitor, or  *)
(* leaves it as it is.                                                     *)
LEMMA MonitorStep ==
    IInv /\ TailInv /\ [Next]_vars => [Monitor!Next]_Monitor!vars
  <1> SUFFICES ASSUME IInv, TailInv, [Next]_vars
               PROVE  [Monitor!Next]_Monitor!vars
    OBVIOUS
  <1> USE DEF IInv
  <1>0. (holding' = holding /\ condList' = condList) => [Monitor!Next]_Monitor!vars
    BY DEF Monitor!vars, MonitorQueue
  <1>1. ASSUME NEW t \in Threads, NEW f \in Fibers, WakeAll(t, f)
        PROVE  [Monitor!Next]_Monitor!vars
    BY <1>1, <1>0 DEF WakeAll
  <1>2. ASSUME NEW t \in Threads, SwitchToFiber(t)
        PROVE  [Monitor!Next]_Monitor!vars
    BY <1>2, <1>0 DEF SwitchToFiber
  <1>3. ASSUME NEW t \in Threads, EndWakeAll(t)
        PROVE  [Monitor!Next]_Monitor!vars
    BY <1>3, <1>0 DEF EndWakeAll
  <1>4. ASSUME NEW t \in Threads, SuspendDone(t)
        PROVE  [Monitor!Next]_Monitor!vars
    BY <1>4, <1>0 DEF SuspendDone
  <1>5. ASSUME NEW t \in Threads, Arm(t)
        PROVE  [Monitor!Next]_Monitor!vars
    BY <1>5, <1>0 DEF Arm
  <1>6. ASSUME NEW t \in Threads, Sleep(t)
        PROVE  [Monitor!Next]_Monitor!vars
    BY <1>6, <1>0 DEF Sleep
  <1>7. ASSUME NEW t \in Threads, CallLock(t)
        PROVE  [Monitor!Next]_Monitor!vars
    BY <1>7, <1>0 DEF CallLock
  <1>8. ASSUME NEW t \in Threads, CallUnlock(t)
        PROVE  [Monitor!Next]_Monitor!vars
    BY <1>8, <1>0 DEF CallUnlock
  <1>9. ASSUME NEW t \in Threads, Exit(t)
        PROVE  [Monitor!Next]_Monitor!vars
    BY <1>9, <1>0 DEF Exit
  <1>10. ASSUME NEW t \in Threads, LockAcquired(t)
        PROVE  [Monitor!Next]_Monitor!vars
    <2>1. cur[t] \in Fibers /\ cur[t] \notin Range(condList)
      BY <1>10 DEF LockAcquired, StackInv, CarriedInv
    <2>2. holding = {}
      BY <1>10, BackersFinite DEF LockAcquired, CountInv
    <2>3. condList # <<>> => condList[Len(condList)] \in Range(condList)
      BY LastOfList DEF TypeOK, Range
    <2>4. MonitorQueue = condList /\ MonitorQueue' = condList /\ holding' = {cur[t]}
      BY <1>10, <2>1, <2>2, <2>3 DEF LockAcquired, MonitorQueue
    <2>5. Monitor!Enter(cur[t])
      BY <2>1, <2>2, <2>4 DEF Monitor!Enter, Monitor!Waiting, Range
    <2>6. QED
      BY <2>1, <2>5 DEF Monitor!Next
  <1>11. ASSUME NEW t \in Threads, LockContended(t)
        PROVE  [Monitor!Next]_Monitor!vars
    BY <1>11, <1>0 DEF LockContended
  <1>12. ASSUME NEW t \in Threads, LockBusy(t)
        PROVE  [Monitor!Next]_Monitor!vars
    BY <1>12, <1>0 DEF LockBusy
  <1>13. ASSUME NEW t \in Threads, Backoff(t)
        PROVE  [Monitor!Next]_Monitor!vars
    BY <1>13, <1>0 DEF Backoff
  <1>14. ASSUME NEW t \in Threads, SleepTillWoken(t)
        PROVE  [Monitor!Next]_Monitor!vars
    BY <1>14, <1>0 DEF SleepTillWoken
  <1>15. ASSUME NEW t \in Threads, SwitchSuspend(t)
        PROVE  [Monitor!Next]_Monitor!vars
    BY <1>15, <1>0 DEF SwitchSuspend
  <1>16. ASSUME NEW t \in Threads, UnlockBegin(t)
        PROVE  [Monitor!Next]_Monitor!vars
    BY <1>16, <1>0 DEF UnlockBegin
  <1>17. ASSUME NEW t \in Threads, WakeSleepers(t)
        PROVE  [Monitor!Next]_Monitor!vars
    BY <1>17, <1>0 DEF WakeSleepers
  <1>18. ASSUME NEW t \in Threads, UnlockEnd(t)
        PROVE  [Monitor!Next]_Monitor!vars
    <2>1. holding = {cur[t]} /\ cur[t] \in Fibers /\ holding' = {}
      BY <1>18 DEF UnlockEnd, HolderInv, MutualExclusion, StackInv, TypeOK
    <2>2. MonitorQueue' = condList
      BY <1>18, <2>1 DEF UnlockEnd, MonitorQueue
    <2>3. condList # <<>> => condList[Len(condList)] \in Range(condList)
      BY LastOfList DEF TypeOK, Range
    <2>4. CASE ctx[t] = "fiber"
      <3>1. cur[t] \notin Range(condList)
        BY <1>18, <2>4 DEF UnlockEnd, CarriedInv
      <3>2. MonitorQueue = condList
        BY <2>1, <2>3, <3>1 DEF MonitorQueue
      <3>3. Monitor!Leave(cur[t])
        BY <2>1, <2>2, <3>2 DEF Monitor!Leave
      <3>4. QED
        BY <2>1, <3>3 DEF Monitor!Next
    <2>5. CASE ctx[t] = "parent"
      <3>1. condList # <<>> /\ condList[Len(condList)] = cur[t]
        BY <1>18, <2>5 DEF UnlockEnd, TailInv, ParentUnlocks
      <3>2. MonitorQueue = SubSeq(condList, 1, Len(condList) - 1)
        BY <2>1, <3>1 DEF MonitorQueue
      <3>3. condList = Append(MonitorQueue, cur[t])
        BY <3>1, <3>2, LastOfList DEF TypeOK
      <3>4. Monitor!Wait(cur[t])
        BY <2>1, <2>2, <3>3 DEF Monitor!Wait
      <3>5. QED
        BY <2>1, <3>4 DEF Monitor!Next
    <2>6. QED
      BY <2>4, <2>5 DEF TypeOK
  <1>19. ASSUME NEW t \in Threads, Wait(t)
        PROVE  [Monitor!Next]_Monitor!vars
    <2>1. holding = {cur[t]} /\ cur[t] \in Fibers /\ MonitorQueue = condList
      BY <1>19, InsideQueue DEF Wait
    <2>2. condList' = Append(condList, cur[t]) /\ holding' = holding
      BY <1>19 DEF Wait
    <2>3. MonitorQueue' = condList
      BY <2>1, <2>2, LastOfList DEF TypeOK, MonitorQueue
    <2>4. QED
      BY <2>1, <2>2, <2>3 DEF Monitor!vars
  <1>20. ASSUME NEW t \in Threads, SwitchCond(t)
        PROVE  [Monitor!Next]_Monitor!vars
    BY <1>20, <1>0 DEF SwitchCond
  <1>21. ASSUME NEW t \in Threads, NotifyOne(t)
        PROVE  [Monitor!Next]_Monitor!vars
    <2>1. holding = {cur[t]} /\ cur[t] \notin Range(condList) /\ MonitorQueue = condList
      BY <1>21, InsideQueue DEF NotifyOne
    <2>2. condList # <<>> /\ condList' = Tail(condList) /\ holding' = holding
      BY <1>21 DEF NotifyOne
    <2>3. condList' \in Seq(Fibers) /\ Range(condList') \subseteq Range(condList)
      BY <2>2, HeadTail DEF TypeOK
    <2>4. condList' # <<>> => condList'[Len(condList')] \in Range(condList')
      BY <2>3, LastOfList DEF Range
    <2>5. MonitorQueue' = condList'
      BY <2>1, <2>2, <2>3, <2>4 DEF MonitorQueue
    <2>6. Monitor!NotifyOne
      BY <2>1, <2>2, <2>5 DEF Monitor!NotifyOne
    <2>7. QED
      BY <2>6 DEF Monitor!Next
  <1>22. ASSUME NEW t \in Threads, NotifyAll(t)
        PROVE  [Monitor!Next]_Monitor!vars
    <2>1. holding = {cur[t]} /\ MonitorQueue = condList
      BY <1>22, InsideQueue DEF NotifyAll
    <2>2. condList' = <<>> /\ holding' = holding
      BY <1>22 DEF NotifyAll
    <2>3. MonitorQueue' = <<>>
      BY <2>2 DEF MonitorQueue
    <2>4. Monitor!NotifyAll
      BY <2>1, <2>2, <2>3 DEF Monitor!NotifyAll
    <2>5. QED
      BY <2>4 DEF Monitor!Next
  <1>23. CASE UNCHANGED vars
    BY <1>23, <1>0 DEF vars
  <1>24. QED
    BY <1>1, <1>2, <1>3, <1>4, <1>5, <1>6, <1>7, <1>8, <1>9, <1>10, <1>11, <1>12, <1>13, <1>14, <1>15, <1>16, <1>17, <1>18, <1>19, <1>20, <1>21, <1>22, <1>23
    DEF Next, ThreadStep

(* fiber_mutex and fiber_cond implement the monitor of FiberMonitor, for   *)
(* any fibers and threads: lock enters it, unlock leaves it, and wait      *)
(* leaves it and joins the waiters in the one step in which the parent     *)
(* gives up the mutex, so no notification falls in between.                *)
THEOREM ImplementsMonitor == Spec => MonitorSpec
  <1>1. Init => Monitor!Init /\ TailInv
    BY DEF Init, Monitor!Init, MonitorQueue, TailInv, ParentUnlocks
  <1>2. QED
    BY <1>1, Invariance, TailStep, MonitorStep, PTL
    DEF Spec, MonitorSpec, Monitor!Spec
=============================================================================
