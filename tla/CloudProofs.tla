---------------------------- MODULE CloudProofs ----------------------------
(***************************************************************************)
(* Proofs about the parts that use AWS: the listener of a queue, the calls *)
(* that aws_throttle makes, and the metadata and clients of aws_client.    *)
(***************************************************************************)
EXTENDS MCCloud, FiniteSetTheorems, TLAPS

-----------------------------------------------------------------------------
(* aws_throttle.                                                           *)

CallTypeOK ==
    /\ awKind \in {"unique", "many", "taken"}
    /\ awPc \in [AwClients -> {"idle", "wait", "call", "check", "done", "ignored", "threw"}]
    /\ awOut \in [AwClients -> {"none", "timeout", "not_made", "busy", "ok", "exists"}]
    /\ awTries \in [AwClients -> 0..AwMaxRetries] /\ awBacks \in [AwClients -> Nat]
    /\ awMade \in [AwClients -> Nat]

(* Whoever was told that the resource was made, or is there, was told the  *)
(* truth.                                                                  *)
CallTrue == \A c \in AwClients :
    /\ awOut[c] = "ok" \/ awPc[c] = "done" => awMade[c] > 0
    /\ (awOut[c] = "exists" \/ awPc[c] = "ignored") /\ awKind # "taken" =>
          \E d \in AwClients : awMade[d] > 0

(* No more were made for a caller than requests were sent, the one that is *)
(* on its way not counted.                                                 *)
CallCount == \A c \in AwClients :
    /\ awMade[c] <= Sendings(c)
    /\ awPc[c] \in {"idle", "wait", "call"} => awMade[c] < Sendings(c)

CallInv == CallTypeOK /\ CallTrue /\ CallCount

LEMMA SendingsIs ==
    ASSUME CallTypeOK, NEW c \in AwClients
    PROVE  /\ Sendings(c) \in Nat
           /\ (awBacks[c] + 1) * (AwMaxRetries + 1) + 1 > Sendings(c)
<1>1. AwMaxRetries \in Nat /\ awBacks[c] \in Nat /\ awTries[c] \in 0..AwMaxRetries
  BY AwAssumption DEF AwAssumption, CallTypeOK
<1> DEFINE n == AwMaxRetries + 1
           b == awBacks[c]
<1>2. b * n \in Nat /\ (b + 1) * n = b * n + n
  BY <1>1
<1>3. Sendings(c) = b * n + awTries[c] + 1
  BY DEF Sendings
<1> QED BY <1>1, <1>2, <1>3

(* A request makes one at most, and its answer says whether it did.        *)
LEMMA Makes ==
    ASSUME CallTypeOK, NEW c \in AwClients, Making(c) \/ awMade' = awMade
    PROVE  /\ awMade' \in [AwClients -> Nat] /\ awMade'[c] <= awMade[c] + 1
           /\ \A d \in AwClients : awMade[d] <= awMade'[d] /\ (d # c => awMade'[d] = awMade[d])
           /\ awMade' # awMade => awMade'[c] > 0
           /\ Making(c) /\ awMade' = awMade /\ awKind # "taken" =>
                 \E d \in AwClients : awMade'[d] > 0
<1>1. CASE awMade' = awMade /\ ~Making(c)
  BY <1>1 DEF CallTypeOK
<1>2. CASE awMade' = awMade /\ (awKind = "taken" \/ \E d \in AwClients : awMade[d] > 0)
  BY <1>2 DEF CallTypeOK
<1>3. CASE awMade' = [awMade EXCEPT ![c] = @ + 1]
  BY <1>3 DEF CallTypeOK
<1> QED BY <1>1, <1>2, <1>3 DEF Making

(* The end of a request, answered or not.                                  *)
LEMMA RequestEnds ==
    ASSUME CallInv, NEW c \in AwClients, awPc[c] = "call", Making(c) \/ awMade' = awMade,
           awPc' = [awPc EXCEPT ![c] = "check"],
           NEW out \in {"timeout", "not_made", "busy", "ok", "exists"},
           awOut' = [awOut EXCEPT ![c] = out],
           out = "ok" => awMade' # awMade,
           out = "exists" => Making(c) /\ awMade' = awMade,
           UNCHANGED <<awKind, awTries, awBacks>>
    PROVE  CallInv'
<1>1. /\ awMade' \in [AwClients -> Nat] /\ awMade'[c] <= awMade[c] + 1
      /\ \A d \in AwClients : awMade[d] <= awMade'[d] /\ (d # c => awMade'[d] = awMade[d])
      /\ awMade' # awMade => awMade'[c] > 0
      /\ Making(c) /\ awMade' = awMade /\ awKind # "taken" =>
            \E d \in AwClients : awMade'[d] > 0
  BY Makes DEF CallInv
<1>2. CallTypeOK'
  BY <1>1 DEF CallInv, CallTypeOK
<1>3. CallTrue'
  <2> SUFFICES ASSUME NEW d \in AwClients
               PROVE  /\ awOut'[d] = "ok" \/ awPc'[d] = "done" => awMade'[d] > 0
                      /\ (awOut'[d] = "exists" \/ awPc'[d] = "ignored") /\ awKind' # "taken" =>
                            \E e \in AwClients : awMade'[e] > 0
    BY DEF CallTrue
  <2>1. CASE d = c
    BY <1>1, <2>1 DEF CallInv, CallTypeOK
  <2>2. CASE d # c
    <3>1. awOut'[d] = awOut[d] /\ awPc'[d] = awPc[d]
      BY <2>2 DEF CallInv, CallTypeOK
    <3>2. \A e \in AwClients : awMade[e] > 0 => awMade'[e] > 0
      BY <1>1 DEF CallInv, CallTypeOK
    <3> QED BY <3>1, <3>2 DEF CallInv, CallTrue
  <2> QED BY <2>1, <2>2
<1>4. CallCount'
  <2> SUFFICES ASSUME NEW d \in AwClients
               PROVE  /\ awMade'[d] <= Sendings(d)'
                      /\ awPc'[d] \in {"idle", "wait", "call"} => awMade'[d] < Sendings(d)'
    BY DEF CallCount
  <2>1. Sendings(d)' = Sendings(d) /\ Sendings(d) \in Nat
    BY SendingsIs DEF Sendings, CallInv
  <2>2. /\ awMade[d] \in Nat /\ awMade'[d] \in Nat /\ awMade[d] <= Sendings(d)
        /\ awPc[d] \in {"idle", "wait", "call"} => awMade[d] < Sendings(d)
    BY <1>1 DEF CallInv, CallTypeOK, CallCount
  <2>3. CASE d = c
    <3>1. awPc'[d] = "check" /\ awMade'[d] <= awMade[d] + 1 /\ awPc[d] = "call"
      BY <1>1, <2>3 DEF CallInv, CallTypeOK
    <3> QED BY <2>1, <2>2, <3>1
  <2>4. CASE d # c
    <3>1. awPc'[d] = awPc[d] /\ awMade'[d] = awMade[d]
      BY <1>1, <2>4 DEF CallInv, CallTypeOK
    <3> QED BY <2>1, <2>2, <3>1
  <2> QED BY <2>3, <2>4
<1> QED BY <1>2, <1>3, <1>4 DEF CallInv

(* Steps that end no request and leave the counts alone.                   *)
LEMMA CallGoesOn ==
    ASSUME CallInv, NEW c \in AwClients, UNCHANGED <<awKind, awOut, awTries, awBacks, awMade>>,
           \/ awPc' = awPc
           \/ awPc[c] = "idle" /\ awPc' = [awPc EXCEPT ![c] = "wait"]
           \/ awPc[c] = "wait" /\ awPc' = [awPc EXCEPT ![c] = "call"]
    PROVE  CallInv'
<1>1. CallTypeOK'
  BY DEF CallInv, CallTypeOK
<1>2. CallTrue'
  BY DEF CallInv, CallTypeOK, CallTrue
<1>3. CallCount'
  <2>1. \A d \in AwClients : Sendings(d)' = Sendings(d)
    BY DEF Sendings
  <2> QED BY <2>1 DEF CallInv, CallTypeOK, CallCount
<1> QED BY <1>1, <1>2, <1>3 DEF CallInv

(* aws_check and the retries.                                              *)
LEMMA CheckStep ==
    ASSUME CallInv, NEW c \in AwClients, Check(c)
    PROVE  CallInv'
<1> DEFINE Retry == /\ ShouldRetry(c) /\ awPc' = [awPc EXCEPT ![c] = "call"] /\ awBacks' = awBacks
                    /\ awTries' = [awTries EXCEPT ![c] = @ + 1]
           Ends == /\ Classify(awOut[c]) # "throttled" /\ UNCHANGED <<awTries, awBacks>>
                   /\ awPc' = [awPc EXCEPT ![c] = Classify(awOut[c])]
           Backs == /\ \E l \in {"wait", "threw"} : awPc' = [awPc EXCEPT ![c] = l]
                    /\ awBacks' = [awBacks EXCEPT ![c] = @ + 1]
                    /\ awTries' = [awTries EXCEPT ![c] = 0]
<1>a. CallTypeOK /\ CallTrue /\ CallCount /\ AwMaxRetries \in Nat
  BY AwAssumption DEF CallInv, AwAssumption
<1>1. awPc[c] = "check" /\ UNCHANGED <<awKind, awMade>> /\ awOut' = [awOut EXCEPT ![c] = "none"]
  BY DEF Check
<1>2. Retry \/ Ends \/ Backs
  <2>1. ShouldRetry(c) => [awTries EXCEPT ![c] = IF @ < AwMaxRetries THEN @ + 1 ELSE @]
                            = [awTries EXCEPT ![c] = @ + 1]
    BY DEF ShouldRetry
  <2> QED BY <2>1 DEF Check
<1>3. /\ Classify(awOut[c]) \in {"done", "throttled", "ignored", "threw"}
      /\ Classify(awOut[c]) = "done" => awOut[c] = "ok"
      /\ Classify(awOut[c]) = "ignored" => awOut[c] = "exists"
  BY DEF Classify, GenericRetry, IsIgnorableDuplicate
<1>4. CallTypeOK'
  <2>1. ShouldRetry(c) => awTries[c] + 1 \in 0..AwMaxRetries
    BY <1>a DEF ShouldRetry, CallTypeOK
  <2>2. CASE Retry
    BY <1>a, <1>1, <2>1, <2>2 DEF CallTypeOK
  <2>3. CASE Ends
    BY <1>a, <1>1, <1>3, <2>3 DEF CallTypeOK
  <2>4. CASE Backs
    BY <1>a, <1>1, <2>4 DEF CallTypeOK
  <2> QED BY <1>2, <2>2, <2>3, <2>4
<1>5. CallTrue'
  <2>1. \E l \in {"call", "wait", "threw", Classify(awOut[c])} : awPc' = [awPc EXCEPT ![c] = l]
    BY <1>2
  <2> QED BY <1>a, <1>1, <1>3, <2>1 DEF CallTrue, CallTypeOK
<1>6. CallCount'
  <2> SUFFICES ASSUME NEW d \in AwClients
               PROVE  /\ awMade'[d] <= Sendings(d)'
                      /\ awPc'[d] \in {"idle", "wait", "call"} => awMade'[d] < Sendings(d)'
    BY DEF CallCount
  <2>1. /\ Sendings(d) \in Nat /\ awMade[d] \in Nat /\ awMade[d] <= Sendings(d)
        /\ awPc[d] \in {"idle", "wait", "call"} => awMade[d] < Sendings(d)
    BY <1>a, SendingsIs DEF CallCount, CallTypeOK
  <2>2. CASE d # c
    <3>1. awBacks'[d] = awBacks[d] /\ awTries'[d] = awTries[d] /\ awPc'[d] = awPc[d]
      BY <1>a, <1>2, <2>2 DEF CallTypeOK
    <3>2. Sendings(d)' = Sendings(d)
      BY <3>1 DEF Sendings
    <3> QED BY <1>1, <2>1, <3>1, <3>2
  <2>3. CASE d = c /\ Retry
    <3>1. Sendings(d)' = Sendings(d) + 1
      <4>1. awTries'[c] = awTries[c] + 1 /\ awBacks' = awBacks /\ awTries[c] \in Nat
        BY <1>a, <2>3 DEF CallTypeOK
      <4>2. awBacks[c] * (AwMaxRetries + 1) \in Nat
        BY <1>a DEF CallTypeOK
      <4> QED BY <2>3, <4>1, <4>2 DEF Sendings
    <3> QED BY <1>1, <2>1, <3>1
  <2>4. CASE d = c /\ Ends
    <3>1. Sendings(d)' = Sendings(d)
      BY <2>4 DEF Sendings
    <3>2. awPc'[d] = Classify(awOut[c])
      BY <1>a, <2>4 DEF CallTypeOK
    <3> QED BY <1>1, <1>3, <2>1, <3>1, <3>2
  <2>5. CASE d = c /\ Backs
    <3>1. Sendings(d)' = (awBacks[c] + 1) * (AwMaxRetries + 1) + 1
      <4>1. awTries'[c] = 0 /\ awBacks'[c] = awBacks[c] + 1 /\ awBacks[c] \in Nat
        BY <1>a, <2>5 DEF CallTypeOK
      <4> DEFINE p == (awBacks[c] + 1) * (AwMaxRetries + 1)
      <4>2. p \in Nat
        BY <1>a, <4>1
      <4>3. Sendings(d)' = p + 0 + 1
        BY <2>5, <4>1 DEF Sendings
      <4> HIDE DEF p
      <4>4. Sendings(d)' = p + 1
        BY <4>2, <4>3
      <4> QED BY <4>4 DEF p
    <3>2. (awBacks[c] + 1) * (AwMaxRetries + 1) + 1 > Sendings(c)
      BY <1>a, SendingsIs
    <3>3. (awBacks[c] + 1) * (AwMaxRetries + 1) + 1 \in Nat
      BY <1>a DEF CallTypeOK
    <3>4. Sendings(d)' \in Nat /\ Sendings(d)' > Sendings(d)
      BY <2>5, <3>1, <3>2, <3>3
    <3> HIDE DEF Backs
    <3>5. awMade'[d] = awMade[d]
      BY <1>1
    <3> QED BY <2>1, <3>4, <3>5
  <2> QED BY <1>2, <2>2, <2>3, <2>4, <2>5
<1> QED BY <1>4, <1>5, <1>6 DEF CallInv

(* Every step of aws_throttle keeps CallInv.                               *)
LEMMA CallStep == CallInv /\ [AwNext]_awVars => CallInv'
<1> SUFFICES ASSUME CallInv, [AwNext]_awVars PROVE CallInv'
  OBVIOUS
<1>0. CASE UNCHANGED awVars \/ SecondPasses
  <2>1. UNCHANGED <<awKind, awPc, awOut, awTries, awBacks, awMade>>
    BY <1>0 DEF awVars, SecondPasses
  <2>2. \A d \in AwClients : Sendings(d)' = Sendings(d)
    BY <2>1 DEF Sendings
  <2> QED BY <2>1, <2>2 DEF CallInv, CallTypeOK, CallTrue, CallCount
<1>1. ASSUME NEW c \in AwClients, Throttle(c) \/ Call(c) PROVE CallInv'
  BY <1>1, CallGoesOn DEF Throttle, Call
<1>2. ASSUME NEW c \in AwClients, (Thrown(c, awLost, {}) /\ awMade' = awMade) \/ Lose(c), awPc[c] = "call"
      PROVE  CallInv'
  <2>1. PICK out \in {"timeout", "not_made"} : awOut' = [awOut EXCEPT ![c] = out]
    BY <1>2 DEF Lose, Thrown
  <2>2. /\ awPc' = [awPc EXCEPT ![c] = "check"] /\ UNCHANGED <<awKind, awTries, awBacks>>
        /\ Making(c) \/ awMade' = awMade
    BY <1>2 DEF Lose, Thrown
  <2> QED BY <1>2, <2>1, <2>2, RequestEnds
<1>3. ASSUME NEW c \in AwClients, PickEndpoint(c) PROVE CallInv'
  <2>1. awPc[c] = "call" /\ awMade' = awMade
    BY <1>3 DEF PickEndpoint
  <2>2. CASE UNCHANGED <<awKind, awLimit, awLeft, awPc, awOut, awTries, awBacks, awLost, awErr>>
    BY <2>1, <2>2, CallGoesOn
  <2>3. CASE Thrown(c, awLost, {})
    BY <1>2, <2>1, <2>3
  <2> QED BY <1>3, <2>2, <2>3 DEF PickEndpoint
<1>4. ASSUME NEW c \in AwClients, Connect(c) PROVE CallInv'
  <2>1. awPc[c] = "call" /\ awMade' = awMade
    BY <1>4 DEF Connect
  <2>2. CASE UNCHANGED <<awKind, awLimit, awLeft, awPc, awOut, awTries, awBacks>>
    BY <2>1, <2>2, CallGoesOn
  <2>3. CASE \E lost, erased : Thrown(c, lost, erased)
    <3>1. PICK out \in {"timeout", "not_made"} : awOut' = [awOut EXCEPT ![c] = out]
      BY <2>3 DEF Thrown
    <3>2. awPc' = [awPc EXCEPT ![c] = "check"] /\ UNCHANGED <<awKind, awTries, awBacks>>
      BY <2>3 DEF Thrown
    <3> QED BY <2>1, <3>1, <3>2, RequestEnds
  <2> QED BY <1>4, <2>2, <2>3 DEF Connect
<1>5. ASSUME NEW c \in AwClients, Respond(c) PROVE CallInv'
  <2>1. /\ awPc[c] = "call" /\ awPc' = [awPc EXCEPT ![c] = "check"]
        /\ UNCHANGED <<awKind, awTries, awBacks>>
    BY <1>5 DEF Respond
  <2>2. CASE Making(c) /\ awOut' = [awOut EXCEPT ![c] = IF awMade' = awMade THEN "exists" ELSE "ok"]
    <3>1. CASE awMade' = awMade
      BY <2>1, <2>2, <3>1, RequestEnds
    <3>2. CASE awMade' # awMade
      BY <2>1, <2>2, <3>2, RequestEnds
    <3> QED BY <3>1, <3>2
  <2>3. CASE awMade' = awMade /\ awOut' = [awOut EXCEPT ![c] = "busy"]
    BY <2>1, <2>3, RequestEnds
  <2> QED BY <1>5, <2>2, <2>3 DEF Respond
<1>6. ASSUME NEW c \in AwClients, Lose(c) PROVE CallInv'
  BY <1>2, <1>6 DEF Lose
<1> QED BY <1>0, <1>1, <1>3, <1>4, <1>5, <1>6, CheckStep DEF AwNext, ClientStep

LEMMA CallStart == AwInit => CallInv
<1> SUFFICES ASSUME AwInit PROVE CallInv
  OBVIOUS
<1>1. CallTypeOK
  BY AwAssumption DEF AwAssumption, AwInit, CallTypeOK
<1>2. CallTrue
  BY DEF AwInit, CallTrue
<1>3. \A c \in AwClients : Sendings(c) = 1
  BY AwAssumption DEF AwAssumption, AwInit, Sendings
<1> QED BY <1>1, <1>2, <1>3 DEF AwInit, CallInv, CallCount

(* For any number of fibers, any limits, and whatever requests, connections*)
(* and answers are lost: who is told that the resource was made, or that   *)
(* the error may be ignored, is told the truth, and no retry makes more    *)
(* than one.                                                               *)
THEOREM CallsAreExact == AwSpec => []CallsExact
<1>1. CallInv => CallsExact
  BY DEF CallInv, CallTrue, CallCount, CallsExact
<1> QED BY <1>1, CallStart, CallStep, PTL DEF AwSpec

-----------------------------------------------------------------------------
(* The listener.                                                           *)

Fibers == {m \in SqMsgs : sqFiber[m] # "none"}

SqTypeOK ==
    /\ sqSingle \in BOOLEAN /\ sqDel \in BOOLEAN /\ sqOwner \in BOOLEAN
    /\ sqExit \in BOOLEAN /\ sqTimer \in BOOLEAN
    /\ sqQueue \in [SqMsgs -> {"queued", "flight", "held", "deleting", "deleted"}]
    /\ sqFiber \in [SqMsgs -> {"none", "spawned", "run"}]
    /\ sqAlive \subseteq SqMsgs /\ sqThrew \subseteq SqMsgs
    /\ sqNum \in Nat /\ sqAsked \in Nat /\ sqRecv \in Nat /\ sqStall \in Nat /\ sqLeft \in Nat
    /\ sqDtor \in {"new", "no", "wait", "done"}

(* Nothing has happened before the listener is made, nobody has it once    *)
(* its destructor runs, and its last sweep ends with it.                   *)
SqLife ==
    /\ sqDtor = "new" =>
         /\ sqAsked = 0 /\ sqRecv = 0 /\ sqStall = 0 /\ sqNum = 0 /\ sqLeft = 0 /\ sqAlive = {}
         /\ \A m \in SqMsgs : sqQueue[m] = "queued" /\ sqFiber[m] = "none"
    /\ sqDtor \in {"new", "wait", "done"} => ~Lives
    /\ sqDtor = "done" => ~sqTimer

(* _num_fibers, and the room that a receive call finds.                    *)
SqCount ==
    /\ sqNum = Cardinality(Fibers) + sqLeft
    /\ sqNum < SqMaxFibers + SqMaxRead
    /\ sqAsked + sqRecv > 0 => sqNum < SqMaxFibers

(* One receive loop; with _single_concurrent_message it is handed to the   *)
(* message's fiber and to the answer that is awaited for it, and lost with *)
(* a fiber that does not count down.                                       *)
Handed(m) == sqFiber[m] # "none" \/ sqQueue[m] = "held"
SqLoop ==
    /\ sqAsked + sqRecv + sqStall <= 1
    /\ sqSingle =>
         /\ \A m \in SqMsgs : Handed(m) => sqAsked + sqRecv + sqStall + sqLeft = 0
         /\ \A m, n \in SqMsgs : Handed(m) /\ Handed(n) => m = n
         /\ sqAsked + sqRecv + sqStall + sqLeft <= 1

(* The messages that are kept invisible.                                   *)
SqKept ==
    /\ \A m \in SqMsgs : sqFiber[m] # "none" => sqQueue[m] = "flight"
    /\ Lives => \A m \in SqMsgs :
         /\ sqFiber[m] = "run" \/ sqQueue[m] \in {"held", "deleting"} => m \in sqAlive
         /\ m \in sqAlive => \/ sqFiber[m] = "run" \/ m \in sqThrew
                             \/ sqQueue[m] \in {"held", "deleting"}

SqInv == SqTypeOK /\ SqLife /\ SqCount /\ SqLoop /\ SqKept

(* The fibers are finitely many; one that ends is one less, and without    *)
(* fibers _num_fibers counts those that did not count down.                *)
LEMMA FibersFinite ==
    ASSUME SqTypeOK
    PROVE  /\ IsFiniteSet(Fibers) /\ Cardinality(Fibers) \in Nat
           /\ Fibers = {} => Cardinality(Fibers) = 0
           /\ \A m \in Fibers : Cardinality(Fibers \ {m}) = Cardinality(Fibers) - 1
<1>1. IsFiniteSet(Fibers) /\ Cardinality(Fibers) \in Nat
  <2>1. Fibers \subseteq SqMsgs
    BY DEF Fibers
  <2> QED BY <2>1, SqAssumption, FS_Subset, FS_CardinalityType DEF SqAssumption
<1>2. ASSUME Fibers = {} PROVE Cardinality(Fibers) = 0
  BY <1>2, FS_EmptySet, Zenon
<1>3. \A m \in Fibers : Cardinality(Fibers \ {m}) = Cardinality(Fibers) - 1
  BY <1>1, FS_RemoveElement
<1> QED BY <1>1, <1>2, <1>3

(* A receive call adds a fiber for each message that it brings.            *)
LEMMA FibersReceived ==
    ASSUME SqTypeOK, NEW S \in SUBSET SqMsgs, \A m \in S : sqFiber[m] = "none",
           sqFiber' = [m \in SqMsgs |-> IF m \in S THEN "spawned" ELSE sqFiber[m]]
    PROVE  /\ Cardinality(Fibers') = Cardinality(Fibers) + Cardinality(S)
           /\ Cardinality(S) \in Nat
<1>1. Fibers' = Fibers \cup S /\ Fibers \cap S = {}
  BY DEF Fibers, SqTypeOK
<1>2. IsFiniteSet(S) /\ Cardinality(S) \in Nat
  BY SqAssumption, FS_Subset, FS_CardinalityType DEF SqAssumption
<1>3. Cardinality(Fibers \cup S) = Cardinality(Fibers) + Cardinality(S)
  <2>1. Cardinality(Fibers \cap S) = 0
    BY <1>1, FS_EmptySet, Zenon
  <2>2. Cardinality(Fibers \cup S) = Cardinality(Fibers) + Cardinality(S) - Cardinality(Fibers \cap S)
    BY <1>2, FibersFinite, FS_Union
  <2> QED BY <1>2, <2>1, <2>2, FibersFinite
<1> QED BY <1>1, <1>2, <1>3, Zenon

(* Every step of the listener keeps SqInv.                                 *)
LEMMA SqStep == SqInv /\ [SqNext]_sqVars => SqInv'
<1> SUFFICES ASSUME SqInv, [SqNext]_sqVars PROVE SqInv'
  OBVIOUS
<1>f. /\ Cardinality(Fibers) \in Nat
      /\ Fibers = {} => Cardinality(Fibers) = 0
      /\ \A m \in Fibers : Cardinality(Fibers \ {m}) = Cardinality(Fibers) - 1
  BY FibersFinite DEF SqInv
<1>s. UNCHANGED sqFiber => Cardinality(Fibers') = Cardinality(Fibers)
  BY Zenon DEF Fibers
<1>r. ASSUME NEW S \in SUBSET SqMsgs, \A m \in S : sqFiber[m] = "none",
             sqFiber' = [m \in SqMsgs |-> IF m \in S THEN "spawned" ELSE sqFiber[m]]
      PROVE  /\ Cardinality(Fibers') = Cardinality(Fibers) + Cardinality(S)
             /\ Cardinality(S) \in Nat
  BY <1>r, FibersReceived DEF SqInv
<1>e. ASSUME NEW m \in SqMsgs, FiberEnds(m)
      PROVE  /\ Cardinality(Fibers') = Cardinality(Fibers) - 1 /\ Cardinality(Fibers) > 0
             /\ m \in Fibers
  <2>1. m \in Fibers /\ Fibers' = Fibers \ {m}
    BY <1>e DEF FiberEnds, Fibers, SqInv, SqTypeOK
  <2>2. Cardinality(Fibers \ {m}) = Cardinality(Fibers) - 1
    BY <1>f, <2>1
  <2>3. Cardinality(Fibers') = Cardinality(Fibers) - 1
    BY <2>1, <2>2, Zenon
  <2>4. Cardinality(Fibers) # 0
    <3>1. IsFiniteSet(Fibers)
      BY FibersFinite DEF SqInv
    <3> QED BY <2>1, <3>1, FS_EmptySet
  <2> QED BY <1>f, <2>1, <2>3, <2>4
<1> USE SqAssumption DEF SqAssumption, SqInv, SqTypeOK, SqLife, SqCount, SqLoop, SqKept, Handed, Lives, sqMode
<1>0. CASE UNCHANGED sqVars
  BY <1>0, <1>s DEF sqVars
<1>1. CASE NewListener
  <2>1. SqTypeOK'
    BY <1>1 DEF NewListener
  <2>2. SqLife'
    BY <1>1 DEF NewListener
  <2>3. SqCount'
    BY <1>1, <1>f, <1>s DEF NewListener
  <2>4. SqLoop'
    BY <1>1 DEF NewListener
  <2>5. SqKept'
    BY <1>1 DEF NewListener
  <2> QED BY <2>1, <2>2, <2>3, <2>4, <2>5 DEF SqInv
<1>2. CASE DropOwner
  <2>1. SqTypeOK'
    BY <1>2 DEF DropOwner
  <2>2. SqLife'
    BY <1>2 DEF DropOwner
  <2>3. SqCount'
    BY <1>2, <1>f, <1>s DEF DropOwner
  <2>4. SqLoop'
    BY <1>2 DEF DropOwner
  <2>5. SqKept'
    BY <1>2 DEF DropOwner
  <2> QED BY <2>1, <2>2, <2>3, <2>4, <2>5 DEF SqInv
<1>3. CASE StartListen
  <2>1. SqTypeOK'
    BY <1>3 DEF StartListen
  <2>2. SqLife'
    BY <1>3 DEF StartListen
  <2>3. SqCount'
    BY <1>3, <1>f, <1>s DEF StartListen
  <2>4. SqLoop'
    BY <1>3 DEF StartListen
  <2>5. SqKept'
    BY <1>3 DEF StartListen
  <2> QED BY <2>1, <2>2, <2>3, <2>4, <2>5 DEF SqInv
<1>4. CASE RestartListen
  <2>1. SqTypeOK'
    BY <1>4 DEF RestartListen
  <2>2. SqLife'
    BY <1>4 DEF RestartListen
  <2>3. SqCount'
    BY <1>4, <1>f, <1>s DEF RestartListen
  <2>4. SqLoop'
    BY <1>4 DEF RestartListen
  <2>5. SqKept'
    BY <1>4 DEF RestartListen
  <2> QED BY <2>1, <2>2, <2>3, <2>4, <2>5 DEF SqInv
<1>5. CASE Sweep
  <2>1. SqTypeOK'
    BY <1>5 DEF Sweep
  <2>2. SqLife'
    BY <1>5 DEF Sweep
  <2>3. SqCount'
    BY <1>5, <1>f, <1>s DEF Sweep
  <2>4. SqLoop'
    BY <1>5 DEF Sweep
  <2>5. SqKept'
    BY <1>5 DEF Sweep
  <2> QED BY <2>1, <2>2, <2>3, <2>4, <2>5 DEF SqInv
<1>6. CASE Destroy
  <2>1. SqTypeOK'
    BY <1>6 DEF Destroy
  <2>2. SqLife'
    BY <1>6 DEF Destroy
  <2>3. SqCount'
    BY <1>6, <1>f, <1>s DEF Destroy
  <2>4. SqLoop'
    BY <1>6 DEF Destroy
  <2>5. SqKept'
    BY <1>6 DEF Destroy
  <2> QED BY <2>1, <2>2, <2>3, <2>4, <2>5 DEF SqInv
<1>7. ASSUME NEW S \in SUBSET SqMsgs, NEW failed \in BOOLEAN, NEW goOn \in BOOLEAN, Received(S, failed, goOn) PROVE SqInv'
  <2>a. /\ sqRecv' = sqRecv - 1 /\ sqRecv > 0
        /\ UNCHANGED <<sqSingle, sqDel, sqOwner, sqAlive, sqAsked, sqTimer, sqDtor, sqLeft, sqThrew>>
        /\ \A m \in S : sqQueue[m] = "queued" /\ sqFiber[m] = "none" /\ ~failed
        /\ Cardinality(S) <= (IF sqSingle THEN 1 ELSE SqMaxRead)
        /\ sqQueue' = [m \in SqMsgs |-> IF m \in S THEN "flight" ELSE sqQueue[m]]
    BY <1>7 DEF Received
  <2>b. IsFiniteSet(S) /\ Cardinality(S) \in Nat
    BY FS_Subset, FS_CardinalityType
  <2>c. \/ UNCHANGED <<sqFiber, sqNum, sqExit, sqStall>>
        \/ /\ sqFiber' = [m \in SqMsgs |-> IF m \in S THEN "spawned" ELSE sqFiber[m]]
           /\ sqNum' = sqNum + Cardinality(S)
           /\ \/ sqStall' = sqStall
              \/ sqStall' = sqStall + 1 /\ ListensAgain(failed, Cardinality(S))
    BY <1>7 DEF Received
  <2>1. SqTypeOK'
    <3>1. sqExit' \in BOOLEAN
      BY <1>7, Zenon DEF Received
    <3>2. sqNum' \in Nat /\ sqStall' \in Nat /\ sqRecv' \in Nat
      BY <2>a, <2>b, <2>c
    <3>3. /\ sqFiber' \in [SqMsgs -> {"none", "spawned", "run"}]
          /\ sqQueue' \in [SqMsgs -> {"queued", "flight", "held", "deleting", "deleted"}]
      BY <2>a, <2>c
    <3>4. /\ sqSingle' \in BOOLEAN /\ sqDel' \in BOOLEAN /\ sqOwner' \in BOOLEAN
          /\ sqTimer' \in BOOLEAN
      BY <2>a, Zenon
    <3> QED BY <2>a, <3>1, <3>2, <3>3, <3>4
  <2>2. SqLife'
    BY <1>7 DEF Received, ListensAgain
  <2>3. SqCount'
    <3>1. CASE UNCHANGED <<sqFiber, sqNum, sqExit, sqStall>>
      <4>1. Cardinality(Fibers') = Cardinality(Fibers)
        BY <3>1, Zenon DEF Fibers
      <4> QED BY <2>a, <3>1, <4>1
    <3>2. CASE /\ sqFiber' = [m \in SqMsgs |-> IF m \in S THEN "spawned" ELSE sqFiber[m]]
               /\ sqNum' = sqNum + Cardinality(S)
      <4>1. Cardinality(Fibers') = Cardinality(Fibers) + Cardinality(S)
        BY <1>r, <2>a, <3>2
      <4>2. sqAsked = 0 /\ sqRecv' = 0 /\ sqNum < SqMaxFibers
        BY <2>a
      <4>3. Cardinality(S) <= SqMaxRead
        BY <2>a, <2>b
      <4> QED BY <1>f, <2>a, <2>b, <3>2, <4>1, <4>2, <4>3
    <3> QED BY <2>c, <3>1, <3>2
  <2>4. SqLoop'
    <3>1. sqAsked = 0 /\ sqRecv = 1 /\ sqRecv' = 0 /\ sqStall = 0
      BY <2>a
    <3>2. CASE UNCHANGED <<sqFiber, sqNum, sqExit, sqStall>>
      BY <2>a, <3>1, <3>2
    <3>3. CASE /\ sqFiber' = [m \in SqMsgs |-> IF m \in S THEN "spawned" ELSE sqFiber[m]]
               /\ \/ sqStall' = sqStall
                  \/ sqStall' = sqStall + 1 /\ ListensAgain(failed, Cardinality(S))
      <4>1. sqAsked' + sqRecv' + sqStall' <= 1
        BY <2>a, <3>1, <3>3
      <4>2. ASSUME sqSingle
            PROVE  /\ \A m \in SqMsgs : ~Handed(m)
                   /\ \A m \in SqMsgs : Handed(m)' <=> m \in S
                   /\ sqLeft = 0
        BY <2>a, <3>1, <3>3, <4>2
      <4>3. ASSUME sqSingle, S # {} PROVE sqStall' = 0 /\ \A m, n \in S : m = n
        <5>1. Cardinality(S) # 0
          BY <2>b, <4>3, FS_EmptySet
        <5>2. Cardinality(S) = 1
          BY <2>a, <2>b, <4>3, <5>1
        <5>3. \E m : S = {m}
          BY <2>b, <5>2, FS_Singleton
        <5>4. ~failed
          BY <2>a, <4>3
        <5> QED BY <3>1, <3>3, <4>3, <5>2, <5>3, <5>4 DEF ListensAgain
      <4>4. CASE ~sqSingle
        BY <2>a, <4>1, <4>4
      <4>5. CASE sqSingle
        BY <2>a, <3>1, <3>3, <4>1, <4>2, <4>3, <4>5
      <4> QED BY <4>4, <4>5
    <3> QED BY <2>c, <3>2, <3>3
  <2>5. SqKept'
    BY <1>7 DEF Received, ListensAgain
  <2> QED BY <2>1, <2>2, <2>3, <2>4, <2>5 DEF SqInv
<1>8. ASSUME NEW m \in SqMsgs, FiberStarts(m) PROVE SqInv'
  <2>1. SqTypeOK'
    BY <1>8 DEF FiberStarts
  <2>2. SqLife'
    BY <1>8 DEF FiberStarts
  <2>3. SqCount'
    <3>1. CASE sqFiber' = [sqFiber EXCEPT ![m] = "run"]
      <4>1. Fibers' = Fibers
        BY <1>8, <3>1 DEF FiberStarts, Fibers
      <4>2. Cardinality(Fibers') = Cardinality(Fibers)
        BY <4>1, Zenon
      <4>3. UNCHANGED <<sqNum, sqAsked, sqRecv, sqLeft>>
        BY <1>8, <3>1 DEF FiberStarts
      <4> QED BY <4>2, <4>3
    <3>2. CASE sqFiber' = [sqFiber EXCEPT ![m] = "none"]
      <4>1. m \in Fibers /\ Fibers' = Fibers \ {m}
        BY <1>8, <3>2 DEF FiberStarts, Fibers
      <4>2. Cardinality(Fibers') = Cardinality(Fibers) - 1
        BY <1>f, <4>1, Zenon
      <4>3. UNCHANGED <<sqNum, sqAsked, sqRecv>> /\ sqLeft' = sqLeft + 1
        BY <1>8, <3>2 DEF FiberStarts
      <4> QED BY <1>f, <4>2, <4>3
    <3> QED BY <1>8, <3>1, <3>2 DEF FiberStarts
  <2>4. SqLoop'
    BY <1>8 DEF FiberStarts
  <2>5. SqKept'
    BY <1>8 DEF FiberStarts
  <2> QED BY <2>1, <2>2, <2>3, <2>4, <2>5 DEF SqInv
<1>9. ASSUME NEW m \in SqMsgs, Throws(m) PROVE SqInv'
  <2>1. SqTypeOK'
    <3>1. UNCHANGED <<sqSingle, sqDel, sqOwner, sqExit, sqTimer, sqAsked, sqStall, sqDtor, sqAlive,
                      sqRecv>>
      BY <1>9 DEF Throws, FiberEnds
    <3>2. sqNum' \in Nat /\ sqLeft' \in Nat
      BY <1>9, <1>e, <1>f DEF Throws
    <3>3. sqFiber' \in [SqMsgs -> {"none", "spawned", "run"}] /\ sqThrew' \subseteq SqMsgs
      BY <1>9 DEF Throws, FiberEnds
    <3>4. sqQueue' \in [SqMsgs -> {"queued", "flight", "held", "deleting", "deleted"}]
      BY <1>9 DEF Throws
    <3> QED BY <3>1, <3>2, <3>3, <3>4
  <2>2. SqLife'
    BY <1>9 DEF Throws, FiberEnds
  <2>3. SqCount'
    <3>1. Cardinality(Fibers') = Cardinality(Fibers) - 1 /\ Cardinality(Fibers) > 0
      BY <1>9, <1>e DEF Throws
    <3>2. UNCHANGED <<sqAsked, sqRecv>> /\ sqNum' - sqLeft' = sqNum - sqLeft - 1 /\ sqNum' <= sqNum
      BY <1>9, <1>f, <3>1 DEF Throws, FiberEnds
    <3>3. sqNum' \in Nat /\ sqLeft' \in Nat
      BY <2>1
    <3> QED BY <1>f, <3>1, <3>2, <3>3
  <2>4. SqLoop'
    BY <1>9 DEF Throws, FiberEnds
  <2>5. SqKept'
    BY <1>9 DEF Throws, FiberEnds
  <2> QED BY <2>1, <2>2, <2>3, <2>4, <2>5 DEF SqInv
<1>10. ASSUME NEW m \in SqMsgs, Visible(m) PROVE SqInv'
  <2>1. SqTypeOK'
    BY <1>10 DEF Visible
  <2>2. SqLife'
    BY <1>10 DEF Visible
  <2>3. SqCount'
    BY <1>10, <1>f, <1>s DEF Visible
  <2>4. SqLoop'
    BY <1>10 DEF Visible
  <2>5. SqKept'
    BY <1>10 DEF Visible
  <2> QED BY <2>1, <2>2, <2>3, <2>4, <2>5 DEF SqInv
<1>11. ASSUME NEW m \in SqMsgs, NEW ok, Processed(m, ok) PROVE SqInv'
  <2>1. SqTypeOK'
    <3>1. UNCHANGED <<sqSingle, sqDel, sqOwner, sqExit, sqTimer, sqAsked, sqStall, sqDtor, sqLeft>>
      BY <1>11 DEF Processed, FiberEnds
    <3>2. sqNum' \in Nat /\ sqRecv' \in Nat
      BY <1>11, <1>e, <1>f DEF Processed
    <3>3. sqFiber' \in [SqMsgs -> {"none", "spawned", "run"}] /\ sqThrew' \subseteq SqMsgs
          /\ sqAlive' \subseteq SqMsgs
      BY <1>11 DEF Processed, FiberEnds
    <3>4. sqQueue' \in [SqMsgs -> {"queued", "flight", "held", "deleting", "deleted"}]
      BY <1>11 DEF Processed
    <3> QED BY <3>1, <3>2, <3>3, <3>4
  <2>2. SqLife'
    BY <1>11 DEF Processed, FiberEnds
  <2>3. SqCount'
    <3>1. /\ Cardinality(Fibers') = Cardinality(Fibers) - 1 /\ Cardinality(Fibers) > 0
          /\ m \in Fibers
      BY <1>11, <1>e DEF Processed
    <3>2. UNCHANGED <<sqAsked, sqLeft>> /\ sqNum' = sqNum - 1
      BY <1>11 DEF Processed, FiberEnds
    <3>3. ~sqSingle => sqRecv' = sqRecv
      BY <1>11 DEF Processed
    <3>4. sqSingle => sqNum' = 0
      <4> SUFFICES ASSUME sqSingle PROVE sqNum' = 0
        OBVIOUS
      <4>1. Handed(m) /\ sqLeft = 0
        BY <3>1 DEF Fibers
      <4>2. Fibers = {m}
        BY <3>1, <4>1 DEF Fibers
      <4>3. Cardinality(Fibers) = 1
        BY <4>2, FS_Singleton, Zenon
      <4> QED BY <3>2, <4>1, <4>3
    <3> QED BY <1>f, <3>1, <3>2, <3>3, <3>4
  <2>4. SqLoop'
    BY <1>11 DEF Processed, FiberEnds
  <2>5. SqKept'
    BY <1>11 DEF Processed, FiberEnds
  <2> QED BY <2>1, <2>2, <2>3, <2>4, <2>5 DEF SqInv
<1>12. ASSUME NEW m \in SqMsgs, NEW b \in BOOLEAN, DelCallback(m, b) PROVE SqInv'
  <2>1. SqTypeOK'
    BY <1>12 DEF DelCallback
  <2>2. SqLife'
    BY <1>12 DEF DelCallback
  <2>3. SqCount'
    <3>1. UNCHANGED <<sqAsked, sqLeft, sqNum, sqFiber>>
      BY <1>12 DEF DelCallback
    <3>2. ~sqSingle => sqRecv' = sqRecv
      BY <1>12 DEF DelCallback
    <3>3. sqSingle => sqNum = 0
      <4> SUFFICES ASSUME sqSingle PROVE sqNum = 0
        OBVIOUS
      <4>1. Handed(m) /\ sqFiber[m] = "none"
        BY <1>12 DEF DelCallback
      <4>2. sqLeft = 0 /\ Fibers = {}
        BY <4>1 DEF Fibers
      <4> QED BY <1>f, <4>2
    <3>4. Cardinality(Fibers') = Cardinality(Fibers)
      BY <3>1, Zenon DEF Fibers
    <3> QED BY <1>f, <3>1, <3>2, <3>3, <3>4
  <2>4. SqLoop'
    BY <1>12 DEF DelCallback
  <2>5. SqKept'
    BY <1>12 DEF DelCallback
  <2> QED BY <2>1, <2>2, <2>3, <2>4, <2>5 DEF SqInv
<1>13. ASSUME NEW m \in SqMsgs, NEW b \in BOOLEAN, DeleteDone(m, b) PROVE SqInv'
  <2>1. SqTypeOK'
    BY <1>13 DEF DeleteDone, RemoveFromKeepAlive
  <2>2. SqLife'
    BY <1>13 DEF DeleteDone, RemoveFromKeepAlive
  <2>3. SqCount'
    BY <1>13, <1>f, <1>s DEF DeleteDone, RemoveFromKeepAlive
  <2>4. SqLoop'
    BY <1>13 DEF DeleteDone, RemoveFromKeepAlive
  <2>5. SqKept'
    BY <1>13 DEF DeleteDone, RemoveFromKeepAlive
  <2> QED BY <2>1, <2>2, <2>3, <2>4, <2>5 DEF SqInv
<1> QED BY <1>0, <1>1, <1>2, <1>3, <1>4, <1>5, <1>6, <1>7, <1>8, <1>9, <1>10, <1>11, <1>12, <1>13 DEF SqNext

-----------------------------------------------------------------------------
(* aws_client.                                                             *)

AcTypeOK ==
    /\ acBoot \in {"off", "token", "region", "up", "down"}
    /\ acNow \in Nat /\ acTok \in Nat /\ acNew \in Nat /\ acMade \in BOOLEAN
    /\ acPc \in [AcReaders \cup AcUsers -> {"idle", "ask", "refused", "again", "got", "gave_up",
                                           "locked", "client", "null"}]
    /\ acAuth \in [AcReaders -> Nat] /\ acTries \in [AcReaders -> Nat]
    /\ acBad \in [AcReaders -> Nat] /\ acBegan \in [AcReaders -> Nat]

(* The answers a reader has had that did not give it what it wanted.       *)
Asked(f) == IF acPc[f] \in {"ask", "gave_up"} THEN acTries[f] - 1 ELSE acTries[f]

(* A reader that was refused goes on with a token that lasts from some     *)
(* time after it began, and one that was refused twice has seen that token *)
(* expire.                                                                 *)
ReaderInv(f) ==
    acPc[f] \in {"ask", "refused", "again", "gave_up"} =>
      /\ acTries[f] \in 1..5 /\ (acPc[f] = "gave_up" <=> acTries[f] = 5)
      /\ acBegan[f] <= acNow
      /\ Asked(f) > acBad[f] /\ acPc[f] # "refused" =>
           \E ttl \in AcTtls : acAuth[f] >= acBegan[f] + ttl
      /\ Asked(f) > acBad[f] + 1 => \E ttl \in AcTtls : acNow >= acBegan[f] + ttl

(* A client that was made under the lock is there, unless aws_client_term  *)
(* came.                                                                   *)
UserInv(f) ==
    /\ acPc[f] = "locked" => (acBoot = "up" /\ acMade) \/ acBoot = "down"
    /\ acPc[f] = "null" => acBoot = "down"

AcInv == /\ AcTypeOK
         /\ \A f \in AcReaders : ReaderInv(f)
         /\ \A f \in AcUsers : UserInv(f)
(* Every step of aws_client keeps AcInv.                                   *)
LEMMA AcStep == AcInv /\ [AcNext]_acVars => AcInv'
<1> SUFFICES ASSUME AcInv, [AcNext]_acVars PROVE AcInv'
  OBVIOUS
<1> USE AcAssumption DEF AcAssumption, AcInv, AcTypeOK, ReaderInv, UserInv, Asked, acReader
<1>1. CASE ClientInit
  <2>1. AcTypeOK'
    BY <1>1 DEF ClientInit
  <2>2. (\A g \in AcReaders : ReaderInv(g))'
    BY <1>1 DEF ClientInit
  <2>3. (\A g \in AcUsers : UserInv(g))'
    BY <1>1 DEF ClientInit
  <2> QED BY <2>1, <2>2, <2>3
<1>2. CASE BootToken
  <2>1. AcTypeOK'
    BY <1>2 DEF BootToken
  <2>2. (\A g \in AcReaders : ReaderInv(g))'
    BY <1>2 DEF BootToken
  <2>3. (\A g \in AcUsers : UserInv(g))'
    BY <1>2 DEF BootToken
  <2> QED BY <2>1, <2>2, <2>3
<1>3. CASE BootRegion
  <2>1. AcTypeOK'
    BY <1>3 DEF BootRegion
  <2>2. (\A g \in AcReaders : ReaderInv(g))'
    BY <1>3 DEF BootRegion
  <2>3. (\A g \in AcUsers : UserInv(g))'
    BY <1>3 DEF BootRegion
  <2> QED BY <2>1, <2>2, <2>3
<1>4. CASE AcTick
  <2>1. AcTypeOK'
    BY <1>4 DEF AcTick
  <2>2. (\A g \in AcReaders : ReaderInv(g))'
    BY <1>4 DEF AcTick
  <2>3. (\A g \in AcUsers : UserInv(g))'
    BY <1>4 DEF AcTick
  <2> QED BY <2>1, <2>2, <2>3
<1>5. CASE UpdateDue
  <2>1. AcTypeOK'
    BY <1>5 DEF UpdateDue
  <2>2. (\A g \in AcReaders : ReaderInv(g))'
    BY <1>5 DEF UpdateDue
  <2>3. (\A g \in AcUsers : UserInv(g))'
    BY <1>5 DEF UpdateDue
  <2> QED BY <2>1, <2>2, <2>3
<1>6. CASE UpdateFetched
  <2>1. AcTypeOK'
    BY <1>6 DEF UpdateFetched
  <2>2. (\A g \in AcReaders : ReaderInv(g))'
    BY <1>6 DEF UpdateFetched
  <2>3. (\A g \in AcUsers : UserInv(g))'
    BY <1>6 DEF UpdateFetched
  <2> QED BY <2>1, <2>2, <2>3
<1>7. CASE UpdateStored
  <2>1. AcTypeOK'
    BY <1>7 DEF UpdateStored
  <2>2. (\A g \in AcReaders : ReaderInv(g))'
    BY <1>7 DEF UpdateStored
  <2>3. (\A g \in AcUsers : UserInv(g))'
    BY <1>7 DEF UpdateStored
  <2> QED BY <2>1, <2>2, <2>3
<1>8. CASE ClientTerm
  <2>1. AcTypeOK'
    BY <1>8 DEF ClientTerm
  <2>2. (\A g \in AcReaders : ReaderInv(g))'
    BY <1>8 DEF ClientTerm
  <2>3. (\A g \in AcUsers : UserInv(g))'
    BY <1>8 DEF ClientTerm
  <2> QED BY <2>1, <2>2, <2>3
<1>9. ASSUME NEW f \in AcUsers, GetClient(f) PROVE AcInv'
  <2>1. AcTypeOK'
    BY <1>9 DEF GetClient
  <2>2. (\A g \in AcReaders : ReaderInv(g))'
    BY <1>9 DEF GetClient
  <2>3. (\A g \in AcUsers : UserInv(g))'
    BY <1>9 DEF GetClient
  <2> QED BY <2>1, <2>2, <2>3
<1>10. ASSUME NEW f \in AcReaders, GetResource(f) PROVE AcInv'
  <2>1. AcTypeOK'
    BY <1>10 DEF GetResource
  <2>2. (\A g \in AcReaders : ReaderInv(g))'
    BY <1>10 DEF GetResource
  <2>3. (\A g \in AcUsers : UserInv(g))'
    BY <1>10 DEF GetResource
  <2> QED BY <2>1, <2>2, <2>3
<1>11. ASSUME NEW f \in AcReaders, TryAgain(f) PROVE AcInv'
  <2>1. AcTypeOK'
    BY <1>11 DEF TryAgain
  <2>2. (\A g \in AcReaders : ReaderInv(g))'
    BY <1>11 DEF TryAgain
  <2>3. (\A g \in AcUsers : UserInv(g))'
    BY <1>11 DEF TryAgain
  <2> QED BY <2>1, <2>2, <2>3
<1>12. ASSUME NEW f \in AcReaders, NEW bad \in BOOLEAN, Answered(f, bad) PROVE AcInv'
  <2>1. AcTypeOK'
    BY <1>12 DEF Answered
  <2>2. (\A g \in AcReaders : ReaderInv(g))'
    BY <1>12 DEF Answered
  <2>3. (\A g \in AcUsers : UserInv(g))'
    BY <1>12 DEF Answered
  <2> QED BY <2>1, <2>2, <2>3
<1>13. ASSUME NEW f \in AcReaders, NEW ttl \in AcTtls, ReplaceToken(f, ttl) PROVE AcInv'
  <2>1. AcTypeOK'
    BY <1>13 DEF ReplaceToken
  <2>2. (\A g \in AcReaders : ReaderInv(g))'
    BY <1>13 DEF ReplaceToken
  <2>3. (\A g \in AcUsers : UserInv(g))'
    BY <1>13 DEF ReplaceToken
  <2> QED BY <2>1, <2>2, <2>3
<1>14. CASE UNCHANGED acVars
  BY <1>14 DEF acVars
<1> QED BY <1>1, <1>2, <1>3, <1>4, <1>5, <1>6, <1>7, <1>8, <1>9, <1>10, <1>11, <1>12, <1>13, <1>14 DEF AcNext

-----------------------------------------------------------------------------
(* The whole.                                                              *)

CloudInv == SqInv /\ CallInv /\ AcInv

(* The invariants of the three parts hold at first and after every step.   *)
THEOREM CloudInvariance == Spec => []CloudInv
<1>1. Init => CloudInv
  <2> SUFFICES ASSUME Init PROVE CloudInv
    OBVIOUS
  <2>1. SqInv
    <3>1. SqTypeOK
      <4>1. /\ sqSingle \in BOOLEAN /\ sqDel \in BOOLEAN /\ sqOwner \in BOOLEAN
            /\ sqExit \in BOOLEAN /\ sqTimer \in BOOLEAN
        BY Zenon DEF Init, SqInit
      <4> QED BY <4>1 DEF Init, SqInit, SqTypeOK
    <3>2. Fibers = {} /\ sqNum = 0 /\ sqLeft = 0
      BY DEF Init, SqInit, Fibers
    <3>3. Cardinality(Fibers) = 0
      BY <3>1, <3>2, FibersFinite
    <3>4. SqCount
      BY <3>2, <3>3, SqAssumption DEF SqAssumption, SqCount, Init, SqInit
    <3>5. SqLife /\ SqLoop /\ SqKept
      BY DEF Init, SqInit, SqLife, SqLoop, SqKept, Lives, Handed
    <3> QED BY <3>1, <3>4, <3>5 DEF SqInv
  <2>2. CallInv
    BY CallStart DEF Init
  <2>3. AcInv
    <3>1. acMade \in BOOLEAN
      BY Zenon DEF Init, AcInit
    <3> QED BY <3>1 DEF Init, AcInit, AcInv, AcTypeOK, ReaderInv, UserInv
  <2> QED BY <2>1, <2>2, <2>3 DEF CloudInv
<1>2. CloudInv /\ [Next]_vars => CloudInv'
  <2> SUFFICES ASSUME CloudInv, [Next]_vars PROVE CloudInv'
    OBVIOUS
  <2>1. [SqNext]_sqVars /\ [AwNext]_awVars /\ [AcNext]_acVars
    BY DEF Next, vars
  <2> QED BY <2>1, SqStep, CallStep, AcStep DEF CloudInv
<1> QED BY <1>1, <1>2, PTL DEF Spec

(* The listener counts its fibers, has one receive loop, is not used by    *)
(* anything after its destructor, and keeps invisible exactly the messages *)
(* in hand: in both modes, for any number of messages, whatever calls and  *)
(* functions fail.                                                         *)
THEOREM ListenerIsSound == Spec => []ListenerSound
<1>1. SqInv => ListenerSound
  <2> SUFFICES ASSUME SqInv PROVE ListenerSound
    OBVIOUS
  <2>1. sqNum = Cardinality({m \in SqMsgs : sqFiber[m] # "none"}) + sqLeft
    BY DEF SqInv, SqCount, Fibers
  <2> QED BY <2>1 DEF SqInv, SqCount, SqLoop, SqLife, SqKept, ListenerSound
<1> QED BY <1>1, CloudInvariance, PTL DEF CloudInv

(* A caller of aws_throttle is told what the service did, duplicates are   *)
(* made by retries only, a reader of metadata gives up only after failures *)
(* that are not its own, and a client is null only after aws_client_term.  *)
THEOREM CloudServes == Spec => []AwsServed
<1>1. CallInv => CallsExact
  BY DEF CallInv, CallTrue, CallCount, CallsExact
<1>2. AcInv => MetadataServed
  BY DEF AcInv, AcTypeOK, ReaderInv, Asked, UserInv, MetadataServed
<1>3. CloudInv => AwsServed
  BY <1>1, <1>2 DEF CloudInv, AwsServed
<1> QED BY <1>3, CloudInvariance, PTL
=============================================================================
