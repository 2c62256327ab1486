------------------------------ MODULE AwsCall ------------------------------
(***************************************************************************)
(* How an AWS request is made: aws_throttle around aws_check (aws_throttle.h*)
(* and .cpp), the retry strategy of aws_client.cpp and the HTTP client of  *)
(* aws_http.cpp, whose redirects hold a connection of the endpoint cluster *)
(* at every level.  Several fibers ask for a resource to be made; a request*)
(* may fail before or after the service has acted.                         *)
(*                                                                         *)
(* Of the endpoint cluster (EndpointCluster) there is what a request waits *)
(* for: one address, its endpoint objects, their counts, and the errors    *)
(* that replace an object.  Redirects lead to the same host.               *)
(***************************************************************************)
EXTENDS Naturals, Sequences, FiniteSets

CONSTANTS AwClients,    \* fibers
          AwLimits,     \* numbers of connections a cluster may be made with
          AwMaxDepth,   \* redirects followed
          AwMaxRetries, \* retries of the SDK
          AwMaxBackoffs,\* max_backoff_attempts
          AwBackoff     \* backoff_seconds

ASSUME AwAssumption ==
    /\ IsFiniteSet(AwClients) /\ AwLimits \subseteq Nat
    /\ AwMaxDepth \in Nat /\ AwMaxRetries \in Nat /\ AwMaxBackoffs \in Nat

VARIABLES
    awKind,     \* what the service does with a request for what it has made
                \*  already: "unique" refuses it, "many" makes another one;
                \*  "taken": another's resource stands in the way of any
    awLimit,    \* max_conn_per_ep_
    awLeft,     \* what is left of the region's wait_until
    awPc,       \* fiber -> "idle", "wait", "call", "check", "done", "ignored", "threw"
    awHops,     \* fiber -> the endpoints its connections are at, a hop each
    awAt,       \* fiber -> the endpoint it has picked for the next hop, or 0
    awEp,       \* the endpoint in the cluster, or 0
    awLost,     \* endpoint -> requests it counts that nobody makes
    awErr,      \* endpoint -> error_
    awOut,      \* fiber -> the outcome of its request
    awTries,    \* fiber -> retries of the SDK
    awBacks,    \* fiber -> backoff_attempts
    awMade      \* fiber -> how many the service has made for it

awConns == <<awHops, awAt, awEp, awLost, awErr>>
awVars == <<awKind, awLimit, awLeft, awPc, awConns, awOut, awTries, awBacks, awMade>>

(* Names for the endpoint objects.                                         *)
AwEps == 1..(Cardinality(AwClients) * (AwMaxDepth + 2) + 1)

AwInit ==
    /\ awKind \in {"unique", "many", "taken"} /\ awLimit \in AwLimits
    /\ awLeft = 0 /\ awEp = 0
    /\ awLost = [e \in AwEps |-> 0] /\ awErr = [e \in AwEps |-> FALSE]
    /\ awPc = [c \in AwClients |-> "idle"]
    /\ awHops = [c \in AwClients |-> <<>>] /\ awAt = [c \in AwClients |-> 0]
    /\ awOut = [c \in AwClients |-> "none"]
    /\ awTries = [c \in AwClients |-> 0] /\ awBacks = [c \in AwClients |-> 0]
    /\ awMade = [c \in AwClients |-> 0]

-----------------------------------------------------------------------------
(* The endpoint cluster                                                    *)

(* outstanding_requests_: the hops at an endpoint, and those it has lost.  *)
InUse(e) ==
    Cardinality({h \in AwClients \X (1..(AwMaxDepth + 1)) :
                   h[2] <= Len(awHops[h[1]]) /\ awHops[h[1]][h[2]] = e}) + awLost[e]

Refers(e) == \/ awEp = e
             \/ \E c \in AwClients : awAt[c] = e \/ \E h \in DOMAIN awHops[c] : awHops[c][h] = e

(* An endpoint that nothing refers to is gone, and its name is free.       *)
SetEndpoints(lost, err) ==
    /\ awLost' = [e \in AwEps |-> IF Refers(e)' THEN lost[e] ELSE 0]
    /\ awErr' = [e \in AwEps |-> Refers(e)' /\ err[e]]

FreeName == CHOOSE e \in AwEps : ~Refers(e)

(* An exception takes a request back through its hops, whose endpoints get *)
(* an error and leave the cluster, as those in erased do.  The SDK is told *)
(* of a timeout, or that no request was made.                              *)
Thrown(c, lost, erased) ==
    LET left == {awHops[c][h] : h \in DOMAIN awHops[c]} IN
    /\ awHops' = [awHops EXCEPT ![c] = <<>>] /\ awAt' = [awAt EXCEPT ![c] = 0]
    /\ awEp' = IF awEp \in left \cup erased THEN 0 ELSE awEp
    /\ SetEndpoints(lost, [e \in AwEps |-> awErr[e] \/ e \in left])
    /\ awPc' = [awPc EXCEPT ![c] = "check"]
    /\ \E out \in {"timeout", "not_made"} : awOut' = [awOut EXCEPT ![c] = out]
    /\ UNCHANGED <<awKind, awLimit, awLeft, awTries, awBacks>>

(* with_connected_pipe, for the request or the next hop of a redirect: the *)
(* endpoint of the cluster, or what a lookup finds; or the lookup fails.   *)
PickEndpoint(c) ==
    /\ awPc[c] = "call" /\ awAt[c] = 0 /\ Len(awHops[c]) <= AwMaxDepth
    /\ \/ /\ awEp' = (IF awEp = 0 THEN FreeName ELSE awEp)
          /\ awAt' = [awAt EXCEPT ![c] = awEp'] /\ awHops' = awHops
          /\ UNCHANGED <<awKind, awLimit, awLeft, awPc, awOut, awTries, awBacks, awLost, awErr>>
       \/ awEp = 0 /\ Thrown(c, awLost, {})
    /\ UNCHANGED awMade

(* When there is room at the endpoint, one with an error is left for       *)
(* another; at one without, the request is counted.  It finds a connection *)
(* or makes one; when connect fails the endpoint leaves the cluster, and   *)
(* then, as when the TLS handshake fails, nobody counts the request out.   *)
Connect(c) ==
    LET e == awAt[c]
        counted == [awLost EXCEPT ![e] = @ + 1]
    IN /\ awPc[c] = "call" /\ e # 0 /\ InUse(e) < awLimit
       /\ \/ /\ awErr[e] /\ awAt' = [awAt EXCEPT ![c] = 0]
             /\ UNCHANGED <<awHops, awEp>> /\ SetEndpoints(awLost, awErr)
             /\ UNCHANGED <<awKind, awLimit, awLeft, awPc, awOut, awTries, awBacks>>
          \/ /\ ~awErr[e] /\ awAt' = [awAt EXCEPT ![c] = 0]
             /\ awHops' = [awHops EXCEPT ![c] = Append(@, e)]
             /\ UNCHANGED <<awKind, awLimit, awLeft, awPc, awOut, awTries, awBacks, awEp, awLost, awErr>>
          \/ ~awErr[e] /\ \E erased \in {{}, {e}} : Thrown(c, counted, erased)
       /\ UNCHANGED awMade

(* The service acts on the request, unless it is busy or another's         *)
(* resource is in the way.                                                 *)
Making(c) ==
    IF awKind = "taken" \/ (awKind = "unique" /\ \E d \in AwClients : awMade[d] > 0)
      THEN awMade' = awMade ELSE awMade' = [awMade EXCEPT ![c] = @ + 1]

(* The request ends with the answer: of the service, or that it is busy,   *)
(* or, after one redirect too many, of the client itself as an error of    *)
(* the server; and every hop gives its connection back.                    *)
Respond(c) ==
    /\ awPc[c] = "call" /\ awAt[c] = 0 /\ awHops[c] # <<>>
    /\ \/ /\ Making(c)
          /\ awOut' = [awOut EXCEPT ![c] = IF awMade' = awMade THEN "exists" ELSE "ok"]
       \/ awMade' = awMade /\ awOut' = [awOut EXCEPT ![c] = "busy"]
    /\ awHops' = [awHops EXCEPT ![c] = <<>>]
    /\ UNCHANGED <<awAt, awEp>> /\ SetEndpoints(awLost, awErr)
    /\ awPc' = [awPc EXCEPT ![c] = "check"]
    /\ UNCHANGED <<awKind, awLimit, awLeft, awTries, awBacks>>

(* The answer is lost, or the request was: the pipe throws.                *)
Lose(c) ==
    /\ awPc[c] = "call" /\ awAt[c] = 0 /\ awHops[c] # <<>>
    /\ Making(c) \/ awMade' = awMade
    /\ Thrown(c, awLost, {})

-----------------------------------------------------------------------------
(* aws_throttle, aws_check and the retries of the SDK                      *)

(* Errors that are retried after a while, for all AWS services or for one. *)
GenericRetry(out) == out = "busy"

(* Mutant: a lost answer counts as an ignorable duplicate.                 *)
IgnorableOrLost(out) == out \in {"exists", "timeout"}

(* "The ignorable duplicate problem": the resource is there already, or    *)
(* something else is that does not let it be made: a subnet in conflict, a *)
(* condition that is not met, another's bucket.                            *)
IsIgnorableDuplicate(out) == out = "exists"

(* aws_check: it returns true or false, or throws aws_throttle_error or    *)
(* another exception.                                                      *)
Classify(out) ==
    CASE out = "ok" -> "done"
      [] GenericRetry(out) -> "throttled"
      [] IsIgnorableDuplicate(out) -> "ignored"
      [] OTHER -> "threw"

(* Mutant: the retries are not counted.                                    *)
RetriesForEver(c) == awOut[c] \in {"timeout", "busy"}

(* ShouldRetry: the SDK's own rule, but not for a table that is out of its *)
(* provisioned throughput ("busy" for good).                               *)
ShouldRetry(c) == awOut[c] \in {"timeout", "busy"} /\ awTries[c] < AwMaxRetries

Throttle(c) ==
    /\ awPc[c] = "idle" /\ awPc' = [awPc EXCEPT ![c] = "wait"]
    /\ UNCHANGED <<awKind, awLimit, awLeft, awConns, awOut, awTries, awBacks, awMade>>

SecondPasses ==
    /\ awLeft > 0 /\ awLeft' = awLeft - 1
    /\ UNCHANGED <<awKind, awLimit, awPc, awConns, awOut, awTries, awBacks, awMade>>

(* The wait of aws_throttle is over and the request starts.                *)
Call(c) ==
    /\ awPc[c] = "wait" /\ awLeft = 0
    /\ awPc' = [awPc EXCEPT ![c] = "call"]
    /\ UNCHANGED <<awKind, awLimit, awLeft, awConns, awOut, awTries, awBacks, awMade>>

(* The SDK asks the retry strategy, which sleeps in the fiber; then        *)
(* aws_check returns or throws, and aws_throttle sets the time before      *)
(* which no fiber calls.                                                   *)
Check(c) ==
    /\ awPc[c] = "check"
    /\ \/ /\ ShouldRetry(c)
          /\ awTries' = [awTries EXCEPT ![c] = IF @ < AwMaxRetries THEN @ + 1 ELSE @]
          /\ awPc' = [awPc EXCEPT ![c] = "call"]
          /\ UNCHANGED <<awLeft, awBacks>>
       \/ /\ ~ShouldRetry(c) \/ awOut[c] = "busy"
          /\ Classify(awOut[c]) # "throttled"
          /\ awPc' = [awPc EXCEPT ![c] = Classify(awOut[c])]
          /\ UNCHANGED <<awLeft, awTries, awBacks>>
       \/ /\ ~ShouldRetry(c) \/ awOut[c] = "busy"
          /\ Classify(awOut[c]) = "throttled"
          /\ awBacks' = [awBacks EXCEPT ![c] = @ + 1]
          /\ awLeft' = IF awBacks[c] < AwMaxBackoffs THEN AwBackoff ELSE awLeft
          /\ awPc' = [awPc EXCEPT ![c] =
                        IF awBacks[c] < AwMaxBackoffs THEN "wait" ELSE "threw"]
          /\ awTries' = [awTries EXCEPT ![c] = 0]
    /\ awOut' = [awOut EXCEPT ![c] = "none"]
    /\ UNCHANGED <<awKind, awLimit, awConns, awMade>>

ClientStep(c) ==
    \/ Call(c) \/ PickEndpoint(c) \/ Connect(c) \/ Respond(c) \/ Lose(c) \/ Check(c)

AwNext == SecondPasses \/ \E c \in AwClients : Throttle(c) \/ ClientStep(c)

(* Time passes, and a fiber goes on when it can: requests are answered or  *)
(* time out.                                                               *)
AwFairness == WF_awVars(SecondPasses) /\ \A c \in AwClients : WF_awVars(ClientStep(c))

AwSpec == AwInit /\ [][AwNext]_awVars /\ AwFairness

-----------------------------------------------------------------------------
(* The requests that were sent for a caller so far.                        *)
Sendings(c) == awBacks[c] * (AwMaxRetries + 1) + awTries[c] + 1

(* Whoever aws_check told that the resource was made has had one made, and *)
(* whoever it told to ignore the error finds it made, unless it was        *)
(* another's that was in the way; and the retries after lost answers, of   *)
(* which the code knows that they make duplicates, make at most one for    *)
(* each request that was sent.                                             *)
CallsExact ==
    \A c \in AwClients :
      /\ awPc[c] = "done" => awMade[c] > 0
      /\ awPc[c] = "ignored" /\ awKind # "taken" => \E d \in AwClients : awMade[d] > 0
      /\ awMade[c] <= Sendings(c)
      /\ awPc[c] \in {"wait", "call"} => awMade[c] < Sendings(c)

(* aws_throttle.h 137-144: the errors that are ignored are those that the  *)
(* request to create a duplicate causes.                                   *)
IgnoredIsMade == \A c \in AwClients :
    awPc[c] = "ignored" => \E d \in AwClients : awMade[d] > 0

(* There are enough connections at every endpoint for all the redirects.   *)
EnoughRoom == \A e \in AwEps : awLost[e] + AwMaxDepth * Cardinality(AwClients) < awLimit

(* Every caller of aws_throttle gets an answer or an exception, although   *)
(* redirected requests wait for a connection while they hold others: as    *)
(* long as there are connections enough for that, and failing ones have    *)
(* not used them up.                                                       *)
CallsEnd == \A c \in AwClients :
    awPc[c] = "wait" ~> awPc[c] \in {"done", "ignored", "threw"} \/ ~EnoughRoom

(* However many fibers there are and however many connections failed.      *)
CallsAnswered == \A c \in AwClients :
    awPc[c] = "wait" ~> awPc[c] \in {"done", "ignored", "threw"}
=============================================================================
