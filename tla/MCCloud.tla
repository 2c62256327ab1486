------------------------------ MODULE MCCloud ------------------------------
(***************************************************************************)
(* The parts that use AWS, each on its own, as in MCNames.  Which kind of  *)
(* resource meets which limit of connections, and which profile which      *)
(* region, is fixed where the one does not depend on the other.            *)
(***************************************************************************)
EXTENDS SqsListener, AwsCall, AwsClient, FiniteSetsExt

VARIABLE part

vars == <<part, sqVars, awVars, acVars>>

Init ==
    /\ part \in {"sqs", "call", "client"}
    /\ SqInit /\ AwInit /\ AcInit
    /\ part # "sqs" => ~sqSingle /\ ~sqDel
    /\ awLimit = IF awKind = "unique" THEN Max(AwLimits) ELSE Min(AwLimits)
    /\ part # "call" => awKind = "unique"
    /\ acEnv.profile = "none" => acEnv.region = "unset"
    /\ acEnv.profile = "unknown" => acEnv.region = "set"
    /\ part # "client" => acEnv = [profile |-> "none", region |-> "unset", ec2 |-> FALSE]

Next ==
    /\ UNCHANGED part
    /\ \/ part = "sqs" /\ SqNext /\ UNCHANGED <<awVars, acVars>>
       \/ part = "call" /\ AwNext /\ UNCHANGED <<sqVars, acVars>>
       \/ part = "client" /\ AcNext /\ UNCHANGED <<sqVars, awVars>>

Spec == Init /\ [][Next]_vars /\ SqFairness /\ AwFairness

(* aws_check's answers are true (CallsExact), and the metadata of the      *)
(* instance and the clients are served (MetadataServed).                   *)
AwsServed == CallsExact /\ MetadataServed

=============================================================================
