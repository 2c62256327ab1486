----------------------------- MODULE AwsClient -----------------------------
(***************************************************************************)
(* aws_client.cpp: the choice of credentials and region in aws_client_init,*)
(* the instance metadata client with the token that a scheduled task       *)
(* replaces and that a reader whose token is refused replaces too, and the *)
(* maps of clients.                                                        *)
(*                                                                         *)
(* A token is the time at which it expires.                                *)
(***************************************************************************)
EXTENDS Naturals

CONSTANTS AcReaders,\* fibers that read metadata
          AcUsers,  \* fibers that ask for a client
          AcTtls,   \* life times the metadata service may give a token
          AcMargin, \* ten minutes
          AcLast    \* the model's last instant

ASSUME AcAssumption == AcTtls \subseteq Nat \ {0} /\ AcMargin \in Nat /\ AcLast \in Nat

VARIABLES
    acEnv,      \* [profile, region, ec2]: AWS_PROFILE, AWS_DEFAULT_REGION, where it runs
    acBoot,     \* where aws_client_init is: "off", "start", "token", "region", "up", "down"
    acRegion,   \* aws_default_region, by its source, or "empty"
    acNow,      \* the time
    acTok,      \* m_token
    acDue,      \* when the task that updates the token is due, 0 for none
    acUpd,      \* update_imds_token: "idle", "fetch", "store"
    acNew,      \* the token it will store
    acPc,       \* fiber -> "idle", "ask", "refused", "again", "got", "gave_up",
                \*  "locked", "client", "null"
    acAuth,     \* fiber -> auth
    acTries,    \* fiber -> num_tries
    acBad,      \* fiber -> answers that were neither 200 nor 401
    acBegan,    \* fiber -> when it began
    acMade,     \* the client is in its map
    acLock      \* config_mtx is held

acVars == <<acEnv, acBoot, acRegion, acNow, acTok, acDue, acUpd, acNew, acPc, acAuth,
            acTries, acBad, acBegan, acMade, acLock>>
acReader == <<acPc, acAuth, acTries, acBad, acBegan>>

AcInit ==
    /\ acEnv \in [profile : {"none", "unknown", "known", "regionless"},
                  region : {"unset", "empty", "set"}, ec2 : BOOLEAN]
    /\ acBoot = "off" /\ acRegion = "none" /\ acNow = 0 /\ acTok = 0
    /\ acDue = 0 /\ acUpd = "idle" /\ acNew = 0
    /\ acPc = [f \in AcReaders \cup AcUsers |-> "idle"]
    /\ acAuth = [f \in AcReaders |-> 0] /\ acTries = [f \in AcReaders |-> 0]
    /\ acBad = [f \in AcReaders |-> 0] /\ acBegan = [f \in AcReaders |-> 0]
    /\ acMade = FALSE /\ acLock = FALSE

(* AWS_DEFAULT_REGION counts when it is set, be it to nothing.             *)
FromEnv == IF acEnv.region = "set" THEN "env" ELSE "empty"

(* aws_client_init: a profile that is found decides alone; otherwise the   *)
(* metadata service is tried, and outside EC2 the region is fixed.         *)
ClientInit ==
    /\ acBoot = "off"
    /\ \/ /\ acEnv.profile \in {"known", "regionless"} /\ acBoot' = "up"
          /\ acRegion' = IF acEnv.profile = "known" THEN "profile" ELSE "empty"
       \/ /\ acEnv.profile \in {"none", "unknown"} /\ acEnv.ec2
          /\ acBoot' = "token" /\ UNCHANGED acRegion
       \/ /\ acEnv.profile \in {"none", "unknown"} /\ ~acEnv.ec2
          /\ acBoot' = "up" /\ acRegion' = IF acEnv.region # "unset" THEN FromEnv ELSE "us-east-1"
    /\ UNCHANGED <<acEnv, acNow, acTok, acDue, acUpd, acNew, acReader, acMade, acLock>>

(* The first token; too short a life ends the program, a failure is tried  *)
(* again.                                                                  *)
BootToken ==
    /\ acBoot = "token"
    /\ \E ttl \in AcTtls :
         \/ /\ ttl >= 2 * AcMargin
            /\ acTok' = acNow + ttl /\ acDue' = acNow + ttl - AcMargin
            /\ acBoot' = IF acEnv.region # "unset" THEN "up" ELSE "region"
            /\ acRegion' = IF acEnv.region # "unset" THEN FromEnv ELSE "none"
         \/ /\ ttl < 2 * AcMargin /\ acBoot' = "down"
            /\ UNCHANGED <<acTok, acDue, acRegion>>
    /\ UNCHANGED <<acEnv, acNow, acUpd, acNew, acReader, acMade, acLock>>

(* The region is the zone without its last letter, whatever the body of    *)
(* the answer is.                                                          *)
BootRegion ==
    /\ acBoot = "region" /\ acBoot' = "up" /\ acRegion' \in {"zone", "empty"}
    /\ UNCHANGED <<acEnv, acNow, acTok, acDue, acUpd, acNew, acReader, acMade, acLock>>

AcTick ==
    /\ acBoot # "off" /\ acNow < AcLast /\ acNow' = acNow + 1
    /\ UNCHANGED <<acEnv, acBoot, acRegion, acTok, acDue, acUpd, acNew, acReader, acMade, acLock>>

UpdateDue ==
    /\ acDue > 0 /\ acDue <= acNow /\ acUpd = "idle" /\ acBoot = "up"
    /\ acDue' = 0 /\ acUpd' = "fetch"
    /\ UNCHANGED <<acEnv, acBoot, acRegion, acNow, acTok, acNew, acReader, acMade, acLock>>

(* update_imds_token: the token arrives and the next update is scheduled,  *)
(* unless its life is too short; only then is it stored.                   *)
UpdateFetched ==
    /\ acUpd = "fetch" /\ acUpd' = "store"
    /\ \E ttl \in AcTtls :
         /\ acNew' = acNow + ttl
         /\ acDue' = IF ttl > AcMargin THEN acNow + ttl - AcMargin ELSE 0
    /\ UNCHANGED <<acEnv, acBoot, acRegion, acNow, acTok, acReader, acMade, acLock>>

UpdateStored ==
    /\ acUpd = "store" /\ acUpd' = "idle" /\ acTok' = acNew /\ acNew' = 0
    /\ UNCHANGED <<acEnv, acBoot, acRegion, acNow, acDue, acReader, acMade, acLock>>

(* GetResource, which the credentials provider calls too.                  *)
GetResource(f) ==
    /\ acBoot = "up" /\ acTok > 0 /\ acPc[f] = "idle"
    /\ acPc' = [acPc EXCEPT ![f] = "ask"]
    /\ acAuth' = [acAuth EXCEPT ![f] = acTok]
    /\ acTries' = [acTries EXCEPT ![f] = 1]
    /\ acBad' = [acBad EXCEPT ![f] = 0]
    /\ acBegan' = [acBegan EXCEPT ![f] = acNow]
    /\ UNCHANGED <<acEnv, acBoot, acRegion, acNow, acTok, acDue, acUpd, acNew, acMade, acLock>>

(* The service answers 401 to a token that has expired, and may fail.      *)
Answered(f, bad) ==
    /\ acPc[f] = "ask"
    /\ acPc' = [acPc EXCEPT ![f] = IF bad THEN "again"
                                   ELSE IF acNow < acAuth[f] THEN "got" ELSE "refused"]
    /\ acBad' = [acBad EXCEPT ![f] = IF bad THEN @ + 1 ELSE @]
    /\ UNCHANGED <<acEnv, acBoot, acRegion, acNow, acTok, acDue, acUpd, acNew,
                   acAuth, acTries, acBegan, acMade, acLock>>

(* Mutant: the reader goes on with the token that was refused.             *)
ReplaceOnlyOwn(f, ttl) ==
    /\ acPc[f] = "refused" /\ acPc' = [acPc EXCEPT ![f] = "again"]
    /\ acTok' = acNow + ttl
    /\ UNCHANGED <<acEnv, acBoot, acRegion, acNow, acDue, acUpd, acNew, acAuth,
                   acTries, acBad, acBegan, acMade, acLock>>

(* A refused reader fetches a token for itself and for the others.         *)
ReplaceToken(f, ttl) ==
    /\ acPc[f] = "refused" /\ acPc' = [acPc EXCEPT ![f] = "again"]
    /\ acTok' = acNow + ttl /\ acAuth' = [acAuth EXCEPT ![f] = acNow + ttl]
    /\ UNCHANGED <<acEnv, acBoot, acRegion, acNow, acDue, acUpd, acNew, acTries,
                   acBad, acBegan, acMade, acLock>>

(* The loop's condition: at most four requests.                            *)
TryAgain(f) ==
    /\ acPc[f] = "again" /\ acTries' = [acTries EXCEPT ![f] = @ + 1]
    /\ acPc' = [acPc EXCEPT ![f] = IF acTries[f] < 4 THEN "ask" ELSE "gave_up"]
    /\ UNCHANGED <<acEnv, acBoot, acRegion, acNow, acTok, acDue, acUpd, acNew,
                   acAuth, acBad, acBegan, acMade, acLock>>

(* aws_get_..._client: under config_mtx the client is made if it is not in *)
(* its map; then the map is read again.                                    *)
GetClient(f) ==
    /\ \/ /\ acPc[f] = "idle" /\ acBoot \in {"up", "down"} /\ ~acLock
          /\ acPc' = [acPc EXCEPT ![f] = "locked"]
          /\ acLock' = TRUE /\ acMade' = TRUE
       \/ /\ acPc[f] = "locked" /\ acLock' = FALSE /\ UNCHANGED acMade
          /\ acPc' = [acPc EXCEPT ![f] = IF acMade THEN "client" ELSE "null"]
    /\ UNCHANGED <<acEnv, acBoot, acRegion, acNow, acTok, acDue, acUpd, acNew,
                   acAuth, acTries, acBad, acBegan>>

(* aws_client_term clears the maps without the mutex.                      *)
ClientTerm ==
    /\ acBoot = "up" /\ acBoot' = "down" /\ acMade' = FALSE
    /\ UNCHANGED <<acEnv, acRegion, acNow, acTok, acDue, acUpd, acNew, acReader, acLock>>

AcNext ==
    \/ ClientInit \/ BootToken \/ BootRegion \/ AcTick \/ UpdateDue
    \/ UpdateFetched \/ UpdateStored \/ ClientTerm
    \/ \E f \in AcUsers : GetClient(f)
    \/ \E f \in AcReaders :
         \/ GetResource(f) \/ TryAgain(f)
         \/ \E bad \in BOOLEAN : Answered(f, bad)
         \/ \E ttl \in AcTtls : ReplaceToken(f, ttl)

AcSpec == AcInit /\ [][AcNext]_acVars

-----------------------------------------------------------------------------
(* A reader gives up only if the metadata service failed three times or    *)
(* the token it fetched itself expired while it was trying, whatever the   *)
(* scheduled update does to the shared token meanwhile; and a client is    *)
(* null only if aws_client_term cleared the maps.                          *)
MetadataServed ==
    /\ \A f \in AcReaders : acPc[f] = "gave_up" =>
         acBad[f] >= 3 \/ \E ttl \in AcTtls : acNow >= acBegan[f] + ttl
    /\ \A f \in AcUsers : acPc[f] = "null" => acBoot = "down"

(* What aws_client.h says of aws_get_default_region: a) if the environment *)
(* variable AWS_DEFAULT_REGION is set it will be set to that value.        *)
EnvRegionWins == acBoot = "up" /\ acEnv.region # "unset" => acRegion = FromEnv
=============================================================================
