---------------------------- MODULE ResinServer ----------------------------
(***************************************************************************)
(* examples/resin in its role as a server: main and ec2_info, run_server,  *)
(* sync_teflon_app and the control port of run_server_control.             *)
(*                                                                         *)
(* An application is published as a record in a table; its files are in    *)
(* S3.  sync_teflon_app copies those of the current application into a     *)
(* directory of their own, appends the certificate to a file, and swaps    *)
(* the running server for one started from there (start_server of          *)
(* sproc_mgr.cpp: it succeeds, or throws and leaves the old one running).  *)
(* It is called at the start, up to five times while it throws, and for    *)
(* each reload request at the control port.  The option local_debug_path,  *)
(* which copies nothing, is left out.                                      *)
(***************************************************************************)
EXTENDS Naturals, Sequences

CONSTANTS RsApps,       \* applications that may be published
          RsNoApp,
          RsMaxCopies,  \* attempts to copy the files
          RsMaxStarts   \* attempts to start the server

ASSUME RsAssumption == RsNoApp \notin RsApps /\ RsApps # {}

VARIABLES
    rsItems,    \* helper.items: answers awaited from the metadata service
    rsPub,      \* the application in the table
    rsFiles,    \* application -> its directory: "none", "part", "full"
    rsCerts,    \* applications whose certificate is in the file, oldest first
    rsCur,      \* curr_app
    rsRun,      \* the application of the running server
    rsHad,      \* history: the state its directory had when that was started
    rsUid,      \* uid in sync_teflon_app
    rsSync,     \* sync_teflon_app: "no", "query", "copy", "certs", "start", or its
                \* outcome: "running", "still", "failed", "threw"
    rsTries,    \* num_tries
    rsStarts,   \* num_attempts
    rsPc,       \* "boot", "run", "starting", "listen", "accept", "head", "body",
                \* "spin", "reload", "ended"
    rsRmErr     \* an rm failed after the new server had been started

rsVars == <<rsItems, rsPub, rsFiles, rsCerts, rsCur, rsRun, rsHad, rsUid, rsSync,
            rsTries, rsStarts, rsPc, rsRmErr>>
rsCtl == <<rsItems, rsStarts, rsPc>>

RsInit ==
    /\ rsItems = 3 /\ rsPub = CHOOSE a \in RsApps : TRUE
    /\ rsFiles = [a \in RsApps |-> "none"] /\ rsCerts = <<>>
    /\ rsCur = RsNoApp /\ rsRun = RsNoApp /\ rsHad = "none" /\ rsUid = RsNoApp
    /\ rsSync = "no" /\ rsTries = 0 /\ rsStarts = 0 /\ rsPc = "boot"
    /\ rsRmErr = FALSE

Publish(a) ==
    /\ rsPub # a /\ rsPub' = a
    /\ UNCHANGED <<rsItems, rsFiles, rsCerts, rsCur, rsRun, rsHad, rsUid, rsSync, rsTries,
                   rsStarts, rsPc, rsRmErr>>

(* The callbacks of the metadata client count down under the mutex, and    *)
(* the constructor of ec2_info waits for the last one.                     *)
MetadataAnswers ==
    /\ rsPc = "boot" /\ rsItems > 0 /\ rsItems' = rsItems - 1
    /\ UNCHANGED <<rsPub, rsFiles, rsCerts, rsCur, rsRun, rsHad, rsUid, rsSync, rsTries,
                   rsStarts, rsPc, rsRmErr>>

(* main goes on if it runs in EC2 and its user data names this role.       *)
Main ==
    /\ rsPc = "boot" /\ rsItems = 0 /\ rsPc' \in {"run", "ended"}
    /\ UNCHANGED <<rsItems, rsPub, rsFiles, rsCerts, rsCur, rsRun, rsHad, rsUid, rsSync,
                   rsTries, rsStarts, rsRmErr>>

(* run_server up to its loop: the ports, the message to SQS (an exception  *)
(* ends main) and sproc_mgr_init.                                          *)
RunServer ==
    /\ rsPc = "run"
    /\ \/ rsPc' = "starting" /\ rsSync' = "query"
       \/ rsPc' = "ended" /\ UNCHANGED rsSync
    /\ UNCHANGED <<rsItems, rsPub, rsFiles, rsCerts, rsCur, rsRun, rsHad, rsUid, rsTries,
                   rsStarts, rsRmErr>>

(* Mutant: the root directory is always emptied.                           *)
CleanAlways == [a \in RsApps |-> "none"]

(* create_empty_directory of the root, as long as there is no application. *)
CleanRoot == IF rsCur = RsNoApp THEN [a \in RsApps |-> "none"] ELSE rsFiles

(* An exception of exe_cmd or of an AWS call leaves sync_teflon_app: after *)
(* the root was emptied, or before or after the certificate was appended.  *)
SyncThrows ==
    /\ rsSync \in {"query", "certs"} /\ rsSync' = "threw"
    /\ rsFiles' = IF rsSync = "query" THEN CleanRoot ELSE rsFiles
    /\ rsCerts' \in {rsCerts} \cup
                  {Append(rsCerts, a) : a \in {b \in {rsUid} : rsSync = "certs" /\ Len(rsCerts) < 2}}
    /\ UNCHANGED <<rsPub, rsCur, rsRun, rsHad, rsUid, rsTries, rsCtl, rsRmErr>>

(* The record of the application; it may be the running one, or incomplete.*)
Query ==
    /\ rsSync = "query"
    /\ rsUid' = rsPub /\ rsTries' = 0
    /\ \/ /\ rsCur = rsPub
          /\ rsSync' = "still" /\ UNCHANGED <<rsFiles, rsCerts>>
       \/ /\ rsCur # rsPub
          /\ rsSync' = "copy"
          /\ rsFiles' = [CleanRoot EXCEPT ![rsPub] = "part"]
          /\ rsCerts' = IF rsCur = RsNoApp THEN <<>> ELSE rsCerts
    /\ UNCHANGED <<rsPub, rsCur, rsRun, rsHad, rsCtl, rsRmErr>>

(* The copies run in parallel, each in the background: the script waits    *)
(* for them and ends with 0 whether or not one of them has failed.  Only   *)
(* if bash itself does not run or is killed are they made again, and after *)
(* the last attempt the directory's rm may throw.                          *)
CopyFiles ==
    /\ rsSync = "copy"
    /\ \/ /\ \E state \in {"part", "full"} : rsFiles' = [rsFiles EXCEPT ![rsUid] = state]
          /\ rsSync' = "certs" /\ UNCHANGED rsTries
       \/ /\ rsTries' = rsTries + 1
          /\ rsSync' \in IF rsTries + 1 >= RsMaxCopies THEN {"failed", "threw"} ELSE {"copy"}
          /\ UNCHANGED rsFiles
    /\ UNCHANGED <<rsPub, rsCerts, rsCur, rsRun, rsHad, rsUid, rsCtl, rsRmErr>>

(* The certificate, if one is named, is appended to what the file holds    *)
(* (bounded here).                                                         *)
GetCerts ==
    /\ rsSync = "certs" /\ rsSync' = "start"
    /\ rsCerts' \in {rsCerts, IF Len(rsCerts) < 2 THEN Append(rsCerts, rsUid) ELSE rsCerts}
    /\ UNCHANGED <<rsPub, rsFiles, rsCur, rsRun, rsHad, rsUid, rsTries, rsCtl, rsRmErr>>

(* start_server, then curr_app; remove_directory runs its rm on another    *)
(* path than the directory's, and only its failure has an effect.          *)
StartApp ==
    /\ rsSync = "start"
    /\ \/ rsSync' \in {"failed", "threw"} /\ UNCHANGED <<rsRun, rsHad, rsCur, rsRmErr>>
       \/ /\ rsSync' = "running" /\ rsCur' = rsUid /\ UNCHANGED rsRmErr
          /\ rsRun' = rsUid /\ rsHad' = rsFiles[rsUid]
       \/ /\ rsCur # RsNoApp
          /\ rsRun' = rsUid /\ rsHad' = rsFiles[rsUid]
          /\ rsRmErr' = TRUE /\ UNCHANGED rsCur
          /\ rsSync' \in {"failed", "threw"}
    /\ UNCHANGED <<rsPub, rsFiles, rsCerts, rsUid, rsTries, rsCtl>>

(* run_server: a failure ends the program, an exception is tried again.    *)
Started ==
    /\ rsPc = "starting"
    /\ \/ rsSync = "running" /\ rsPc' = "listen" /\ rsSync' = "no" /\ UNCHANGED rsStarts
       \/ rsSync = "failed" /\ rsPc' = "ended" /\ rsSync' = "no" /\ UNCHANGED rsStarts
       \/ /\ rsSync = "threw" /\ rsStarts' = rsStarts + 1
          /\ IF rsStarts + 1 >= RsMaxStarts
             THEN rsPc' = "ended" /\ rsSync' = "no"
             ELSE rsSync' = "query" /\ UNCHANGED rsPc
    /\ UNCHANGED <<rsItems, rsPub, rsFiles, rsCerts, rsCur, rsRun, rsHad, rsUid, rsTries, rsRmErr>>

(* run_server_control binds its port, or its exception ends main, with the *)
(* server still running.                                                   *)
ListenControl ==
    /\ rsPc = "listen" /\ rsPc' \in {"accept", "ended"}
    /\ UNCHANGED <<rsItems, rsPub, rsFiles, rsCerts, rsCur, rsRun, rsHad, rsUid, rsSync,
                   rsTries, rsStarts, rsRmErr>>

(* A connection, and the head of its message, which has two seconds.       *)
ReadHead ==
    /\ \/ rsPc = "accept" /\ rsPc' = "head"
       \/ rsPc = "head" /\ rsPc' \in {"accept", "body"}
    /\ UNCHANGED <<rsItems, rsPub, rsFiles, rsCerts, rsCur, rsRun, rsHad, rsUid, rsSync,
                   rsTries, rsStarts, rsRmErr>>

(* The loop that reads the body looks at a clock that stands still, and    *)
(* takes the end of the connection for more bytes to come.                 *)
ReadBody ==
    /\ rsPc = "body"
    /\ \/ rsPc' \in {"accept", "spin"} /\ UNCHANGED rsSync
       \/ rsPc' = "reload" /\ rsSync' = "query"
    /\ UNCHANGED <<rsItems, rsPub, rsFiles, rsCerts, rsCur, rsRun, rsHad, rsUid, rsTries,
                   rsStarts, rsRmErr>>

(* The answer to a reload; sync_teflon_app never returns teflon_shut_down, *)
(* so the loop goes on whatever it returned.                               *)
Reloaded ==
    /\ rsPc = "reload" /\ rsSync \in {"running", "still", "failed", "threw"}
    /\ rsPc' = "accept" /\ rsSync' = "no"
    /\ UNCHANGED <<rsItems, rsPub, rsFiles, rsCerts, rsCur, rsRun, rsHad, rsUid, rsTries,
                   rsStarts, rsRmErr>>

RsNext ==
    \/ \E a \in RsApps : Publish(a)
    \/ MetadataAnswers \/ Main \/ RunServer \/ SyncThrows \/ Query \/ CopyFiles
    \/ GetCerts \/ StartApp \/ Started \/ ListenControl \/ ReadHead \/ ReadBody \/ Reloaded

-----------------------------------------------------------------------------
(* Unless an rm has failed after a swap, curr_app is the application of    *)
(* the running server and none of the files it was started with has gone,  *)
(* whatever a later sync removes, copies or fails in; and the control port *)
(* is served only while a server runs.                                     *)
RunningAppPresent ==
    /\ rsRmErr \/ (rsRun = rsCur /\ (rsRun # RsNoApp => rsFiles[rsRun] = rsHad))
    /\ rsPc \in {"listen", "accept", "head", "body", "reload"} => rsRun # RsNoApp

(* The application that was started has all of its files: sync_teflon_app  *)
(* logs "file copy failed", tries again, and gives up the eleventh time.    *)
(* The code does not ensure this, since the script hides that a copy has   *)
(* failed.                                                                 *)
RunningAppComplete == rsSync = "running" => rsFiles[rsRun] = "full"
=============================================================================
