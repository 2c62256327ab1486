------------------------------- MODULE ExeCmd -------------------------------
(***************************************************************************)
(* exe_cmd_ of exe_cmd.cpp: a fiber runs a shell command.  Bash is forked  *)
(* with its standard output in a socket pair, one fiber reads the other    *)
(* end, the exit of the process is an event of its pidfd that starts a     *)
(* second fiber, and the caller waits for the exit and then for the end of *)
(* the reading.  Both fibers refer to variables in the caller's frame.     *)
(***************************************************************************)
EXTENDS Naturals

CONSTANT EcChunks       \* bound on what the command writes

VARIABLES
    ecBash,       \* "none", "running", "exited", "reaped"
    ecCode,       \* it exited with code 0
    ecOthers,     \* a process that bash left behind has its output open
    ecWritten,    \* chunks written by the command
    ecRead,       \* chunks in oss
    ecReader,     \* the reading fiber: "none", "reading", "gone"
    ecBroken,     \* a read failed
    ecEvent,      \* the exit: "none", "armed", "fiber", "told"
    ecPc          \* "start", "child", "reader", "returned", "threw"

ecVars == <<ecBash, ecCode, ecOthers, ecWritten, ecRead, ecReader, ecBroken,
            ecEvent, ecPc>>

EcInit ==
    /\ ecBash = "none" /\ ecCode = TRUE /\ ecOthers = FALSE /\ ecWritten = 0
    /\ ecRead = 0 /\ ecReader = "none" /\ ecBroken = FALSE /\ ecEvent = "none"
    /\ ecPc = "start"

(* fork, the pipe, the event of the pidfd and the reading fiber.  What     *)
(* fails before or in fork throws with no process; what fails between fork *)
(* and the event (fcntl, pidfd_open, epoll_ctl) throws and leaves bash     *)
(* running, with nobody to read its output or to reap it.                  *)
ExeCmdStarts ==
    /\ ecPc = "start"
    /\ \/ /\ ecPc' = "child" /\ ecBash' = "running"
          /\ ecReader' = "reading" /\ ecEvent' = "armed"
       \/ /\ ecPc' = "threw" /\ ecBash' \in {"none", "running"}
          /\ UNCHANGED <<ecReader, ecEvent>>
    /\ UNCHANGED <<ecCode, ecOthers, ecWritten, ecRead, ecBroken>>

(* The command writes; bash exits, perhaps before all that it has started. *)
CommandRuns ==
    /\ \/ /\ ecBash = "running" \/ ecOthers
          /\ ecWritten < EcChunks /\ ecWritten' = ecWritten + 1
          /\ UNCHANGED <<ecBash, ecCode, ecOthers>>
       \/ /\ ecBash = "running" /\ ecBash' = "exited"
          /\ ecCode' \in BOOLEAN /\ ecOthers' \in BOOLEAN
          /\ UNCHANGED ecWritten
       \/ /\ ecOthers /\ ecOthers' = FALSE
          /\ UNCHANGED <<ecBash, ecCode, ecWritten>>
    /\ UNCHANGED <<ecRead, ecReader, ecBroken, ecEvent, ecPc>>

(* The reading fiber: a chunk, or the end of file or an error, after which *)
(* it clears fiber_running and notifies.                                   *)
ReadOutput ==
    /\ ecReader = "reading"
    /\ \/ /\ ecRead < ecWritten /\ ecRead' = ecRead + 1
          /\ UNCHANGED <<ecReader, ecBroken>>
       \/ /\ ecRead = ecWritten /\ ecBash \in {"exited", "reaped"} /\ ~ecOthers
          /\ ecReader' = "gone" /\ UNCHANGED <<ecRead, ecBroken>>
       \/ /\ ecReader' = "gone" /\ ecBroken' = TRUE /\ UNCHANGED ecRead
    /\ UNCHANGED <<ecBash, ecCode, ecOthers, ecWritten, ecEvent, ecPc>>

(* child_proc_handler::io_avail starts a fiber that clears child_running.  *)
ChildExits ==
    /\ \/ ecEvent = "armed" /\ ecBash = "exited" /\ ecEvent' = "fiber"
       \/ ecEvent = "fiber" /\ ecEvent' = "told"
    /\ UNCHANGED <<ecBash, ecCode, ecOthers, ecWritten, ecRead, ecReader, ecBroken, ecPc>>

(* Mutant: exe_cmd does not wait for the reader.                           *)
ExeCmdForgetsReader ==
    /\ \/ ecPc = "child" /\ ecEvent = "told" /\ ecPc' = "reader" /\ UNCHANGED ecBash
       \/ /\ ecPc = "reader" /\ ecBash' = "reaped"
          /\ ecPc' = IF ecCode THEN "returned" ELSE "threw"
    /\ UNCHANGED <<ecCode, ecOthers, ecWritten, ecRead, ecReader, ecBroken, ecEvent>>

(* The caller waits for child_running, takes the pidfd out of epoll, waits *)
(* for fiber_running, reaps, and returns the output or throws.             *)
ExeCmdWaits ==
    /\ \/ ecPc = "child" /\ ecEvent = "told" /\ ecPc' = "reader" /\ UNCHANGED ecBash
       \/ /\ ecPc = "reader" /\ ecReader = "gone" /\ ecBash' = "reaped"
          /\ ecPc' = IF ecCode THEN "returned" ELSE "threw"
    /\ UNCHANGED <<ecCode, ecOthers, ecWritten, ecRead, ecReader, ecBroken, ecEvent>>

EcNext == ExeCmdStarts \/ CommandRuns \/ ReadOutput \/ ChildExits \/ ExeCmdWaits

-----------------------------------------------------------------------------
(* When exe_cmd returns it has all that the command wrote, also what other *)
(* processes wrote after bash had ended, unless a read failed; however it  *)
(* ends, neither the reading fiber nor that of the exit can touch its      *)
(* frame; and it leaves the process unreaped only if it threw before it    *)
(* had a reader for it.                                                    *)
CommandComplete ==
    /\ ecPc = "returned" => ecBroken \/ (ecRead = ecWritten /\ ~ecOthers)
    /\ ecPc \in {"returned", "threw"} =>
         /\ ecReader \in {"none", "gone"} /\ ecEvent \in {"none", "told"}
         /\ ecReader = "gone" \/ ecPc = "returned" => ecBash = "reaped"
=============================================================================
