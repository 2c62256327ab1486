----------------------------- MODULE TcpServer -----------------------------
(***************************************************************************)
(* tcp_server.cpp together with the way examples/teflon/main.cpp runs and  *)
(* shuts down a server.                                                    *)
(*                                                                         *)
(* Io threads take the one-shot event of the listening socket, accept,     *)
(* arm it again and start a fiber for the connection.  stop connects to    *)
(* the server's own port; the thread that accepts that connection takes    *)
(* the socket out of epoll, and wakes the fiber that called stop by        *)
(* putting it on its own wake list, since io_avail does not run in a       *)
(* fiber.  The teflon program starts the server when its command pipe says *)
(* so, and on the stop command stops it, waits until no network pipe is    *)
(* left and ends the io threads.  One listening server stands for the two  *)
(* that teflon may have.                                                   *)
(***************************************************************************)
EXTENDS Naturals, Sequences, FiniteSets, SequencesExt

CONSTANTS TcpThreads,   \* io threads
          TcpConns,     \* connections of clients
          TcpMaxFds,    \* descriptors left for connections
          StopConn      \* the connection that stop makes

AllConns == TcpConns \cup {StopConn}

ASSUME TcpAssumption == /\ TcpMaxFds \in Nat /\ StopConn \notin TcpConns
                        /\ "idle" \notin AllConns /\ "accept" \notin AllConns

VARIABLES
    tcpListen,    \* listening socket in epoll: "none", "armed", "taken", "off"
    tcpBacklog,   \* connections not yet accepted
    tcpPc,        \* io thread -> "idle", "accept" or the connection it accepted
    tcpConn,      \* connection -> where it is
    tcpForced,    \* forced_close_
    tcpStop,      \* stop_
    tcpStopper,   \* the fiber in stop: "none", "connected", "locked", "wait", "woken",
                  \*  "back"
    tcpWake,      \* threads whose wake list holds that fiber
    tcpCrash,     \* an io thread tried to suspend a fiber that is not there
    tfPc,         \* teflon's command fiber
    tfServer      \* my_http is there

tcpVars == <<tcpListen, tcpBacklog, tcpPc, tcpConn, tcpForced, tcpStop,
             tcpStopper, tcpWake, tcpCrash, tfPc, tfServer>>

TcpInit ==
    /\ tcpListen = "none" /\ tcpBacklog = <<>>
    /\ tcpPc = [t \in TcpThreads |-> "idle"]
    /\ tcpConn = [c \in AllConns |-> "none"]
    /\ tcpForced = FALSE /\ tcpStop = FALSE /\ tcpCrash = FALSE
    /\ tcpStopper = "none" /\ tcpWake = {}
    /\ tfPc = "ready" /\ tfServer = FALSE

OpenFds == Cardinality({c \in AllConns : tcpConn[c] \in {"accepted", "queued", "open"}})

(* A client's connect; the listening socket is open before the server is.  *)
ClientConnects(c) ==
    /\ tcpConn[c] = "none" /\ c \in TcpConns
    /\ tcpConn' = [tcpConn EXCEPT ![c] = "backlog"]
    /\ tcpBacklog' = Append(tcpBacklog, c)
    /\ UNCHANGED <<tcpListen, tcpPc, tcpForced, tcpStop, tcpStopper, tcpWake,
                   tcpCrash, tfPc, tfServer>>

ListenEvent(t) ==
    /\ tcpPc[t] = "idle" /\ tcpListen = "armed" /\ tcpBacklog # <<>>
    /\ tcpListen' = "taken"
    /\ tcpPc' = [tcpPc EXCEPT ![t] = "accept"]
    /\ UNCHANGED <<tcpBacklog, tcpConn, tcpForced, tcpStop, tcpStopper, tcpWake,
                   tcpCrash, tfPc, tfServer>>

(* Mutant: a failed accept returns without arming the socket.              *)
AcceptFailsDisarmed(t) ==
    /\ tcpPc[t] = "accept" /\ OpenFds >= TcpMaxFds
    /\ tcpForced' = TRUE
    /\ tcpPc' = [tcpPc EXCEPT ![t] = "idle"]
    /\ UNCHANGED <<tcpListen, tcpBacklog, tcpConn, tcpStop, tcpStopper, tcpWake,
                   tcpCrash, tfPc, tfServer>>

(* accept4 fails with EMFILE: one sweep of the pipes that hibernate is     *)
(* started until an accept succeeds again, and the socket is armed.        *)
AcceptFails(t) ==
    /\ tcpPc[t] = "accept" /\ OpenFds >= TcpMaxFds
    /\ tcpForced' = TRUE
    /\ tcpListen' = "armed"
    /\ tcpPc' = [tcpPc EXCEPT ![t] = "idle"]
    /\ UNCHANGED <<tcpBacklog, tcpConn, tcpStop, tcpStopper, tcpWake, tcpCrash,
                   tfPc, tfServer>>

Accepted(t) ==
    /\ tcpPc[t] = "accept" /\ OpenFds < TcpMaxFds
    /\ tcpForced' = FALSE
    /\ tcpBacklog' = Tail(tcpBacklog)
    /\ tcpConn' = [tcpConn EXCEPT ![Head(tcpBacklog)] = "accepted"]
    /\ tcpPc' = [tcpPc EXCEPT ![t] = Head(tcpBacklog)]
    /\ UNCHANGED <<tfPc, tfServer>>

AcceptClient(t) ==
    /\ Accepted(t)
    /\ ~(tcpStop /\ Head(tcpBacklog) = StopConn)
    /\ tcpListen' = "armed"
    /\ UNCHANGED <<tcpStop, tcpStopper, tcpWake, tcpCrash>>

(* Mutant: the socket is armed again although stop_ is set.                *)
AcceptStopArmed(t) ==
    /\ Accepted(t)
    /\ tcpStop /\ Head(tcpBacklog) = StopConn
    /\ tcpListen' = "armed"
    /\ tcpCrash' = (tcpStopper = "locked")
    /\ tcpStop' = (tcpStopper = "locked")
    /\ tcpStopper' = IF tcpStopper = "wait" THEN "woken" ELSE tcpStopper
    /\ tcpWake' = IF tcpStopper = "wait" THEN {t} ELSE {}

(* The connection of stop: the socket leaves epoll and the fiber in stop   *)
(* is notified under stop_mutex_.  While that fiber holds the mutex the io *)
(* thread has no fiber to suspend.                                         *)
AcceptStop(t) ==
    /\ Accepted(t)
    /\ tcpStop /\ Head(tcpBacklog) = StopConn
    /\ tcpListen' = "off"
    /\ tcpCrash' = (tcpStopper = "locked")
    /\ tcpStop' = (tcpStopper = "locked")
    /\ tcpStopper' = IF tcpStopper = "wait" THEN "woken" ELSE tcpStopper
    /\ tcpWake' = IF tcpStopper = "wait" THEN {t} ELSE {}

(* run_in_fiber from the io thread: a command for one of the threads.      *)
QueueConn(t) ==
    /\ tcpPc[t] \in AllConns
    /\ tcpConn' = [tcpConn EXCEPT ![tcpPc[t]] = "queued"]
    /\ tcpPc' = [tcpPc EXCEPT ![t] = "idle"]
    /\ UNCHANGED <<tcpListen, tcpBacklog, tcpForced, tcpStop, tcpStopper, tcpWake,
                   tcpCrash, tfPc, tfServer>>

(* wake_all on thread t runs what is in t's wake list too.                 *)
Drain(t) ==
    /\ tcpStopper' = IF t \in tcpWake THEN "back" ELSE tcpStopper
    /\ tcpWake' = tcpWake \ {t}

(* The connection's fiber makes its fiber_pipe and calls the server's      *)
(* function.                                                               *)
RunConn(t, c) ==
    /\ tcpPc[t] = "idle" /\ tcpConn[c] = "queued" /\ tfPc # "term"
    /\ tcpConn' = [tcpConn EXCEPT ![c] = "open"]
    /\ Drain(t)
    /\ UNCHANGED <<tcpListen, tcpBacklog, tcpPc, tcpForced, tcpStop, tcpCrash,
                   tfPc, tfServer>>

(* The function returns, throws or times out on thread t.                  *)
CloseConn(t, c) ==
    /\ tcpPc[t] = "idle" /\ tcpConn[c] = "open"
    /\ tcpConn' = [tcpConn EXCEPT ![c] = "closed"]
    /\ Drain(t)
    /\ UNCHANGED <<tcpListen, tcpBacklog, tcpPc, tcpForced, tcpStop, tcpCrash,
                   tfPc, tfServer>>

(* stop, in the command fiber: stop_ is set before the connect.            *)
ServerStop ==
    /\ tfPc = "stopping" /\ tcpStopper = "none"
    /\ tcpStop' = TRUE
    /\ tcpBacklog' = Append(tcpBacklog, StopConn)
    /\ tcpConn' = [tcpConn EXCEPT ![StopConn] = "backlog"]
    /\ tcpStopper' = "connected"
    /\ UNCHANGED <<tcpListen, tcpPc, tcpForced, tcpWake, tcpCrash, tfPc, tfServer>>

StopLocks ==
    /\ tcpStopper = "connected"
    /\ tcpStopper' = IF tcpStop THEN "locked" ELSE "back"
    /\ UNCHANGED <<tcpListen, tcpBacklog, tcpPc, tcpConn, tcpForced, tcpStop,
                   tcpWake, tcpCrash, tfPc, tfServer>>

StopWaits ==
    /\ tcpStopper = "locked" /\ ~tcpCrash
    /\ tcpStopper' = "wait"
    /\ UNCHANGED <<tcpListen, tcpBacklog, tcpPc, tcpConn, tcpForced, tcpStop,
                   tcpWake, tcpCrash, tfPc, tfServer>>

(* init_socket puts the socket into epoll, armed for one event.            *)
InitSocket == tcpListen' = "armed"

(* Command 0: server_init and the server, unless one is there; the server  *)
(* may fail to start.                                                      *)
StartCommand ==
    /\ tfPc = "ready"
    /\ \/ /\ ~tfServer /\ tfServer' = TRUE /\ InitSocket
       \/ /\ UNCHANGED <<tfServer, tcpListen>>
    /\ UNCHANGED <<tcpBacklog, tcpPc, tcpConn, tcpForced, tcpStop, tcpStopper,
                   tcpWake, tcpCrash, tfPc>>

(* Command 1.                                                              *)
StopCommand ==
    /\ tfPc = "ready"
    /\ tfPc' = IF tfServer THEN "stopping" ELSE "stopped"
    /\ UNCHANGED <<tcpListen, tcpBacklog, tcpPc, tcpConn, tcpForced, tcpStop,
                   tcpStopper, tcpWake, tcpCrash, tfServer>>

(* stop has returned: the parent is told that the listening socket is      *)
(* free; then wait_for_zero_net_pipes, which counts open pipes only; then  *)
(* end_service, io_dispatch::stop and the end of main.                     *)
ShutDown ==
    /\ \/ tfPc = "stopping" /\ tcpStopper = "back" /\ tfPc' = "stopped"
       \/ /\ tfPc = "stopped" /\ \A c \in AllConns : tcpConn[c] # "open"
          /\ tfPc' = "no_pipes"
       \/ tfPc = "no_pipes" /\ tfPc' = "term"
    /\ UNCHANGED <<tcpListen, tcpBacklog, tcpPc, tcpConn, tcpForced, tcpStop,
                   tcpStopper, tcpWake, tcpCrash, tfServer>>

TcpThreadStep(t) ==
    \/ ListenEvent(t) \/ AcceptFails(t) \/ AcceptClient(t) \/ AcceptStop(t)
    \/ QueueConn(t)
    \/ \E c \in AllConns : RunConn(t, c) \/ CloseConn(t, c)

TcpNext ==
    /\ ~tcpCrash
    /\ \/ \E c \in TcpConns : ClientConnects(c)
       \/ \E t \in TcpThreads : TcpThreadStep(t)
       \/ ServerStop \/ StopLocks \/ StopWaits
       \/ StartCommand \/ StopCommand \/ ShutDown

TcpSpec == TcpInit /\ [][TcpNext]_tcpVars

(* Io threads do not rest while they have something to do, and a           *)
(* connection ends, at the latest by its timeout.                          *)
TcpFairness ==
    /\ \A t \in TcpThreads :
         WF_tcpVars(~tcpCrash /\ (AcceptFails(t) \/ AcceptClient(t)
                                  \/ AcceptStop(t) \/ QueueConn(t)))
    /\ WF_tcpVars(~tcpCrash /\ \E t \in TcpThreads : ListenEvent(t))
    /\ \A c \in AllConns :
         /\ WF_tcpVars(~tcpCrash /\ \E t \in TcpThreads : RunConn(t, c))
         /\ WF_tcpVars(~tcpCrash /\ \E t \in TcpThreads : CloseConn(t, c))

-----------------------------------------------------------------------------
(* Once stop has returned, no thread is in accept or will call it again:   *)
(* the comment in teflon's main that precedes the calls of stop.  It rests *)
(* on there being at most one thread between the one-shot event and the    *)
(* epoll_ctl that follows accept.                                          *)
AcceptsStopped ==
    /\ Cardinality({t \in TcpThreads : tcpPc[t] = "accept"})
         = IF tcpListen = "taken" THEN 1 ELSE 0
    /\ tcpStopper \in {"woken", "back"} => tcpListen = "off"
    /\ tcpStopper = "wait" => tcpStop

(* Every stop is noticed by an io thread, however many connections are     *)
(* ahead of it and whether or not accept runs out of descriptors.          *)
StopNoticed == tcpStop ~> ~tcpStop \/ tcpCrash

(* What the comments in teflon's main say of its end: when server_term is  *)
(* called every connection that was accepted has been closed.              *)
SocketsClosedAtTerm ==
    tfPc = "term" => \A c \in AllConns : tcpConn[c] \notin {"accepted", "queued", "open"}
=============================================================================
