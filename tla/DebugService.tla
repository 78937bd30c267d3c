----------------------------- MODULE DebugService -----------------------------
(***************************************************************************)
(* The threads of embedded_debug_toolkit and their lifetimes: main starts  *)
(* and destroys edt_debug_service (src/service/debug_service.c), whose     *)
(* start and stop run the sampling thread, the system monitor, the network *)
(* capture and the listener of the SUMP server; the listener starts a      *)
(* detached thread for each client (src/protocol/sump_server.c).           *)
(*                                                                         *)
(* The sampling thread is LogicAnalyzer's, here only started and stopped;  *)
(* its inputs are taken to change, so that it ends when told to.  What the *)
(* clients set and receive is SumpServer's, the plugins are DebugToolkit's. *)
(* The sockets are modelled from how the code uses them: a shutdown wakes  *)
(* an accept, a close does not wake a recv that is already waiting.        *)
(*                                                                         *)
(* pthread_create returns its error and leaves errno alone, but each start *)
(* returns errno: it may be 0, and then the start of a thread that does    *)
(* not exist reports success.  That is the last disjunct of each start.    *)
(***************************************************************************)
EXTENDS Integers, FiniteSets

CONSTANTS Clients,   \* SUMP clients, each of which connects once
          MaxPolls   \* polls of the ring buffer until a capture times out

ASSUME MaxPollsAssumption == MaxPolls \in Nat

VARIABLES
  mainPc, started, enable_net, enable_sump,   \* main and the service
  smpRunning, smpPc,            \* the analyzer and its thread
  monRunning, monPc,            \* the system monitor
  netRunning, netSocket, netPc, \* the network capture, its socket open or not
  srvRunning, srvSocket, lsnPc, \* the SUMP server, its socket and its listener
  accepted,                     \* the client the listener has just accepted
  cliPc, polls,                 \* the clients' threads
  ringFreed                     \* the ring buffer has been destroyed

service == <<started, enable_net, enable_sump>>
analyzer == <<smpRunning, smpPc>>
monitor == <<monRunning, monPc>>
network == <<netRunning, netSocket, netPc>>
server == <<srvRunning, srvSocket>>
listener == <<lsnPc, accepted>>
clients == <<cliPc, polls>>
vars == <<mainPc, service, analyzer, monitor, network, server, listener, clients, ringFreed>>

NoClient == "none"
ASSUME NoClientAssumption == NoClient \notin Clients

Init ==
  /\ mainPc = "start" /\ started = FALSE
  /\ enable_net \in BOOLEAN /\ enable_sump \in BOOLEAN
  /\ smpRunning = FALSE /\ smpPc = "off"
  /\ monRunning = FALSE /\ monPc = "off"
  /\ netRunning = FALSE /\ netSocket = FALSE /\ netPc = "off"
  /\ srvRunning = FALSE /\ srvSocket = FALSE /\ lsnPc = "off" /\ accepted = NoClient
  /\ cliPc = [c \in Clients |-> "away"] /\ polls = [c \in Clients |-> 0]
  /\ ringFreed = FALSE

-------------------------------------------------------------------------------
(* edt_debug_service_start, called by main                                  *)

\* edt_logic_analyzer_start; without it main gives up.
StartAnalyzer ==
  /\ mainPc = "start"
  /\ \/ smpRunning' = TRUE /\ smpPc' = "run" /\ mainPc' = "startMonitor"
     \/ mainPc' \in {"destroy", "startMonitor"} /\ UNCHANGED analyzer
  /\ UNCHANGED <<service, monitor, network, server, listener, clients, ringFreed>>

\* edt_system_monitor_start; if it fails the analyzer is stopped again.
StartMonitor ==
  /\ mainPc = "startMonitor"
  /\ \/ monRunning' = TRUE /\ monPc' = "check" /\ mainPc' = "startNet"
     \/ mainPc' \in {"stopAnalyzer", "startNet"} /\ UNCHANGED monitor
  /\ UNCHANGED <<service, analyzer, network, server, listener, clients, ringFreed>>

\* edt_net_capture_start; the service does without it.
StartNet ==
  /\ mainPc = "startNet"
  /\ mainPc' = "startSump"
  /\ \/ /\ enable_net
        /\ netRunning' = TRUE /\ netSocket' = TRUE /\ netPc' = "check"
        /\ UNCHANGED enable_net
     \/ enable_net' \in {FALSE, enable_net} /\ UNCHANGED network
  /\ UNCHANGED <<started, enable_sump, analyzer, monitor, server, listener, clients, ringFreed>>

\* edt_sump_server_start; likewise.
StartSump ==
  /\ mainPc = "startSump"
  /\ started' = TRUE
  /\ mainPc' = "run"
  /\ \/ /\ enable_sump
        /\ srvRunning' = TRUE /\ srvSocket' = TRUE /\ lsnPc' = "check"
        /\ UNCHANGED enable_sump
     \/ enable_sump' \in {FALSE, enable_sump} /\ UNCHANGED <<server, lsnPc>>
  /\ UNCHANGED <<enable_net, analyzer, monitor, network, accepted, clients, ringFreed>>

\* main's loop ends: a signal, or its duration is over.
StopRequest ==
  /\ mainPc = "run"
  /\ mainPc' = "stopSump"
  /\ UNCHANGED <<service, analyzer, monitor, network, server, listener, clients, ringFreed>>

-------------------------------------------------------------------------------
(* edt_debug_service_stop and _destroy                                      *)

StopSump ==
  /\ mainPc = "stopSump"
  /\ srvRunning' = FALSE
  /\ mainPc' = IF srvRunning THEN "closeSump" ELSE "stopNet"
  /\ UNCHANGED <<service, analyzer, monitor, network, srvSocket, listener, clients, ringFreed>>

\* shutdown and close of listen_fd
CloseSump ==
  /\ mainPc = "closeSump"
  /\ srvSocket' = FALSE
  /\ mainPc' = "joinSump"
  /\ UNCHANGED <<service, analyzer, monitor, network, srvRunning, listener, clients, ringFreed>>

\* A mutant: the listener is not waited for.
JoinSumpForgotten ==
  /\ mainPc = "joinSump"
  /\ mainPc' = "stopNet"
  /\ UNCHANGED <<service, analyzer, monitor, network, server, listener, clients, ringFreed>>

JoinSump ==
  /\ mainPc = "joinSump" /\ lsnPc = "exit"
  /\ lsnPc' = "off"
  /\ mainPc' = "stopNet"
  /\ UNCHANGED <<service, analyzer, monitor, network, server, accepted, clients, ringFreed>>

\* edt_net_capture_stop
StopNet ==
  /\ mainPc = "stopNet"
  /\ netRunning' = FALSE
  /\ mainPc' = IF netRunning THEN "closeNet" ELSE "stopMonitor"
  /\ UNCHANGED <<service, analyzer, monitor, netSocket, netPc, server, listener, clients, ringFreed>>

CloseNet ==
  /\ mainPc = "closeNet"
  /\ netSocket' = FALSE
  /\ mainPc' = "joinNet"
  /\ UNCHANGED <<service, analyzer, monitor, netRunning, netPc, server, listener, clients, ringFreed>>

JoinNet ==
  /\ mainPc = "joinNet" /\ netPc = "exit"
  /\ netPc' = "off"
  /\ mainPc' = "stopMonitor"
  /\ UNCHANGED <<service, analyzer, monitor, netRunning, netSocket, server, listener, clients, ringFreed>>

\* edt_system_monitor_stop
StopMonitor ==
  /\ mainPc = "stopMonitor"
  /\ monRunning' = FALSE
  /\ mainPc' = IF monRunning THEN "joinMonitor" ELSE "stopAnalyzer"
  /\ UNCHANGED <<service, analyzer, monPc, network, server, listener, clients, ringFreed>>

\* A mutant: the monitor is not waited for.
JoinMonitorForgotten ==
  /\ mainPc = "joinMonitor"
  /\ mainPc' = "stopAnalyzer"
  /\ UNCHANGED <<service, analyzer, monitor, network, server, listener, clients, ringFreed>>

JoinMonitor ==
  /\ mainPc = "joinMonitor" /\ monPc = "exit"
  /\ monPc' = "off"
  /\ mainPc' = "stopAnalyzer"
  /\ UNCHANGED <<service, analyzer, monRunning, network, server, listener, clients, ringFreed>>

\* edt_logic_analyzer_stop
StopAnalyzer ==
  /\ mainPc = "stopAnalyzer"
  /\ smpRunning' = FALSE
  /\ IF smpRunning THEN mainPc' = "joinAnalyzer" /\ UNCHANGED started
     ELSE mainPc' = "destroy" /\ started' = FALSE
  /\ UNCHANGED <<enable_net, enable_sump, smpPc, monitor, network, server, listener, clients, ringFreed>>

JoinAnalyzer ==
  /\ mainPc = "joinAnalyzer" /\ smpPc = "exit"
  /\ smpPc' = "off"
  /\ started' = FALSE
  /\ mainPc' = "destroy"
  /\ UNCHANGED <<enable_net, enable_sump, smpRunning, monitor, network, server, listener, clients, ringFreed>>

\* edt_debug_service_destroy after the stop: nothing runs any more, so each
\* destroy only frees, the ring buffer last.
Destroy ==
  /\ mainPc = "destroy"
  /\ ringFreed' = TRUE
  /\ mainPc' = "return"
  /\ UNCHANGED <<service, analyzer, monitor, network, server, listener, clients>>

\* main returns, and every thread that is left is gone with it.
Return ==
  /\ mainPc = "return"
  /\ mainPc' = "gone"
  /\ UNCHANGED <<service, analyzer, monitor, network, server, listener, clients, ringFreed>>

Main == \/ StartAnalyzer \/ StartMonitor \/ StartNet \/ StartSump
        \/ StopSump \/ CloseSump \/ JoinSump \/ StopNet \/ CloseNet \/ JoinNet
        \/ StopMonitor \/ JoinMonitor \/ StopAnalyzer \/ JoinAnalyzer
        \/ Destroy \/ Return

Alive == mainPc # "gone"

-------------------------------------------------------------------------------
(* edt_logic_sample_thread, edt_system_monitor_thread, edt_net_capture_thread *)

SamplerEnd ==
  /\ Alive /\ smpPc = "run" /\ ~smpRunning
  /\ smpPc' = "exit"
  /\ UNCHANGED <<mainPc, service, smpRunning, monitor, network, server, listener, clients, ringFreed>>

MonitorLoop ==
  /\ Alive
  /\ \/ monPc = "check" /\ monPc' = IF monRunning THEN "collect" ELSE "exit"
     \/ monPc = "collect" /\ monPc' = "sleep"
     \/ monPc = "sleep" /\ monPc' = "check"
  /\ UNCHANGED <<mainPc, service, analyzer, monRunning, network, server, listener, clients, ringFreed>>

\* The loop test, and the call of recv: it waits, or fails on a closed socket.
NetLoop ==
  /\ Alive
  /\ \/ netPc = "check" /\ netPc' = IF netRunning THEN "call" ELSE "exit"
     \/ netPc = "call" /\ netPc' = IF netSocket THEN "wait" ELSE "failed"
     \/ netPc = "failed" /\ netPc' = IF netRunning THEN "check" ELSE "exit"
     \/ netPc = "update" /\ netPc' = "check"
  /\ UNCHANGED <<mainPc, service, analyzer, monitor, netRunning, netSocket, server, listener, clients, ringFreed>>

\* A packet arrives on the interface.
Packet ==
  /\ Alive /\ netPc = "wait"
  /\ netPc' = "update"
  /\ UNCHANGED <<mainPc, service, analyzer, monitor, netRunning, netSocket, server, listener, clients, ringFreed>>

\* recv fails while it waits: after a signal (EINTR) only the loop test comes
\* next, after an error such as an interface that goes down running is looked at.
RecvFails ==
  /\ Alive /\ netPc = "wait"
  /\ netPc' \in {"check", "failed"}
  /\ UNCHANGED <<mainPc, service, analyzer, monitor, netRunning, netSocket, server, listener, clients, ringFreed>>

RecvEnds == Packet \/ RecvFails

-------------------------------------------------------------------------------
(* edt_sump_listener_thread                                                 *)

\* A client asks for a connection.
ClientConnect(c) ==
  /\ Alive /\ srvSocket /\ cliPc[c] = "away"
  /\ cliPc' = [cliPc EXCEPT ![c] = "backlog"]
  /\ UNCHANGED <<mainPc, service, analyzer, monitor, network, server, listener, polls, ringFreed>>

ListenerCheck ==
  /\ Alive /\ lsnPc = "check"
  /\ lsnPc' = IF srvRunning THEN "accept" ELSE "exit"
  /\ UNCHANGED <<mainPc, service, analyzer, monitor, network, server, accepted, clients, ringFreed>>

ListenerAccept(c) ==
  /\ Alive /\ lsnPc = "accept" /\ srvSocket /\ cliPc[c] = "backlog"
  /\ accepted' = c
  /\ cliPc' = [cliPc EXCEPT ![c] = "accepted"]
  /\ lsnPc' = "spawn"
  /\ UNCHANGED <<mainPc, service, analyzer, monitor, network, server, polls, ringFreed>>

\* A mutant: an accept that fails is tried again without looking at running.
ListenerRetries ==
  /\ Alive /\ lsnPc = "accept" /\ ~srvSocket
  /\ UNCHANGED vars

\* accept fails on the closed socket: running is looked at.
ListenerFailed ==
  /\ Alive /\ lsnPc = "accept" /\ ~srvSocket
  /\ lsnPc' = IF srvRunning THEN "check" ELSE "exit"
  /\ UNCHANGED <<mainPc, service, analyzer, monitor, network, server, accepted, clients, ringFreed>>

\* The client's thread is created and detached, or the connection closed.
ListenerSpawn ==
  /\ Alive /\ lsnPc = "spawn"
  /\ \E pc \in {"recv", "closed"} : cliPc' = [cliPc EXCEPT ![accepted] = pc]
  /\ accepted' = NoClient
  /\ lsnPc' = "check"
  /\ UNCHANGED <<mainPc, service, analyzer, monitor, network, server, polls, ringFreed>>

Listener == \/ ListenerCheck \/ ListenerFailed \/ ListenerSpawn
            \/ \E c \in Clients : ListenerAccept(c)

-------------------------------------------------------------------------------
(* edt_sump_client_thread                                                   *)

\* A command that is answered at once or only sets a parameter, ARM, or the
\* end of the connection (or of the commands understood).
ClientCommand(c) ==
  /\ Alive /\ cliPc[c] = "recv"
  /\ \E pc \in {"send", "apply", "closed"} : cliPc' = [cliPc EXCEPT ![c] = pc]
  /\ UNCHANGED <<mainPc, service, analyzer, monitor, network, server, listener, polls, ringFreed>>

\* edt_sump_apply_session, then edt_ring_buffer_read: it looks at rb->data...
ClientApply(c) ==
  /\ Alive /\ cliPc[c] = "apply"
  /\ cliPc' = [cliPc EXCEPT ![c] = "check"]
  /\ UNCHANGED <<mainPc, service, analyzer, monitor, network, server, listener, polls, ringFreed>>

ClientCheck(c) ==
  /\ Alive /\ cliPc[c] = "check"
  /\ cliPc' = [cliPc EXCEPT ![c] = IF ringFreed THEN "poll" ELSE "copy"]
  /\ UNCHANGED <<mainPc, service, analyzer, monitor, network, server, listener, polls, ringFreed>>

\* ...and then copies from it; enough samples end the capture.
ClientCopy(c) ==
  /\ Alive /\ cliPc[c] = "copy"
  /\ \/ cliPc' = [cliPc EXCEPT ![c] = "poll"] /\ UNCHANGED polls
     \/ cliPc' = [cliPc EXCEPT ![c] = "send"] /\ polls' = [polls EXCEPT ![c] = 0]
  /\ UNCHANGED <<mainPc, service, analyzer, monitor, network, server, listener, ringFreed>>

\* A mutant: the capture waits for its samples without a timeout.
ClientPollForever(c) ==
  /\ Alive /\ cliPc[c] = "poll"
  /\ cliPc' = [cliPc EXCEPT ![c] = "check"]
  /\ UNCHANGED <<mainPc, service, analyzer, monitor, network, server, listener, polls, ringFreed>>

\* A mutant: the timeout is taken one poll too late.
ClientPollLate(c) ==
  /\ Alive /\ cliPc[c] = "poll"
  /\ IF polls[c] > MaxPolls
     THEN cliPc' = [cliPc EXCEPT ![c] = "send"] /\ polls' = [polls EXCEPT ![c] = 0]
     ELSE cliPc' = [cliPc EXCEPT ![c] = "check"] /\ polls' = [polls EXCEPT ![c] = @ + 1]
  /\ UNCHANGED <<mainPc, service, analyzer, monitor, network, server, listener, ringFreed>>

\* The timeout of edt_logic_analyzer_capture_blocking
ClientPoll(c) ==
  /\ Alive /\ cliPc[c] = "poll"
  /\ IF polls[c] = MaxPolls
     THEN cliPc' = [cliPc EXCEPT ![c] = "send"] /\ polls' = [polls EXCEPT ![c] = 0]
     ELSE cliPc' = [cliPc EXCEPT ![c] = "check"] /\ polls' = [polls EXCEPT ![c] = @ + 1]
  /\ UNCHANGED <<mainPc, service, analyzer, monitor, network, server, listener, ringFreed>>

\* edt_send_all; an answer that cannot be sent closes the connection.
ClientSend(c) ==
  /\ Alive /\ cliPc[c] = "send"
  /\ \E pc \in {"recv", "closed"} : cliPc' = [cliPc EXCEPT ![c] = pc]
  /\ UNCHANGED <<mainPc, service, analyzer, monitor, network, server, listener, polls, ringFreed>>

ClientStep(c) == ClientApply(c) \/ ClientCheck(c) \/ ClientCopy(c) \/ ClientPoll(c)

Client(c) == ClientConnect(c) \/ ClientCommand(c) \/ ClientStep(c) \/ ClientSend(c)

\* Nothing happens any more.
Exited == mainPc = "gone" /\ UNCHANGED vars

Next == \/ Main \/ StopRequest \/ SamplerEnd \/ MonitorLoop \/ NetLoop \/ RecvEnds
        \/ Listener \/ (\E c \in Clients : Client(c)) \/ Exited

Spec == Init /\ [][Next]_vars

\* The threads are scheduled.
Fairness == /\ WF_vars(Main) /\ WF_vars(SamplerEnd) /\ WF_vars(MonitorLoop)
            /\ WF_vars(NetLoop) /\ WF_vars(Listener)
            /\ \A c \in Clients : WF_vars(ClientStep(c))

\* No recv waits for ever: packets go on arriving on the interface that is
\* captured, or the call fails.
LiveSpec == Spec /\ Fairness /\ WF_vars(RecvEnds)

-------------------------------------------------------------------------------

TypeOK ==
  /\ mainPc \in {"start", "startMonitor", "startNet", "startSump", "run", "stopSump", "closeSump",
                 "joinSump", "stopNet", "closeNet", "joinNet", "stopMonitor", "joinMonitor",
                 "stopAnalyzer", "joinAnalyzer", "destroy", "return", "gone"}
  /\ started \in BOOLEAN /\ enable_net \in BOOLEAN /\ enable_sump \in BOOLEAN
  /\ smpRunning \in BOOLEAN /\ smpPc \in {"off", "run", "exit"}
  /\ monRunning \in BOOLEAN /\ monPc \in {"off", "check", "collect", "sleep", "exit"}
  /\ netRunning \in BOOLEAN /\ netSocket \in BOOLEAN
  /\ netPc \in {"off", "check", "call", "wait", "failed", "update", "exit"}
  /\ srvRunning \in BOOLEAN /\ srvSocket \in BOOLEAN
  /\ lsnPc \in {"off", "check", "accept", "spawn", "exit"}
  /\ accepted \in Clients \cup {NoClient} /\ (accepted # NoClient <=> lsnPc = "spawn")
  /\ cliPc \in [Clients -> {"away", "backlog", "accepted", "recv", "apply", "check", "copy",
                            "poll", "send", "closed"}]
  /\ polls \in [Clients -> 0..MaxPolls]
  /\ ringFreed \in BOOLEAN

\* What the service frees is not used by a thread of its own: each has ended
\* and been joined, whatever had failed to start.
ServiceAlone ==
  mainPc \in {"destroy", "return", "gone"} =>
    smpPc = "off" /\ monPc = "off" /\ netPc = "off" /\ lsnPc = "off"

\* Why, as an inductive invariant: a thread that has not been joined has its join
\* ahead, and main comes by it because the running flag is still set.
ThreadsInv ==
  /\ smpPc # "off" =>
       \/ smpRunning /\ mainPc \notin {"start", "joinAnalyzer", "destroy", "return", "gone"}
       \/ mainPc = "joinAnalyzer"
  /\ monPc # "off" =>
       \/ monRunning /\ mainPc \in {"startNet", "startSump", "run", "stopSump", "closeSump",
                                     "joinSump", "stopNet", "closeNet", "joinNet", "stopMonitor"}
       \/ mainPc = "joinMonitor"
  /\ netPc # "off" =>
       \/ netRunning /\ mainPc \in {"startSump", "run", "stopSump", "closeSump", "joinSump", "stopNet"}
       \/ mainPc \in {"closeNet", "joinNet"}
  /\ lsnPc # "off" => \/ srvRunning /\ mainPc \in {"run", "stopSump"}
                      \/ mainPc \in {"closeSump", "joinSump"}

\* Once the server has been stopped no client gets a thread any more.
NoLateClient ==
  [][\A c \in Clients : cliPc[c] = "accepted" /\ cliPc'[c] = "recv" =>
       mainPc \in {"run", "stopSump", "closeSump", "joinSump"}]_vars

\* The ring buffer is freed when no client copies from it: the service manages
\* "the lifecycle of all modules" (docs/ARCHITECTURE.md).
RingFreedUnused == ringFreed /\ Alive => \A c \in Clients : cliPc[c] # "copy"

\* A capture ends, whether or not samples come, also while the service stops.
CaptureEnds ==
  \A c \in Clients : (cliPc[c] = "apply") ~> (cliPc[c] = "send" \/ ~Alive)

\* A stop ends, also without a SUMP client or a network capture, and clients
\* do not hold it up.
StopEnds == (mainPc = "stopSump") ~> (mainPc = "gone")

===============================================================================
