-------------------------- MODULE DebugToolkitProofs --------------------------
(***************************************************************************)
(* Theorems about DebugService, for every set of clients and every timeout *)
(* of a capture, and about DebugToolkit, for every set of plugins and      *)
(* every number of slots: the service first, its plugins after it.         *)
(***************************************************************************)
EXTENDS DebugToolkit, TLAPS, WellFoundedInduction

USE MaxPollsAssumption, NoClientAssumption, PluginsAssumption, SlotCountAssumption

-------------------------------------------------------------------------------
(* Lifetimes of the service's own threads.                                  *)

LEMMA InitThreads == Init => ThreadsInv
  BY DEF Init, ThreadsInv

LEMMA NextThreads == ThreadsInv /\ [Next]_vars => ThreadsInv'
  <1> SUFFICES ASSUME ThreadsInv, [Next]_vars PROVE ThreadsInv'
    OBVIOUS
  <1> USE DEF ThreadsInv, service, analyzer, monitor, network, server, listener, clients
  <1>1. CASE StartAnalyzer \/ StartMonitor \/ StartNet \/ StartSump \/ StopRequest
    BY <1>1 DEF StartAnalyzer, StartMonitor, StartNet, StartSump, StopRequest
  <1>2. CASE StopSump \/ CloseSump \/ JoinSump \/ StopNet \/ CloseNet \/ JoinNet
    BY <1>2 DEF StopSump, CloseSump, JoinSump, StopNet, CloseNet, JoinNet
  <1>3. CASE \/ StopMonitor \/ JoinMonitor \/ StopAnalyzer \/ JoinAnalyzer
             \/ Destroy \/ Return
    BY <1>3 DEF StopMonitor, JoinMonitor, StopAnalyzer, JoinAnalyzer, Destroy, Return
  <1>4. CASE SamplerEnd \/ MonitorLoop \/ NetLoop \/ RecvEnds
    BY <1>4 DEF SamplerEnd, MonitorLoop, NetLoop, RecvEnds, Packet, RecvFails
  <1>5. CASE Listener
    BY <1>5 DEF Listener, ListenerCheck, ListenerFailed, ListenerSpawn, ListenerAccept
  <1>6. ASSUME NEW c \in Clients, Client(c) PROVE ThreadsInv'
    BY <1>6 DEF Client, ClientConnect, ClientCommand, ClientSend, ClientStep, ClientApply,
                ClientCheck, ClientCopy, ClientPoll
  <1>7. CASE Exited \/ UNCHANGED vars
    BY <1>7 DEF Exited, vars
  <1> QED
    BY <1>1, <1>2, <1>3, <1>4, <1>5, <1>6, <1>7 DEF Next, Main

LEMMA ThreadsInductive == Spec => []ThreadsInv
  BY InitThreads, NextThreads, PTL DEF Spec

\* When the service frees its parts all of its threads have been joined,
\* whichever of them had failed to start.
THEOREM JoinedBeforeFree == Spec => []ServiceAlone
  <1>1. ThreadsInv => ServiceAlone
    BY DEF ThreadsInv, ServiceAlone
  <1> QED
    BY <1>1, ThreadsInductive, PTL

-------------------------------------------------------------------------------
(* Type correctness: that a listener which is started has no client in hand *)
(* follows from ThreadsInv.                                                 *)

LEMMA InitType == Init => TypeOK
  <1> SUFFICES ASSUME Init PROVE TypeOK
    OBVIOUS
  <1> USE DEF Init, TypeOK
  <1>1. cliPc \in [Clients -> {"away", "backlog", "accepted", "recv", "apply", "check", "copy",
                              "poll", "send", "closed"}]
    OBVIOUS
  <1>2. polls \in [Clients -> 0..MaxPolls]
    OBVIOUS
  <1>3. accepted \in Clients \cup {NoClient} /\ (accepted # NoClient <=> lsnPc = "spawn")
    OBVIOUS
  <1> QED
    BY <1>1, <1>2, <1>3

\* The flags among the variables, which Zenon handles better than SMT.
Flags == /\ started \in BOOLEAN /\ enable_net \in BOOLEAN /\ enable_sump \in BOOLEAN
         /\ smpRunning \in BOOLEAN /\ monRunning \in BOOLEAN
         /\ netRunning \in BOOLEAN /\ netSocket \in BOOLEAN
         /\ srvRunning \in BOOLEAN /\ srvSocket \in BOOLEAN
         /\ ringFreed \in BOOLEAN

LEMMA MainFlags == Flags /\ (Main \/ StopRequest) => Flags'
  <1> SUFFICES ASSUME Flags, Main \/ StopRequest PROVE Flags'
    OBVIOUS
  <1> USE DEF Flags, service, analyzer, monitor, network, server, listener, clients
  <1>1. CASE StartAnalyzer
    BY <1>1, Zenon DEF StartAnalyzer
  <1>2. CASE StartMonitor
    BY <1>2, Zenon DEF StartMonitor
  <1>3. CASE StartNet
    BY <1>3, Zenon DEF StartNet
  <1>4. CASE StartSump
    BY <1>4, Zenon DEF StartSump
  <1>5. CASE StopRequest
    BY <1>5, Zenon DEF StopRequest
  <1>6. CASE StopSump
    BY <1>6, Zenon DEF StopSump
  <1>7. CASE CloseSump
    BY <1>7, Zenon DEF CloseSump
  <1>8. CASE StopNet
    BY <1>8, Zenon DEF StopNet
  <1>9. CASE CloseNet
    BY <1>9, Zenon DEF CloseNet
  <1>10. CASE StopMonitor
    BY <1>10, Zenon DEF StopMonitor
  <1>11. CASE StopAnalyzer
    BY <1>11, Zenon DEF StopAnalyzer
  <1>12. CASE JoinAnalyzer
    BY <1>12, Zenon DEF JoinAnalyzer
  <1>13. CASE Destroy
    BY <1>13, Zenon DEF Destroy
  <1>14. CASE JoinSump \/ JoinNet \/ JoinMonitor \/ Return
    BY <1>14 DEF JoinSump, JoinNet, JoinMonitor, Return
  <1> QED
    BY <1>1, <1>2, <1>3, <1>4, <1>5, <1>6, <1>7, <1>8, <1>9, <1>10, <1>11, <1>12,
       <1>13, <1>14 DEF Main

LEMMA MainType == TypeOK /\ ThreadsInv /\ (Main \/ StopRequest) => TypeOK'
  <1> SUFFICES ASSUME TypeOK, ThreadsInv, Main \/ StopRequest PROVE TypeOK'
    OBVIOUS
  <1>1. Flags'
    BY MainFlags DEF TypeOK, Flags
  <1> USE <1>1 DEF TypeOK, Flags, service, analyzer, monitor, network, server, listener, clients
  <1>2. CASE StartAnalyzer \/ StartMonitor \/ StartNet \/ StartSump \/ StopRequest
    <2>1. CASE StartAnalyzer \/ StartMonitor \/ StopRequest
      BY <2>1 DEF StartAnalyzer, StartMonitor, StopRequest
    <2>2. CASE StartNet
      BY <2>2 DEF StartNet
    <2>3. CASE StartSump
      <3>1. lsnPc = "off" /\ accepted = NoClient
        BY <2>3 DEF StartSump, ThreadsInv
      <3> QED
        BY <2>3, <3>1 DEF StartSump
    <2> QED
      BY <1>2, <2>1, <2>2, <2>3
  <1>3. CASE StopSump \/ CloseSump \/ JoinSump \/ StopNet \/ CloseNet \/ JoinNet
    BY <1>3 DEF StopSump, CloseSump, JoinSump, StopNet, CloseNet, JoinNet
  <1>4. CASE \/ StopMonitor \/ JoinMonitor \/ StopAnalyzer \/ JoinAnalyzer
             \/ Destroy \/ Return
    BY <1>4 DEF StopMonitor, JoinMonitor, StopAnalyzer, JoinAnalyzer, Destroy, Return
  <1> QED
    BY <1>2, <1>3, <1>4 DEF Main

LEMMA ThreadType == TypeOK /\ (SamplerEnd \/ MonitorLoop \/ NetLoop \/ RecvEnds \/ Listener) => TypeOK'
  <1> SUFFICES ASSUME TypeOK, SamplerEnd \/ MonitorLoop \/ NetLoop \/ RecvEnds \/ Listener
               PROVE  TypeOK'
    OBVIOUS
  <1> USE DEF TypeOK, service, analyzer, monitor, network, server, listener, clients
  <1>1. CASE SamplerEnd \/ MonitorLoop \/ NetLoop \/ RecvEnds
    BY <1>1 DEF SamplerEnd, MonitorLoop, NetLoop, RecvEnds, Packet, RecvFails
  <1>2. CASE ListenerCheck \/ ListenerFailed
    BY <1>2 DEF ListenerCheck, ListenerFailed
  <1>3. CASE ListenerSpawn
    BY <1>3 DEF ListenerSpawn
  <1>4. ASSUME NEW c \in Clients, ListenerAccept(c) PROVE TypeOK'
    BY <1>4 DEF ListenerAccept
  <1> QED
    BY <1>1, <1>2, <1>3, <1>4 DEF Listener

LEMMA ClientType == ASSUME NEW c \in Clients, TypeOK, Client(c) PROVE TypeOK'
  <1> USE DEF TypeOK, service, analyzer, monitor, network, server, listener, clients
  <1>1. CASE ClientConnect(c) \/ ClientCommand(c) \/ ClientSend(c)
    BY <1>1 DEF ClientConnect, ClientCommand, ClientSend
  <1>2. CASE ClientApply(c) \/ ClientCheck(c)
    BY <1>2 DEF ClientApply, ClientCheck
  <1>3. CASE ClientCopy(c)
    BY <1>3 DEF ClientCopy
  <1>4. CASE ClientPoll(c)
    BY <1>4 DEF ClientPoll
  <1> QED
    BY <1>1, <1>2, <1>3, <1>4 DEF Client, ClientStep

LEMMA NextType == TypeOK /\ ThreadsInv /\ [Next]_vars => TypeOK'
  <1> SUFFICES ASSUME TypeOK, ThreadsInv, [Next]_vars PROVE TypeOK'
    OBVIOUS
  <1>1. CASE Exited \/ UNCHANGED vars
    BY <1>1 DEF Exited, vars, TypeOK, service, analyzer, monitor, network, server, listener, clients
  <1> QED
    BY <1>1, MainType, ThreadType, ClientType DEF Next

\* Every variable of the service, its threads and its clients keeps its type;
\* a capture never polls more often than its timeout allows.
THEOREM TypeCorrect == Spec => []TypeOK
  BY InitType, NextType, ThreadsInductive, PTL DEF Spec

-------------------------------------------------------------------------------
(* The clients.                                                             *)

\* The listener gives a client a thread only until it has been joined, whatever
\* it was doing when the server was stopped.
THEOREM NoClientAfterStop == Spec => NoLateClient
  <1>1. TypeOK /\ ThreadsInv /\ [Next]_vars =>
          [\A c \in Clients : cliPc[c] = "accepted" /\ cliPc'[c] = "recv" =>
             mainPc \in {"run", "stopSump", "closeSump", "joinSump"}]_vars
    <2> SUFFICES ASSUME TypeOK, ThreadsInv, Next, NEW c \in Clients,
                        cliPc[c] = "accepted", cliPc'[c] = "recv"
                 PROVE  mainPc \in {"run", "stopSump", "closeSump", "joinSump"}
      OBVIOUS
    <2>0. DOMAIN cliPc = Clients
      BY DEF TypeOK
    <2> USE <2>0 DEF clients
    <2>1. CASE ListenerSpawn
      BY <2>1 DEF ListenerSpawn, ThreadsInv
    <2>2. ~Main /\ ~StopRequest
      BY DEF Main, StopRequest, StartAnalyzer, StartMonitor, StartNet, StartSump, StopSump,
             CloseSump, JoinSump, StopNet, CloseNet, JoinNet, StopMonitor, JoinMonitor,
             StopAnalyzer, JoinAnalyzer, Destroy, Return
    <2>3. ~SamplerEnd /\ ~MonitorLoop /\ ~NetLoop /\ ~RecvEnds /\ ~Exited
      BY DEF SamplerEnd, MonitorLoop, NetLoop, RecvEnds, Packet, RecvFails, Exited, vars
    <2>4. ~ListenerCheck /\ ~ListenerFailed /\ \A b \in Clients : ~ListenerAccept(b)
      <3>1. ~ListenerCheck /\ ~ListenerFailed
        BY DEF ListenerCheck, ListenerFailed
      <3>2. ASSUME NEW b \in Clients, ListenerAccept(b) PROVE FALSE
        BY <3>2 DEF ListenerAccept
      <3> QED
        BY <3>1, <3>2
    <2>5. ASSUME NEW b \in Clients, Client(b) PROVE FALSE
      <3>1. b = c => cliPc[b] \notin {"away", "recv", "apply", "check", "copy", "poll", "send"}
        OBVIOUS
      <3> QED
        BY <2>5, <3>1 DEF Client, ClientConnect, ClientCommand, ClientStep, ClientApply, ClientCheck,
               ClientCopy, ClientPoll, ClientSend
    <2> QED
      BY <2>1, <2>2, <2>3, <2>4, <2>5 DEF Next, Listener
  <1> QED
    BY <1>1, TypeCorrect, ThreadsInductive, PTL DEF Spec, NoLateClient

-------------------------------------------------------------------------------
(* The service with its plugins is the service.                             *)

LEMMA ServiceStep == ToolkitNext => [Next]_vars
  <1>1. MainServing => Next
    BY DEF MainServing, Next
  <1>2. MainPlugging => UNCHANGED vars
    BY DEF MainPlugging
  <1>3. MainStops => Next
    BY DEF MainStops, Next
  <1>4. Threading => Next
    BY DEF Threading, Threads, Next
  <1> QED
    BY <1>1, <1>2, <1>3, <1>4 DEF ToolkitNext

\* Plugins, which main calls between its own steps, add nothing to what the
\* service does: whatever is safe in DebugService is so in DebugToolkit.
THEOREM PluginsInvisible == ToolkitSpec => Spec
  <1>1. ToolkitInit => Init
    BY DEF ToolkitInit
  <1>2. [ToolkitNext]_toolkitVars => [Next]_vars
    BY ServiceStep DEF toolkitVars
  <1> QED
    BY <1>1, <1>2, PTL DEF ToolkitSpec, Spec

-------------------------------------------------------------------------------
(* Plugins.                                                                 *)

\* Where main is while the plugin manager is in each of its calls.
PlaceInv ==
  /\ plPc \in {"scan", "load"} => mainPc = "start"
  /\ plPc = "tick" => mainPc = "run"
  /\ plPc \in {"unload", "close", "freed"} <=> mainPc \in {"destroy", "return", "gone"} /\ plPc # "ready"
  /\ ringFreed => mainPc \in {"return", "gone"}
  /\ mainPc \in {"return", "gone"} => plPc = "freed"

\* A plugin is in one place: not read yet, being added, or in a slot of its own.
SlotsInv ==
  /\ file # NoPlugin <=> plPc = "load"
  /\ file \notin unread
  /\ plPc = "load" => FreeSlots # {}
  /\ \A i \in Slots : slots[i] \notin unread /\ (slots[i] = file => file = NoPlugin)
  /\ \A i, j \in Slots : slots[i] = slots[j] => i = j \/ slots[i] = NoPlugin
  /\ plPc \in {"scan", "load", "ready", "freed"} => tick = 1
  /\ plPc \in {"unload", "close"} => \A i \in Slots : i < tick => slots[i] = NoPlugin
  /\ plPc = "freed" => \A i \in Slots : slots[i] = NoPlugin

Held == {slots[i] : i \in Slots} \ {NoPlugin}

\* What is mapped and what has been loaded, read off the slots.
MappedInv ==
  /\ mapped = Held \cup ({file} \ {NoPlugin})
  /\ active = IF plPc = "close" THEN Held \ {slots[tick]} ELSE Held

PluginInv == PluginTypeOK /\ PlaceInv /\ SlotsInv /\ MappedInv

LEMMA InitPlugins == ToolkitInit => PluginInv
  <1> SUFFICES ASSUME ToolkitInit PROVE PluginInv
    OBVIOUS
  <1> USE DEF ToolkitInit, Init, PluginInit
  <1>1. 1 \in Slots
    BY DEF Slots
  <1>2. PluginTypeOK
    BY <1>1 DEF PluginTypeOK
  <1>3. PlaceInv /\ SlotsInv
    BY DEF PlaceInv, SlotsInv, NoPlugin
  <1>4. MappedInv
    BY <1>1 DEF MappedInv, Held
  <1> QED
    BY <1>2, <1>3, <1>4 DEF PluginInv

\* A file that is loaded goes to a slot that is free.
LEMMA FirstFreeIsFree == ASSUME FreeSlots # {} PROVE FirstFree \in FreeSlots
  <1>1. FreeSlots \subseteq Nat
    BY DEF FreeSlots, Slots
  <1>2. \E i \in FreeSlots : \A j \in FreeSlots : <<j, i>> \notin OpToRel(<, Nat)
    BY <1>1, WFMin, NatLessThanWellFounded, Zenon
  <1>3. \E i \in FreeSlots : \A j \in FreeSlots : ~(j < i)
    BY <1>1, <1>2, Zenon DEF OpToRel
  <1>4. \E i \in FreeSlots : \A j \in FreeSlots : i <= j
    BY <1>1, <1>3
  <1> QED
    BY <1>4, Zenon DEF FirstFree

LEMMA LoadingPlugins == ASSUME PluginInv, Loading, UNCHANGED vars PROVE PluginInv'
  <1> USE DEF PluginInv, PluginTypeOK, PlaceInv, SlotsInv, MappedInv, Held, Loading, vars
  <1>1. CASE PluginOpen
    BY <1>1 DEF PluginOpen, FreeSlots
  <1>2. CASE PluginLoad
    <2> USE <1>2 DEF PluginLoad
    <2>1. plPc = "load" /\ file # NoPlugin /\ FirstFree \in Slots /\ slots[FirstFree] = NoPlugin
      BY FirstFreeIsFree DEF FreeSlots
    <2>2. CASE PluginFail
      <3>1. \A i \in Slots : slots'[i] = slots[i]
        BY <2>2 DEF PluginFail
      <3>2. file \notin Held
        BY <2>1
      <3>3. MappedInv'
        BY <2>1, <2>2, <3>2 DEF PluginFail
      <3> QED
        BY <2>1, <2>2, <3>3 DEF PluginFail
    <2>3. CASE ~PluginFail
      <3>1. /\ active' = active \cup {file} /\ slots' = [slots EXCEPT ![FirstFree] = file]
            /\ file' = NoPlugin /\ plPc' = "scan" /\ UNCHANGED mapped
        BY <2>3
      <3>2. \A i \in Slots : slots'[i] = IF i = FirstFree THEN file ELSE slots[i]
        BY <2>1, <3>1
      <3>3. Held' = Held \cup {file}
        BY <2>1, <3>2
      <3>4. MappedInv'
        BY <2>1, <3>1, <3>3
      <3>5. PluginTypeOK' /\ PlaceInv'
        BY <2>1, <3>1
      <3>6. SlotsInv'
        BY <2>1, <3>1, <3>2
      <3> QED
        BY <3>4, <3>5, <3>6
    <2> QED
      BY <2>2, <2>3
  <1>3. CASE PluginScanned
    BY <1>3 DEF PluginScanned
  <1> QED
    BY <1>1, <1>2, <1>3

LEMMA PollingPlugins == ASSUME PluginInv, Polling, UNCHANGED vars PROVE PluginInv'
  BY DEF PluginInv, PluginTypeOK, PlaceInv, SlotsInv, MappedInv, Held, Polling, TickBegin,
         TickSlot, Slots, vars

LEMMA UnloadingPlugins == ASSUME PluginInv, Unloading, UNCHANGED vars PROVE PluginInv'
  <1> USE DEF PluginInv, PluginTypeOK, PlaceInv, SlotsInv, MappedInv, Held, Unloading, UnloadPlace, vars
  <1>1. CASE UnloadSlot
    BY <1>1 DEF UnloadSlot, Slots
  <1>2. CASE CloseSlot
    <2> USE <1>2 DEF CloseSlot, Slots
    <2>1. tick \in Slots /\ plPc = "close"
      OBVIOUS
    <2>2. \A i \in Slots : slots'[i] = IF i = tick THEN NoPlugin ELSE slots[i]
      BY <2>1
    <2>3. Held' = Held \ {slots[tick]}
      BY <2>1, <2>2
    <2>4. MappedInv'
      BY <2>1, <2>3 DEF NoPlugin
    <2>5. PluginTypeOK' /\ PlaceInv'
      BY <2>1
    <2>6. SlotsInv'
      BY <2>1, <2>2
    <2> QED
      BY <2>4, <2>5, <2>6
  <1> QED
    BY <1>1, <1>2

LEMMA ServingPlugins == ASSUME PluginInv, MainServing PROVE PluginInv'
  <1>1. (PluginTypeOK /\ SlotsInv /\ MappedInv)'
    BY DEF PluginInv, MainServing, plugVars, PluginTypeOK, SlotsInv, MappedInv,
           Held, FreeSlots
  <1>2. PlaceInv'
    <2> USE DEF PluginInv, PlaceInv, PluginTypeOK, MainServing, plugVars
    <2>1. CASE mainPc = "destroy"
      <3>1. plPc = "freed"
        BY <2>1 DEF InPlugins, UnloadPlace
      <3>2. Destroy
        BY <2>1 DEF Main, StartAnalyzer, StartMonitor, StartNet, StartSump, StopSump, CloseSump,
                    JoinSump, StopNet, CloseNet, JoinNet, StopMonitor, JoinMonitor, StopAnalyzer,
                    JoinAnalyzer, Return
      <3> QED
        BY <3>1, <3>2 DEF Destroy
    <2>2. CASE mainPc = "return"
      <3>1. mainPc' = "gone" /\ UNCHANGED ringFreed
        BY <2>2 DEF Main, StartAnalyzer, StartMonitor, StartNet, StartSump, StopSump, CloseSump,
                    JoinSump, StopNet, CloseNet, JoinNet, StopMonitor, JoinMonitor, StopAnalyzer,
                    JoinAnalyzer, Destroy, Return
      <3> QED
        BY <2>2, <3>1
    <2>3. CASE mainPc \notin {"destroy", "return", "gone"}
      <3>1. plPc = "ready"
        <4>1. plPc \notin {"scan", "load", "tick"}
          BY <2>3 DEF InPlugins, Main, StartMonitor, StartNet, StartSump, StopSump, CloseSump,
                      JoinSump, StopNet, CloseNet, JoinNet, StopMonitor, JoinMonitor, StopAnalyzer,
                      JoinAnalyzer, Destroy, Return
        <4> QED
          BY <2>3, <4>1
      <3>2. mainPc' \notin {"return", "gone"} /\ UNCHANGED ringFreed
        BY <2>3 DEF Main, StartAnalyzer, StartMonitor, StartNet, StartSump, StopSump, CloseSump,
                    JoinSump, StopNet, CloseNet, JoinNet, StopMonitor, JoinMonitor, StopAnalyzer,
                    JoinAnalyzer, Destroy, Return
      <3> QED
        BY <2>3, <3>1, <3>2
    <2>4. mainPc # "gone"
      BY DEF Main, StartAnalyzer, StartMonitor, StartNet, StartSump, StopSump, CloseSump, JoinSump,
             StopNet, CloseNet, JoinNet, StopMonitor, JoinMonitor, StopAnalyzer, JoinAnalyzer,
             Destroy, Return
    <2> QED
      BY <2>1, <2>2, <2>3, <2>4
  <1> QED
    BY <1>1, <1>2 DEF PluginInv

LEMMA OthersLeavePlugins == ASSUME PluginInv, MainStops \/ Threading \/ UNCHANGED toolkitVars
                            PROVE  PluginInv'
  <1>1. (PluginTypeOK /\ SlotsInv /\ MappedInv)'
    BY DEF PluginInv, MainStops, Threading, toolkitVars, plugVars, PluginTypeOK, SlotsInv, MappedInv,
           Held, FreeSlots
  <1>2. PlaceInv'
    <2>1. CASE MainStops
      BY <2>1 DEF PluginInv, MainStops, StopRequest, InPlugins, PlaceInv, plugVars
    <2>2. ASSUME Threading \/ UNCHANGED toolkitVars PROVE UNCHANGED <<mainPc, ringFreed, plPc>>
      BY <2>2 DEF Threading, Threads, toolkitVars, vars, plugVars, SamplerEnd, MonitorLoop, NetLoop,
             RecvEnds, Packet, RecvFails, Listener, ListenerCheck, ListenerFailed, ListenerSpawn, ListenerAccept, Client,
             ClientConnect, ClientCommand, ClientStep, ClientApply, ClientCheck, ClientCopy,
             ClientPoll, ClientSend, Exited
    <2> QED
      BY <2>1, <2>2 DEF PluginInv, PlaceInv
  <1> QED
    BY <1>1, <1>2 DEF PluginInv

LEMMA PluginsInductive == ToolkitSpec => []PluginInv
  <1>1. PluginInv /\ [ToolkitNext]_toolkitVars => PluginInv'
    BY LoadingPlugins, PollingPlugins, UnloadingPlugins, ServingPlugins, OthersLeavePlugins
       DEF ToolkitNext, MainPlugging
  <1> QED
    BY <1>1, InitPlugins, PTL DEF ToolkitSpec

\* A plugin is unloaded once, before its library is closed and after every
\* thread has been joined, and none is left when the service is destroyed.
THEOREM PluginsUnloaded == ToolkitSpec => []PluginsPaired
  <1>1. PluginInv /\ ThreadsInv => PluginsPaired
    BY DEF PluginInv, PluginTypeOK, PlaceInv, SlotsInv, MappedInv, Held, ThreadsInv, PluginsPaired
  <1>2. ToolkitSpec => []ThreadsInv
    BY PluginsInvisible, ThreadsInductive, PTL
  <1> QED
    BY <1>1, <1>2, PluginsInductive, PTL

===============================================================================
