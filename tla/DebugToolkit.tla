------------------------------ MODULE DebugToolkit ------------------------------
(***************************************************************************)
(* DebugService with its plugins: edt_debug_service_init loads them before *)
(* anything runs, main's loop calls them, and edt_debug_service_destroy    *)
(* unloads them between the stop and the destruction of the modules, which *)
(* a plugin reaches through the service it is given as context.            *)
(***************************************************************************)
EXTENDS DebugService, PluginManager

toolkitVars == <<vars, plugVars>>

ToolkitInit == Init /\ PluginInit

Loading == mainPc = "start" /\ (PluginOpen \/ PluginLoad \/ PluginScanned)

\* edt_debug_service_poll_plugins
Polling == mainPc = "run" /\ (TickBegin \/ TickSlot)

\* A mutant: the plugins are unloaded before the service is stopped.
UnloadPlaceEarly == mainPc = "stopSump"

\* edt_debug_service_destroy after its stop
UnloadPlace == mainPc = "destroy"

Unloading == UnloadPlace /\ (UnloadSlot \/ CloseSlot)

\* main is in a call of the plugin manager.
InPlugins ==
  \/ mainPc = "start" /\ plPc # "ready"
  \/ mainPc = "run" /\ plPc = "tick"
  \/ UnloadPlace /\ plPc # "freed"

MainServing == ~InPlugins /\ Main /\ UNCHANGED plugVars
MainPlugging == (Loading \/ Polling \/ Unloading) /\ UNCHANGED vars
MainStops == ~InPlugins /\ StopRequest /\ UNCHANGED plugVars

Threads == SamplerEnd \/ MonitorLoop \/ NetLoop \/ RecvEnds \/ Listener
Threading == (Threads \/ (\E c \in Clients : Client(c)) \/ Exited) /\ UNCHANGED plugVars

ToolkitNext == MainServing \/ MainPlugging \/ MainStops \/ Threading

ToolkitSpec == ToolkitInit /\ [][ToolkitNext]_toolkitVars

\* DebugService's fairness, and main's in the plugin manager; that its loop
\* ticks once more is not asked for.
ToolkitFairness ==
  /\ WF_toolkitVars(MainServing) /\ WF_toolkitVars(MainPlugging /\ plPc # "ready")
  /\ WF_toolkitVars(Unloading /\ UNCHANGED vars)
  /\ WF_toolkitVars(SamplerEnd /\ UNCHANGED plugVars)
  /\ WF_toolkitVars(MonitorLoop /\ UNCHANGED plugVars)
  /\ WF_toolkitVars(NetLoop /\ UNCHANGED plugVars)
  /\ WF_toolkitVars(Listener /\ UNCHANGED plugVars)
  /\ \A c \in Clients : WF_toolkitVars(ClientStep(c) /\ UNCHANGED plugVars)

LiveToolkit == /\ ToolkitSpec /\ ToolkitFairness
               /\ WF_toolkitVars(RecvEnds /\ UNCHANGED plugVars)

-------------------------------------------------------------------------------

\* A plugin that was loaded is unloaded once, while its library is still
\* mapped, no thread of the service runs and nothing of it is freed; one that
\* was refused leaves no library behind; and what is in a slot may be called.
PluginsPaired ==
  /\ PluginTypeOK
  /\ active \subseteq mapped
  /\ \A i \in Slots : slots[i] # NoPlugin => slots[i] \in mapped
  /\ plPc \in {"scan", "ready", "tick"} => mapped = active
  /\ plPc \in {"unload", "close", "freed"} =>
       smpPc = "off" /\ monPc = "off" /\ netPc = "off" /\ lsnPc = "off"
  /\ ringFreed => active = {} /\ mapped = {}

===============================================================================
