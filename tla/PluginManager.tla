----------------------------- MODULE PluginManager -----------------------------
(***************************************************************************)
(* edt_plugin_manager_t of embedded_debug_toolkit/src/plugins/             *)
(* plugin_manager.c: shared objects found in a directory, each opened,     *)
(* asked for its functions and kept in a slot; their on_tick is called by  *)
(* main's loop, their on_unload when the service is destroyed.             *)
(*                                                                         *)
(* The functions of a plugin are left out, except whether on_load succeeds. *)
(***************************************************************************)
EXTENDS Integers

CONSTANTS Plugins,    \* the .so files of the directory
          SlotCount   \* 16

NoPlugin == "none"
Slots == 1..SlotCount

ASSUME PluginsAssumption == NoPlugin \notin Plugins
ASSUME SlotCountAssumption == SlotCount \in Nat \ {0}

VARIABLES
  plPc,       \* the call in progress
  unread,     \* the files readdir has not given yet
  file,       \* the one being added
  slots,      \* manager->slots, as the plugin in each
  tick,       \* the next slot of a tick or of unload_all
  mapped,     \* the libraries that dlopen has mapped
  active      \* history: plugins that have been loaded and not unloaded

plugVars == <<plPc, unread, file, slots, tick, mapped, active>>

PluginInit ==
  /\ plPc = "scan" /\ unread = Plugins /\ file = NoPlugin
  /\ slots = [i \in Slots |-> NoPlugin] /\ tick = 1
  /\ mapped = {} /\ active = {}

FreeSlots == {i \in Slots : slots[i] = NoPlugin}
FirstFree == CHOOSE i \in FreeSlots : \A j \in FreeSlots : i <= j

\* readdir; without a slot that is free, or if dlopen fails, the file is
\* passed over.
PluginOpen ==
  /\ plPc = "scan"
  /\ \E p \in unread :
       /\ unread' = unread \ {p}
       /\ \/ /\ FreeSlots # {}
             /\ mapped' = mapped \cup {p} /\ file' = p /\ plPc' = "load"
          \/ UNCHANGED <<mapped, file, plPc>>
  /\ UNCHANGED <<slots, tick, active>>

\* A mutant: the library stays open if on_load fails.
PluginFailLeak ==
  /\ file' = NoPlugin /\ plPc' = "scan"
  /\ UNCHANGED <<slots, mapped, active>>

\* No functions, or on_load fails.
PluginFail ==
  /\ mapped' = mapped \ {file}
  /\ file' = NoPlugin /\ plPc' = "scan"
  /\ UNCHANGED <<slots, active>>

PluginLoad ==
  /\ plPc = "load"
  /\ \/ /\ active' = active \cup {file}
        /\ slots' = [slots EXCEPT ![FirstFree] = file]
        /\ file' = NoPlugin /\ plPc' = "scan"
        /\ UNCHANGED mapped
     \/ PluginFail
  /\ UNCHANGED <<unread, tick>>

\* The end of the directory, or there is none.
PluginScanned ==
  /\ plPc = "scan" /\ unread \in {{}, Plugins}
  /\ plPc' = "ready" /\ unread' = {}
  /\ UNCHANGED <<file, slots, tick, mapped, active>>

\* edt_plugin_manager_tick
TickBegin ==
  /\ plPc = "ready"
  /\ plPc' = "tick" /\ tick' = 1
  /\ UNCHANGED <<unread, file, slots, mapped, active>>

TickSlot ==
  /\ plPc = "tick"
  /\ IF tick = SlotCount THEN plPc' = "ready" /\ tick' = 1
     ELSE tick' = tick + 1 /\ UNCHANGED plPc
  /\ UNCHANGED <<unread, file, slots, mapped, active>>

\* edt_plugin_manager_destroy and _unload_all: on_unload...
UnloadSlot ==
  /\ plPc \in {"ready", "unload"}
  /\ active' = active \ {slots[tick]}
  /\ plPc' = "close"
  /\ UNCHANGED <<unread, file, slots, tick, mapped>>

\* ...dlclose, and the slot is cleared.
CloseSlot ==
  /\ plPc = "close"
  /\ mapped' = mapped \ {slots[tick]}
  /\ slots' = [slots EXCEPT ![tick] = NoPlugin]
  /\ IF tick = SlotCount THEN plPc' = "freed" /\ tick' = 1
     ELSE plPc' = "unload" /\ tick' = tick + 1
  /\ UNCHANGED <<unread, file, active>>

PluginTypeOK ==
  /\ plPc \in {"scan", "load", "ready", "tick", "unload", "close", "freed"}
  /\ unread \subseteq Plugins /\ mapped \subseteq Plugins /\ active \subseteq Plugins
  /\ file \in Plugins \cup {NoPlugin}
  /\ slots \in [Slots -> Plugins \cup {NoPlugin}] /\ tick \in Slots

===============================================================================
