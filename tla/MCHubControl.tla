----------------------------- MODULE MCHubControl -----------------------------
(***************************************************************************)
(* HubControl for TLC: the two devices the hub opens, the LED under its    *)
(* own path and one other, one descriptor more than there are devices.     *)
(***************************************************************************)
EXTENDS HubControl

MCThreads == {"mqtt", "paho", "main"}
MCPaths == [d \in {"led", "dht11"} |-> IF d = "led" THEN 2 ELSE 1]

===============================================================================
