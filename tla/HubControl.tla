------------------------------ MODULE HubControl ------------------------------
(***************************************************************************)
(* The control side of smart_home_hub: the MQTT service thread, which      *)
(* connects, reports and reconnects (src/mqtt/mqtt_service.c), the Paho    *)
(* thread, which runs its callbacks and in them the RPC dispatcher         *)
(* (src/rpc/json_rpc_dispatch.c) over the devices and the media player,    *)
(* and main, which starts and stops them (src/main.c).                     *)
(*                                                                         *)
(* The Paho library and the broker are modelled from what the service asks *)
(* of them: a call may fail at any time, a connection may be lost at any   *)
(* time and connectionLost comes some time later, callbacks come one at a  *)
(* time, and destroying a client ends its callbacks.  Times are left out,  *)
(* except for the backoff delays, whose length is counted in seconds.      *)
(*                                                                         *)
(* MaxRequests bounds the messages the broker sends.                       *)
(***************************************************************************)
EXTENDS DeviceHal, MediaPlayer

CONSTANTS ReconnectSec,  \* config.mqtt_reconnect_sec
          MaxRequests

ASSUME ThreadsAssumption == Threads = {"mqtt", "paho", "main"}
ASSUME DeviceAssumption == Device = {"led", "dht11"}
ASSUME ReconnectSecAssumption == ReconnectSec \in Int
ASSUME MaxRequestsAssumption == MaxRequests \in Nat

VARIABLES
  g_stop, mainPc,
  running, connected, client_created, reconnect_backoff,   \* svc, impl
  mPc, delay,     \* the service thread, and the delay it sleeps
  pPc, requests,  \* the Paho thread, and the messages it has delivered
  link,           \* the client has a connection to the broker
  lost,           \* connectionLost is still to be called
  lastDelay       \* history: the delay before, 0 if a connect came between

main == <<g_stop, mainPc, running>>
service == <<mPc, client_created, reconnect_backoff, delay, lastDelay>>
callbacks == <<pPc, requests>>
network == <<link, lost>>
vars == <<halVars, mediaVars, main, service, connected, callbacks, network>>

InitialBackoff == IF ReconnectSec > 0 THEN ReconnectSec ELSE 1

Init ==
  /\ HalInit /\ MediaInit
  /\ g_stop = FALSE /\ mainPc = "init" /\ running = FALSE
  /\ connected = FALSE /\ client_created = FALSE
  /\ reconnect_backoff = InitialBackoff /\ delay = 0 /\ lastDelay = 0
  /\ mPc = "off" /\ pPc = "idle" /\ requests = 0
  /\ link = FALSE /\ lost = FALSE

-------------------------------------------------------------------------------
(* mqtt_thread_main                                                         *)

ServiceLoop ==
  /\ mPc = "loop"
  /\ mPc' = IF ~running THEN "cleanup" ELSE IF connected THEN "poll" ELSE "prepare"
  /\ UNCHANGED <<halVars, mediaVars, main, client_created, reconnect_backoff, delay, lastDelay, connected, callbacks, network>>

\* A mutant: the delay is not cut to a minute.
DelayUncut == IF reconnect_backoff <= 0 THEN 1 ELSE reconnect_backoff

\* The delay after a failed attempt.
Delay == IF reconnect_backoff <= 0 THEN 1
         ELSE IF reconnect_backoff > 60 THEN 60 ELSE reconnect_backoff

NextBackoff == IF delay < 32 THEN delay * 2 ELSE 32

\* paho_connect_once fails: the thread sleeps.
BackOff ==
  /\ delay' = Delay /\ lastDelay' = delay
  /\ mPc' = "sleep"
  /\ UNCHANGED reconnect_backoff

Wake ==
  /\ mPc = "sleep"
  /\ reconnect_backoff' = NextBackoff
  /\ mPc' = "loop"
  /\ UNCHANGED <<halVars, mediaVars, main, client_created, delay, lastDelay, connected, callbacks, network>>

\* paho_prepare_client
Prepare ==
  /\ mPc = "prepare"
  /\ \/ /\ client_created' = TRUE /\ mPc' = "connect"
        /\ UNCHANGED <<reconnect_backoff, delay, lastDelay>>
     \/ ~client_created /\ BackOff /\ UNCHANGED client_created
  /\ UNCHANGED <<halVars, mediaVars, main, connected, callbacks, network>>

\* MQTTClient_connect, on a client that may still have a connection.
Connect ==
  /\ mPc = "connect"
  /\ \/ /\ link' = TRUE /\ mPc' = "subscribe"
        /\ UNCHANGED <<reconnect_backoff, delay, lastDelay>>
     \/ link' \in {link, FALSE} /\ BackOff
  /\ UNCHANGED <<halVars, mediaVars, main, client_created, connected, callbacks, lost>>

\* MQTTClient_subscribe; MQTTClient_disconnect if it fails.
Subscribe ==
  /\ mPc = "subscribe"
  /\ \/ /\ link /\ mPc' = "connected"
        /\ UNCHANGED <<link, reconnect_backoff, delay, lastDelay>>
     \/ link' = FALSE /\ BackOff
  /\ UNCHANGED <<halVars, mediaVars, main, client_created, connected, callbacks, lost>>

\* impl->connected = 1
Connected ==
  /\ mPc = "connected"
  /\ connected' = TRUE
  /\ mPc' = "reset"
  /\ UNCHANGED <<halVars, mediaVars, main, client_created, reconnect_backoff, delay, lastDelay, callbacks, network>>

\* A mutant: a connection does not reset the backoff.
BackoffKept ==
  /\ mPc = "reset"
  /\ delay' = 0 /\ lastDelay' = 0
  /\ mPc' = "report"
  /\ UNCHANGED <<halVars, mediaVars, main, client_created, reconnect_backoff, connected, callbacks, network>>

BackoffReset ==
  /\ mPc = "reset"
  /\ reconnect_backoff' = InitialBackoff
  /\ delay' = 0 /\ lastDelay' = 0
  /\ mPc' = "report"
  /\ UNCHANGED <<halVars, mediaVars, main, client_created, connected, callbacks, network>>

\* A mutant: MQTTClient_isConnected is not asked.
PollBlind ==
  /\ mPc = "poll"
  /\ mPc' = "report"
  /\ UNCHANGED <<halVars, mediaVars, main, client_created, reconnect_backoff, delay, lastDelay, connected, callbacks, network>>

\* MQTTClient_isConnected
Poll ==
  /\ mPc = "poll"
  /\ IF link
     THEN mPc' = "report" /\ UNCHANGED connected
     ELSE mPc' = "loop" /\ connected' = FALSE
  /\ UNCHANGED <<halVars, mediaVars, main, client_created, reconnect_backoff, delay, lastDelay, callbacks, network>>

\* A report is due, and reads the sensor, or it is not.
Report ==
  /\ mPc = "report"
  /\ \/ HalCall("mqtt", "dht11", "io") /\ mPc' = "read"
     \/ mPc' = "loop" /\ UNCHANGED halVars
  /\ UNCHANGED <<mediaVars, main, client_created, reconnect_backoff, delay, lastDelay, connected, callbacks, network>>

ServiceHal ==
  /\ HalStep("mqtt")
  /\ UNCHANGED <<mediaVars, main, service, connected, callbacks, network>>

ReportRead ==
  /\ mPc = "read"
  /\ HalReturn("mqtt")
  /\ mPc' = "publish"
  /\ UNCHANGED <<mediaVars, main, client_created, reconnect_backoff, delay, lastDelay, connected, callbacks, network>>

\* hub_mqtt_service_publish: nothing without a connection, else the message
\* goes out or the publish fails.
Publish(pc, sent, failed) ==
  \/ ~connected /\ pc' = sent
  \/ connected /\ link /\ pc' = sent
  \/ connected /\ pc' = failed

ReportPublish ==
  /\ mPc = "publish"
  /\ Publish(mPc, "loop", "failed")
  /\ UNCHANGED <<halVars, mediaVars, main, client_created, reconnect_backoff, delay, lastDelay, connected, callbacks, network>>

ReportFailed ==
  /\ mPc = "failed"
  /\ connected' = FALSE
  /\ mPc' = "loop"
  /\ UNCHANGED <<halVars, mediaVars, main, client_created, reconnect_backoff, delay, lastDelay, callbacks, network>>

\* The end of the thread: MQTTClient_disconnect and _destroy, after which
\* there are no more callbacks.
Cleanup ==
  /\ mPc = "cleanup" /\ pPc = "idle"
  /\ client_created' = FALSE /\ connected' = FALSE
  /\ link' = FALSE /\ lost' = FALSE
  /\ mPc' = "exit"
  /\ UNCHANGED <<halVars, mediaVars, main, reconnect_backoff, delay, lastDelay, callbacks>>

Service == \/ ServiceLoop \/ Wake \/ Prepare \/ Connect \/ Subscribe \/ Connected
           \/ BackoffReset \/ Poll \/ Report \/ ServiceHal \/ ReportRead
           \/ ReportPublish \/ ReportFailed \/ Cleanup

-------------------------------------------------------------------------------
(* The Paho thread: paho_connlost, paho_msgarrvd                            *)

\* The connection breaks; the library will call connectionLost.
LinkLost ==
  /\ link
  /\ link' = FALSE /\ lost' = TRUE
  /\ UNCHANGED <<halVars, mediaVars, main, service, connected, callbacks>>

ConnLost ==
  /\ pPc = "idle" /\ lost
  /\ connected' = FALSE /\ lost' = FALSE
  /\ UNCHANGED <<halVars, mediaVars, main, service, callbacks, link>>

\* A message for the topic the client has subscribed to, and the method that
\* hub_json_rpc_dispatch finds in it: it is answered at once (an invalid or
\* unknown request), or after a device or the player has been called.
MsgArrvd ==
  /\ pPc = "idle" /\ link /\ mPc # "subscribe" /\ requests < MaxRequests
  /\ requests' = requests + 1
  /\ \/ pPc' = "reply" /\ UNCHANGED <<halVars, mediaVars>>
     \/ \E d \in {"led", "dht11"} : HalCall("paho", d, "io") /\ pPc' = "device" /\ UNCHANGED mediaVars
     \/ \E op \in {"play", "stop"} : MediaCall(op) /\ pPc' = "media" /\ UNCHANGED halVars
  /\ UNCHANGED <<main, service, connected, network>>

DispatchHal ==
  /\ HalStep("paho")
  /\ UNCHANGED <<mediaVars, main, service, connected, callbacks, network>>

DispatchMedia ==
  /\ pPc = "media" /\ MediaStep
  /\ UNCHANGED <<halVars, main, service, connected, callbacks, network>>

DispatchDone ==
  /\ \/ pPc = "device" /\ HalReturn("paho") /\ UNCHANGED mediaVars
     \/ pPc = "media" /\ MediaReturn /\ UNCHANGED halVars
  /\ pPc' = "reply"
  /\ UNCHANGED <<main, service, connected, requests, network>>

Reply ==
  /\ pPc = "reply"
  /\ Publish(pPc, "idle", "failed")
  /\ UNCHANGED <<halVars, mediaVars, main, service, connected, requests, network>>

ReplyFailed ==
  /\ pPc = "failed"
  /\ connected' = FALSE
  /\ pPc' = "idle"
  /\ UNCHANGED <<halVars, mediaVars, main, service, requests, network>>

Callback == DispatchHal \/ DispatchMedia \/ DispatchDone \/ Reply \/ ReplyFailed

-------------------------------------------------------------------------------
(* main                                                                     *)

\* hub_device_hal_init opens the LED, then the sensor.
MainOpen ==
  /\ \/ mainPc = "init" /\ HalCall("main", "led", "open") /\ mainPc' = "led"
     \/ mainPc = "led" /\ HalReturn("main") /\ mainPc' = "next"
     \/ mainPc = "next" /\ HalCall("main", "dht11", "open") /\ mainPc' = "dht11"
     \/ mainPc = "dht11" /\ HalReturn("main") /\ mainPc' = "start"
     \/ HalStep("main") /\ UNCHANGED mainPc
  /\ UNCHANGED <<mediaVars, g_stop, running, service, connected, callbacks, network>>

\* hub_mqtt_service_start; if it fails the hub gives up.
MainStart ==
  /\ mainPc = "start"
  /\ \/ running' = TRUE /\ mPc' = "loop" /\ mainPc' = "run"
     \/ mainPc' = "media" /\ UNCHANGED <<running, mPc>>
  /\ UNCHANGED <<halVars, mediaVars, g_stop, client_created, reconnect_backoff, delay, lastDelay, connected, callbacks, network>>

\* SIGINT or SIGTERM.
StopRequest ==
  /\ mainPc = "run"
  /\ g_stop' = TRUE
  /\ mainPc' = "stop"
  /\ UNCHANGED <<halVars, mediaVars, running, service, connected, callbacks, network>>

\* A mutant: the thread is joined without being told to stop.
MainStopForgotten ==
  /\ mainPc = "stop"
  /\ mainPc' = "join"
  /\ UNCHANGED <<halVars, mediaVars, g_stop, running, service, connected, callbacks, network>>

\* hub_mqtt_service_stop
MainStop ==
  /\ mainPc = "stop"
  /\ running' = FALSE
  /\ mainPc' = "join"
  /\ UNCHANGED <<halVars, mediaVars, g_stop, service, connected, callbacks, network>>

\* A mutant: the thread is not waited for.
MainJoinForgotten ==
  /\ mainPc = "join"
  /\ mainPc' = "media"
  /\ UNCHANGED <<halVars, mediaVars, g_stop, running, service, connected, callbacks, network>>

MainJoin ==
  /\ mainPc = "join" /\ mPc = "exit"
  /\ mPc' = "off"
  /\ mainPc' = "media"
  /\ UNCHANGED <<halVars, mediaVars, g_stop, running, client_created, reconnect_backoff, delay, lastDelay, connected, callbacks, network>>

\* hub_media_player_deinit
MainMedia ==
  /\ \/ mainPc = "media" /\ MediaCall("stop") /\ mainPc' = "mediaStop"
     \/ mainPc = "mediaStop" /\ MediaStep /\ UNCHANGED mainPc
     \/ mainPc = "mediaStop" /\ MediaReturn /\ mainPc' = "close"
  /\ UNCHANGED <<halVars, g_stop, running, service, connected, callbacks, network>>

\* hub_device_hal_deinit
MainClose ==
  /\ \/ mainPc = "close" /\ HalClose("led") /\ mainPc' = "closeDht11"
     \/ mainPc = "closeDht11" /\ HalClose("dht11") /\ mainPc' = "gone"
  /\ UNCHANGED <<mediaVars, g_stop, running, service, connected, callbacks, network>>

Main == MainOpen \/ MainStart \/ MainStop \/ MainJoin \/ MainMedia \/ MainClose

PlayerExit ==
  /\ ChildExit
  /\ UNCHANGED <<halVars, main, service, connected, callbacks, network>>

\* main has returned.
Exited == mainPc = "gone" /\ UNCHANGED vars

Next == \/ Service \/ LinkLost \/ ConnLost \/ MsgArrvd \/ Callback
        \/ Main \/ StopRequest \/ PlayerExit \/ Exited

\* The threads are scheduled, and aplay ends when it is told to.
Fairness == /\ WF_vars(Service) /\ WF_vars(Callback) /\ WF_vars(Main)
            /\ WF_vars(PlayerExit /\ mpPc = "wait")

Spec == Init /\ [][Next]_vars /\ Fairness

-------------------------------------------------------------------------------

TypeOK ==
  /\ HalTypeOK /\ MediaTypeOK
  /\ g_stop \in BOOLEAN /\ running \in BOOLEAN
  /\ mainPc \in {"init", "led", "next", "dht11", "start", "run", "stop", "join", "media",
                 "mediaStop", "close", "closeDht11", "gone"}
  /\ connected \in BOOLEAN /\ client_created \in BOOLEAN
  /\ reconnect_backoff \in Nat \ {0} /\ delay \in 0..60 /\ lastDelay \in 0..60
  /\ mPc \in {"off", "loop", "sleep", "prepare", "connect", "subscribe", "connected", "reset",
              "poll", "report", "read", "publish", "failed", "cleanup", "exit"}
  /\ pPc \in {"idle", "device", "media", "reply", "failed"}
  /\ requests \in 0..MaxRequests
  /\ link \in BOOLEAN /\ lost \in BOOLEAN

\* The first delay after a connection, and the first of all, is the
\* configured one, cut to a minute.
BackoffStartsOver ==
  mPc = "sleep" /\ lastDelay = 0 => delay = (IF InitialBackoff > 60 THEN 60 ELSE InitialBackoff)

\* No delay is shorter than the one before it, as long as no connection has
\* come between: "exponential backoff" (docs/FEATURE_CHECKLIST.md).
BackoffGrows == mPc = "sleep" => delay >= lastDelay

\* The media player and the devices are given up only when no thread is left
\* that uses them, and then nothing remains open or playing.
ReleasedAlone ==
  /\ mainPc \in {"media", "mediaStop", "close", "closeDht11", "gone"} =>
       mPc = "off" /\ pPc = "idle" /\ \A t \in Threads : halPc[t] = "idle"
  /\ mainPc = "gone" => /\ \A p \in Pids : child[p] = "none"
                        /\ contended = {} => opened = {}

\* Why, as an inductive invariant: the service thread lives between its start
\* and its join, callbacks end with its clean-up, a device or the player is
\* called only in the states that say so, and main gives them up in order.
CallsInv ==
  /\ mPc # "off" => mainPc \in {"run", "stop", "join"}
  /\ mPc \in {"off", "exit"} => pPc = "idle" /\ ~link
  /\ mPc = "sleep" => delay > 0
  /\ halPc["mqtt"] # "idle" <=> mPc = "read"
  /\ halPc["paho"] # "idle" <=> pPc = "device"
  /\ halPc["main"] # "idle" <=> mainPc \in {"led", "dht11"}
  /\ mpPc # "idle" <=> pPc = "media" \/ mainPc = "mediaStop"
  /\ mainPc = "mediaStop" => mpOp = "stop"
  /\ mainPc \in {"close", "closeDht11", "gone"} => pid = NoPid
  /\ mainPc \in {"closeDht11", "gone"} => fd["led"] = NoFd
  /\ mainPc = "gone" => fd["dht11"] = NoFd

\* The service does not take a lost connection for a live one for ever,
\* whatever the order of its own store to connected and of connectionLost.
LossNoticed == (connected /\ ~link) ~> (~connected \/ link)

\* A stop always ends.
StopTerminates == g_stop ~> mainPc = "gone"

===============================================================================
