--------------------------- MODULE HubControlProofs ---------------------------
(***************************************************************************)
(* Theorems about HubControl, for every number of paths, descriptors,      *)
(* process ids and requests and every configured reconnect delay.          *)
(***************************************************************************)
EXTENDS HubControl, HubPartsProofs

USE ThreadsAssumption, DeviceAssumption

IInv == TypeOK /\ HalInv /\ FdsOwned /\ PlayerInv /\ CallsInv

LEMMA ThreadsAre == "mqtt" \in Threads /\ "paho" \in Threads /\ "main" \in Threads
  OBVIOUS

LEMMA DevicesAre == "led" \in Device /\ "dht11" \in Device
  OBVIOUS

LEMMA IInvParts == IInv => HalIInv /\ PlayerIInv
  BY DEF IInv, TypeOK, HalIInv, PlayerIInv

\* When main gives things up no thread is left that uses them.
LEMMA GivenUpIdle ==
  ASSUME IInv, mainPc \in {"media", "mediaStop", "close", "closeDht11", "gone"}
  PROVE  mPc = "off" /\ pPc = "idle" /\ \A t \in Threads : halPc[t] = "idle"
  BY DEF IInv, CallsInv

-------------------------------------------------------------------------------
(* The devices: each step is one of DeviceHal's, or leaves them alone.      *)

LEMMA NextHal == IInv /\ [Next]_vars => HalIInv'
  <1> SUFFICES ASSUME IInv, [Next]_vars PROVE HalIInv'
    OBVIOUS
  <1> USE IInvParts, ThreadsAre, DevicesAre
  <1>1. CASE UNCHANGED halVars
    BY <1>1, HalUnchanged
  <1>2. ASSUME NEW t \in Threads, HalStep(t) PROVE HalIInv'
    BY <1>2, HalStepInv
  <1>3. ASSUME NEW t \in Threads, HalReturn(t) PROVE HalIInv'
    BY <1>3, HalReturnInv
  <1>4. ASSUME NEW t \in Threads, NEW d \in Device, NEW op \in {"open", "io"}, HalCall(t, d, op)
        PROVE  HalIInv'
    BY <1>4, HalCallInv
  <1>5. CASE MainClose
    <2>1. \A t \in Threads : halPc[t] = "idle"
      BY <1>5, GivenUpIdle DEF MainClose
    <2> QED
      BY <1>5, <2>1, HalCloseInv DEF MainClose
  <1>6. CASE Service
    <2>1. CASE Report \/ ServiceHal \/ ReportRead
      BY <2>1, <1>1, <1>2, <1>3, <1>4 DEF Report, ServiceHal, ReportRead
    <2>2. CASE ServiceLoop \/ Wake \/ Prepare \/ Connect \/ Subscribe \/ Connected
      BY <2>2, <1>1 DEF ServiceLoop, Wake, Prepare, Connect, Subscribe, Connected
    <2>3. CASE BackoffReset \/ Poll \/ ReportPublish \/ ReportFailed \/ Cleanup
      BY <2>3, <1>1 DEF BackoffReset, Poll, ReportPublish, ReportFailed, Cleanup
    <2> QED
      BY <1>6, <2>1, <2>2, <2>3 DEF Service
  <1>7. CASE LinkLost \/ ConnLost \/ PlayerExit \/ StopRequest \/ Exited \/ UNCHANGED vars
    BY <1>7, <1>1 DEF LinkLost, ConnLost, PlayerExit, StopRequest, Exited, vars
  <1>8. CASE MsgArrvd
    BY <1>8, <1>1, <1>4 DEF MsgArrvd
  <1>9. CASE Callback
    BY <1>9, <1>1, <1>2, <1>3 DEF Callback, DispatchHal, DispatchMedia, DispatchDone, Reply, ReplyFailed
  <1>10. CASE MainOpen
    BY <1>10, <1>1, <1>2, <1>3, <1>4 DEF MainOpen
  <1>11. CASE MainStart \/ MainStop \/ MainJoin \/ MainMedia
    BY <1>11, <1>1 DEF MainStart, MainStop, MainJoin, MainMedia
  <1> QED
    BY <1>5, <1>6, <1>7, <1>8, <1>9, <1>10, <1>11 DEF Next, Main

-------------------------------------------------------------------------------
(* The player: likewise.                                                    *)

LEMMA NextPlayer == IInv /\ [Next]_vars => PlayerIInv'
  <1> SUFFICES ASSUME IInv, [Next]_vars PROVE PlayerIInv'
    OBVIOUS
  <1> USE IInvParts
  <1>1. CASE UNCHANGED mediaVars
    BY <1>1, MediaUnchanged
  <1>2. CASE MediaStep \/ MediaReturn \/ ChildExit
    BY <1>2, MediaStepInv, MediaReturnInv, ChildExitInv
  <1>3. ASSUME NEW op \in {"play", "stop"}, MediaCall(op) PROVE PlayerIInv'
    BY <1>3, MediaCallInv
  <1>4. CASE Service
    <2>1. CASE Report \/ ServiceHal \/ ReportRead
      BY <2>1, <1>1 DEF Report, ServiceHal, ReportRead
    <2>2. CASE ServiceLoop \/ Wake \/ Prepare \/ Connect \/ Subscribe \/ Connected
      BY <2>2, <1>1 DEF ServiceLoop, Wake, Prepare, Connect, Subscribe, Connected
    <2>3. CASE BackoffReset \/ Poll \/ ReportPublish \/ ReportFailed \/ Cleanup
      BY <2>3, <1>1 DEF BackoffReset, Poll, ReportPublish, ReportFailed, Cleanup
    <2> QED
      BY <1>4, <2>1, <2>2, <2>3 DEF Service
  <1>5. CASE LinkLost \/ ConnLost \/ StopRequest \/ Exited \/ UNCHANGED vars
    BY <1>5, <1>1 DEF LinkLost, ConnLost, StopRequest, Exited, vars
  <1>6. CASE PlayerExit
    BY <1>6, <1>2 DEF PlayerExit
  <1>7. CASE MsgArrvd
    BY <1>7, <1>1, <1>3 DEF MsgArrvd
  <1>8. CASE Callback
    BY <1>8, <1>1, <1>2 DEF Callback, DispatchHal, DispatchMedia, DispatchDone, Reply, ReplyFailed
  <1>9. CASE MainMedia
    BY <1>9, <1>2, <1>3 DEF MainMedia
  <1>10. CASE MainOpen \/ MainStart \/ MainStop \/ MainJoin \/ MainClose
    BY <1>10, <1>1 DEF MainOpen, MainStart, MainStop, MainJoin, MainClose
  <1> QED
    BY <1>4, <1>5, <1>6, <1>7, <1>8, <1>9, <1>10 DEF Next, Main

-------------------------------------------------------------------------------
(* The hub's own variables.                                                 *)

LEMMA DelayInRange == reconnect_backoff \in Nat \ {0} => Delay \in 1..60
  BY DEF Delay

LEMMA NextBackoffInRange == delay \in 1..60 => NextBackoff \in Nat \ {0}
  BY DEF NextBackoff

LEMMA InitialInRange == InitialBackoff \in Nat \ {0}
  BY ReconnectSecAssumption DEF InitialBackoff

\* TypeOK without what DeviceHal and MediaPlayer say of theirs, in two parts:
\* Zenon proves the flags, SMT the rest.
Flags == /\ g_stop \in BOOLEAN /\ running \in BOOLEAN
         /\ connected \in BOOLEAN /\ client_created \in BOOLEAN
         /\ link \in BOOLEAN /\ lost \in BOOLEAN

Places ==
  /\ mainPc \in {"init", "led", "next", "dht11", "start", "run", "stop", "join", "media",
                 "mediaStop", "close", "closeDht11", "gone"}
  /\ reconnect_backoff \in Nat \ {0} /\ delay \in 0..60 /\ lastDelay \in 0..60
  /\ mPc \in {"off", "loop", "sleep", "prepare", "connect", "subscribe", "connected", "reset",
              "poll", "report", "read", "publish", "failed", "cleanup", "exit"}
  /\ pPc \in {"idle", "device", "media", "reply", "failed"}
  /\ requests \in 0..MaxRequests

LEMMA TypeParts == TypeOK <=> HalTypeOK /\ MediaTypeOK /\ Flags /\ Places
  BY DEF TypeOK, Flags, Places

LEMMA NextFlags == Flags /\ [Next]_vars => Flags'
  <1> SUFFICES ASSUME Flags, [Next]_vars PROVE Flags'
    OBVIOUS
  <1> USE DEF Flags, main, service, callbacks, network
  <1>1. CASE ServiceLoop \/ Wake \/ Report \/ ServiceHal \/ ReportRead \/ ReportPublish \/ BackoffReset
    BY <1>1 DEF ServiceLoop, Wake, Report, ServiceHal, ReportRead, ReportPublish, BackoffReset
  <1>2. CASE Prepare
    BY <1>2, Zenon DEF Prepare, BackOff
  <1>3. CASE Connect
    BY <1>3, Zenon DEF Connect, BackOff
  <1>4. CASE Subscribe
    BY <1>4, Zenon DEF Subscribe, BackOff
  <1>5. CASE Connected
    BY <1>5, Zenon DEF Connected
  <1>6. CASE Poll
    BY <1>6, Zenon DEF Poll
  <1>7. CASE ReportFailed
    BY <1>7, Zenon DEF ReportFailed
  <1>8. CASE Cleanup
    BY <1>8, Zenon DEF Cleanup
  <1>9. CASE LinkLost
    BY <1>9, Zenon DEF LinkLost
  <1>10. CASE ConnLost
    BY <1>10, Zenon DEF ConnLost
  <1>11. CASE MsgArrvd \/ DispatchHal \/ DispatchMedia \/ DispatchDone \/ Reply
    BY <1>11 DEF MsgArrvd, DispatchHal, DispatchMedia, DispatchDone, Reply
  <1>12. CASE ReplyFailed
    BY <1>12, Zenon DEF ReplyFailed
  <1>13. CASE MainOpen \/ MainJoin \/ MainMedia \/ MainClose \/ PlayerExit
    BY <1>13 DEF MainOpen, MainJoin, MainMedia, MainClose, PlayerExit
  <1>14. CASE MainStart
    BY <1>14, Zenon DEF MainStart
  <1>15. CASE StopRequest
    BY <1>15, Zenon DEF StopRequest
  <1>16. CASE MainStop
    BY <1>16, Zenon DEF MainStop
  <1>17. CASE Exited \/ UNCHANGED vars
    BY <1>17 DEF Exited, vars
  <1> QED
    BY <1>1, <1>2, <1>3, <1>4, <1>5, <1>6, <1>7, <1>8, <1>9, <1>10, <1>11, <1>12, <1>13,
       <1>14, <1>15, <1>16, <1>17 DEF Next, Service, Callback, Main

LEMMA NextPlaces == Places /\ CallsInv /\ [Next]_vars => Places'
  <1> SUFFICES ASSUME Places, CallsInv, [Next]_vars PROVE Places'
    OBVIOUS
  <1> USE MaxRequestsAssumption DEF Places, main, service, callbacks, network
  <1>1. CASE ServiceLoop \/ Connected \/ Poll \/ Report \/ ServiceHal \/ ReportRead
    BY <1>1 DEF ServiceLoop, Connected, Poll, Report, ServiceHal, ReportRead
  <1>2. CASE Prepare \/ Connect \/ Subscribe
    <2>1. CASE BackOff
      <3>1. Delay \in 0..60
        BY DelayInRange
      <3>2. mPc' = "sleep" /\ delay' = Delay /\ lastDelay' = delay
            /\ reconnect_backoff' = reconnect_backoff
        BY <2>1 DEF BackOff
      <3>3. UNCHANGED <<mainPc, pPc, requests>>
        BY <1>2 DEF Prepare, Connect, Subscribe
      <3> QED
        BY <3>1, <3>2, <3>3
    <2>2. CASE ~BackOff
      BY <1>2, <2>2, ZenonT(40) DEF Prepare, Connect, Subscribe
    <2> QED
      BY <2>1, <2>2
  <1>3. CASE Wake
    BY <1>3, NextBackoffInRange DEF Wake, CallsInv
  <1>4. CASE BackoffReset
    BY <1>4, InitialInRange DEF BackoffReset
  <1>5. CASE ReportPublish \/ ReportFailed \/ Cleanup
    BY <1>5 DEF ReportPublish, ReportFailed, Cleanup, Publish
  <1>6. CASE LinkLost \/ ConnLost \/ MsgArrvd
    BY <1>6 DEF LinkLost, ConnLost, MsgArrvd
  <1>7. CASE Callback
    BY <1>7 DEF Callback, DispatchHal, DispatchMedia, DispatchDone, Reply, ReplyFailed, Publish
  <1>8. CASE MainOpen \/ MainStart \/ MainStop
    BY <1>8 DEF MainOpen, MainStart, MainStop
  <1>9. CASE MainJoin \/ MainMedia \/ MainClose
    BY <1>9 DEF MainJoin, MainMedia, MainClose
  <1>10. CASE StopRequest \/ PlayerExit \/ Exited \/ UNCHANGED vars
    BY <1>10 DEF StopRequest, PlayerExit, Exited, vars
  <1> QED
    BY <1>1, <1>2, <1>3, <1>4, <1>5, <1>6, <1>7, <1>8, <1>9, <1>10 DEF Next, Service, Main

-------------------------------------------------------------------------------
(* Who calls what, and when.                                                *)

LEMMA NextCalls == IInv /\ [Next]_vars => CallsInv'
  <1> SUFFICES ASSUME IInv, [Next]_vars PROVE CallsInv'
    OBVIOUS
  <1>1. CallsInv /\ HalTypeOK /\ MediaTypeOK /\ PlayerInv /\ Places
    BY TypeParts DEF IInv
  <1> USE <1>1 DEF CallsInv, main, service, callbacks, network, halVars, mediaVars
  <1>2. CASE ServiceLoop \/ Wake \/ Connected \/ BackoffReset \/ Poll
    BY <1>2 DEF ServiceLoop, Wake, Connected, BackoffReset, Poll
  <1>3. CASE Prepare \/ Connect \/ Subscribe
    <2>1. mPc' # "off" /\ mPc' # "exit" /\ mPc # "off" /\ mPc # "read" /\ mPc' # "read"
      BY <1>3 DEF Prepare, Connect, Subscribe, BackOff
    <2>2. mPc' = "sleep" => delay' > 0
      <3>1. CASE BackOff
        BY <1>3, <3>1, DelayInRange DEF BackOff, Places
      <3>2. CASE ~BackOff
        BY <1>3, <3>2 DEF Prepare, Connect, Subscribe
      <3> QED
        BY <3>1, <3>2
    <2>3. UNCHANGED <<halVars, mediaVars, main, pPc>>
      BY <1>3 DEF Prepare, Connect, Subscribe
    <2> QED
      BY <2>1, <2>2, <2>3
  <1>4. CASE Report
    BY <1>4 DEF Report, HalCall, HalTypeOK
  <1>5. CASE ServiceHal
    BY <1>5, HalStepCall DEF ServiceHal, HalStep
  <1>6. CASE ReportRead
    BY <1>6 DEF ReportRead, HalReturn, HalTypeOK
  <1>7. CASE ReportPublish \/ ReportFailed \/ Cleanup
    BY <1>7 DEF ReportPublish, ReportFailed, Cleanup, Publish
  <1>8. CASE LinkLost \/ ConnLost
    BY <1>8 DEF LinkLost, ConnLost
  <1>9. CASE MsgArrvd
    BY <1>9 DEF MsgArrvd, HalCall, HalTypeOK, MediaCall
  <1>10. CASE DispatchHal
    BY <1>10, HalStepCall DEF DispatchHal
  <1>11. CASE DispatchMedia
    BY <1>11, MediaStepCall DEF DispatchMedia
  <1>12. CASE DispatchDone
    BY <1>12 DEF DispatchDone, HalReturn, HalTypeOK, MediaReturn
  <1>13. CASE Reply \/ ReplyFailed
    BY <1>13 DEF Reply, ReplyFailed, Publish
  <1>14. CASE MainOpen
    BY <1>14, HalStepCall DEF MainOpen, HalCall, HalReturn, HalTypeOK
  <1>15. CASE MainStart \/ StopRequest \/ MainStop \/ MainJoin
    BY <1>15 DEF MainStart, StopRequest, MainStop, MainJoin
  <1>16. CASE MainMedia
    BY <1>16, MediaStepCall DEF MainMedia, MediaCall, MediaReturn, PlayerInv
  <1>17. CASE MainClose
    BY <1>17 DEF MainClose, HalClose, HalTypeOK
  <1>18. CASE PlayerExit
    BY <1>18 DEF PlayerExit, ChildExit
  <1>19. CASE Exited \/ UNCHANGED vars
    BY <1>19 DEF Exited, vars
  <1> QED
    BY <1>2, <1>3, <1>4, <1>5, <1>6, <1>7, <1>8, <1>9, <1>10, <1>11, <1>12, <1>13, <1>14,
       <1>15, <1>16, <1>17, <1>18, <1>19 DEF Next, Service, Callback, Main

LEMMA InitInv == Init => IInv
  <1> SUFFICES ASSUME Init PROVE IInv
    OBVIOUS
  <1>1. HalIInv /\ PlayerIInv
    BY HalInitInv, MediaInitInv DEF Init
  <1>2. Flags
    BY DEF Init, Flags
  <1>3. Places
    BY InitialInRange, MaxRequestsAssumption DEF Init, Places
  <1>4. CallsInv
    BY ThreadsAre DEF Init, CallsInv, HalInit, MediaInit
  <1> QED
    BY <1>1, <1>2, <1>3, <1>4, TypeParts DEF IInv, HalIInv, PlayerIInv

LEMMA Inductive == Spec => []IInv
  <1>1. IInv /\ [Next]_vars => IInv'
    <2> SUFFICES ASSUME IInv, [Next]_vars PROVE IInv'
      OBVIOUS
    <2>1. HalIInv' /\ PlayerIInv' /\ CallsInv'
      BY NextHal, NextPlayer, NextCalls
    <2>2. Flags' /\ Places'
      BY NextFlags, NextPlaces, TypeParts DEF IInv
    <2> QED
      BY <2>1, <2>2 DEF IInv, HalIInv, PlayerIInv, TypeOK, Flags, Places
  <1> QED
    BY InitInv, <1>1, PTL DEF Spec

-------------------------------------------------------------------------------
(* The backoff.                                                             *)

\* What follows a delay d, when no connection comes between: twice as long up to
\* a minute, and 32 seconds after one of 32 or more.
DelayAfter(d) == IF d >= 32 THEN 32 ELSE IF d > 30 THEN 60 ELSE 2 * d

DelaysDouble == mPc = "sleep" /\ lastDelay # 0 => delay = DelayAfter(lastDelay)

\* As long as no attempt has failed since a connection, or since the start, the
\* next one that fails is followed by the configured delay; and by one made from
\* the delay before, if there was one.
BackoffInv ==
  /\ delay = 0 => reconnect_backoff = InitialBackoff
  /\ delay # 0 /\ mPc # "sleep" => reconnect_backoff = NextBackoff
  /\ BackoffStartsOver
  /\ DelaysDouble

LEMMA InitialDelay ==
  reconnect_backoff = InitialBackoff => Delay = IF InitialBackoff > 60 THEN 60 ELSE InitialBackoff
  BY InitialInRange DEF Delay

\* What NextBackoff makes of a delay, the next failure sleeps.
LEMMA DelayFollows ==
  delay \in 1..60 /\ reconnect_backoff = NextBackoff => Delay = DelayAfter(delay)
  BY DEF Delay, NextBackoff, DelayAfter

LEMMA BackOffInv == ASSUME Places, BackoffInv, BackOff, mPc # "sleep" PROVE BackoffInv'
  <1>1. delay' = Delay /\ lastDelay' = delay /\ mPc' = "sleep" /\ Delay > 0 /\ Delay \in Nat
    BY DelayInRange DEF BackOff, Places
  <1>2. delay = 0 => Delay = IF InitialBackoff > 60 THEN 60 ELSE InitialBackoff
    BY InitialDelay DEF BackoffInv
  <1>3. BackoffStartsOver'
    BY <1>1, <1>2 DEF BackoffStartsOver, InitialBackoff
  <1>4. delay # 0 => Delay = DelayAfter(delay)
    BY DelayFollows DEF BackoffInv, Places
  <1>5. DelaysDouble'
    BY <1>1, <1>4 DEF DelaysDouble, DelayAfter
  <1> QED
    BY <1>1, <1>3, <1>5 DEF BackoffInv

LEMMA NextBackoffInv == IInv /\ BackoffInv /\ [Next]_vars => BackoffInv'
  <1> SUFFICES ASSUME IInv, BackoffInv, [Next]_vars PROVE BackoffInv'
    OBVIOUS
  <1>1. CallsInv /\ Places
    BY TypeParts DEF IInv
  <1>2. CASE (Prepare \/ Connect \/ Subscribe) /\ BackOff
    <2>1. mPc # "sleep"
      BY <1>2 DEF Prepare, Connect, Subscribe
    <2> QED
      BY <1>1, <1>2, <2>1, BackOffInv
  <1>3. CASE Wake
    <2>1. delay # 0 /\ delay' = delay /\ mPc' = "loop" /\ reconnect_backoff' = NextBackoff
      BY <1>1, <1>3 DEF Wake, CallsInv
    <2> QED
      BY <2>1 DEF BackoffInv, BackoffStartsOver, DelaysDouble, NextBackoff
  <1>4. CASE BackoffReset
    BY <1>4 DEF BackoffReset, BackoffInv, BackoffStartsOver, DelaysDouble, InitialBackoff
  <1>5. CASE /\ Next \/ UNCHANGED vars
             /\ ~((Prepare \/ Connect \/ Subscribe) /\ BackOff) /\ ~Wake /\ ~BackoffReset
    <2>1. UNCHANGED <<delay, lastDelay, reconnect_backoff>> /\ (mPc' = "sleep" => mPc = "sleep")
      BY <1>5 DEF Next, Service, ServiceLoop, Prepare, Connect, Subscribe, Connected, Poll, Report, ServiceHal,
         ReportRead, ReportPublish, Publish, ReportFailed, Cleanup, LinkLost, ConnLost, MsgArrvd, Callback,
         DispatchHal, DispatchMedia, DispatchDone, Reply, ReplyFailed, Main, MainOpen, MainStart, MainStop,
         MainJoin, MainMedia, MainClose, StopRequest, PlayerExit, Exited, vars, service
    <2>2. mPc = "sleep" => mPc' = "sleep"
      BY <1>1, <1>5 DEF CallsInv, Next, Service, ServiceLoop, Prepare, Connect, Subscribe, Connected, Poll, Report, ServiceHal,
         ReportRead, ReportPublish, Publish, ReportFailed, Cleanup, LinkLost, ConnLost, MsgArrvd, Callback,
         DispatchHal, DispatchMedia, DispatchDone, Reply, ReplyFailed, Main, MainOpen, MainStart, MainStop,
         MainJoin, MainMedia, MainClose, StopRequest, PlayerExit, Exited, vars, service
    <2> QED
      BY <2>1, <2>2 DEF BackoffInv, BackoffStartsOver, DelaysDouble, DelayAfter, NextBackoff, InitialBackoff
  <1> QED
    BY <1>2, <1>3, <1>4, <1>5

LEMMA BackoffInductive == Spec => []BackoffInv
  <1>1. Init => BackoffInv
    BY DEF Init, BackoffInv, BackoffStartsOver, DelaysDouble
  <1> QED
    BY <1>1, NextBackoffInv, Inductive, PTL DEF Spec

-------------------------------------------------------------------------------
(* The theorems.                                                            *)

\* Every variable of the hub's control side keeps its type: a delay stays
\* between nothing and a minute, whatever is configured.
THEOREM TypeCorrect == Spec => []TypeOK
  <1>1. IInv => TypeOK
    BY DEF IInv
  <1> QED
    BY <1>1, Inductive, PTL

\* No descriptor leaks and no two devices share one, as long as no two threads
\* have opened one device at once.
THEOREM DescriptorsOwned == Spec => []FdsOwned
  <1>1. IInv => FdsOwned
    BY DEF IInv
  <1> QED
    BY <1>1, Inductive, PTL

\* A device that is read or written is open, likewise.
THEOREM DevicesOpen == Spec => []IoOnOpenFd
  <1>1. IInv => IoOnOpenFd
    BY IInvParts, IoOpen
  <1> QED
    BY <1>1, Inductive, PTL

\* There is never a second player nor one that nobody waits for.
THEOREM PlayerAlone == Spec => []OnePlayer
  <1>1. IInv => OnePlayer
    BY DEF IInv, PlayerInv
  <1> QED
    BY <1>1, Inductive, PTL

\* A service that has been connected, or has just been started, waits the
\* configured delay after its first failure, whatever that delay is.
THEOREM StartsOver == Spec => []BackoffStartsOver
  <1>1. BackoffInv => BackoffStartsOver
    BY DEF BackoffInv
  <1> QED
    BY <1>1, BackoffInductive, PTL

\* Between two connections the delays of mqtt_service.c double up to a minute,
\* and the one after any of 32 seconds or more is of 32 seconds: the only delays
\* that are shorter than the one before follow one of more than 32.
THEOREM DelaysFollow == Spec => [](DelaysDouble /\ (BackoffGrows \/ lastDelay > 32))
  <1>1. IInv /\ BackoffInv => DelaysDouble /\ (BackoffGrows \/ lastDelay > 32)
    BY TypeParts DEF IInv, BackoffInv, DelaysDouble, DelayAfter, BackoffGrows, Places
  <1> QED
    BY <1>1, Inductive, BackoffInductive, PTL

\* The player and the devices are given up when no thread uses them, and then
\* none is left open or playing.
THEOREM Released == Spec => []ReleasedAlone
  <1>1. IInv => ReleasedAlone
    <2> SUFFICES ASSUME IInv PROVE ReleasedAlone
      OBVIOUS
    <2>1. mainPc \in {"media", "mediaStop", "close", "closeDht11", "gone"} =>
            mPc = "off" /\ pPc = "idle" /\ \A t \in Threads : halPc[t] = "idle"
      BY GivenUpIdle
    <2>2. ASSUME mainPc = "gone" PROVE \A p \in Pids : child[p] = "none"
      BY <2>2, NoPidIsNone DEF IInv, CallsInv, PlayerInv, OnePlayer
    <2>3. ASSUME mainPc = "gone", contended = {} PROVE opened = {}
      <3>1. \A d \in Device : fd[d] = NoFd
        BY <2>3 DEF IInv, CallsInv
      <3>2. \A f \in opened : f \in Fd
        BY DEF IInv, TypeOK, HalTypeOK
      <3> QED
        BY <2>1, <2>3, <3>1, <3>2, NoFdIsNone DEF IInv, FdsOwned
    <2> QED
      BY <2>1, <2>2, <2>3 DEF ReleasedAlone
  <1> QED
    BY <1>1, Inductive, PTL

===============================================================================
