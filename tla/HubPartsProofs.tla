---------------------------- MODULE HubPartsProofs ----------------------------
(***************************************************************************)
(* What the steps of DeviceHal and of MediaPlayer preserve, for every set  *)
(* of threads, devices, paths and process ids and every limit on           *)
(* descriptors.  HubControlProofs uses it.                                 *)
(***************************************************************************)
EXTENDS DeviceHal, MediaPlayer, TLAPS

USE PathsAssumption, MaxFdsAssumption, PidsAssumption

-------------------------------------------------------------------------------
(* DeviceHal                                                                *)

\* FdsOwned is part of the induction: a store overwrites no descriptor.
HalIInv == HalTypeOK /\ HalInv /\ FdsOwned

LEMMA NoFdIsNone == NoFd \notin Fd /\ NoFd \in Int /\ Fd \subseteq Int
  BY DEF NoFd, Fd

LEMMA AnyDeviceIsOne == AnyDevice \in Device
  BY DEF AnyDevice

LEMMA HalInitInv == HalInit => HalIInv
  <1> SUFFICES ASSUME HalInit PROVE HalIInv
    OBVIOUS
  <1>1. HalTypeOK
    BY AnyDeviceIsOne DEF HalInit, HalTypeOK, Opening
  <1>2. HalInv
    BY DEF HalInit, HalInv, Opening
  <1>3. FdsOwned
    BY DEF HalInit, FdsOwned
  <1> QED
    BY <1>1, <1>2, <1>3 DEF HalIInv

LEMMA HalUnchanged == HalIInv /\ UNCHANGED halVars => HalIInv'
  BY DEF HalIInv, HalTypeOK, HalInv, FdsOwned, halVars

LEMMA HalCallInv == ASSUME NEW t \in Threads, NEW d \in Device, NEW op \in {"open", "io"},
                           HalIInv, HalCall(t, d, op)
                    PROVE  HalIInv'
  <1> USE DEF HalIInv, HalCall
  <1>1. HalTypeOK'
    BY DEF HalTypeOK, HalInv
  <1>2. HalInv'
    BY DEF HalInv, HalTypeOK, Opening
  <1>3. FdsOwned'
    BY DEF FdsOwned, HalTypeOK
  <1> QED
    BY <1>1, <1>2, <1>3

LEMMA HalReturnInv == ASSUME NEW t \in Threads, HalIInv, HalReturn(t)
                      PROVE  HalIInv'
  <1> USE AnyDeviceIsOne DEF HalIInv, HalReturn
  <1>1. HalTypeOK'
    BY DEF HalTypeOK
  <1>2. HalInv'
    BY DEF HalInv, HalTypeOK, Opening
  <1>3. FdsOwned'
    BY DEF FdsOwned, HalTypeOK
  <1> QED
    BY <1>1, <1>2, <1>3

LEMMA OpenCheckInv == ASSUME NEW t \in Threads, HalIInv, OpenCheck(t)
                      PROVE  HalIInv'
  <1> USE DEF HalIInv, OpenCheck, AfterOpen
  <1>1. HalTypeOK'
    BY DEF HalTypeOK, HalInv, Opening
  <1>2. HalInv'
    <2>1. CASE fd[halDev[t]] # NoFd
      BY <2>1 DEF HalInv, HalTypeOK, Opening
    <2>2. CASE fd[halDev[t]] = NoFd
      BY <2>2 DEF HalInv, HalTypeOK, Opening
    <2> QED
      BY <2>1, <2>2
  <1>3. FdsOwned'
    BY DEF FdsOwned, HalTypeOK
  <1> QED
    BY <1>1, <1>2, <1>3

LEMMA OpenSystemCallInv == ASSUME NEW t \in Threads, HalIInv, OpenSystemCall(t)
                           PROVE  HalIInv'
  <1> USE NoFdIsNone DEF HalIInv, OpenSystemCall
  <1>1. HalTypeOK'
    BY DEF HalTypeOK, Opening
  <1>2. HalInv'
    BY DEF HalInv, HalTypeOK, Opening
  <1>3. FdsOwned'
    <2> SUFFICES ASSUME contended = {}
                 PROVE  \A f \in opened' :
                          \/ \E d \in Device : fd[d] = f
                          \/ \E u \in Threads : halPc'[u] = "store" /\ halVal'[u] = f
      BY DEF FdsOwned
    <2>1. ASSUME NEW f \in opened
          PROVE  \/ \E d \in Device : fd[d] = f
                 \/ \E u \in Threads \ {t} : halPc[u] = "store" /\ halVal[u] = f
      BY DEF FdsOwned
    <2>2. \A u \in Threads \ {t} : halPc'[u] = halPc[u] /\ halVal'[u] = halVal[u]
      BY DEF HalTypeOK
    <2>3. \A f \in opened' : f \in opened \/ (halPc'[t] = "store" /\ halVal'[t] = f)
      BY DEF HalTypeOK
    <2> QED
      BY <2>1, <2>2, <2>3
  <1> QED
    BY <1>1, <1>2, <1>3

LEMMA OpenStoreInv == ASSUME NEW t \in Threads, HalIInv, OpenStore(t)
                      PROVE  HalIInv'
  <1> USE NoFdIsNone DEF HalIInv, OpenStore
  <1>1. HalTypeOK'
    BY DEF HalTypeOK, Opening
  <1>2. HalInv'
    BY DEF HalInv, HalTypeOK, Opening
  <1>3. FdsOwned'
    BY DEF FdsOwned, HalTypeOK, HalInv
  <1> QED
    BY <1>1, <1>2, <1>3

LEMMA OpenTestInv == ASSUME NEW t \in Threads, HalIInv, OpenTest(t)
                     PROVE  HalIInv'
  <1> USE NoFdIsNone DEF HalIInv, OpenTest, AfterOpen
  <1>1. HalTypeOK'
    BY DEF HalTypeOK, Opening
  <1>2. HalInv'
    BY DEF HalInv, HalTypeOK, Opening
  <1>3. FdsOwned'
    BY DEF FdsOwned, HalTypeOK
  <1> QED
    BY <1>1, <1>2, <1>3

LEMMA HalIoInv == ASSUME NEW t \in Threads, HalIInv, HalIo(t)
                  PROVE  HalIInv'
  <1> USE DEF HalIInv, HalIo
  <1>1. HalTypeOK'
    BY DEF HalTypeOK
  <1>2. HalInv'
    BY DEF HalInv, HalTypeOK, Opening
  <1>3. FdsOwned'
    BY DEF FdsOwned, HalTypeOK
  <1> QED
    BY <1>1, <1>2, <1>3

LEMMA HalStepInv == ASSUME NEW t \in Threads, HalIInv, HalStep(t)
                    PROVE  HalIInv'
  BY OpenCheckInv, OpenSystemCallInv, OpenStoreInv, OpenTestInv, HalIoInv DEF HalStep

\* A device is closed when no thread calls the HAL.
LEMMA HalCloseInv == ASSUME NEW d \in Device, HalIInv, HalClose(d),
                            \A t \in Threads : halPc[t] = "idle"
                     PROVE  HalIInv'
  <1> USE NoFdIsNone DEF HalIInv, HalClose
  <1>1. HalTypeOK'
    BY DEF HalTypeOK
  <1>2. HalInv'
    BY DEF HalInv, HalTypeOK, Opening
  <1>3. FdsOwned'
    BY DEF FdsOwned, HalTypeOK
  <1> QED
    BY <1>1, <1>2, <1>3

\* A step is one of a call that goes on, and of no other thread's.
LEMMA HalStepCall == ASSUME NEW t \in Threads, HalTypeOK, HalStep(t)
                     PROVE  /\ halPc[t] # "idle" /\ halPc'[t] # "idle"
                            /\ \A u \in Threads \ {t} : halPc'[u] = halPc[u]
  BY DEF HalStep, HalTypeOK, OpenCheck, OpenSystemCall, OpenStore, OpenTest, HalIo, AfterOpen

\* What a thread reads or writes is open.
LEMMA IoOpen == HalIInv => IoOnOpenFd
  BY DEF HalIInv, HalInv, HalTypeOK, IoOnOpenFd

-------------------------------------------------------------------------------
(* MediaPlayer                                                              *)

PlayerIInv == MediaTypeOK /\ PlayerInv

LEMMA NoPidIsNone == NoPid \notin Pids
  BY DEF NoPid

LEMMA MediaInitInv == MediaInit => PlayerIInv
  BY NoPidIsNone DEF MediaInit, PlayerIInv, MediaTypeOK, PlayerInv, OnePlayer

LEMMA MediaUnchanged == PlayerIInv /\ UNCHANGED mediaVars => PlayerIInv'
  BY DEF PlayerIInv, MediaTypeOK, PlayerInv, OnePlayer, mediaVars

LEMMA MediaCallInv == ASSUME NEW op \in {"play", "stop"}, PlayerIInv, MediaCall(op)
                      PROVE  PlayerIInv'
  BY DEF PlayerIInv, MediaTypeOK, PlayerInv, OnePlayer, MediaCall

LEMMA MediaStepInv == PlayerIInv /\ MediaStep => PlayerIInv'
  <1> SUFFICES ASSUME PlayerIInv, MediaStep PROVE PlayerIInv'
    OBVIOUS
  <1> USE NoPidIsNone DEF PlayerIInv, MediaTypeOK, PlayerInv, OnePlayer
  <1>1. CASE Reap
    BY <1>1 DEF Reap, AfterKill
  <1>2. CASE WaitChild
    BY <1>2 DEF WaitChild, AfterKill
  <1>3. CASE Fork
    BY <1>3 DEF Fork
  <1> QED
    BY <1>1, <1>2, <1>3 DEF MediaStep

\* A step is one of a call that goes on.
LEMMA MediaStepCall == MediaStep => mpPc # "idle" /\ mpPc' # "idle" /\ mpOp' = mpOp
  BY DEF MediaStep, Reap, WaitChild, Fork, AfterKill

LEMMA MediaReturnInv == PlayerIInv /\ MediaReturn => PlayerIInv'
  BY DEF PlayerIInv, MediaTypeOK, PlayerInv, OnePlayer, MediaReturn

LEMMA ChildExitInv == PlayerIInv /\ ChildExit => PlayerIInv'
  BY DEF PlayerIInv, MediaTypeOK, PlayerInv, OnePlayer, ChildExit

===============================================================================
