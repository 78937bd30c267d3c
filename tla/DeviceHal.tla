------------------------------- MODULE DeviceHal -------------------------------
(***************************************************************************)
(* hub_device_hal_t of smart_home_hub/src/device/device_hal.c: a file      *)
(* descriptor per device, opened on first use and shared by the threads of *)
(* the hub.  The operators are the steps of a thread t; HubControl         *)
(* conjoins them with its own.                                             *)
(*                                                                         *)
(* A read or a write holds the device's lock and is one step.  ensure_open *)
(* does not take the lock, so two threads can open one device at once.     *)
(* What is read or written, what a call returns and the paths are left     *)
(* out: an open tries Paths[d] of them.                                    *)
(***************************************************************************)
EXTENDS Integers, FiniteSets

CONSTANTS Threads,  \* the threads that use the devices
          Paths,    \* for each device, how many paths ensure_open tries
          MaxFds    \* the descriptors the process may have open

Device == DOMAIN Paths

ASSUME PathsAssumption == Device # {} /\ \A d \in Device : Paths[d] \in Nat /\ Paths[d] > 0
ASSUME MaxFdsAssumption == MaxFds \in Nat

Fd == 1..MaxFds
NoFd == -1

VARIABLES
  fd,         \* hal->devices[d].fd
  opened,     \* the kernel's table: the descriptors that are open
  halPc, halDev, halOp,    \* each thread's call: where it is, on what, "open" or "io"
  halTry, halVal,          \* the path it tries, what open() has returned
  contended   \* history: devices that two threads have been opening at once

halVars == <<fd, opened, halPc, halDev, halOp, halTry, halVal, contended>>

Opening == {"open", "store", "test"}

AnyDevice == CHOOSE d \in Device : TRUE

HalInit ==
  /\ fd = [d \in Device |-> NoFd] /\ opened = {}
  /\ halPc = [t \in Threads |-> "idle"]
  /\ halDev = [t \in Threads |-> AnyDevice]
  /\ halOp = [t \in Threads |-> "open"]
  /\ halTry = [t \in Threads |-> 1]
  /\ halVal = [t \in Threads |-> NoFd]
  /\ contended = {}

\* hub_device_open (op = "open"), and hub_device_read and _write (op = "io"),
\* which open the device first.
HalCall(t, d, op) ==
  /\ halPc[t] = "idle"
  /\ halPc' = [halPc EXCEPT ![t] = "check"]
  /\ halDev' = [halDev EXCEPT ![t] = d]
  /\ halOp' = [halOp EXCEPT ![t] = op]
  /\ UNCHANGED <<fd, opened, halTry, halVal, contended>>

\* Where a call goes once its device is open.
AfterOpen(t) == IF halOp[t] = "io" THEN "io" ELSE "done"

\* A mutant: the device is opened again although it is open.
OpenCheckMissing(t) ==
  /\ halPc[t] = "check"
  /\ halPc' = [halPc EXCEPT ![t] = "open"]
  /\ halTry' = [halTry EXCEPT ![t] = 1]
  /\ contended' = IF \E u \in Threads \ {t} : halPc[u] \in Opening /\ halDev[u] = halDev[t]
                  THEN contended \cup {halDev[t]} ELSE contended
  /\ UNCHANGED <<fd, opened, halDev, halOp, halVal>>

\* ensure_open: the test for an open device.
OpenCheck(t) ==
  /\ halPc[t] = "check"
  /\ IF fd[halDev[t]] # NoFd
     THEN /\ halPc' = [halPc EXCEPT ![t] = AfterOpen(t)]
          /\ UNCHANGED <<halTry, contended>>
     ELSE /\ halPc' = [halPc EXCEPT ![t] = "open"]
          /\ halTry' = [halTry EXCEPT ![t] = 1]
          /\ contended' = IF \E u \in Threads \ {t} : halPc[u] \in Opening /\ halDev[u] = halDev[t]
                          THEN contended \cup {halDev[t]} ELSE contended
  /\ UNCHANGED <<fd, opened, halDev, halOp, halVal>>

\* open() gives the lowest descriptor that is free, or fails.
OpenSystemCall(t) ==
  /\ halPc[t] = "open"
  /\ \/ /\ halVal' = [halVal EXCEPT ![t] = NoFd]
        /\ UNCHANGED opened
     \/ \E f \in Fd \ opened :
          /\ \A g \in Fd \ opened : f <= g
          /\ halVal' = [halVal EXCEPT ![t] = f]
          /\ opened' = opened \cup {f}
  /\ halPc' = [halPc EXCEPT ![t] = "store"]
  /\ UNCHANGED <<fd, halDev, halOp, halTry, contended>>

\* h->fd = ..., a failure's -1 included.
OpenStore(t) ==
  /\ halPc[t] = "store"
  /\ fd' = [fd EXCEPT ![halDev[t]] = halVal[t]]
  /\ halPc' = [halPc EXCEPT ![t] = "test"]
  /\ UNCHANGED <<opened, halDev, halOp, halTry, halVal, contended>>

\* A mutant: the last failure passes for a success.
OpenTestLax(t) ==
  /\ halPc[t] = "test"
  /\ IF halVal[t] = NoFd /\ halTry[t] < Paths[halDev[t]]
     THEN /\ halPc' = [halPc EXCEPT ![t] = "open"]
          /\ halTry' = [halTry EXCEPT ![t] = @ + 1]
     ELSE /\ halPc' = [halPc EXCEPT ![t] = AfterOpen(t)]
          /\ UNCHANGED halTry
  /\ halVal' = [halVal EXCEPT ![t] = NoFd]
  /\ UNCHANGED <<fd, opened, halDev, halOp, contended>>

\* The descriptor just stored is tested: the next path, success or failure.
OpenTest(t) ==
  /\ halPc[t] = "test"
  /\ IF halVal[t] = NoFd /\ halTry[t] < Paths[halDev[t]]
     THEN /\ halPc' = [halPc EXCEPT ![t] = "open"]
          /\ halTry' = [halTry EXCEPT ![t] = @ + 1]
     ELSE /\ halPc' = [halPc EXCEPT ![t] = IF halVal[t] = NoFd THEN "done" ELSE AfterOpen(t)]
          /\ UNCHANGED halTry
  /\ halVal' = [halVal EXCEPT ![t] = NoFd]
  /\ UNCHANGED <<fd, opened, halDev, halOp, contended>>

\* The read or the write.
HalIo(t) ==
  /\ halPc[t] = "io"
  /\ halPc' = [halPc EXCEPT ![t] = "done"]
  /\ UNCHANGED <<fd, opened, halDev, halOp, halTry, halVal, contended>>

HalStep(t) == OpenCheck(t) \/ OpenSystemCall(t) \/ OpenStore(t) \/ OpenTest(t) \/ HalIo(t)

\* The call returns; its local variables are as before it.
HalReturn(t) ==
  /\ halPc[t] = "done"
  /\ halPc' = [halPc EXCEPT ![t] = "idle"]
  /\ halDev' = [halDev EXCEPT ![t] = AnyDevice]
  /\ halOp' = [halOp EXCEPT ![t] = "open"]
  /\ halTry' = [halTry EXCEPT ![t] = 1]
  /\ UNCHANGED <<fd, opened, halVal, contended>>

\* hub_device_close
HalClose(d) ==
  /\ opened' = opened \ {fd[d]}
  /\ fd' = [fd EXCEPT ![d] = NoFd]
  /\ UNCHANGED <<halPc, halDev, halOp, halTry, halVal, contended>>

-------------------------------------------------------------------------------

HalTypeOK ==
  /\ fd \in [Device -> Fd \cup {NoFd}] /\ opened \subseteq Fd
  /\ halPc \in [Threads -> {"idle", "check", "io", "done"} \cup Opening]
  /\ halDev \in [Threads -> Device] /\ halOp \in [Threads -> {"open", "io"}]
  /\ halTry \in [Threads -> Nat] /\ \A t \in Threads : halTry[t] \in 1..Paths[halDev[t]]
  /\ halVal \in [Threads -> Fd \cup {NoFd}]
  /\ contended \subseteq Device

\* Descriptors leak only when two threads have opened a device at once: else
\* every open one is that of one device, or on its way there.
FdsOwned ==
  contended = {} =>
    /\ \A f \in opened : \/ \E d \in Device : fd[d] = f
                         \/ \E t \in Threads : halPc[t] = "store" /\ halVal[t] = f
    /\ \A d, e \in Device : fd[d] = fd[e] /\ fd[d] # NoFd => d = e

\* A device that ensure_open has reported open is open when it is read or
\* written, again unless two threads have opened it at once.
IoOnOpenFd ==
  \A t \in Threads : halPc[t] = "io" /\ halDev[t] \notin contended => fd[halDev[t]] \in opened

\* Why the above hold, as an inductive invariant: a descriptor is in one place,
\* a device's or that of the thread which is about to store it, and a device
\* that one thread is opening is what that thread takes it to be.
HalInv ==
  /\ \A t \in Threads : halPc[t] \in {"idle", "check"} => halTry[t] = 1
  /\ \A d \in Device : fd[d] # NoFd => fd[d] \in opened
  /\ \A d, e \in Device : fd[d] = fd[e] /\ fd[d] # NoFd => d = e
  /\ \A t \in Threads : halPc[t] = "store" /\ halVal[t] # NoFd =>
       /\ halVal[t] \in opened /\ \A d \in Device : fd[d] # halVal[t]
       /\ \A u \in Threads \ {t} : halPc[u] = "store" => halVal[u] # halVal[t]
  /\ \A t \in Threads : halDev[t] \notin contended =>
       /\ halPc[t] \in {"open", "store"} => fd[halDev[t]] = NoFd
       /\ halPc[t] = "test" => fd[halDev[t]] = halVal[t]
       /\ halPc[t] = "io" => fd[halDev[t]] # NoFd
       /\ \A u \in Threads \ {t} :
            halPc[t] \in Opening /\ halPc[u] \in Opening => halDev[u] # halDev[t]

===============================================================================
