------------------------------ MODULE MemoryPool ------------------------------
(***************************************************************************)
(* hub_mem_pool_t of smart_home_hub/src/core/memory_pool.c: a fixed set of *)
(* blocks with an atomic reference count each, and a mutex with a          *)
(* condition variable for a thread that waits for a free block.            *)
(*                                                                         *)
(* The operators are the steps of hub_mem_pool_acquire and _release, taken *)
(* by a thread t.  VideoPipeline, whose threads are the only callers,      *)
(* conjoins them with its own steps.  acquire holds the mutex while it     *)
(* scans; release touches the count without the mutex and takes it only to *)
(* signal, so a scan and a release interleave.                             *)
(*                                                                         *)
(* Every caller waits with a timeout (20 or 50 ms), and no one calls       *)
(* hub_mem_pool_retain.                                                    *)
(***************************************************************************)
EXTENDS Integers, FiniteSets

CONSTANTS BlockCount,  \* pool->block_count
          Threads      \* the threads that use the pool

ASSUME BlockCountAssumption == BlockCount \in Nat /\ BlockCount > 0

Block == 1..BlockCount

Null == 0      \* a NULL block
Nobody == "nobody"

ASSUME NobodyAssumption == Nobody \notin Threads

VARIABLES
  refs,      \* block->refs
  poolLock,  \* the thread that holds pool->lock, or Nobody
  poolUp,    \* FALSE once hub_mem_pool_shutdown has set pool->shutdown
  acqPc,     \* where each thread is in hub_mem_pool_acquire
  acqIdx,    \* the i of its scan
  acqBlk,    \* what its last acquire returned
  relPc,     \* where each thread is in hub_mem_pool_release
  relBlk,    \* the block it releases
  raced      \* history: the blocks whose count a release has reset although
             \* an acquire had already taken the block again

acquiring == <<acqPc, acqIdx, acqBlk>>
releasing == <<relPc, relBlk>>
poolVars == <<refs, poolLock, poolUp, acquiring, releasing, raced>>

PoolInit ==
  /\ refs = [b \in Block |-> 0]
  /\ poolLock = Nobody /\ poolUp = TRUE
  /\ acqPc = [t \in Threads |-> "idle"]
  /\ acqIdx = [t \in Threads |-> 1]
  /\ acqBlk = [t \in Threads |-> Null]
  /\ relPc = [t \in Threads |-> "idle"]
  /\ relBlk = [t \in Threads |-> Null]
  /\ raced = {}

-------------------------------------------------------------------------------
(* hub_mem_pool_acquire                                                     *)

AcquireCall(t) ==
  /\ acqPc[t] = "idle"
  /\ acqPc' = [acqPc EXCEPT ![t] = "lock"]
  /\ UNCHANGED <<refs, poolLock, poolUp, acqIdx, acqBlk, releasing, raced>>

\* The mutex is taken, at the call or on waking from the condition variable,
\* and the while condition is tested.
AcquireLock(t) ==
  /\ acqPc[t] = "lock" /\ poolLock = Nobody
  /\ IF poolUp
     THEN /\ poolLock' = t
          /\ acqPc' = [acqPc EXCEPT ![t] = "scan"]
          /\ acqIdx' = [acqIdx EXCEPT ![t] = 1]
          /\ UNCHANGED acqBlk
     ELSE /\ acqPc' = [acqPc EXCEPT ![t] = "done"]
          /\ acqBlk' = [acqBlk EXCEPT ![t] = Null]
          /\ UNCHANGED <<poolLock, acqIdx>>
  /\ UNCHANGED <<refs, poolUp, releasing, raced>>

\* A mutant: the block of a single owner passes for free.
IsBlockFreeLax(b) == refs[b] <= 1

IsBlockFree(b) == refs[b] = 0

AcquireSkip(t) ==
  /\ acqPc[t] = "scan" /\ acqIdx[t] <= BlockCount
  /\ ~IsBlockFree(acqIdx[t])
  /\ acqIdx' = [acqIdx EXCEPT ![t] = @ + 1]
  /\ UNCHANGED <<refs, poolLock, poolUp, acqPc, acqBlk, releasing, raced>>

\* A free block is marked and returned, and the mutex given up.
AcquireTake(t) ==
  /\ acqPc[t] = "scan" /\ acqIdx[t] <= BlockCount
  /\ IsBlockFree(acqIdx[t])
  /\ refs' = [refs EXCEPT ![acqIdx[t]] = 1]
  /\ acqBlk' = [acqBlk EXCEPT ![t] = acqIdx[t]]
  /\ acqPc' = [acqPc EXCEPT ![t] = "done"]
  /\ poolLock' = Nobody
  /\ UNCHANGED <<poolUp, acqIdx, releasing, raced>>

\* No block was free: pthread_cond_timedwait gives the mutex up.
AcquireWait(t) ==
  /\ acqPc[t] = "scan" /\ acqIdx[t] > BlockCount
  /\ acqPc' = [acqPc EXCEPT ![t] = "wait"]
  /\ poolLock' = Nobody
  /\ UNCHANGED <<refs, poolUp, acqIdx, acqBlk, releasing, raced>>

\* ETIMEDOUT: the mutex is taken and given up again, with no further scan.
AcquireTimeout(t) ==
  /\ acqPc[t] = "wait" /\ poolLock = Nobody
  /\ acqPc' = [acqPc EXCEPT ![t] = "done"]
  /\ acqBlk' = [acqBlk EXCEPT ![t] = Null]
  /\ UNCHANGED <<refs, poolLock, poolUp, acqIdx, releasing, raced>>

AcquireStep(t) == \/ AcquireLock(t) \/ AcquireSkip(t) \/ AcquireTake(t)
                  \/ AcquireWait(t) \/ AcquireTimeout(t)

AcquireReturn(t) ==
  /\ acqPc[t] = "done"
  /\ acqPc' = [acqPc EXCEPT ![t] = "idle"]
  /\ UNCHANGED <<refs, poolLock, poolUp, acqIdx, acqBlk, releasing, raced>>

-------------------------------------------------------------------------------
(* hub_mem_pool_release                                                     *)

\* atomic_fetch_sub; only the release that saw the last reference goes on.
ReleaseSub(t, b) ==
  /\ relPc[t] = "idle"
  /\ refs' = [refs EXCEPT ![b] = @ - 1]
  /\ relPc' = [relPc EXCEPT ![t] = IF refs[b] <= 1 THEN "store" ELSE "done"]
  /\ relBlk' = [relBlk EXCEPT ![t] = b]
  /\ UNCHANGED <<poolLock, poolUp, acquiring, raced>>

\* atomic_store(&block->refs, 0).  The count was below 1 when the release
\* looked at it; if it is 1 again, an acquire has taken the block since.
ReleaseStore(t) ==
  /\ relPc[t] = "store"
  /\ raced' = IF refs[relBlk[t]] = 1 THEN raced \cup {relBlk[t]} ELSE raced
  /\ refs' = [refs EXCEPT ![relBlk[t]] = 0]
  /\ relPc' = [relPc EXCEPT ![t] = "signal"]
  /\ UNCHANGED <<poolLock, poolUp, acquiring, relBlk>>

\* A mutant: the waiting thread is not signalled.
ReleaseSilent(t) ==
  /\ relPc[t] = "signal" /\ poolLock = Nobody
  /\ relPc' = [relPc EXCEPT ![t] = "done"]
  /\ UNCHANGED <<refs, poolLock, poolUp, acquiring, relBlk, raced>>

\* pthread_cond_signal under the mutex wakes one waiting thread, if any.
ReleaseSignal(t) ==
  /\ relPc[t] = "signal" /\ poolLock = Nobody
  /\ relPc' = [relPc EXCEPT ![t] = "done"]
  /\ IF \E u \in Threads : acqPc[u] = "wait"
     THEN \E u \in Threads : /\ acqPc[u] = "wait"
                             /\ acqPc' = [acqPc EXCEPT ![u] = "lock"]
     ELSE UNCHANGED acqPc
  /\ UNCHANGED <<refs, poolLock, poolUp, acqIdx, acqBlk, relBlk, raced>>

ReleaseStep(t) == ReleaseStore(t) \/ ReleaseSignal(t)

ReleaseReturn(t) ==
  /\ relPc[t] = "done"
  /\ relPc' = [relPc EXCEPT ![t] = "idle"]
  /\ UNCHANGED <<refs, poolLock, poolUp, acquiring, relBlk, raced>>

\* hub_mem_pool_shutdown: the flag and the broadcast under the mutex.
PoolShutdown ==
  /\ poolLock = Nobody
  /\ poolUp' = FALSE
  /\ acqPc' = [t \in Threads |-> IF acqPc[t] = "wait" THEN "lock" ELSE acqPc[t]]
  /\ UNCHANGED <<refs, poolLock, acqIdx, acqBlk, releasing, raced>>

-------------------------------------------------------------------------------

PoolTypeOK ==
  /\ refs \in [Block -> Int]
  /\ poolLock \in Threads \cup {Nobody} /\ poolUp \in BOOLEAN
  /\ acqPc \in [Threads -> {"idle", "lock", "scan", "wait", "done"}]
  /\ acqIdx \in [Threads -> 1..BlockCount + 1]
  /\ acqBlk \in [Threads -> Block \cup {Null}]
  /\ relPc \in [Threads -> {"idle", "store", "signal", "done"}]
  /\ relBlk \in [Threads -> Block \cup {Null}]
  /\ \A t \in Threads : relPc[t] # "idle" => relBlk[t] \in Block
  /\ raced \subseteq Block

\* The mutex excludes: a thread scans only while it owns pool->lock.
ScanOwnsLock == \A t \in Threads : acqPc[t] = "scan" <=> poolLock = t

\* No wakeup is lost: while a thread waits for a block, every block is taken
\* or the release that freed it is still on its way to the signal.
NoLostWakeup ==
  \A t \in Threads : acqPc[t] = "wait" =>
    \A b \in Block : refs[b] # 0 \/ \E u \in Threads : relPc[u] \in {"store", "signal"}

===============================================================================
