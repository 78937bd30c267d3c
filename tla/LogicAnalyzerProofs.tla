------------------------- MODULE LogicAnalyzerProofs -------------------------
(***************************************************************************)
(* Theorems about LogicAnalyzer, for every number of channels, batch size, *)
(* capacity, size of a capture and counter width.                          *)
(***************************************************************************)
EXTENDS LogicAnalyzer, TLAPS

USE BatchAssumption, CapacityAssumption, MaxSamplesAssumption, WrapAssumption,
    ModesAssumption

-------------------------------------------------------------------------------
(* Counter arithmetic.                                                      *)

LEMMA PlusInRange == ASSUME NEW n \in Int, NEW k \in Int
                     PROVE  Plus(n, k) \in 0..Wrap-1
  BY DEF Plus

\* A counter moves on by k, give or take whole turns.
LEMMA PlusTurns == ASSUME NEW n \in Int, NEW k \in Int
                   PROVE  \E q \in Int : Plus(n, k) = n + k + Wrap * q
  <1> DEFINE a == n + k
  <1>1. a \div Wrap \in Int /\ a = Wrap * (a \div Wrap) + (a % Wrap)
    OBVIOUS
  <1>2. PICK d \in Int : d = a \div Wrap
    BY <1>1
  <1>3. -d \in Int /\ Plus(n, k) = n + k + Wrap * (-d)
    BY <1>1, <1>2 DEF Plus
  <1> QED
    BY <1>3

\* Whole turns do not change a remainder.
LEMMA TurnsVanish == ASSUME NEW x \in Int, NEW k \in Int
                     PROVE  (x + Wrap * k) % Wrap = x % Wrap
  <1> DEFINE q == x \div Wrap  r == x % Wrap
  <1>1. q \in Int /\ r \in 0..Wrap-1 /\ x = Wrap * q + r
    OBVIOUS
  <1> HIDE DEF q, r
  <1>2. x + Wrap * k = Wrap * (q + k) + r
    BY <1>1
  <1>3. \A a \in Int : (Wrap * a + r) % Wrap = r
    BY <1>1
  <1>4. (x + Wrap * k) % Wrap = r
    BY <1>1, <1>2, <1>3
  <1> QED
    BY <1>4 DEF r

-------------------------------------------------------------------------------
(* Type correctness, with the invariant it needs.                           *)

IInv == TypeOK /\ BatchInv /\ OneSampler /\ DisarmInv /\ ArmKeptUnlessRaced

LEMMA SilentIsRaw == Silent \in Raw
  BY DEF Silent, Raw

LEMMA SignalsAreRaw == Signals \subseteq Raw
  BY SilentIsRaw DEF Signals

LEMMA InitInv == Init => IInv
  <1> SUFFICES ASSUME Init PROVE IInv
    OBVIOUS
  <1>1. TypeOK
    <2>1. /\ total_samples \in 0..Wrap-1 /\ dropped_samples \in 0..Wrap-1 /\ left \in 0..Wrap-1
          /\ ring \in 0..Capacity /\ room \in 0..Capacity /\ got \in 0..MaxSamples
          /\ target \in {FastBatch, SlowBatch} /\ batch \in 0..target
      BY DEF Init
    <2>2. mode \in Mode /\ cliMode \in Mode
      BY DEF Init, Mode
    <2>3. last_raw_value \in Raw /\ sRaw \in Raw
      BY SilentIsRaw DEF Init
    <2> QED
      BY <2>1, <2>2, <2>3, Zenon DEF Init, TypeOK
  <1>2. BatchInv
    BY DEF Init, BatchInv
  <1>3. OneSampler /\ DisarmInv /\ ArmKeptUnlessRaced
    BY DEF Init, OneSampler, DisarmInv, ArmKeptUnlessRaced
  <1> QED
    BY <1>1, <1>2, <1>3 DEF IInv

LEMMA SamplerInv == IInv /\ Sampler => IInv'
  <1> SUFFICES ASSUME IInv, Sampler PROVE IInv'
    OBVIOUS
  <1> USE DEF IInv, TypeOK, BatchInv, OneSampler, DisarmInv, ArmKeptUnlessRaced,
             trigger, sampler, client, reader, counters, gate
  <1>1. CASE BatchBegin
    BY <1>1 DEF BatchBegin
  <1>2. CASE SamplerExit
    BY <1>2 DEF SamplerExit
  <1>3. CASE SampleOpen
    BY <1>3, PlusInRange, SignalsAreRaw DEF SampleOpen
  <1>4. CASE SampleArmed
    BY <1>4, SignalsAreRaw DEF SampleArmed
  <1>5. CASE TriggerMiss
    BY <1>5, PlusInRange, SilentIsRaw DEF TriggerMiss
  <1>6. CASE TriggerHit
    BY <1>6, ZenonT(40) DEF TriggerHit
  <1>7. CASE Disarm
    <2>1. TypeOK'
      <3>1. batch' \in 0..target' /\ total_samples' \in 0..Wrap-1
        BY <1>7, PlusInRange DEF Disarm
      <3> QED
        BY <1>7, <3>1, SilentIsRaw DEF Disarm
    <2>2. BatchInv'
      BY <1>7 DEF Disarm
    <2>3. OneSampler'
      BY <1>7 DEF Disarm
    <2>4. DisarmInv' /\ ArmKeptUnlessRaced'
      BY <1>7 DEF Disarm
    <2> QED
      BY <2>1, <2>2, <2>3, <2>4
  <1>8. CASE BatchRoom
    BY <1>8 DEF BatchRoom, FreeRoom
  <1>9. CASE BatchWrite
    <2>1. TypeOK'
      <3>1. ring' \in 0..Capacity /\ room' \in 0..Capacity /\ batch' \in 0..target'
        BY <1>9 DEF BatchWrite, Least
      <3>2. batch - Least(batch, room) \in Int
        BY DEF Least
      <3>3. dropped_samples' \in 0..Wrap-1
        BY <1>9, <3>2, PlusInRange DEF BatchWrite
      <3> QED
        BY <1>9, <3>1, <3>3 DEF BatchWrite
    <2>2. BatchInv'
      BY <1>9 DEF BatchWrite, Least
    <2>3. OneSampler'
      BY <1>9 DEF BatchWrite, Least
    <2>4. DisarmInv' /\ ArmKeptUnlessRaced'
      BY <1>9 DEF BatchWrite, Least
    <2> QED
      BY <2>1, <2>2, <2>3, <2>4
  <1> QED
    BY <1>1, <1>2, <1>3, <1>4, <1>5, <1>6, <1>7, <1>8, <1>9 DEF Sampler

LEMMA OwnerInv == IInv /\ Owner => IInv'
  <1> SUFFICES ASSUME IInv, Owner PROVE IInv'
    OBVIOUS
  <1> USE DEF IInv, TypeOK, BatchInv, OneSampler, DisarmInv, ArmKeptUnlessRaced,
             trigger, sampler, client, reader, counters, gate
  <1>1. CASE Start
    BY <1>1 DEF Start
  <1>2. CASE StartThread
    <2>1. TypeOK'
      BY <1>2 DEF StartThread
    <2>2. BatchInv'
      BY <1>2 DEF StartThread
    <2>3. OneSampler'
      BY <1>2 DEF StartThread
    <2>4. DisarmInv' /\ ArmKeptUnlessRaced'
      BY <1>2 DEF StartThread
    <2> QED
      BY <2>1, <2>2, <2>3, <2>4
  <1>3. CASE StopFlag
    <2>1. TypeOK'
      BY <1>3, ZenonT(40) DEF StopFlag
    <2>2. BatchInv'
      BY <1>3 DEF StopFlag
    <2>3. OneSampler'
      BY <1>3 DEF StopFlag
    <2>4. DisarmInv' /\ ArmKeptUnlessRaced'
      BY <1>3 DEF StopFlag
    <2> QED
      BY <2>1, <2>2, <2>3, <2>4
  <1>4. CASE StopJoin
    BY <1>4 DEF StopJoin
  <1> QED
    BY <1>1, <1>2, <1>3, <1>4 DEF Owner, Stop

LEMMA ClientInv == IInv /\ Client => IInv'
  <1> SUFFICES ASSUME IInv, Client PROVE IInv'
    OBVIOUS
  <1> USE DEF IInv, TypeOK, BatchInv, OneSampler, DisarmInv, ArmKeptUnlessRaced,
             trigger, sampler, client, reader, counters, gate
  <1>1. CASE SetSampleRate
    BY <1>1 DEF SetSampleRate
  <1>2. ASSUME NEW m \in Modes, NEW c \in Channels, SetTriggerCall(m, c)
        PROVE  IInv'
    BY <1>2 DEF SetTriggerCall
  <1>3. CASE SetTriggerHalf
    BY <1>3 DEF SetTriggerHalf
  <1>4. CASE SetTriggerRest
    BY <1>4 DEF SetTriggerRest
  <1>5. CASE SetTriggerArm
    BY <1>5 DEF SetTriggerArm
  <1>6. CASE Arm
    BY <1>6 DEF Arm
  <1> QED
    BY <1>1, <1>2, <1>3, <1>4, <1>5, <1>6 DEF Client, ClientReturn

LEMMA ReaderInv == IInv /\ Reader => IInv'
  <1> SUFFICES ASSUME IInv, Reader PROVE IInv'
    OBVIOUS
  <1> USE DEF IInv, TypeOK, BatchInv, OneSampler, DisarmInv, ArmKeptUnlessRaced,
             trigger, sampler, client, reader, counters, gate
  <1>1. CASE CaptureRead
    <2>1. got' \in 0..MaxSamples /\ got' < MaxSamples /\ ring' \in 0..Capacity /\ ring' <= ring
      BY <1>1 DEF CaptureRead, Least
    <2>2. left' \in 0..Wrap-1 /\ rd' \in {"idle", "sleep"}
      <3>1. Least(MaxSamples - got, ring) \in Int
        BY DEF Least
      <3> QED
        BY <1>1, <3>1, PlusInRange DEF CaptureRead
    <2>3. TypeOK'
      BY <1>1, <2>1, <2>2 DEF CaptureRead
    <2>4. BatchInv' /\ OneSampler' /\ DisarmInv' /\ ArmKeptUnlessRaced'
      BY <1>1, <2>1 DEF CaptureRead
    <2> QED
      BY <1>1, <2>1, <2>2, <2>3, <2>4
  <1>2. CASE CaptureEnd
    BY <1>2 DEF CaptureEnd
  <1> QED
    BY <1>1, <1>2 DEF Reader

LEMMA StutterInv == IInv /\ UNCHANGED vars => IInv'
  BY DEF IInv, TypeOK, BatchInv, OneSampler, DisarmInv, ArmKeptUnlessRaced, vars,
         trigger, sampler, client, reader, counters, gate

\* The conjuncts of IInv hold in every state the program reaches.
THEOREM Inductive == Spec => []IInv
  <1>1. IInv /\ [Next]_vars => IInv'
    BY SamplerInv, OwnerInv, ClientInv, ReaderInv, StutterInv DEF Next
  <1> QED
    BY InitInv, <1>1, PTL DEF Spec

\* The variables keep their types; in particular the ring buffer, whose room
\* the sampling thread sees early, is never overfilled.
THEOREM TypeCorrect == Spec => []TypeOK
  <1>1. IInv => TypeOK
    BY DEF IInv
  <1> QED
    BY Inductive, <1>1, PTL

\* A thread samples exactly between a start and the end of the next stop.
THEOREM SingleSampler == Spec => []OneSampler
  <1>1. IInv => OneSampler
    BY DEF IInv
  <1> QED
    BY Inductive, <1>1, PTL

\* An arm request is lost only if it falls between a match and its disarm.
THEOREM ArmLostOnlyInRace == Spec => []ArmKeptUnlessRaced
  <1>1. IInv => ArmKeptUnlessRaced
    BY DEF IInv
  <1> QED
    BY Inductive, <1>1, PTL

-------------------------------------------------------------------------------
(* Sample accounting.  A step changes the balance of the counters by whole   *)
(* turns of the counters only.                                              *)

Balance == total_samples - left - dropped_samples - batch - ring

LEMMA BalanceIsInt == TypeOK => Balance \in Int
  BY DEF TypeOK, Balance

\* The two ways a sample is taken: it joins the batch, or the gate keeps it out.
LEMMA SampleBalance == IInv /\ (SampleOpen \/ Disarm \/ TriggerMiss)
                         => \E k \in Int : Balance' = Balance + Wrap * k
  <1> SUFFICES ASSUME IInv, SampleOpen \/ Disarm \/ TriggerMiss
               PROVE  \E k \in Int : Balance' = Balance + Wrap * k
    OBVIOUS
  <1>1. /\ total_samples \in Int /\ left \in Int /\ dropped_samples \in Int
        /\ batch \in Int /\ ring \in Int /\ Wrap \in Int /\ 1 \in Int
    BY DEF IInv, TypeOK
  <1>2. PICK q \in Int : Plus(total_samples, 1) = total_samples + 1 + Wrap * q
    BY <1>1, PlusTurns, Zenon
  <1>3. CASE SampleOpen \/ Disarm
    <2>1. /\ total_samples' = total_samples + 1 + Wrap * q /\ batch' = batch + 1
          /\ left' = left /\ dropped_samples' = dropped_samples /\ ring' = ring
      BY <1>2, <1>3 DEF SampleOpen, Disarm
    <2>2. Balance' = Balance + Wrap * q
      BY <1>1, <1>2, <2>1 DEF Balance
    <2> QED
      BY <2>2
  <1>4. CASE TriggerMiss
    <2>1. PICK r \in Int : Plus(left, 1) = left + 1 + Wrap * r
      BY <1>1, PlusTurns, Zenon
    <2>2. /\ total_samples' = total_samples + 1 + Wrap * q
          /\ left' = left + 1 + Wrap * r
          /\ batch' = batch /\ dropped_samples' = dropped_samples /\ ring' = ring
      BY <1>2, <1>4, <2>1 DEF TriggerMiss
    <2>3. q - r \in Int /\ Balance' = Balance + Wrap * (q - r)
      BY <1>1, <1>2, <2>1, <2>2 DEF Balance
    <2> QED
      BY <2>3
  <1> QED
    BY <1>3, <1>4

\* A batch goes to the ring buffer and to dropped_samples.
LEMMA WriteBalance == IInv /\ BatchWrite
                        => \E k \in Int : Balance' = Balance + Wrap * k
  <1> SUFFICES ASSUME IInv, BatchWrite
               PROVE  \E k \in Int : Balance' = Balance + Wrap * k
    OBVIOUS
  <1>1. /\ total_samples \in Int /\ left \in Int /\ dropped_samples \in Int
        /\ batch \in Int /\ ring \in Int /\ room \in Int /\ Wrap \in Int
    BY DEF IInv, TypeOK
  <1>2. PICK n \in Int : n = Least(batch, room)
    BY <1>1 DEF Least
  <1> batch - n \in Int
    BY <1>1, <1>2
  <1>3. PICK q \in Int : Plus(dropped_samples, batch - n) = dropped_samples + (batch - n) + Wrap * q
    BY <1>1, <1>2, PlusTurns, Zenon
  <1>4. /\ dropped_samples' = dropped_samples + (batch - n) + Wrap * q
        /\ ring' = ring + n /\ batch' = 0
        /\ total_samples' = total_samples /\ left' = left
    BY <1>2, <1>3 DEF BatchWrite
  <1>5. -q \in Int /\ Balance' = Balance + Wrap * (-q)
    BY <1>1, <1>2, <1>3, <1>4 DEF Balance
  <1> QED
    BY <1>5

\* What a reader takes has left the ring buffer.
LEMMA ReadBalance == IInv /\ CaptureRead
                       => \E k \in Int : Balance' = Balance + Wrap * k
  <1> SUFFICES ASSUME IInv, CaptureRead
               PROVE  \E k \in Int : Balance' = Balance + Wrap * k
    OBVIOUS
  <1>1. /\ total_samples \in Int /\ left \in Int /\ dropped_samples \in Int
        /\ batch \in Int /\ ring \in Int /\ got \in Int /\ Wrap \in Int
    BY DEF IInv, TypeOK
  <1>2. PICK n \in Int : n = Least(MaxSamples - got, ring)
    BY <1>1 DEF Least
  <1>3. PICK q \in Int : Plus(left, n) = left + n + Wrap * q
    BY <1>1, <1>2, PlusTurns, Zenon
  <1>4. /\ left' = left + n + Wrap * q /\ ring' = ring - n
        /\ total_samples' = total_samples /\ batch' = batch
        /\ dropped_samples' = dropped_samples
    BY <1>2, <1>3 DEF CaptureRead, sampler
  <1>5. -q \in Int /\ Balance' = Balance + Wrap * (-q)
    BY <1>1, <1>2, <1>3, <1>4 DEF Balance
  <1> QED
    BY <1>5

\* Every other step leaves the five counts alone; a batch begins empty.
LEMMA OtherBalance ==
    IInv /\ (\/ BatchBegin \/ SamplerExit \/ SampleArmed \/ TriggerHit \/ BatchRoom
             \/ Owner \/ Client \/ CaptureEnd \/ UNCHANGED vars)
      => Balance' = Balance
  <1> SUFFICES ASSUME IInv,
                      \/ BatchBegin \/ SamplerExit \/ SampleArmed \/ TriggerHit \/ BatchRoom
                      \/ Owner \/ Client \/ CaptureEnd \/ UNCHANGED vars
               PROVE  /\ total_samples' = total_samples /\ left' = left
                      /\ dropped_samples' = dropped_samples
                      /\ batch' = batch /\ ring' = ring
    BY DEF Balance
  <1> USE DEF sampler, counters
  <1>1. CASE BatchBegin
    BY <1>1 DEF BatchBegin, IInv, BatchInv
  <1>2. CASE SamplerExit \/ SampleArmed \/ TriggerHit \/ BatchRoom
    BY <1>2 DEF SamplerExit, SampleArmed, TriggerHit, BatchRoom
  <1>3. CASE Owner
    BY <1>3 DEF Owner, Start, StartThread, Stop, StopFlag, StopJoin
  <1>4. CASE Client
    BY <1>4 DEF Client, ClientReturn, SetSampleRate, SetTriggerCall, SetTriggerHalf,
                SetTriggerRest, SetTriggerArm, Arm
  <1>5. CASE CaptureEnd
    BY <1>5 DEF CaptureEnd
  <1>6. CASE UNCHANGED vars
    BY <1>6 DEF vars
  <1> QED
    BY <1>1, <1>2, <1>3, <1>4, <1>5, <1>6

\* No sample vanishes: what was taken is in the batch or the ring buffer, was
\* kept out by the gate or read, or is counted as dropped, even when the
\* counters have turned over.
THEOREM Accounting == Spec => []SampleAccounting
  <1>1. Init => SampleAccounting
    BY DEF Init, SampleAccounting
  <1>2. IInv /\ SampleAccounting /\ [Next]_vars => SampleAccounting'
    <2> SUFFICES ASSUME IInv, SampleAccounting, [Next]_vars PROVE SampleAccounting'
      OBVIOUS
    <2>1. Balance \in Int
      BY BalanceIsInt DEF IInv
    <2>2. \E k \in Int : Balance' = Balance + Wrap * k
      <3>1. CASE SampleOpen \/ Disarm \/ TriggerMiss
        BY <3>1, SampleBalance
      <3>2. CASE BatchWrite
        BY <3>2, WriteBalance
      <3>3. CASE CaptureRead
        BY <3>3, ReadBalance
      <3>4. CASE \/ BatchBegin \/ SamplerExit \/ SampleArmed \/ TriggerHit \/ BatchRoom
                 \/ Owner \/ Client \/ CaptureEnd \/ UNCHANGED vars
        <4>1. Balance' = Balance + Wrap * 0
          BY <2>1, <3>4, OtherBalance
        <4> QED
          BY <4>1
      <3> QED
        BY <3>1, <3>2, <3>3, <3>4 DEF Next, Sampler, Reader
    <2>3. PICK k \in Int : Balance' = Balance + Wrap * k
      BY <2>2
    <2>4. Balance' % Wrap = Balance % Wrap
      BY <2>1, <2>3, TurnsVanish
    <2>5. Balance % Wrap = 0
      BY DEF SampleAccounting, Balance
    <2>6. Balance' % Wrap = 0
      BY <2>4, <2>5
    <2> QED
      BY <2>6 DEF SampleAccounting, Balance
  <1> QED
    BY Inductive, <1>1, <1>2, PTL DEF Spec

===============================================================================
