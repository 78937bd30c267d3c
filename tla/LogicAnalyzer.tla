---------------------------- MODULE LogicAnalyzer ----------------------------
(***************************************************************************)
(* edt_logic_analyzer_t of embedded_debug_toolkit/src/logic/               *)
(* logic_analyzer.c: a sampling thread that passes samples through the     *)
(* trigger gate into the ring buffer, while                                *)
(*   - the service starts and stops it (edt_debug_service_start, _stop),   *)
(*   - a SUMP client sets the rate and the trigger and arms it, and        *)
(*   - a reader takes samples out (edt_logic_analyzer_capture_blocking).   *)
(*                                                                         *)
(* The ring buffer is the byte queue of ByteFifo, which RingBuffer         *)
(* implements for one reader, counted in samples.  Samples are counted and *)
(* not told apart; the clock and the sleeps are left out.  A local variable *)
(* whose value is not used again goes back to its initial value.           *)
(***************************************************************************)
EXTENDS Integers

CONSTANTS Sources,                \* where the inputs are read from
          Channels,               \* the channels a trigger may look at
          Modes,                  \* the trigger modes the client asks for
          FastBatch, SlowBatch,   \* samples per batch: 256 and 32
          Capacity,               \* the ring buffer's, in samples
          MaxSamples,             \* max_samples of a capture
          Wrap                    \* uint64 counters are taken modulo Wrap

Mode == {"none", "rising", "falling", "high", "low"}

ASSUME SourcesAssumption == Sources \subseteq {"reader", "ground"}
ASSUME ModesAssumption == Modes \subseteq Mode
ASSUME BatchAssumption == /\ FastBatch \in Nat /\ FastBatch > 0
                          /\ SlowBatch \in Nat /\ SlowBatch > 0
ASSUME CapacityAssumption == Capacity \in Nat /\ Capacity > 0
ASSUME MaxSamplesAssumption == MaxSamples \in Nat /\ MaxSamples > 0
ASSUME WrapAssumption == Wrap \in Nat /\ Wrap > 0

VARIABLES
  source,     \* "reader" (la->reader or the synthetic wave: the inputs may
              \* change), or "ground" (no reader, simulate_signal is 0)
  fast,       \* config.sample_rate_hz >= 1000000
  mode, channel,     \* la->trigger
  running, armed,
  last_raw_value,
  total_samples, dropped_samples,
  sPc, batch, target, sRaw, room,   \* the sampling thread
  ring,       \* samples in the ring buffer
  own,        \* the service
  cli, cliMode, cliChannel,   \* the client and the trigger it is setting
  rd, got,    \* the reader and its total
  left,       \* history: samples the gate kept out or the reader took
  pending,    \* history: a trigger was asked for and has not been seen since
  raced       \* history: the last arm request came between a match and its
              \* disarm

trigger == <<mode, channel>>
sampler == <<sPc, batch, target, sRaw, room, last_raw_value>>
client == <<cli, cliMode, cliChannel, fast>>
reader == <<rd, got>>
counters == <<total_samples, dropped_samples, left>>
gate == <<armed, pending, raced>>
vars == <<source, trigger, running, gate, sampler, ring, own, client, reader, counters>>

Raw == [Channels -> BOOLEAN]
Silent == [c \in Channels |-> FALSE]

Plus(n, k) == (n + k) % Wrap
Least(a, b) == IF a < b THEN a ELSE b

\* What the inputs may look like at one instant.
Signals == IF source = "ground" THEN {Silent} ELSE Raw

\* edt_trigger_matched
TriggerMatched(m, c, previous, current) ==
  CASE m = "none"    -> TRUE
    [] m = "rising"  -> ~previous[c] /\ current[c]
    [] m = "falling" -> previous[c] /\ ~current[c]
    [] m = "high"    -> current[c]
    [] m = "low"     -> ~current[c]

Init ==
  /\ source \in Sources /\ fast \in BOOLEAN
  /\ mode = "none" /\ channel \in Channels
  /\ running = FALSE /\ armed = FALSE /\ last_raw_value = Silent
  /\ total_samples = 0 /\ dropped_samples = 0 /\ left = 0
  /\ sPc = "off" /\ batch = 0 /\ target = SlowBatch /\ sRaw = Silent /\ room = 0
  /\ ring = 0
  /\ own = "stopped"
  /\ cli = "idle" /\ cliMode = "none" /\ cliChannel = channel
  /\ rd = "idle" /\ got = 0
  /\ pending = FALSE /\ raced = FALSE

-------------------------------------------------------------------------------
(* edt_logic_sample_thread                                                  *)

BatchBegin ==
  /\ sPc = "check" /\ running
  /\ target' = IF fast THEN FastBatch ELSE SlowBatch
  /\ batch' = 0
  /\ sPc' = "sample"
  /\ UNCHANGED <<source, trigger, running, gate, sRaw, room, last_raw_value, ring, own, client, reader, counters>>

SamplerExit ==
  /\ sPc = "check" /\ ~running
  /\ sPc' = "exit"
  /\ UNCHANGED <<source, trigger, running, gate, batch, target, sRaw, room, last_raw_value, ring, own, client, reader, counters>>

\* A sample is taken and armed is found clear: it goes into the batch.
SampleOpen ==
  /\ sPc = "sample" /\ batch < target /\ ~armed
  /\ last_raw_value' \in Signals
  /\ batch' = batch + 1
  /\ total_samples' = Plus(total_samples, 1)
  /\ UNCHANGED <<source, trigger, running, gate, sPc, target, sRaw, room, ring, own, client, reader, dropped_samples, left>>

\* A sample is taken and armed is found set.
SampleArmed ==
  /\ sPc = "sample" /\ batch < target /\ armed
  /\ sRaw' \in Signals
  /\ sPc' = "match"
  /\ UNCHANGED <<source, trigger, running, gate, batch, target, room, last_raw_value, ring, own, client, reader, counters>>

\* A mutant: armed is cleared by a sample that does not match, too.
TriggerMissDisarms ==
  /\ sPc = "match" /\ ~TriggerMatched(mode, channel, last_raw_value, sRaw)
  /\ armed' = FALSE
  /\ last_raw_value' = sRaw
  /\ total_samples' = Plus(total_samples, 1) /\ left' = Plus(left, 1)
  /\ sRaw' = Silent /\ sPc' = "sample"
  /\ UNCHANGED <<source, trigger, running, pending, raced, batch, target, room, ring, own, client, reader, dropped_samples>>

\* No match: the sample is forgotten, and the loop tests only the batch.
TriggerMiss ==
  /\ sPc = "match" /\ ~TriggerMatched(mode, channel, last_raw_value, sRaw)
  /\ last_raw_value' = sRaw
  /\ total_samples' = Plus(total_samples, 1) /\ left' = Plus(left, 1)
  /\ sRaw' = Silent /\ sPc' = "sample"
  /\ UNCHANGED <<source, trigger, running, gate, batch, target, room, ring, own, client, reader, dropped_samples>>

TriggerHit ==
  /\ sPc = "match" /\ TriggerMatched(mode, channel, last_raw_value, sRaw)
  /\ pending' = FALSE
  /\ sPc' = "disarm"
  /\ UNCHANGED <<source, trigger, running, armed, raced, batch, target, sRaw, room, last_raw_value, ring, own, client, reader, counters>>

\* A mutant: the sample that matched is not kept.
DisarmForgetful ==
  /\ sPc = "disarm"
  /\ armed' = FALSE
  /\ last_raw_value' = sRaw
  /\ total_samples' = Plus(total_samples, 1)
  /\ sRaw' = Silent /\ sPc' = "sample"
  /\ UNCHANGED <<source, trigger, running, pending, raced, batch, target, room, ring, own, client, reader, dropped_samples, left>>

\* The store that clears armed; the sample that matched is the first kept.
Disarm ==
  /\ sPc = "disarm"
  /\ armed' = FALSE
  /\ batch' = batch + 1
  /\ last_raw_value' = sRaw
  /\ total_samples' = Plus(total_samples, 1)
  /\ sRaw' = Silent /\ sPc' = "sample"
  /\ UNCHANGED <<source, trigger, running, pending, raced, target, room, ring, own, client, reader, dropped_samples, left>>

\* A mutant: the room is taken for the whole buffer.
FreeRoomWhole == Capacity

FreeRoom == Capacity - ring

\* edt_ring_buffer_write: the room it sees, then what it publishes.
BatchRoom ==
  /\ sPc = "sample" /\ batch = target
  /\ room' = FreeRoom
  /\ sPc' = "write"
  /\ UNCHANGED <<source, trigger, running, gate, batch, target, sRaw, last_raw_value, ring, own, client, reader, counters>>

\* A mutant: a batch that does not fit is dropped whole, and only the part
\* that does not fit is counted.
BatchWriteAll ==
  /\ sPc = "write"
  /\ ring' = IF batch <= room THEN ring + batch ELSE ring
  /\ dropped_samples' = Plus(dropped_samples, batch - Least(batch, room))
  /\ batch' = 0 /\ room' = 0
  /\ sPc' = "check"
  /\ UNCHANGED <<source, trigger, running, gate, target, sRaw, last_raw_value, own, client, reader, total_samples, left>>

BatchWrite ==
  LET n == Least(batch, room)
  IN  /\ sPc = "write"
      /\ ring' = ring + n
      /\ dropped_samples' = Plus(dropped_samples, batch - n)
      /\ batch' = 0 /\ room' = 0
      /\ sPc' = "check"
      /\ UNCHANGED <<source, trigger, running, gate, target, sRaw, last_raw_value, own, client, reader, total_samples, left>>

Sampler == \/ BatchBegin \/ SamplerExit \/ SampleOpen \/ SampleArmed
           \/ TriggerMiss \/ TriggerHit \/ Disarm \/ BatchRoom \/ BatchWrite

-------------------------------------------------------------------------------
(* edt_logic_analyzer_start and _stop, called by the service                *)

Start ==
  /\ own = "stopped" /\ ~running
  /\ armed' = (mode # "none") /\ pending' = (mode # "none")
  /\ raced' = FALSE
  /\ running' = TRUE
  /\ own' = "create"
  /\ UNCHANGED <<source, trigger, sampler, ring, client, reader, counters>>

\* pthread_create; a failure takes running back.
StartThread ==
  /\ own = "create"
  /\ \/ sPc' = "check" /\ own' = "started" /\ UNCHANGED running
     \/ running' = FALSE /\ own' = "stopped" /\ UNCHANGED sPc
  /\ UNCHANGED <<source, trigger, gate, batch, target, sRaw, room, last_raw_value, ring, client, reader, counters>>

\* A mutant: the thread is joined without being told to stop.
StopFlagForgotten ==
  /\ own = "started"
  /\ own' = "join"
  /\ UNCHANGED <<source, trigger, running, gate, sampler, ring, client, reader, counters>>

StopFlag ==
  /\ own = "started"
  /\ running' = FALSE
  /\ own' = "join"
  /\ UNCHANGED <<source, trigger, gate, sampler, ring, client, reader, counters>>

\* A mutant: stop returns without joining the thread.
StopJoinForgotten ==
  /\ own = "join"
  /\ own' = "stopped"
  /\ UNCHANGED <<source, trigger, running, gate, sampler, ring, client, reader, counters>>

StopJoin ==
  /\ own = "join" /\ sPc = "exit"
  /\ sPc' = "off"
  /\ own' = "stopped"
  /\ UNCHANGED <<source, trigger, running, gate, batch, target, sRaw, room, last_raw_value, ring, client, reader, counters>>

Stop == StopFlag \/ StopJoin
Owner == Start \/ StartThread \/ Stop

-------------------------------------------------------------------------------
(* The SUMP client: edt_logic_analyzer_set_sample_rate, _set_trigger, _arm  *)

SetSampleRate ==
  /\ cli = "idle"
  /\ fast' = ~fast
  /\ UNCHANGED <<source, trigger, running, gate, sampler, ring, own, cli, cliMode, cliChannel, reader, counters>>

SetTriggerCall(m, c) ==
  /\ cli = "idle"
  /\ cliMode' = m /\ cliChannel' = c
  /\ cli' = "copy"
  /\ UNCHANGED <<source, trigger, running, gate, sampler, ring, own, fast, reader, counters>>

\* The struct copy races with the sampling thread: its two members may become
\* visible one by one, in either order.
SetTriggerHalf ==
  /\ cli = "copy"
  /\ \/ mode' = cliMode /\ UNCHANGED channel
     \/ channel' = cliChannel /\ UNCHANGED mode
  /\ cli' = "rest"
  /\ UNCHANGED <<source, running, gate, sampler, ring, own, cliMode, cliChannel, fast, reader, counters>>

SetTriggerRest ==
  /\ cli = "rest"
  /\ mode' = cliMode /\ channel' = cliChannel
  /\ cli' = "store"
  /\ UNCHANGED <<source, running, gate, sampler, ring, own, cliMode, cliChannel, fast, reader, counters>>

\* armed is set or cleared to suit the mode.
SetTriggerArm ==
  LET wanted == cliMode # "none"
  IN  /\ cli = "store"
      /\ armed' = wanted /\ pending' = wanted
      /\ raced' = (wanted /\ sPc = "disarm")
      /\ cli' = "arm"
      /\ UNCHANGED <<source, trigger, running, sampler, ring, own, cliMode, cliChannel, fast, reader, counters>>

\* edt_logic_analyzer_arm, which edt_sump_apply_session calls next: the same
\* request once more.
Arm ==
  /\ cli = "arm"
  /\ armed' = (mode # "none" \/ armed)
  /\ cli' = "idle"
  /\ UNCHANGED <<source, trigger, running, pending, raced, sampler, ring, own, cliMode, cliChannel, fast, reader, counters>>

ClientReturn == SetTriggerHalf \/ SetTriggerRest \/ SetTriggerArm \/ Arm

Client == \/ SetSampleRate
          \/ \E m \in Modes, c \in Channels : SetTriggerCall(m, c)
          \/ ClientReturn

-------------------------------------------------------------------------------
(* edt_logic_analyzer_capture_blocking, with a timeout                      *)

\* One turn of the loop: edt_logic_analyzer_read_samples and the test of the
\* total.
CaptureRead ==
  LET n == Least(MaxSamples - got, ring)
  IN  /\ ring' = ring - n
      /\ left' = Plus(left, n)
      /\ IF got + n >= MaxSamples
         THEN rd' = "idle" /\ got' = 0
         ELSE rd' = "sleep" /\ got' = got + n
      /\ UNCHANGED <<source, trigger, running, gate, sampler, own, client, total_samples, dropped_samples>>

\* The timeout ends the loop.
CaptureEnd ==
  /\ rd = "sleep"
  /\ rd' = "idle" /\ got' = 0
  /\ UNCHANGED <<source, trigger, running, gate, sampler, ring, own, client, counters>>

Reader == CaptureRead \/ CaptureEnd

Next == Sampler \/ Owner \/ Client \/ Reader

Spec == Init /\ [][Next]_vars

\* The sampling thread and the calls in progress are scheduled.
Fairness == WF_vars(Sampler) /\ WF_vars(StopJoin) /\ WF_vars(ClientReturn)

FairSpec == Spec /\ Fairness

\* A signal that takes every value again and again while it is waited for,
\* as far as the source lets it.
LiveSpec == FairSpec /\ \A v \in Raw : SF_vars(SampleArmed /\ sRaw' = v)

-------------------------------------------------------------------------------

TypeOK ==
  /\ source \in Sources /\ fast \in BOOLEAN
  /\ mode \in Mode /\ channel \in Channels
  /\ running \in BOOLEAN /\ armed \in BOOLEAN
  /\ last_raw_value \in Raw /\ sRaw \in Raw
  /\ total_samples \in 0..Wrap-1 /\ dropped_samples \in 0..Wrap-1 /\ left \in 0..Wrap-1
  /\ sPc \in {"off", "check", "sample", "match", "disarm", "write", "exit"}
  /\ target \in {FastBatch, SlowBatch} /\ batch \in 0..target
  /\ ring \in 0..Capacity /\ room \in 0..Capacity
  /\ own \in {"stopped", "create", "started", "join"}
  /\ cli \in {"idle", "copy", "rest", "store", "arm"}
  /\ cliMode \in Mode /\ cliChannel \in Channels
  /\ rd \in {"idle", "sleep"} /\ got \in 0..MaxSamples
  /\ pending \in BOOLEAN /\ raced \in BOOLEAN

\* Every sample taken is in the batch or the ring buffer, was kept out by the
\* gate or read, or is counted as dropped; the matching one is not lost.
SampleAccounting ==
  (total_samples - left - dropped_samples - batch - ring) % Wrap = 0

\* A thread samples exactly between a start and the end of the next stop, so
\* a restart never has two threads write to the ring buffer.
OneSampler ==
  /\ own \in {"stopped", "create"} => sPc = "off"
  /\ own \in {"create", "started"} => running
  /\ own = "started" => sPc \notin {"off", "exit"}

\* Why the above hold, as an inductive invariant: a batch starts empty and has
\* room while a sample is waited for, and the room a write has seen is still
\* there, since only the sampling thread puts samples into the ring buffer.
BatchInv ==
  /\ sPc \in {"off", "check", "exit"} => batch = 0
  /\ sPc \in {"match", "disarm"} => batch < target
  /\ sPc = "write" => ring + room <= Capacity
  /\ got < MaxSamples

\* ...and an arm request that falls between a match and its disarm is known.
DisarmInv == (sPc = "disarm" /\ pending) => raced

\* The only way to lose an arm request is to make it between the sampling
\* thread's match and its store that clears armed.
ArmKeptUnlessRaced == (pending /\ ~raced) => armed

\* A stop returns, under FairSpec.
StopReturns == (own = "join") ~> (own = "stopped")

\* A stop returns if the inputs keep changing, under LiveSpec.
StopReturnsOnSignal == (own = "join" /\ source = "reader") ~> (own = "stopped")

===============================================================================
