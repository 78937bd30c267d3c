# TLA+ models of the smart home hub and the embedded debug toolkit

The repository holds two C programs for an embedded board:

* `src/项目一/6-7_smart_home_hub` - the **hub**: a camera pipeline, and an MQTT
  service whose JSON-RPC requests drive two devices and an audio player;
* `src/项目二/embedded_debug_toolkit` - the **toolkit**: a logic analyzer with a
  lock-free ring buffer, a SUMP server for its clients, a network capture and a
  system monitor, all run by one service.

Both are small multithreaded programs: what can go wrong in them lies in the
interleaving of their threads, in what stop and destroy do while threads run,
at the limits of their queues and in the decoders of bus signals. The modules
here model that; printing, the arithmetic of pixels and user interfaces are left
out. Paths below are relative to
the directory of the program, whose parts are named after its files.

## Contents

1. [The system](#1-the-system)
2. [The modules](#2-the-modules)
3. [What is checked](#3-what-is-checked)
4. [Fairness](#4-fairness)
5. [What is proved](#5-what-is-proved)
6. [Disagreements found](#6-disagreements-found)
7. [What is not modelled](#7-what-is-not-modelled)
8. [Plan](#8-plan)

To check a model: `tlc -config MCRingBuffer.cfg MCRingBuffer`; to check the
proofs of a module: `tlapm RingBufferProofs.tla`.

## 1. The system

### 1.1 The toolkit

| Component | State | Operations | What makes it correct |
|---|---|---|---|
| ring buffer (`core/ring_buffer.c`) | array, `write_pos`, `read_pos` (free-running, atomic) | write, read, peek, two availability calls, init, reset, destroy | a bounded byte queue: nothing lost, doubled, reordered or overwritten, without a lock |
| logic analyzer (`logic/logic_analyzer.c`) | `running`, `armed`, trigger, rate, sample counters, the sampling thread | start, stop, set_sample_rate, set_trigger, arm, capture_blocking | every sample accounted for; one sampling thread; an arm request takes effect; a stop returns |
| SUMP server (`protocol/sump_server.c`) | listening socket, `running`, a detached thread and a session per client | start, stop, listener loop, client commands and parameters, captures | no client after the stop; a capture ends, runs with what its client has asked for and begins at the trigger |
| protocol decoders (`protocol/protocol_decoder.c`) | none | UART, I2C, SPI over an array of samples | they read what was sent whole, and nothing that was not |
| network capture (`tools/net_capture.c`) | packet socket, `running`, statistics | start, stop, thread loop | the thread is joined |
| system monitor (`tools/system_monitor.c`) | `running`, a snapshot under a mutex | start, stop, thread loop | the thread is joined |
| plugin manager (`plugins/plugin_manager.c`) | a table of slots, the libraries mapped | load a directory, tick, unload all | what was loaded is unloaded once, while the service still stands |
| debug service (`service/debug_service.c`) | all of the above, `started`, two enable flags | init, start, stop, destroy | what is freed is not used any more, also after a start that failed half way |
| V4L2 debugger, time helpers | see section 7 | | |

Interactions: `main` starts the service and then, in a loop, captures samples, gives
them to the three decoders and calls the plugins. The sampling thread writes to the ring buffer; `main` **and** every SUMP client
thread read from it. Clients set rate, trigger and arm flag under the sampling
thread's feet, with no lock. Stop clears `running` flags, closes sockets and
joins threads, in the reverse order of the start; client threads are detached
and nobody joins them.

### 1.2 The hub

| Component | State | Operations | What makes it correct |
|---|---|---|---|
| memory pool (`core/memory_pool.c`) | a reference count per block, mutex, condition variable, `shutdown` | acquire (with timeout), release, shutdown; retain is unused | a block belongs to one holder; no wakeup is lost |
| video pipeline (`video/video_pipeline.c`) | queue of blocks under `q_lock`, counters, two threads; the camera's descriptor, its mapped buffers and those its driver holds | start, stop, opening the camera, capture loop, render loop | frames in order and intact, all counted; stop ends and gives every block and the camera back |
| MQTT service (`mqtt/mqtt_service.c`) | `running`, `connected`, client handle, backoff | start, stop, thread loop, publish; callbacks connectionLost, messageArrived | a lost connection is noticed; backoff; a stop ends |
| JSON-RPC dispatcher (`rpc/json_rpc_dispatch.c`) | none | dispatch, on the Paho thread | one device or player call for a request |
| device HAL (`device/device_hal.c`) | a descriptor and a mutex per device | open, read, write, close, init, deinit | no descriptor leaks; I/O only on an open one |
| media player (`media/media_player.c`) | pid of `aplay`, mutex | play, stop, deinit | at most one player, no zombie left |
| hub main (`main.c`) | `g_stop` | start all, wait, stop all | each part is released when no thread uses it |

Interactions: the capture thread takes blocks from the pool, fills and queues
them; the render thread shows them and gives them back. The MQTT thread
connects, reports the sensor's values and reconnects; the Paho library calls
back on a thread of its own, which dispatches requests to the devices and the
player: so the MQTT thread and the Paho thread use the device HAL at once. The
camera side and the control side share only `g_stop` and the order in which
`main` stops them, which is why they are two models.

### 1.3 Hard behaviours

`PROJECT.json` lists them one by one under `hazards`, at the line where each one
bites. In groups: lock-free code (`ring_buffer.c:93,109,143`,
`memory_pool.c:138`); waits on condition variables (`memory_pool.c:110`,
`video_pipeline.c:155`); bounded queues (`video_pipeline.c:130`,
`logic_analyzer.c:139`); flags stored by one thread while another decides on
them (`logic_analyzer.c:121`, `mqtt_service.c:222`, `device_hal.c:32`); starts
that fail half way and stops that race with work in progress
(`video_pipeline.c:472,518`, `debug_service.c:137`, `sump_server.c:302,307`);
loops that must notice a stop (`logic_analyzer.c:102`, `net_capture.c:180`,
`sump_server.c:284`); timeouts and retries (`logic_analyzer.c:338`,
`mqtt_service.c:246`); clients that overwrite each other's settings, and settings cut
short (`sump_server.c:60,156,185`); arithmetic at its edges (`sump_server.c:129`,
`protocol_decoder.c:28`); messages cut by the ends of a capture (`main.c:159`).

## 2. The modules

    ByteFifo                       FrameStream                   DeviceHal  MediaPlayer
        ^ implements                   ^ implements                      \   /
    RingBuffer            MemoryPool   |  V4l2Camera                  HubControl
        |                          \   |  /                               |
    MCRingBuffer               VideoPipeline                        MCHubControl
                                       |
                               MCVideoPipeline
                                                         BusReading
    DebugService  PluginManager                              ^ follow
               \   /                 BusSignals       ProtocolDecoders
            DebugToolkit                     \           /
                 |                             DecodeLoop
           MCDebugService                          |
                                             MCDecodeLoop

    LogicAnalyzer -- MCLogicAnalyzer;  SumpServer -- MCSumpServer
    RingBuffer, LogicAnalyzer, SumpServer, VideoPipeline -- RingBufferProofs,
        LogicAnalyzerProofs, SumpServerProofs, VideoPipelineProofs
    DebugToolkit and, in it, DebugService -- DebugToolkitProofs
    DecodeLoop and, in it, ProtocolDecoders -- DecoderProofs
    HubPartsProofs extends DeviceHal and MediaPlayer;
    HubControlProofs extends HubControl and HubPartsProofs

A module has one variable per C variable that matters, under its C name, a
program counter per thread, and local variables of a call where their value
outlives a step. Its actions are the steps between two points at which another
thread can interfere: a load, a store, a critical section, a system call. History
variables are marked *history* where they are declared, and no guard reads them.
Definitions whose comment begins with *A mutant* are faulty versions of the
definition below them; the specification does not use them, they show that a
property notices the fault.

**ByteFifo** is what the ring buffer promises: a queue of at most `Capacity`
bytes to which a write appends some bytes and from which a read takes some off
the front, in one step each.

**RingBuffer** is `ring_buffer.c`. A write is `WriteCall` (arguments and own
counter), `WriteLoad` (the acquiring load), `WriteCopy` (one byte of the two
`memcpy`) and `WritePublish` (the releasing store); a read likewise, and a peek
ends with no store. Counters are taken modulo `Wrap`, 2^64 in the build. Byte
number *n* carries *n* modulo `Wrap`, so order and identity of bytes are seen.
A request may be for any length: a SUMP client can ask for 2^20 samples of 16 bytes
(`sump_server.c:172`), more than the ring holds. `CellAt` is where the two `memcpy` put or
find a byte: the second takes all that the first has left over, so a copy of more than
the ring holds runs past the array. What it finds there is any value (`BytesAt`), and
what it writes there is outside of the model. With one reader no copy does that
(`NoCellClash`); with two, once the late store of one has set `read_pos` back, it may.
`RoundUpPow2` is the rounding in `init`. Atomic loads and stores are sequentially
consistent in the model; the code's acquire and release pairs order the copies
with respect to the counters, which is all that the model relies on: each thread
uses a counter of the other side once per call.

**LogicAnalyzer** is `logic_analyzer.c`: the sampling thread's two loops
(`BatchBegin` ... `BatchWrite`), `start` and `stop` with the service that calls
them, one SUMP client that sets rate and trigger and arms, and a reader. The test
of `armed`, the match and the store that clears it are three steps. The struct
copy of the trigger races with the sampling thread: its members become visible
one by one, in either order. The ring buffer is a number of samples here, with
the guarantee of `ByteFifo`. Left out: the rate's value except for the two batch
sizes it selects, time stamps, sleeps.

**DebugService** is the lifetime of the toolkit's threads: `debug_service.c`
start, stop and destroy, the loops of the monitor, the network capture, the SUMP
listener and its client threads. A step that may fail is a disjunction. Each start
returns `-errno` when `pthread_create` fails, which does not set `errno`: the start of
a thread that does not exist may report success, and its stop then does nothing.

**PluginManager** is `plugin_manager.c`: `PluginOpen` and `PluginLoad` for each file of
the directory, the passes of a tick and of `unload_all`, and the table of libraries
that `dlopen` keeps. **DebugToolkit** composes it with DebugService: the plugins are
loaded in `edt_debug_service_init`, called in `main`'s loop and unloaded in
`edt_debug_service_destroy`, each of them with `main` in one place.

**SumpServer** is what the clients of `sump_server.c` do to the analyzer they share. A
client's thread goes from `Accept` over commands (`Reset`, `Setting` and its `Param`) to
ARM, whose steps are `Allocate`, `SetRate`, `CopyTrigger`, `StoreArmed`, `Arm`, `CaptureRead`
and `CaptureEnd`; `ParamCut` is a parameter cut short by the peer. `main` reads samples too,
and the sampling thread is there at the grain of a sample. Numbers keep their width:
parameters are numbers modulo `Word`, 2^32 in the code, and octets modulo `2^Lines`. A
sample is told only by where it lies in relation to the trigger.

**ProtocolDecoders** has the three decoders of `protocol_decoder.c` as operators, each
loop a recursive function. There are two references for them. **BusReading** goes from
the samples to the bytes: it defines, for any samples at all, the *set* of the bytes in
them, with no state that runs along the samples. A byte of a clocked bus ends at the
samples where the number of clock edges since the last start, stop or deselection is a
multiple of nine or eight; a UART frame begins at a start bit that lies in no earlier
frame. The arithmetic of one UART frame (`SamplesPerBit`, `Middle`, `UartByte`) is
taken from ProtocolDecoders and judged by the other reference only. **BusSignals** goes
from the bytes to the samples: what a UART, I2C or SPI bus puts on the wires for given
bytes, and which bytes a decoder must find in a part of it. The UART signal is that of
`tests/test_protocol_decoder.c`, sampled at a rate that need not be a multiple of the baud
rate. **DecodeLoop** is `main`'s loop. A capture (`Captured`) is a part of the signal, in one
piece or in two: `capture_blocking` puts reads together, and what a full ring buffer has
dropped (`logic_analyzer.c:138`) or another client has read between them is missing. Two
pieces stand for more: `DecodersExact` holds of any samples at all.

**MemoryPool** is `memory_pool.c`. Acquire holds the mutex while it scans,
release changes the count without it: so each count is a step of the scan, and
release is the `fetch_sub`, the store of 0 and the signal under the mutex.

**V4l2Camera** is `open_v4l2` and `close_v4l2`: one action per ioctl, each of which may
fail, and the buffers that go between the driver and the capture thread.

**VideoPipeline** is `video_pipeline.c` and the video part of `main.c` over
MemoryPool and V4l2Camera: a thread's step in the pool or of the camera is conjoined
with its place in the pipeline. A critical section of `q_lock` is one step. What the
pixels of a block are is the frame they belong to: `yuyv_to_rgb565` leaves a block as it
was when a frame is short or too large for it (`Pixels`).

**FrameStream** is what the pipeline promises to the user of its `on_frame`: frames stand
in a line of at most `Depth`, the one at its head is picked and shown, and a frame that
finds the line full pushes the oldest one out, which is counted. `VideoPipeline!StreamSpec`
is that promise with the ring of slots as the line; it ends, by the step `Spoil`, once
`memory_pool.c:138` has reset the count of a block in use.

**DeviceHal** is `device_hal.c`: `ensure_open` is the test, `open()`, the store of
its result and the test of it, for one path after the other, and holds no lock;
`open()` gives the lowest free descriptor of `opened`, the kernel's table.

**MediaPlayer** is `media_player.c`, whose lock makes calls serial; the process
table is `child`.

**HubControl** composes them with `mqtt_service.c`, the dispatcher and the
control part of `main.c`: the service thread from `loop` to `cleanup`, the Paho
thread's two callbacks with the device or player call a request leads to, and the
start and stop in `main`. `connected` is a flag of the code, `link` the truth.

### External behaviour

What is not in `src/` is modelled from how the code uses it:

* **Paho MQTT.** Each call may fail. A connection may break at any time and
  `connectionLost` is called some time later. Callbacks come one at a time, and
  none after `MQTTClient_destroy`. A request is delivered only on a connection.
* **Kernel and C library.** `open`, `fork`, `pthread_create` and `socket` may fail.
  POSIX leaves the thread id undefined when `pthread_create` fails. The video pipeline's
  stop takes an id other than 0 for a thread to join (`video_pipeline.c:496-503`); the
  model takes the failed call to leave it as it was, 0 since the struct is cleared, so that
  `JoinCapture` and `JoinRender` pass on. A library that stores something else there is
  not modelled.
  A `shutdown` of the listening socket wakes `accept`; a `close` of the packet
  socket does not wake `recv`, which a signal or an error of the interface may do at any
  time (`RecvFails`). `aplay` ends by itself or on SIGTERM.
* **Compiler.** `ensure_open` tests the value it has just stored: the model takes
  the value of `open()` as the compiler keeps it, not a second load.
* **Camera.** Any ioctl may fail, the driver may settle for another size and for fewer
  buffers than asked for, a frame may be empty or short; STREAMOFF takes all
  buffers from the driver's queue.
* **SUMP clients.** Any command at any time, parameters from a small set with the
  values at which the arithmetic wraps, and an end of the connection at any byte.
* **Plugins.** `dlopen` and `on_load` may fail. What else a plugin does is left out.
* **I2C and SPI devices** are what the bus defines (`BusSignals`).
* **Inputs, broker.** Nondeterministic.

## 3. What is checked

Every property of a run that passes has a mutant of the code in `PROJECT.json` that
violates it. The five runs marked **violated** have none: there the code itself does.

| Run | Module, bounds | Properties | What it shows |
|---|---|---|---|
| ring_spsc | RingBuffer; 4 cells, counters modulo 12, requests for 1, 3 and 6 bytes, one reader | `TypeOK`, `NoCellClash`, `CopiedInOrder`, `FifoSpec` | the lock-free code is a queue, as designed: one producer, one consumer |
| ring_two_readers | the same, two readers | `NoByteTakenTwice` **violated** | what the second reader of the program does |
| video | VideoPipeline; 3 blocks, queue of 2, 2 camera buffers, 4 frames | `TypeOK`, `NoLostWakeup`, `CountIsHolders`, `FrameIntact`, `FrameAccounting`, `RenderWakeup`, `FreedAfterUse`, `AllReturned`, `StreamSpec`, `StopTerminates` | the pipeline, with or without a camera, is right except after the race that `pool_race` shows |
| pool_race | 2 blocks | `BlockExclusive` **violated** | the late reset of a count gives a block to two holders |
| analyzer | LogicAnalyzer; one channel, no trigger or a rising edge, batches of 2 and 1, buffer of 1, counters modulo 3 | `TypeOK`, `SampleAccounting`, `OneSampler`, `ArmKeptUnlessRaced`, `StopReturnsOnSignal` | counting, restart, arming, and stop while the inputs change |
| analyzer_stop | the same, inputs that stay low | `StopReturns` **violated** | a stop that never returns |
| hub_control | HubControl; 3 descriptors, 2 process ids, 2 requests, LED with 2 paths, initial backoff 64 s | `TypeOK`, `FdsOwned`, `IoOnOpenFd`, `OnePlayer`, `BackoffStartsOver`, `ReleasedAlone`, `LossNoticed`, `StopTerminates` | the control side, with failures at any time |
| mqtt_backoff | the same, initial backoff 5 s, as shipped | `BackoffGrows` **violated** | 5, 10, 20, 40, 32, 32 |
| service | DebugToolkit; 2 clients, 2 polls of a capture, 2 plugins for 1 slot | `TypeOK`, `ServiceAlone`, `PluginsPaired`, `NoLateClient`, `CaptureEnds`, `StopEnds` | start, partial start, stop and destroy, with plugins |
| service_freed | the same | `RingFreedUnused` **violated** | a detached client outlives the stop |
| decoders | DecodeLoop; 3 messages per bus, 4 sample rates, the 4 SPI modes, about 20 places where captures begin and end, 6 where one lacks samples in its middle | `ReportsTheBus`, `UartReads`, `I2cReads`, `SpiReads` | the decoders report what the buses define to be in the samples, which is what was sent whole up to a hole and, if there is none, nothing else |
| sump_sessions | SumpServer; 2 clients, 3 channels, parameters modulo 16, batch and buffer of 2, 5 commands | `TypeOK`, `AppliesWhatWasSent`, `BeginsAtTrigger` | what a capture runs with and where it begins, when nobody has come in between |

Properties that name a race (`...UnlessRaced`, `CountIsHolders`, `FrameIntact`, `FdsOwned`) say that
the race of `memory_pool.c:138`, of `logic_analyzer.c:121` or of
`device_hal.c:32` is the *only* way to break them: a history variable records
that it has happened. That it does happen is shown by `pool_race`; the
other two happen in `analyzer` and `hub_control`, where the same invariants without the
exception are violated. In the same way the properties of `sump_sessions` are about a
capture of which the history variable `clean` says that since its client set the rate
no other client has set the analyzer, nobody else has taken its samples, the ring
buffer has not been full, and the trigger has not been met between the two armings of
`logic_analyzer.c:282` and `sump_server.c:157`. Each of these spoils a capture: two
clients overwrite each other's trigger without a word.

Some hazards that `PROJECT.json` lists are therefore described and not caught: clients that
overwrite each other's settings and a trigger mixed from two requests do what the hazard
says, as does a network capture that nothing arrives at, and no property reports it. Where
two threads open one device at once, or a UART or SPI capture begins inside a message, the
properties report every way to go wrong but that one. Each such hazard has a note.

What `sump_sessions` shows besides: the first capture after a start gives samples from
before its trigger (`old`), since nothing empties the ring buffer; the largest divider
makes a divisor of 0, which ends the process on a machine that traps and gives the
rate 1 on the ARM target (`Rates`); the largest read count wraps to 0, which stands for
4096, and a read count of 0 for the configured number of samples, not for one.

What `decoders` shows besides: the SPI decoder takes a capture that begins inside
a transfer for the beginning of a byte, and the UART decoder one that begins inside a
frame for whatever edges it finds, so `SpiReads` and `UartReads` ask for a capture that
begins between messages; the I2C decoder waits for a start condition and needs no
such exception.

Why the bounds are enough:

* *Ring buffer.* A request for 3 bytes in 4 cells wraps inside a call, one for 6 is more
  than the ring holds and is cut to the room or the data there are, 1 to 4 bytes, and meets
  the empty and the full buffer, and 12 = 3 x 4 positions let counters turn over
  while a call is in progress. The theorems cover all other sizes.
* *Video.* A third block lets the queue of two fill up while one frame is shown,
  which is the only way to drop from the queue, and the pool runs dry when a
  fourth is asked for; four frames are enough to fill it, drop, and reuse a block.
  (As shipped there are 4 blocks for a queue of 8, so the queue never overflows.) Two
  camera buffers are the fewest `open_v4l2` accepts. `MaxFrames` bounds the camera only: after it the capture thread
  waits and can still be stopped.
* *Analyzer.* A batch of 2 into room for 1 is a partial write; a batch of 1 fits.
  A rising edge needs the previous and the current sample, as every other mode
  does at most; one channel shows each of the two values. Counters modulo 3 turn
  over soon. The theorems cover all other sizes, modes and channels.
* *Hub.* Both devices open, with one descriptor to spare for a leak; two ids let
  a second player exist beside the first; two requests let one interrupt what
  the other has begun. From 64 s the delays are
  60, 32, 32: the cap applies, and a delay that did not start over would be told
  from one that did.
* *Service.* Two clients race for the listener and outlive one another; two
  polls stand for the hundreds until a timeout; of two plugins one finds no slot.
* *Decoders.* Captures begin and end everywhere in the short signals and at about
  twenty places of the long ones, so that messages are cut inside start conditions, bits,
  bytes and stop bits. Six places of each signal are where a piece may be missing from the
  middle of a capture, of any length between two of them. The rates are 3 and 4 samples per bit, the smallest, 5.2, whose
  error adds up, and 43.4, that of main. Frames follow one another at once, after idle
  bits, and after a broken one; a pulse of less than half a bit comes before them.
  `BusSignals!RateTolerable` says for which rates bits stay apart although the samples
  per bit are rounded down: 5 MHz at 115200 baud is one of them, 1 MHz (8 for 8.68) is
  not, and there a frame is misread.
* *SUMP.* Five commands let a client connect, set two parameters, have a third cut or
  begin anew, and arm, while the other does the same in what is left. The divider and
  the read count of 15 are the ones that wrap modulo 16; the mask of two channels has a
  lowest one; the mode 9 is 1 in an octet and 5 is none that is known. A batch and a buffer of two
  samples can be full, and can be emptied by another reader.

## 4. Fairness

Weak fairness on each thread: the operating system runs a thread that can run.
No fairness on what the environment may do or not do: a stop request, a
client's commands, frames, a lost link. Beyond that:

* `VideoPipeline` and `HubControl`: waits with a timeout end, which is the
  thread's own step; a player that has got SIGTERM ends (`PlayerExit` while a
  call waits for it).
* `LogicAnalyzer!LiveSpec`: for each value of the inputs, strong fairness of an
  armed sample that has it. It is the assumption under which a stop returns, and
  holds for the built-in wave, which takes both values of every channel again and
  again. It is not justified for a quiet input: `analyzer_stop` uses `FairSpec`,
  without it.
* `DebugToolkit!LiveToolkit`: the same for DebugService's threads, with main in the
  plugin manager scheduled too; that its loop ticks once more is not assumed. As in
  `DebugService!LiveSpec`, no `recv` of the network capture waits for ever (`RecvEnds`):
  packets keep arriving, or it fails. The stop needs it, because closing the socket does
  not wake a `recv`; on an interface without traffic or trouble the stop waits for the
  next packet.

`StopEnds` takes the sampling thread to end when told to; when it does is the
question of `StopReturns` and `StopReturnsOnSignal`.

## 5. What is proved

For every value of the constants that meets the assumptions of the module:

| Theorem (module) | Property | Assumes |
|---|---|---|
| `TypeCorrect` (RingBufferProofs) | `TypeOK` | - (any number of readers, any lengths) |
| `Occupancy` | `OccupancyBounded`: `write_pos` is at most `Capacity` ahead | one reader |
| `CellsDisjoint` | `NoCellClash`: no copy leaves the array or touches a cell in use | one reader |
| `InOrder` | `CopiedInOrder` | one reader |
| `Refinement` | `FifoSpec`: `RingBuffer` implements `ByteFifo` | one reader |
| `TypeCorrect` (LogicAnalyzerProofs) | `TypeOK` | - |
| `SingleSampler` | `OneSampler` | - |
| `ArmLostOnlyInRace` | `ArmKeptUnlessRaced` | - |
| `Accounting` | `SampleAccounting` | - |
| `TypeCorrect` (DebugToolkitProofs) | `TypeOK` | - |
| `JoinedBeforeFree` | `ServiceAlone` | - |
| `NoClientAfterStop` | `NoLateClient` | - |
| `PluginsInvisible` | `DebugService!Spec`: the toolkit with plugins implements the service | - |
| `PluginsUnloaded` | `PluginsPaired` | - |
| `TypeCorrect` (HubControlProofs) | `TypeOK` | - |
| `DescriptorsOwned` | `FdsOwned` | - |
| `DevicesOpen` | `IoOnOpenFd` | - |
| `PlayerAlone` | `OnePlayer` | - |
| `Released` | `ReleasedAlone` | - |
| `StartsOver` | `BackoffStartsOver` | - |
| `DelaysFollow` | which delay follows which between two connections, and that `BackoffGrows` fails only after a delay of more than 32 s | - |
| `TypeCorrect` (VideoPipelineProofs) | `TypeOK` | - |
| `PoolWakeup` | `NoLostWakeup` | - |
| `CountsAreHolders` | `CountIsHolders` | - |
| `HeldOnce` | `BlockExclusive`, as long as no count has been reset late and the pipeline is up | - |
| `ShownIntact` | `FrameIntact` | - |
| `FramesAddUp` | `FrameAccounting` | - |
| `NoRenderSleep` | `RenderWakeup` | - |
| `FreedLast` | `FreedAfterUse` | - |
| `ReturnedAll` | `AllReturned` | - |
| `InCaptureOrder` | `ShownInOrder`: the numbers of the frames shown only increase | - |
| `StreamRefined` | `StreamSpec`: `VideoPipeline` implements `FrameStream` | - |
| `TypeCorrect` (SumpServerProofs) | `TypeOK` | at most 8 channels |
| `SettingsReach` | `AppliesWhatWasSent` | at most 8 channels |
| `CaptureBegins` | `BeginsAtTrigger` | at most 8 channels |
| `DecodersExact` (DecoderProofs) | `ReportsTheBus` | `cpol` and `cpha` are 0 or 1 |

The assumptions on constants stand in the modules as named `ASSUME`s: sizes are
positive, the threads are the program's, the camera has two buffers or more. A
trigger mask is an octet (`sump_server.c:35`) and the code searches 8 bits of it, so "at
most 8 channels" excludes nothing the program can be built with.

**RingBuffer.** The assumptions are those of `edt_ring_buffer_init`: the capacity
is at least 2 and divides the range of the counters (a power of two and 2^64). Of the
lengths that callers pass nothing is assumed but that they are numbers of that range other
than 0, with which a call does nothing. `TypeCorrect` therefore covers the copies that two
readers can make run past the array; it says that whatever they find there the counters,
sizes and bytes stay in their ranges and the array keeps its shape.
The theorems but the first take a single reader as a hypothesis in their statement,
since the program has two. None of the properties is inductive: that a write fits
depends on a value of `read_pos` loaded some steps ago. The inductive invariant
`IInv` adds what each side knows of the other:

* `WriterInv`: the producer's copy of its counter is exact; the room it has seen is
  still there, for `read_pos` can only have moved on; what it has copied is right;
* `ReaderInv`: the bytes a reader has seen are still there, for `write_pos` can only
  have moved on; what it has copied out is right;
* `ContentInv`: the cells between the counters hold the stream's next bytes.

Positions are numbers modulo `Wrap` and cells are positions modulo `Capacity`, so
the lemmas before the invariant are about two moduli one of which divides the other:
two positions less than `Capacity` apart are in different cells, the two `memcpy` of a call
that fits go to the cells of the stream (`CopyCell`), addition and
subtraction modulo `Wrap` undo each other within a window. For `Refinement`, the
queue is the bytes between the counters; the two publishing stores are the
abstract write and read, and every other step, the copies included, leaves it
as it is.

**LogicAnalyzer.** `IInv` is `TypeOK`, `OneSampler` and `ArmKeptUnlessRaced` with two
more: `BatchInv` (there is room in the batch while a sample waits for the trigger,
and the room that the writing thread has seen in the ring buffer is still there, so
`ring` never exceeds `Capacity`) and `DisarmInv` (an arm request pending at the
disarm came after the match). `Accounting` is then an argument about the balance
*total - left - dropped - batch - ring*: each counter is kept modulo `Wrap`, so a step
changes the balance by a multiple of `Wrap` (`PlusTurns`, `TurnsVanish`).

**DebugService.** `ThreadsInv` says for each of the service's threads which part of
`main` it can live in: a thread that has not been joined has its join still ahead, and
`main` comes by that join because the running flag is still set: each stop returns at
once if it is not. It needs no types; `TypeOK` needs it (a
listener that is started has no accepted client in hand).

**DebugToolkit.** Each of its steps is one of DebugService's or leaves the service alone,
so `PluginsInvisible` carries the service's theorems over. `PluginInv` says that a plugin
is in one place (not read yet, being added, or in a slot of its own), where `main` is
while the plugin manager is in each of its calls, and which plugins are mapped and active,
read off the slots; with `ThreadsInv` it gives `PluginsPaired`. That the slot found for a
plugin is a free one (`FirstFreeIsFree`) rests on the least element of a set of numbers.

**HubControl.** `IInv` is `TypeOK`, `HalInv`, `FdsOwned`, `PlayerInv` and `CallsInv`.
`HalInv`: a descriptor is in one place, a device's or that of the one thread about to
store it, and while only one thread opens a device the device is what that thread takes
it to be; it is what keeps the store in `ensure_open` from overwriting a descriptor.
`PlayerInv`: a call forks only after the previous player has been waited for. `CallsInv`:
which of the three threads is in a call of the HAL or of the player, read off its
place; the service thread lives between start and join; once it has destroyed its
client there is no link, hence no callback. HubPartsProofs shows
that each step of DeviceHal and of MediaPlayer preserves its part, for any threads and
devices; HubControlProofs shows that every step of the hub is one of those steps or
leaves the part alone. The backoff has an invariant of its own, `BackoffInv`: what the
stored backoff is, while no attempt has failed yet and after one has. `DelaysFollow` is the
exact law behind the disagreement of `mqtt_backoff`: between two connections delays
double up to a minute, and any delay of 32 seconds or more is followed by one of 32.

**VideoPipeline.** `IInv` is `TypeOK` and ten more:

* `PoolInv`: one scan at a time, and the blocks a scan has passed are taken or a release is
  on its way to the signal. This is why an acquire that finds nothing may go to sleep;
* `StageInv`: where each of the three threads can be while another is where it is, and
  `RenderWakeup`; `CamInv` and `CameraInv`: what `open_v4l2` holds at each ioctl, and
  that the buffer being read has been taken from the driver;
* `RingInv`: the tail is `q_count` slots after the head, and a slot holds a block exactly
  where one is queued; `HeldInv`: a block that is not free is queued, in a thread's hands
  or about to be stored free. It holds after the race too, and is what `AllReturned` needs;
* `CountIsHolders`, which counts the holders of a block (slots of the ring, hands): each
  step moves a block from one holder to another, so the sum over the holders does not
  change, and the lemmas before it say how a sum changes when one holder does;
* `AccountInv`, `PixelInv`, `OrderInv`: every frame is counted once; a block has the
  pixels of its header; the numbers in the ring increase from head to tail and lie
  between the last one shown and the last one captured. The last two need that a block in
  one thread's hands is not in another's, that is `CountIsHolders`.

What depends on exclusive blocks is stated for `raced = {}`: that the race of
`memory_pool.c:138` has not happened. `HeldOnce` says that it is the only way for a block
to get two holders. `AllReturned`, `FrameAccounting` and the wakeups are proved with the
race.

For `StreamRefined` the line is the `q_count` slots from the head, each as the number in
the header of its block. The push is `Enter`, the pop is `Pick`, the call of `on_frame` is
`Show`; `Made` and `Lost` count a frame at its push although the code counts before and
after it. Every other step leaves the line as it is (`CaptureStill`, `RenderStill`,
`MainStill`); that the capture thread may store a block's header outside of the lock rests
on its block being in no slot, that is on `CountIsHolders`.

**SumpServer.** `IInv` is `TypeOK` with

* `SessionInv`: the session of a client that can still send holds what it has asked for, as
  a 4-byte parameter is stored in its field. A parameter cut short may store what was never
  sent, but only in the session of a client whose next `recv` ends it, so it cannot arm;
* `AnalyzerInv`: at most one capture is undisturbed (`clean`), and the analyzer's rate,
  mode and channel are those of its session. Another client's setting makes it unclean;
* `StreamInv`: what the capture has read, followed by the ring buffer and the batch, is
  one sequence. Until the trigger is met it consists of older samples; afterwards it is
  older samples, then the one that met the trigger, then its successors without a gap.
  Reads, batches and writes only move the borders inside that sequence.

That the loop over the mask's bits finds the lowest one set rests on lemmas about the bits
of an octet (`BitOfOctet`, `LowestBit`), which go through the powers of two up to 2^8 one by
one.

**DecodeLoop.** `DecodersExact` is about the functions, not about steps: for any samples
(a capture with holes is one choice of them),
any configuration (valid or not) and any size of the array of events, `UartExact`,
`I2cExact` and `SpiExact` say that a decoder reports the set that BusReading defines, each
byte once and in its order, up to the size of the array. Three ideas carry them:

* *Recursion.* The library's induction theorems take an operator, which the provers cannot
  instantiate. `CountUp` says the same of a subset of Nat, from the least element of a set
  of numbers (`WFMin`), and `RunExists` that a function defined by recursion from 0 exists;
  the UART's function, which recurs upwards, is turned around at the end of the samples
  (`UartRuns`). So is the set of frames, which is defined by recursion on itself
  (`FramesFixed`, `FramesAre`).
* *Clocked buses.* The registers hold the bits of the clock edges since the last break
  (`Holds`, `I2cKnows`, `SpiKnows`): there is a list of those edges in their order, the
  count of bits is its length modulo nine or eight, and the shift register is made of the
  levels at the last of them. Lemmas `HoldsBit`, `HoldsAck` and `HoldsWord` say what one
  more edge does to that, `I2cTurn` and `SpiTurn` that every sample keeps it.
* *UART.* The search at sample *i* has left behind only samples that are in no frame or in
  one it has read (`Clear`), so a start bit it finds begins a frame (`UartFound`); behind
  a stop bit, or where the samples end, it goes on or stops without missing one.

The hypothesis `cpol`, `cpha` in {0, 1} is what the two names mean; the code takes any
octet for them. With it, the test in the SPI decoder that is to pass over a leading edge
never succeeds: the edge it samples on leaves the idle level only when `cpha` is 0. The
proof shows that the decoder is right without it.

**Only model-checked:** the liveness properties (`StopTerminates`, `StopReturnsOnSignal`,
`LossNoticed`, `CaptureEnds`, `StopEnds`), which depend on fairness and are out of the
prover's reach, and `UartReads`, `I2cReads`, `SpiReads`: that the bytes BusReading finds in
the samples are those that BusSignals was given to send. What stands between the two
are the recursive functions that build a signal from messages, a matter of the test
signals rather than of the code.

## 6. Disagreements found

Each is the violation run named, and `PROJECT.json` quotes the text.

1. `ring_two_readers`: the architecture document says one consumer; `main.c:157`
   and every SUMP client (`sump_server.c:185`) read the buffer. One sample is
   handed to two readers, and the later store may set `read_pos` back.
2. `pool_race`: `memory_pool.c:138` stores 0 into a count that the `fetch_sub` of
   line 136 has already brought to 0. An acquire in between takes the block, the
   store frees it again. Without the store the code is right.
3. `analyzer_stop`: the inner loop of `logic_analyzer.c:102` does not test `running`,
   so with an armed trigger and a quiet input `stop` joins for ever. The built-in
   main sets `simulate_signal`, whose wave ends the wait.
4. `mqtt_backoff`: the next delay is `delay < 32 ? delay * 2 : 32`
   (`mqtt_service.c:246`), so the wait falls from 40 s to 32 s and never reaches the
   cap of 60 s.
5. `service_freed`: client threads are detached and `destroy` frees the ring buffer
   while a capture may copy from it.

## 7. What is not modelled

* *LED kernel driver* (`hub_led_drv.c`): each handler holds one mutex from its first
  access of the pin to its last and keeps no state besides, and the initialisation is unwound in
  reverse by one thread. The HAL's view of the device is in DeviceHal.
* *Arithmetic of the pixel conversion, V4L2 debugger, `/proc` parsing, packet statistics,
  statistics file, SUMP's ID and metadata, log, configuration file, command lines*: parsing,
  formatting or a fixed sequence of system calls; there is no state for another
  thread to disturb.
* *Timestamps of samples*: the decoders copy them into events and `main` prints them;
  nothing compares them. Samples are told by their order.
* *What plugins do* in `on_tick`.
* *Time*: `edt_time.c` and all sleeps. A timeout may happen at any time.
* *Qt programs and plugins, `led_test`, `hal_demo`, sample plugin, unit tests*: user
  interfaces, tools and examples in one thread.
* Inside modelled files: `edt_ring_buffer_reset`, `set_reader` and
  `hub_mem_pool_retain`, which nothing calls, and an acquire without a timeout.

## 8. Plan

Done: RingBuffer with its refinement, LogicAnalyzer, MemoryPool, V4l2Camera and
VideoPipeline, DeviceHal, MediaPlayer and HubControl, DebugService and DebugToolkit,
FrameStream and its refinement, SumpServer and the protocol decoders, all with their
proofs. Every invariant and action property that the runs check is proved, except the
three that compare the decoders with signals made from messages.

Left:

1. An abstract pool (a set of free blocks, taken and given back in one step) that
   MemoryPool implements as long as no count is reset late.
2. That the signals of BusSignals are read by BusReading as the bytes they were made
   from, which with `DecodersExact` would prove `UartReads`, `I2cReads` and `SpiReads`.
