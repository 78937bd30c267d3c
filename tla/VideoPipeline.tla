---------------------------- MODULE VideoPipeline ----------------------------
(***************************************************************************)
(* hub_video_pipeline_t of smart_home_hub/src/video/video_pipeline.c over  *)
(* the pool of MemoryPool: a capture thread fills blocks and queues them,  *)
(* a render thread shows them and gives them back, and main starts and     *)
(* stops both (main.c).                                                    *)
(*                                                                         *)
(* A critical section of q_lock is one step; the steps between two of them *)
(* interleave.  A block's pixels and header are one number, that of the    *)
(* frame it carries.  A pass of a loop that changes nothing (poll without  *)
(* a frame, a failed DQBUF) is left out.                                   *)
(*                                                                         *)
(* MaxFrames bounds the frames the camera delivers.                        *)
(***************************************************************************)
EXTENDS MemoryPool, V4l2Camera

CONSTANTS QueueDepth,  \* HUB_VIDEO_QUEUE_DEPTH
          MaxFrames

ASSUME QueueDepthAssumption == QueueDepth \in Nat /\ QueueDepth > 0
ASSUME MaxFramesAssumption == MaxFrames \in Nat
ASSUME ThreadsAssumption == Threads = {"capture", "render", "main"}

VARIABLES
  queue, q_head, q_tail, q_count,    \* the ring of priv, under q_lock
  seq,                               \* priv->seq
  captured, drop_pool, drop_queue,   \* the stat_ counters of priv
  blkSeq, blkPix,                    \* the frame each block carries, and whose
                                     \* pixels it holds: Older if not that frame's
  capPc, capDrop, capBuf,            \* the capture thread, its drop and its vbuf
  renPc, renBlk, frameSeq,           \* the render thread, its blk and frame.seq
  rendered, shown,                   \* history: frames shown, and the last one
  running, privUp, camera,           \* pl->running; pl->priv # NULL; the capture
                                     \* thread has found a camera
  g_stop, mainPc, drainIdx           \* main

ring == <<queue, q_head, q_tail, q_count>>
stats == <<captured, drop_pool, drop_queue>>
capture == <<capPc, capDrop, capBuf, seq>>
blocks == <<blkSeq, blkPix>>
render == <<renPc, renBlk, frameSeq, rendered, shown>>
control == <<running, privUp, camera, g_stop, mainPc, drainIdx>>
vars == <<poolVars, camVars, ring, stats, blocks, capture, render, control>>

Slot == 0..QueueDepth-1
Older == 0
NoBuf == BufCount

Init ==
  /\ PoolInit /\ CamInit
  /\ queue = [i \in Slot |-> Null] /\ q_head = 0 /\ q_tail = 0 /\ q_count = 0
  /\ seq = 0 /\ captured = 0 /\ drop_pool = 0 /\ drop_queue = 0
  /\ blkSeq = [b \in Block |-> 0] /\ blkPix = [b \in Block |-> Older]
  /\ capPc = "off" /\ capDrop = Null /\ capBuf = NoBuf
  /\ renPc = "off" /\ renBlk = Null /\ frameSeq = 0 /\ rendered = 0 /\ shown = 0
  /\ running = FALSE /\ privUp = FALSE /\ camera = FALSE
  /\ g_stop = FALSE /\ mainPc = "start" /\ drainIdx = 0

-------------------------------------------------------------------------------
(* capture_thread_main                                                      *)

\* A mutant: the buffer is given back to the driver before it has been read.
CaptureDequeueEarly(i) ==
  /\ capPc = "loop" /\ running /\ camera /\ seq + drop_pool < MaxFrames
  /\ streaming /\ i \in queued
  /\ capBuf' = i
  /\ captured' = captured + 1 /\ AcquireCall("capture") /\ capPc' = "acquire"
  /\ UNCHANGED <<camVars, ring, drop_pool, drop_queue, blocks, capDrop, seq, render, control>>

\* poll and DQBUF: the camera has filled a buffer.  A frame is counted before
\* a block is asked for, and one without bytes is passed over.
CaptureDequeue(i) ==
  /\ capPc = "loop" /\ running /\ camera /\ seq + drop_pool < MaxFrames
  /\ CamDequeue(i)
  /\ capBuf' = i
  /\ \/ captured' = captured + 1 /\ AcquireCall("capture") /\ capPc' = "acquire"
     \/ capPc' = "requeue" /\ UNCHANGED <<captured, poolVars>>
  /\ UNCHANGED <<ring, drop_pool, drop_queue, blocks, capDrop, seq, render, control>>

\* The capture thread is done with the frame.
Requeue == IF camera THEN "requeue" ELSE "loop"

CaptureEnqueue ==
  /\ capPc = "requeue"
  /\ CamEnqueue(capBuf)
  /\ capBuf' = NoBuf
  /\ capPc' = "loop"
  /\ UNCHANGED <<poolVars, ring, stats, blocks, capDrop, seq, render, control>>

\* Without a camera, a block is asked for first.
CaptureSynthetic ==
  /\ capPc = "loop" /\ running /\ ~camera /\ seq + drop_pool < MaxFrames
  /\ AcquireCall("capture")
  /\ capPc' = "acquire"
  /\ UNCHANGED <<camVars, ring, stats, blocks, capDrop, capBuf, seq, render, control>>

CaptureExit ==
  /\ capPc = "loop" /\ ~running
  /\ capPc' = "exit"
  /\ UNCHANGED <<camVars, poolVars, ring, stats, blocks, capDrop, capBuf, seq, render, control>>

CaptureAcquire ==
  /\ AcquireStep("capture")
  /\ UNCHANGED <<camVars, ring, stats, blocks, capture, render, control>>

CaptureNoBlock ==
  /\ capPc = "acquire" /\ acqBlk["capture"] = Null
  /\ AcquireReturn("capture")
  /\ drop_pool' = drop_pool + 1
  /\ capPc' = Requeue
  /\ UNCHANGED <<camVars, ring, captured, drop_queue, blocks, capDrop, capBuf, seq, render, control>>

\* What is in the block: yuyv_to_rgb565 leaves it as it was if the camera's
\* frame is short or too large for a block.
Pixels(n) == IF ~camera THEN {n} ELSE IF fits THEN {n, Older} ELSE {Older}

CaptureFill ==
  /\ capPc = "acquire" /\ acqBlk["capture"] # Null
  /\ AcquireReturn("capture")
  /\ seq' = seq + 1
  /\ blkSeq' = [blkSeq EXCEPT ![acqBlk["capture"]] = seq + 1]
  /\ \E p \in Pixels(seq + 1) : blkPix' = [blkPix EXCEPT ![acqBlk["capture"]] = p]
  /\ captured' = IF camera THEN captured ELSE captured + 1
  /\ capPc' = "push"
  /\ UNCHANGED <<camVars, ring, drop_pool, drop_queue, capDrop, capBuf, render, control>>

Following(i) == (i + 1) % QueueDepth

\* pthread_cond_signal and _broadcast on q_cond: the render thread is the
\* only one that waits there.
WakeRender == renPc' = IF renPc = "wait" THEN "pop" ELSE renPc

\* A mutant: a bound one too high.
QueueFullLate == q_count > QueueDepth

QueueFull == q_count >= QueueDepth

\* queue_push up to the unlock: a full queue gives up its oldest block.
QueuePush(dropping) ==
  /\ queue' = [queue EXCEPT ![q_tail] = acqBlk["capture"]]
  /\ q_tail' = Following(q_tail)
  /\ q_head' = IF dropping THEN Following(q_head) ELSE q_head
  /\ q_count' = IF dropping THEN q_count ELSE q_count + 1
  /\ capDrop' = IF dropping THEN queue[q_head] ELSE Null
  /\ capPc' = IF dropping THEN "drop" ELSE Requeue
  /\ UNCHANGED <<camVars, poolVars, stats, blocks, capBuf, seq, renBlk, frameSeq, rendered, shown, control>>

\* A mutant: the render thread is not signalled.
CapturePushSilent == capPc = "push" /\ QueuePush(QueueFull) /\ UNCHANGED renPc

CapturePush == capPc = "push" /\ QueuePush(QueueFull) /\ WakeRender

\* A mutant: a frame the queue gave up is not counted.
CaptureDropUncounted ==
  /\ capPc = "drop"
  /\ ReleaseSub("capture", capDrop)
  /\ capPc' = "release"
  /\ UNCHANGED <<camVars, ring, stats, blocks, capDrop, capBuf, seq, render, control>>

CaptureDrop ==
  /\ capPc = "drop"
  /\ drop_queue' = drop_queue + 1
  /\ ReleaseSub("capture", capDrop)
  /\ capPc' = "release"
  /\ UNCHANGED <<camVars, ring, captured, drop_pool, blocks, capDrop, capBuf, seq, render, control>>

CaptureRelease ==
  /\ ReleaseStep("capture")
  /\ UNCHANGED <<camVars, ring, stats, blocks, capture, render, control>>

CaptureReleased ==
  /\ capPc = "release"
  /\ ReleaseReturn("capture")
  /\ capPc' = Requeue
  /\ UNCHANGED <<camVars, ring, stats, blocks, capDrop, capBuf, seq, render, control>>

Capture == \/ (\E i \in queued : CaptureDequeue(i)) \/ CaptureEnqueue
           \/ CaptureSynthetic \/ CaptureExit \/ CaptureAcquire \/ CaptureNoBlock
           \/ CaptureFill \/ CapturePush \/ CaptureDrop \/ CaptureRelease
           \/ CaptureReleased

-------------------------------------------------------------------------------
(* render_thread_main                                                       *)

RenderLoop ==
  /\ renPc = "loop"
  /\ renPc' = IF running THEN "pop" ELSE "exit"
  /\ UNCHANGED <<camVars, poolVars, ring, stats, blocks, capture, renBlk, frameSeq, rendered, shown, control>>

\* The end of queue_pop: the oldest block is taken, its slot left as it is,
\* or NULL is returned and the loop starts over.  The mutant takes the newest.
PopNewest ==
  /\ q_count > 0
  /\ renBlk' = queue[(q_tail + QueueDepth - 1) % QueueDepth]
  /\ q_tail' = (q_tail + QueueDepth - 1) % QueueDepth
  /\ q_count' = q_count - 1
  /\ renPc' = "show"
  /\ UNCHANGED <<queue, q_head>>

PopOldest ==
  /\ q_count > 0
  /\ renBlk' = queue[q_head]
  /\ q_head' = Following(q_head)
  /\ q_count' = q_count - 1
  /\ renPc' = "show"
  /\ UNCHANGED <<queue, q_tail>>

PopNothing ==
  /\ q_count = 0
  /\ renPc' = "loop"
  /\ UNCHANGED <<ring, renBlk>>

RenderPop ==
  /\ renPc = "pop"
  /\ \/ PopOldest
     \/ PopNothing /\ ~running
     \/ /\ q_count = 0 /\ running
        /\ renPc' = "wait"
        /\ UNCHANGED <<ring, renBlk>>
  /\ UNCHANGED <<camVars, poolVars, stats, blocks, capture, frameSeq, rendered, shown, control>>

\* ETIMEDOUT after 200 ms: the queue is looked at once more.
RenderTimeout ==
  /\ renPc = "wait"
  /\ PopOldest \/ PopNothing
  /\ UNCHANGED <<camVars, poolVars, stats, blocks, capture, frameSeq, rendered, shown, control>>

\* The frame's header is copied out of the block; its pixels are not.
RenderHeader ==
  /\ renPc = "show"
  /\ frameSeq' = blkSeq[renBlk]
  /\ renPc' = "frame"
  /\ UNCHANGED <<camVars, poolVars, ring, stats, blocks, capture, renBlk, rendered, shown, control>>

\* on_frame
RenderShow ==
  /\ renPc = "frame"
  /\ rendered' = rendered + 1 /\ shown' = frameSeq
  /\ renPc' = "shown"
  /\ UNCHANGED <<camVars, poolVars, ring, stats, blocks, capture, renBlk, frameSeq, control>>

RenderRelease ==
  /\ renPc = "shown"
  /\ ReleaseSub("render", renBlk)
  /\ renPc' = "release"
  /\ UNCHANGED <<camVars, ring, stats, blocks, capture, renBlk, frameSeq, rendered, shown, control>>

RenderReleaseStep ==
  /\ ReleaseStep("render")
  /\ UNCHANGED <<camVars, ring, stats, blocks, capture, render, control>>

RenderReleased ==
  /\ renPc = "release"
  /\ ReleaseReturn("render")
  /\ renPc' = "loop"
  /\ UNCHANGED <<camVars, ring, stats, blocks, capture, renBlk, frameSeq, rendered, shown, control>>

Render == \/ RenderLoop \/ RenderPop \/ RenderTimeout \/ RenderHeader
          \/ RenderShow \/ RenderRelease \/ RenderReleaseStep \/ RenderReleased

-------------------------------------------------------------------------------
(* hub_video_pipeline_start, hub_video_pipeline_stop and main               *)

workers == <<stats, blocks, capDrop, capBuf, seq, renBlk, frameSeq, rendered, shown>>

\* priv is allocated, or the hub goes on without a picture.
StartPriv ==
  /\ mainPc = "start"
  /\ \/ privUp' = TRUE /\ mainPc' = "camera"
     \/ mainPc' = "run" /\ UNCHANGED privUp
  /\ UNCHANGED <<camVars, poolVars, ring, workers, capPc, renPc, running, camera, g_stop, drainIdx>>

\* open_v4l2; without a camera the frames are synthetic.
StartCamera ==
  /\ mainPc = "camera"
  /\ CamOpenStep
  /\ UNCHANGED <<poolVars, ring, workers, capPc, renPc, control>>

\* The first pthread_create, which may fail.
StartCapture ==
  /\ mainPc = "camera" /\ camPc = "done"
  /\ \/ /\ running' = TRUE /\ camera' = fd
        /\ capPc' = "loop" /\ mainPc' = "startRender"
     \/ /\ mainPc' = "stop"
        /\ UNCHANGED <<running, camera, capPc>>
  /\ UNCHANGED <<camVars, poolVars, ring, workers, renPc, privUp, g_stop, drainIdx>>

StartRender ==
  /\ mainPc = "startRender"
  /\ \/ /\ renPc' = "loop" /\ mainPc' = "run"
        /\ UNCHANGED running
     \/ /\ running' = FALSE /\ mainPc' = "stop"
        /\ UNCHANGED renPc
  /\ UNCHANGED <<camVars, poolVars, ring, workers, capPc, privUp, camera, g_stop, drainIdx>>

\* SIGINT or SIGTERM; stop returns at once if there is no priv.
StopRequest ==
  /\ mainPc = "run"
  /\ g_stop' = TRUE
  /\ mainPc' = IF privUp THEN "stop" ELSE "shutdown"
  /\ UNCHANGED <<camVars, poolVars, ring, workers, capPc, renPc, running, privUp, camera, drainIdx>>

\* A mutant: the threads are not told to stop.
StopFlagForgotten ==
  /\ mainPc = "stop"
  /\ mainPc' = "broadcast"
  /\ UNCHANGED <<camVars, poolVars, ring, workers, capPc, renPc, running, privUp, camera, g_stop, drainIdx>>

StopFlag ==
  /\ mainPc = "stop"
  /\ running' = FALSE
  /\ mainPc' = "broadcast"
  /\ UNCHANGED <<camVars, poolVars, ring, workers, capPc, renPc, privUp, camera, g_stop, drainIdx>>

StopBroadcast ==
  /\ mainPc = "broadcast"
  /\ WakeRender
  /\ mainPc' = "joinCapture"
  /\ UNCHANGED <<camVars, poolVars, ring, workers, capPc, running, privUp, camera, g_stop, drainIdx>>

JoinCapture ==
  /\ mainPc = "joinCapture" /\ capPc \in {"off", "exit"}
  /\ mainPc' = "joinRender"
  /\ UNCHANGED <<camVars, poolVars, ring, workers, capPc, renPc, running, privUp, camera, g_stop, drainIdx>>

\* A mutant: the render thread is not waited for.
JoinRenderForgotten ==
  /\ mainPc = "joinRender"
  /\ mainPc' = "drain" /\ drainIdx' = 0
  /\ UNCHANGED <<camVars, poolVars, ring, workers, capPc, renPc, running, privUp, camera, g_stop>>

JoinRender ==
  /\ mainPc = "joinRender" /\ renPc \in {"off", "exit"}
  /\ mainPc' = "drain" /\ drainIdx' = 0
  /\ UNCHANGED <<camVars, poolVars, ring, workers, capPc, renPc, running, privUp, camera, g_stop>>

\* A mutant: only the q_count slots from the first on are drained.
DrainLimitCounted == q_count

\* Every slot of the array is drained, the ones queue_pop has left included.
DrainLimit == QueueDepth

DrainSlot ==
  /\ mainPc = "drain" /\ drainIdx < DrainLimit
  /\ IF queue[drainIdx] = Null
     THEN /\ drainIdx' = drainIdx + 1
          /\ UNCHANGED <<poolVars, queue, mainPc>>
     ELSE /\ ReleaseSub("main", queue[drainIdx])
          /\ queue' = [queue EXCEPT ![drainIdx] = Null]
          /\ mainPc' = "drainRelease"
          /\ UNCHANGED drainIdx
  /\ UNCHANGED <<camVars, q_head, q_tail, q_count, workers, capPc, renPc, running, privUp, camera, g_stop>>

DrainRelease ==
  /\ ReleaseStep("main")
  /\ UNCHANGED <<camVars, ring, stats, blocks, capture, render, control>>

DrainReleased ==
  /\ mainPc = "drainRelease"
  /\ ReleaseReturn("main")
  /\ mainPc' = "drain"
  /\ UNCHANGED <<camVars, ring, workers, capPc, renPc, running, privUp, camera, g_stop, drainIdx>>

\* close_v4l2, and priv is freed.
StopEnd ==
  /\ mainPc = "drain" /\ drainIdx >= DrainLimit
  /\ CamRelease /\ UNCHANGED camPc
  /\ privUp' = FALSE
  /\ mainPc' = IF g_stop THEN "shutdown" ELSE "run"
  /\ UNCHANGED <<poolVars, ring, workers, capPc, renPc, running, camera, g_stop, drainIdx>>

\* hub_mem_pool_shutdown, then hub_mem_pool_destroy.
MainShutdown ==
  /\ mainPc = "shutdown"
  /\ PoolShutdown
  /\ mainPc' = "gone"
  /\ UNCHANGED <<camVars, ring, workers, capPc, renPc, running, privUp, camera, g_stop, drainIdx>>

MainStop == \/ StartPriv \/ StartCamera \/ StartCapture \/ StartRender \/ StopFlag \/ StopBroadcast
            \/ JoinCapture \/ JoinRender \/ DrainSlot \/ DrainRelease
            \/ DrainReleased \/ StopEnd \/ MainShutdown

\* main has returned: the process is gone.
Exited == mainPc = "gone" /\ UNCHANGED vars

Next == Capture \/ Render \/ MainStop \/ StopRequest \/ Exited

\* The threads are scheduled; the signal that stops the hub may never come.
Fairness == WF_vars(Capture) /\ WF_vars(Render) /\ WF_vars(MainStop)

Spec == Init /\ [][Next]_vars /\ Fairness

-------------------------------------------------------------------------------

TypeOK ==
  /\ PoolTypeOK /\ CamTypeOK
  /\ queue \in [Slot -> Block \cup {Null}]
  /\ q_head \in Slot /\ q_tail \in Slot /\ q_count \in 0..QueueDepth
  /\ seq \in Nat /\ captured \in Nat /\ drop_pool \in Nat /\ drop_queue \in Nat
  /\ blkSeq \in [Block -> Nat] /\ blkPix \in [Block -> Nat]
  /\ capPc \in {"off", "loop", "acquire", "push", "drop", "release", "requeue", "exit"}
  /\ capDrop \in Block \cup {Null} /\ capBuf \in 0..BufCount
  /\ renPc \in {"off", "loop", "pop", "wait", "show", "frame", "shown", "release", "exit"}
  /\ renBlk \in Block \cup {Null} /\ frameSeq \in Nat
  /\ rendered \in Nat /\ shown \in Nat
  /\ running \in BOOLEAN /\ privUp \in BOOLEAN /\ camera \in BOOLEAN
  /\ g_stop \in BOOLEAN
  /\ mainPc \in {"start", "camera", "startRender", "run", "stop", "broadcast", "joinCapture",
                 "joinRender", "drain", "drainRelease", "shutdown", "gone"}
  /\ drainIdx \in 0..QueueDepth

\* The places a block can be in while somebody may still use it.
QueuedSlots == {(q_head + i) % QueueDepth : i \in 0..q_count-1}

Filling == IF acqPc["capture"] = "done" \/ capPc = "push"
           THEN {acqBlk["capture"]} \ {Null} ELSE {}
Dropping == IF capPc = "drop" THEN {capDrop} ELSE {}
Showing == IF renPc \in {"show", "frame", "shown"} THEN {renBlk} ELSE {}

Count(b, S) == IF b \in S THEN 1 ELSE 0

Holders(b) == Cardinality({s \in QueuedSlots : queue[s] = b})
              + Count(b, Filling) + Count(b, Dropping) + Count(b, Showing)

\* No block is in two hands: what the capture thread fills is neither queued
\* nor on the screen, nothing is queued twice.
BlockExclusive == \A b \in Block : Holders(b) <= 1

\* The count of a block is 1 exactly while it is in someone's hands, and 0 while
\* it is in nobody's: only hub_mem_pool_release's late reset of a count, which forgets
\* that the block has been taken meanwhile, can put a block into two hands.
CountIsHolders ==
  (raced = {} /\ mainPc \notin {"drain", "drainRelease", "shutdown", "gone"}) =>
    \A b \in Block : refs[b] = Holders(b)

\* The header copied to the frame describes the pixels on_frame is shown, which
\* the block keeps until it is given back; only a camera's frame that was short
\* or too large has the pixels of an older one.  The camera does not fill the
\* buffer a frame is still read from.
FrameIntact ==
  /\ (raced = {} /\ renPc = "frame") =>
       /\ blkSeq[renBlk] = frameSeq
       /\ blkPix[renBlk] = frameSeq \/ (camera /\ blkPix[renBlk] = Older)
  /\ (camera /\ capPc = "acquire") => capBuf \in mapped \ queued

\* Frames are shown in the order they were captured in, none twice.
ShownInOrder == [][raced' = {} /\ rendered' # rendered => shown' > shown]_vars

\* The pipeline is not used any more: it is being taken down, or never was
\* or no longer is there.
Stopped == \/ mainPc \in {"drain", "drainRelease", "shutdown", "gone"}
           \/ mainPc = "run" /\ ~privUp

\* The number of the i-th frame in the ring, from 0 on.
Nth(i) == (q_head + i) % QueueDepth
Number(i) == blkSeq[queue[Nth(i)]]

\* What the pipeline's user sees of it.  A frame comes to the line when it is
\* pushed, and is in hand from the pop to on_frame.
Phase == IF raced # {} THEN "spoilt" ELSE IF Stopped THEN "closed" ELSE "open"
Line == IF Phase = "open" THEN [i \in 1..q_count |-> Number(i - 1)] ELSE <<>>
Picked == IF Phase # "open" THEN 0
          ELSE IF renPc = "show" THEN blkSeq[renBlk]
          ELSE IF renPc = "frame" THEN frameSeq ELSE 0
Promised(n) == IF Phase = "spoilt" THEN 0 ELSE n
Made == Promised(IF capPc = "push" THEN seq - 1 ELSE seq)
LastShown == Promised(shown)
Lost == Promised(drop_queue + (IF capPc = "drop" THEN 1 ELSE 0))

Stream == INSTANCE FrameStream
            WITH Depth <- QueueDepth, phase <- Phase, line <- Line, picked <- Picked,
                 made <- Made, shown <- LastShown, lost <- Lost

\* The pipeline is a bounded line of frames that gives up its oldest one, counted,
\* when it is full, as long as memory_pool.c:138 has not reset the count of a
\* block in use: no frame is shown twice, out of turn, or lost uncounted.
StreamSpec == Stream!Spec

\* Every frame captured is shown, dropped and counted as dropped, or still
\* on its way.
FrameAccounting ==
  /\ seq = rendered + drop_queue + q_count
           + Cardinality(Dropping)
           + (IF capPc = "push" THEN 1 ELSE 0)
           + (IF renPc \in {"show", "frame"} THEN 1 ELSE 0)
  /\ captured = seq + (IF camera THEN drop_pool ELSE 0)
                    + (IF camera /\ capPc = "acquire" THEN 1 ELSE 0)

\* No wakeup is lost on q_cond: the render thread sleeps only while there is
\* nothing to show and nobody has asked it to stop.
RenderWakeup == renPc = "wait" => q_count = 0 /\ (running \/ mainPc \in {"stop", "broadcast"})

\* priv is freed, and the pool destroyed, only when no thread uses them.
FreedAfterUse ==
  mainPc \in {"drain", "drainRelease", "shutdown", "gone"} =>
    /\ capPc \in {"off", "exit"} /\ renPc \in {"off", "exit"}
    /\ \A t \in {"capture", "render"} : acqPc[t] = "idle" /\ relPc[t] = "idle"

\* After a stop every block is free again, the ones still queued included, and
\* so is the camera, however far open_v4l2 had come; a camera that failed to
\* open holds nothing either.
AllReturned ==
  /\ mainPc \in {"shutdown", "gone"} => (\A b \in Block : refs[b] = 0) /\ CamReleased
  /\ (camPc = "done" /\ ~streaming) => CamReleased

\* A stop always ends.
StopTerminates == g_stop ~> mainPc = "gone"

===============================================================================
