-------------------------- MODULE VideoPipelineProofs --------------------------
(***************************************************************************)
(* Theorems about VideoPipeline and the pool and the camera it is built    *)
(* from, for every number of blocks, slots of the queue, camera buffers    *)
(* and frames.                                                             *)
(***************************************************************************)
EXTENDS VideoPipeline, Sequences, FiniteSetTheorems, TLAPS

USE BlockCountAssumption, NobodyAssumption, BufCountAssumption, QueueDepthAssumption,
    MaxFramesAssumption, ThreadsAssumption

-------------------------------------------------------------------------------
(* The pool.                                                                *)

\* A release is on its way to the signal.
Signalling == \E u \in Threads : relPc[u] \in {"store", "signal"}

\* One scanner at a time, whose scan has met taken blocks only, or else will
\* be signalled; only the capture thread acquires.
PoolInv ==
  /\ ScanOwnsLock
  /\ \A t \in Threads : acqPc[t] # "idle" => t = "capture"
  /\ \A b \in Block : refs[b] <= 1
  /\ acqPc["capture"] = "scan" =>
       \A b \in Block : b < acqIdx["capture"] => refs[b] # 0 \/ Signalling
  /\ NoLostWakeup

PoolIInv == PoolTypeOK /\ PoolInv

LEMMA PoolInitInv == PoolInit => PoolIInv
  BY DEF PoolInit, PoolIInv, PoolTypeOK, PoolInv, ScanOwnsLock, NoLostWakeup, Block

LEMMA PoolUnchanged == PoolIInv /\ UNCHANGED poolVars => PoolIInv'
  BY DEF PoolIInv, PoolTypeOK, PoolInv, ScanOwnsLock, NoLostWakeup, Signalling, poolVars,
     acquiring, releasing

LEMMA AcquireCallInv == PoolIInv /\ AcquireCall("capture") => PoolIInv'
  BY DEF PoolIInv, PoolTypeOK, PoolInv, ScanOwnsLock, NoLostWakeup, Signalling, AcquireCall,
     releasing

LEMMA AcquireStepInv == PoolIInv /\ AcquireStep("capture") => PoolIInv'
  <1> SUFFICES ASSUME PoolIInv, AcquireStep("capture") PROVE PoolIInv'
    OBVIOUS
  <1> USE DEF PoolIInv, PoolTypeOK, PoolInv, ScanOwnsLock, NoLostWakeup, Signalling, releasing, Block
  <1>1. CASE AcquireLock("capture")
    BY <1>1 DEF AcquireLock
  <1>2. CASE AcquireSkip("capture")
    BY <1>2 DEF AcquireSkip, IsBlockFree
  <1>3. CASE AcquireTake("capture")
    BY <1>3 DEF AcquireTake
  <1>4. CASE AcquireWait("capture")
    BY <1>4 DEF AcquireWait
  <1>5. CASE AcquireTimeout("capture")
    BY <1>5 DEF AcquireTimeout
  <1> QED
    BY <1>1, <1>2, <1>3, <1>4, <1>5 DEF AcquireStep

LEMMA AcquireReturnInv == PoolIInv /\ AcquireReturn("capture") => PoolIInv'
  BY DEF PoolIInv, PoolTypeOK, PoolInv, ScanOwnsLock, NoLostWakeup, Signalling, AcquireReturn,
     releasing

LEMMA ReleaseSubInv ==
  ASSUME NEW t \in Threads, NEW b \in Block, PoolIInv, ReleaseSub(t, b)
  PROVE  PoolIInv'
  BY DEF PoolIInv, PoolTypeOK, PoolInv, ScanOwnsLock, NoLostWakeup, Signalling, ReleaseSub,
     acquiring

LEMMA ReleaseStepInv ==
  ASSUME NEW t \in Threads, PoolIInv, ReleaseStep(t)
  PROVE  PoolIInv'
  <1> USE DEF PoolIInv, PoolTypeOK, PoolInv, ScanOwnsLock, NoLostWakeup, Signalling, acquiring
  <1>1. CASE ReleaseStore(t)
    BY <1>1 DEF ReleaseStore
  <1>2. CASE ReleaseSignal(t)
    BY <1>2 DEF ReleaseSignal
  <1> QED
    BY <1>1, <1>2 DEF ReleaseStep

LEMMA ReleaseReturnInv ==
  ASSUME NEW t \in Threads, PoolIInv, ReleaseReturn(t)
  PROVE  PoolIInv'
  BY DEF PoolIInv, PoolTypeOK, PoolInv, ScanOwnsLock, NoLostWakeup, Signalling, ReleaseReturn,
     acquiring

LEMMA PoolShutdownInv == PoolIInv /\ PoolShutdown => PoolIInv'
  <1> SUFFICES ASSUME PoolIInv, PoolShutdown PROVE PoolIInv'
    OBVIOUS
  <1>1. acqPc["capture"] # "scan" /\ \A t \in Threads : acqPc[t] # "scan"
    BY DEF PoolIInv, PoolInv, ScanOwnsLock, PoolShutdown
  <1>2. \A t \in Threads : acqPc'[t] = IF acqPc[t] = "wait" THEN "lock" ELSE acqPc[t]
    BY DEF PoolShutdown
  <1>3. PoolTypeOK'
    BY DEF PoolIInv, PoolTypeOK, PoolShutdown, releasing
  <1>4. PoolInv'
    BY <1>1, <1>2 DEF PoolIInv, PoolTypeOK, PoolInv, ScanOwnsLock, NoLostWakeup, PoolShutdown
  <1> QED
    BY <1>3, <1>4 DEF PoolIInv

-------------------------------------------------------------------------------
(* The inductive invariant, in parts.                                       *)

\* Where each thread is while another one, or the pool, is where it is.
StageInv ==
  /\ acqPc["capture"] # "idle" <=> capPc = "acquire"
  /\ relPc["capture"] # "idle" <=> capPc = "release"
  /\ relPc["render"] # "idle" <=> renPc = "release"
  /\ relPc["main"] # "idle" <=> mainPc = "drainRelease"
  /\ mainPc = "start" => ~privUp
  /\ mainPc \in {"camera", "startRender"} => privUp
  /\ mainPc \in {"start", "camera"} => capPc = "off" /\ ~running /\ ~camera
  /\ mainPc \in {"start", "camera", "startRender"} => renPc = "off"
  /\ mainPc = "joinRender" => capPc \in {"off", "exit"}
  /\ Stopped => capPc \in {"off", "exit"} /\ renPc \in {"off", "exit"}
  /\ capPc = "requeue" => camera
  /\ RenderWakeup

\* open_v4l2 leaves a camera that streams, or nothing at all.
CamInv ==
  /\ camPc \in {"open", "format", "request"} => mapped = {} /\ ~streaming
  /\ camPc = "open" => ~fd
  /\ camPc \in {"format", "request", "map", "failed"} => fd /\ ~streaming
  /\ camPc = "done" => CamReleased \/ (fd /\ streaming)

\* What main has done with the camera; the buffer the capture thread reads
\* from is not the driver's.
CameraInv ==
  /\ mainPc = "start" => camPc = "open"
  /\ mainPc \notin {"start", "camera"} => camPc = "done" \/ CamReleased
  /\ mainPc \in {"shutdown", "gone"} \/ (mainPc = "run" /\ ~privUp) => CamReleased
  /\ (camera /\ capPc \in {"acquire", "push", "drop", "release", "requeue"}) =>
       capBuf \in mapped \ queued

\* The slots of the queue that hold a block that is to be given back.
LiveSlots == IF mainPc \in {"drain", "drainRelease"} THEN drainIdx..QueueDepth-1
             ELSE IF Stopped THEN {} ELSE QueuedSlots

\* The ring is consistent, and there is a block wherever one is held.
RingInv ==
  /\ q_tail = (q_head + q_count) % QueueDepth
  /\ ~Stopped => \A s \in QueuedSlots : queue[s] # Null
  /\ mainPc \in {"drain", "drainRelease"} => \A s \in Slot : s < drainIdx => queue[s] = Null
  /\ mainPc = "drainRelease" => drainIdx < QueueDepth /\ queue[drainIdx] = Null
  /\ (mainPc = "start" \/ (Stopped /\ mainPc \notin {"drain", "drainRelease"})) =>
       \A s \in Slot : queue[s] = Null
  /\ capPc = "push" => acqBlk["capture"] # Null
  /\ capPc = "drop" => capDrop # Null
  /\ renPc \in {"show", "frame", "shown"} => renBlk # Null

\* A block that is not free is in somebody's hands, raced or not.
Hands == Filling \cup Dropping \cup Showing
Storing(b) == \E t \in Threads : relPc[t] = "store" /\ relBlk[t] = b

HeldInv ==
  \A b \in Block : refs[b] # 0 =>
    (\E s \in LiveSlots : queue[s] = b) \/ b \in Hands \/ Storing(b)

\* No frame is counted before there is a capture thread.
AccountInv ==
  /\ FrameAccounting
  /\ mainPc \in {"start", "camera"} => seq = 0 /\ captured = 0 /\ drop_pool = 0

\* A block has the pixels its header says, or older ones of a camera.
PixelInv ==
  /\ \A b \in Block : blkPix[b] = blkSeq[b] \/ (camera /\ blkPix[b] = Older)
  /\ (raced = {} /\ renPc = "frame") => blkSeq[renBlk] = frameSeq

\* Frames are queued in the order of their numbers, which are larger than
\* that of any frame shown.
Latest == IF renPc = "show" THEN blkSeq[renBlk] ELSE IF renPc = "frame" THEN frameSeq ELSE shown

Ordered ==
  /\ shown <= Latest /\ Latest <= seq
  /\ renPc \in {"show", "frame"} => shown < Latest
  /\ \A i \in 0..q_count-1 : Latest < Number(i) /\ Number(i) <= seq
  /\ \A i, j \in 0..q_count-1 : i < j => Number(i) < Number(j)
  /\ capPc = "push" => /\ blkSeq[acqBlk["capture"]] = seq /\ Latest < seq
                       /\ \A i \in 0..q_count-1 : Number(i) < seq

OrderInv == (raced = {} /\ ~Stopped) => Ordered

IInv == /\ TypeOK /\ PoolInv /\ StageInv /\ CamInv /\ CameraInv /\ RingInv
        /\ HeldInv /\ CountIsHolders /\ AccountInv /\ PixelInv /\ OrderInv

-------------------------------------------------------------------------------
(* The pool, whose steps are all taken by threads that hold a block or want *)
(* one.                                                                     *)

LEMMA NextPool == IInv /\ [Next]_vars => PoolIInv'
  <1> SUFFICES ASSUME IInv, [Next]_vars PROVE PoolIInv'
    OBVIOUS
  <1>1. PoolIInv
    BY DEF IInv, TypeOK, PoolIInv
  <1> USE <1>1
  <1>2. CASE UNCHANGED poolVars
    BY <1>2, PoolUnchanged
  <1>3. CASE Capture
    <2>1. CASE (\E i \in queued : CaptureDequeue(i)) \/ CaptureSynthetic
      BY <2>1, <1>2, AcquireCallInv DEF CaptureDequeue, CaptureSynthetic
    <2>2. CASE CaptureEnqueue \/ CaptureExit \/ CapturePush
      BY <2>2, <1>2 DEF CaptureEnqueue, CaptureExit, CapturePush, QueuePush
    <2>3. CASE CaptureAcquire
      BY <2>3, AcquireStepInv DEF CaptureAcquire
    <2>4. CASE CaptureNoBlock \/ CaptureFill
      BY <2>4, AcquireReturnInv DEF CaptureNoBlock, CaptureFill
    <2>5. CASE CaptureDrop
      <3>1. capDrop \in Block
        BY <2>5 DEF CaptureDrop, IInv, TypeOK, RingInv
      <3> QED
        BY <2>5, <3>1, ReleaseSubInv DEF CaptureDrop
    <2>6. CASE CaptureRelease \/ CaptureReleased
      BY <2>6, ReleaseStepInv, ReleaseReturnInv DEF CaptureRelease, CaptureReleased
    <2> QED
      BY <1>3, <2>1, <2>2, <2>3, <2>4, <2>5, <2>6 DEF Capture
  <1>4. CASE Render
    <2>1. CASE RenderLoop \/ RenderPop \/ RenderTimeout \/ RenderHeader \/ RenderShow
      BY <2>1, <1>2 DEF RenderLoop, RenderPop, RenderTimeout, RenderHeader, RenderShow
    <2>2. CASE RenderRelease
      <3>1. renBlk \in Block
        BY <2>2 DEF RenderRelease, IInv, TypeOK, RingInv
      <3> QED
        BY <2>2, <3>1, ReleaseSubInv DEF RenderRelease
    <2>3. CASE RenderReleaseStep \/ RenderReleased
      BY <2>3, ReleaseStepInv, ReleaseReturnInv DEF RenderReleaseStep, RenderReleased
    <2> QED
      BY <1>4, <2>1, <2>2, <2>3 DEF Render
  <1>5. CASE MainStop \/ StopRequest
    <2>1. CASE StartPriv \/ StartCamera \/ StartCapture \/ StartRender \/ StopFlag
      BY <2>1, <1>2 DEF StartPriv, StartCamera, StartCapture, StartRender, StopFlag
    <2>2. CASE StopBroadcast \/ JoinCapture \/ JoinRender \/ StopEnd \/ StopRequest
      BY <2>2, <1>2 DEF StopBroadcast, JoinCapture, JoinRender, StopEnd, StopRequest
    <2>3. CASE DrainSlot
      <3>1. queue[drainIdx] \in Block \cup {Null}
        BY <2>3 DEF DrainSlot, DrainLimit, IInv, TypeOK, Slot
      <3> QED
        BY <2>3, <3>1, <1>2, ReleaseSubInv DEF DrainSlot
    <2>4. CASE DrainRelease \/ DrainReleased
      BY <2>4, ReleaseStepInv, ReleaseReturnInv DEF DrainRelease, DrainReleased
    <2>5. CASE MainShutdown
      BY <2>5, PoolShutdownInv DEF MainShutdown
    <2> QED
      BY <1>5, <2>1, <2>2, <2>3, <2>4, <2>5 DEF MainStop
  <1>6. CASE Exited \/ UNCHANGED vars
    BY <1>6, <1>2 DEF Exited, vars
  <1> QED
    BY <1>3, <1>4, <1>5, <1>6 DEF Next

-------------------------------------------------------------------------------
(* Types.                                                                   *)

\* TypeOK without what MemoryPool and V4l2Camera say of theirs: Zenon proves
\* the flags, SMT the rest.
Flags == running \in BOOLEAN /\ privUp \in BOOLEAN /\ camera \in BOOLEAN /\ g_stop \in BOOLEAN

RingType ==
  /\ queue \in [Slot -> Block \cup {Null}]
  /\ q_head \in Slot /\ q_tail \in Slot /\ q_count \in 0..QueueDepth

Numbers ==
  /\ seq \in Nat /\ captured \in Nat /\ drop_pool \in Nat /\ drop_queue \in Nat
  /\ blkSeq \in [Block -> Nat] /\ blkPix \in [Block -> Nat]
  /\ frameSeq \in Nat /\ rendered \in Nat /\ shown \in Nat

Places ==
  /\ capPc \in {"off", "loop", "acquire", "push", "drop", "release", "requeue", "exit"}
  /\ capDrop \in Block \cup {Null} /\ capBuf \in 0..BufCount
  /\ renPc \in {"off", "loop", "pop", "wait", "show", "frame", "shown", "release", "exit"}
  /\ renBlk \in Block \cup {Null}
  /\ mainPc \in {"start", "camera", "startRender", "run", "stop", "broadcast", "joinCapture",
                 "joinRender", "drain", "drainRelease", "shutdown", "gone"}
  /\ drainIdx \in 0..QueueDepth

LEMMA TypeParts ==
  TypeOK <=> PoolTypeOK /\ CamTypeOK /\ Flags /\ RingType /\ Numbers /\ Places
  BY DEF TypeOK, Flags, RingType, Numbers, Places

LEMMA FollowingSlot == ASSUME NEW s \in Slot PROVE Following(s) \in Slot
  BY DEF Following, Slot

\* What is dequeued, acquired and written is of its type.
LEMMA InHand ==
  ASSUME IInv
  PROVE  /\ capPc = "push" => acqBlk["capture"] \in Block
         /\ capPc = "drop" => capDrop \in Block
         /\ renPc \in {"show", "frame", "shown"} => renBlk \in Block
         /\ queue[q_head] \in Block \cup {Null}
         /\ acqBlk["capture"] \in Block \cup {Null}
  BY DEF IInv, TypeOK, PoolTypeOK, RingInv

LEMMA NextFlags == Flags /\ CamTypeOK /\ [Next]_vars => Flags'
  <1> SUFFICES ASSUME Flags, CamTypeOK, [Next]_vars PROVE Flags'
    OBVIOUS
  <1> USE DEF Flags, control
  <1>1. CASE Capture
    BY <1>1 DEF Capture, CaptureDequeue, CaptureEnqueue, CaptureSynthetic, CaptureExit,
       CaptureAcquire, CaptureNoBlock, CaptureFill, CapturePush, QueuePush, CaptureDrop,
       CaptureRelease, CaptureReleased
  <1>2. CASE Render
    BY <1>2 DEF Render, RenderLoop, RenderPop, RenderTimeout, RenderHeader, RenderShow,
       RenderRelease, RenderReleaseStep, RenderReleased
  <1>3. CASE StartPriv
    BY <1>3, Zenon DEF StartPriv
  <1>4. CASE StartCamera
    BY <1>4 DEF StartCamera
  <1>5. CASE StartCapture
    BY <1>5, Zenon DEF StartCapture, CamTypeOK
  <1>6. CASE StartRender
    BY <1>6, Zenon DEF StartRender
  <1>7. CASE StopRequest
    BY <1>7, Zenon DEF StopRequest
  <1>8. CASE StopFlag
    BY <1>8, Zenon DEF StopFlag
  <1>9. CASE StopBroadcast \/ JoinCapture \/ JoinRender \/ DrainSlot \/ DrainRelease
    BY <1>9 DEF StopBroadcast, JoinCapture, JoinRender, DrainSlot, DrainRelease
  <1>10. CASE StopEnd
    BY <1>10, Zenon DEF StopEnd
  <1>11. CASE DrainReleased \/ MainShutdown \/ Exited \/ UNCHANGED vars
    BY <1>11 DEF DrainReleased, MainShutdown, Exited, vars
  <1> QED
    BY <1>1, <1>2, <1>3, <1>4, <1>5, <1>6, <1>7, <1>8, <1>9, <1>10, <1>11 DEF Next, MainStop

LEMMA NextRing == IInv /\ [Next]_vars => RingType'
  <1> SUFFICES ASSUME IInv, [Next]_vars PROVE RingType'
    OBVIOUS
  <1>1. RingType
    BY TypeParts DEF IInv
  <1> USE <1>1 DEF RingType
  <1>2. CASE UNCHANGED ring
    BY <1>2 DEF ring
  <1>3. CASE Capture
    <2>1. CASE CapturePush
      <3>1. acqBlk["capture"] \in Block
        BY <2>1, InHand DEF CapturePush
      <3> QED
        BY <2>1, <3>1, FollowingSlot DEF CapturePush, QueuePush, QueueFull
    <2>2. CASE ~CapturePush
      BY <1>3, <2>2, <1>2 DEF Capture, CaptureDequeue, CaptureEnqueue, CaptureSynthetic, CaptureExit,
         CaptureAcquire, CaptureNoBlock, CaptureFill, CaptureDrop, CaptureRelease, CaptureReleased
    <2> QED
      BY <2>1, <2>2
  <1>4. CASE Render
    <2>1. CASE RenderPop \/ RenderTimeout
      BY <2>1, <1>2, FollowingSlot DEF RenderPop, RenderTimeout, PopOldest, PopNothing, ring
    <2>2. CASE ~(RenderPop \/ RenderTimeout)
      BY <1>4, <2>2, <1>2 DEF Render, RenderLoop, RenderHeader, RenderShow, RenderRelease,
         RenderReleaseStep, RenderReleased
    <2> QED
      BY <2>1, <2>2
  <1>5. CASE MainStop \/ StopRequest
    <2>1. CASE DrainSlot
      BY <2>1 DEF DrainSlot
    <2>2. CASE ~DrainSlot
      BY <1>5, <2>2, <1>2 DEF MainStop, StartPriv, StartCamera, StartCapture, StartRender, StopFlag,
         StopBroadcast, JoinCapture, JoinRender, DrainRelease, DrainReleased, StopEnd, MainShutdown,
         StopRequest
    <2> QED
      BY <2>1, <2>2
  <1>6. CASE Exited \/ UNCHANGED vars
    BY <1>6, <1>2 DEF Exited, vars
  <1> QED
    BY <1>3, <1>4, <1>5, <1>6 DEF Next

LEMMA NextNumbers == IInv /\ [Next]_vars => Numbers'
  <1> SUFFICES ASSUME IInv, [Next]_vars PROVE Numbers'
    OBVIOUS
  <1>1. Numbers
    BY TypeParts DEF IInv
  <1> USE <1>1 DEF Numbers
  <1>2. CASE UNCHANGED <<stats, blocks, seq, frameSeq, rendered, shown>>
    BY <1>2 DEF stats, blocks
  <1>3. CASE Capture
    <2>1. CASE CaptureFill
      <3>1. seq + 1 \in Nat /\ Older \in Nat
        BY DEF Older
      <3>2. PICK p \in Pixels(seq + 1) : blkPix' = [blkPix EXCEPT ![acqBlk["capture"]] = p]
        BY <2>1 DEF CaptureFill
      <3>3. p \in Nat
        BY <3>1, <3>2 DEF Pixels
      <3>4. blkSeq' \in [Block -> Nat] /\ blkPix' \in [Block -> Nat]
        BY <2>1, <3>1, <3>2, <3>3 DEF CaptureFill
      <3>5. seq' \in Nat /\ captured' \in Nat
        BY <2>1, <3>1 DEF CaptureFill
      <3> QED
        BY <2>1, <3>4, <3>5 DEF CaptureFill, render
    <2>2. CASE (\E i \in queued : CaptureDequeue(i)) \/ CaptureNoBlock \/ CaptureDrop
      BY <2>2 DEF CaptureDequeue, CaptureNoBlock, CaptureDrop, blocks, render
    <2>3. CASE CaptureEnqueue \/ CaptureSynthetic \/ CaptureExit \/ CaptureAcquire
      BY <2>3, <1>2 DEF CaptureEnqueue, CaptureSynthetic, CaptureExit, CaptureAcquire, render, capture
    <2>4. CASE CapturePush \/ CaptureRelease \/ CaptureReleased
      BY <2>4, <1>2 DEF CapturePush, QueuePush, CaptureRelease, CaptureReleased, render, capture
    <2> QED
      BY <1>3, <2>1, <2>2, <2>3, <2>4 DEF Capture
  <1>4. CASE Render
    <2>1. CASE RenderHeader
      BY <2>1, InHand DEF RenderHeader, stats, blocks, capture
    <2>2. CASE RenderShow
      BY <2>2 DEF RenderShow, stats, blocks, capture
    <2>3. CASE ~RenderHeader /\ ~RenderShow
      BY <1>4, <2>3, <1>2 DEF Render, RenderLoop, RenderPop, RenderTimeout, RenderRelease,
         RenderReleaseStep, RenderReleased, capture, render
    <2> QED
      BY <2>1, <2>2, <2>3
  <1>5. CASE MainStop \/ StopRequest
    BY <1>5, <1>2 DEF MainStop, StartPriv, StartCamera, StartCapture, StartRender, StopFlag,
       StopBroadcast, JoinCapture, JoinRender, DrainSlot, DrainRelease, DrainReleased, StopEnd,
       MainShutdown, StopRequest, workers, capture, render
  <1>6. CASE Exited \/ UNCHANGED vars
    BY <1>6, <1>2 DEF Exited, vars, capture, render
  <1> QED
    BY <1>3, <1>4, <1>5, <1>6 DEF Next

LEMMA NextPlaces == IInv /\ [Next]_vars => Places'
  <1> SUFFICES ASSUME IInv, [Next]_vars PROVE Places'
    OBVIOUS
  <1>1. Places /\ CamTypeOK
    BY TypeParts DEF IInv
  <1> USE <1>1 DEF Places
  <1>2. CASE UNCHANGED <<capPc, capDrop, capBuf, renPc, renBlk, mainPc, drainIdx>>
    BY <1>2
  <1>3. CASE Capture
    <2>1. ASSUME NEW i \in queued, CaptureDequeue(i) PROVE Places'
      <3>1. i \in 0..BufCount
        BY <2>1 DEF CamTypeOK
      <3> QED
        BY <2>1, <3>1 DEF CaptureDequeue, render, control
    <2>2. CASE CaptureEnqueue \/ CaptureSynthetic \/ CaptureExit \/ CaptureAcquire
      BY <2>2 DEF CaptureEnqueue, CaptureSynthetic, CaptureExit, CaptureAcquire, capture, render,
         control, NoBuf
    <2>3. CASE CaptureNoBlock \/ CaptureFill \/ CaptureDrop \/ CaptureRelease \/ CaptureReleased
      BY <2>3 DEF CaptureNoBlock, CaptureFill, CaptureDrop, CaptureRelease, CaptureReleased, Requeue,
         capture, render, control
    <2>4. CASE CapturePush
      BY <2>4, InHand DEF CapturePush, QueuePush, WakeRender, Requeue, control
    <2> QED
      BY <1>3, <2>1, <2>2, <2>3, <2>4 DEF Capture
  <1>4. CASE Render
    <2>1. CASE RenderPop \/ RenderTimeout
      BY <2>1, InHand DEF RenderPop, RenderTimeout, PopOldest, PopNothing, capture, control
    <2>2. CASE ~(RenderPop \/ RenderTimeout)
      BY <1>4, <2>2 DEF Render, RenderLoop, RenderHeader, RenderShow, RenderRelease,
         RenderReleaseStep, RenderReleased, capture, render, control
    <2> QED
      BY <2>1, <2>2
  <1>5. CASE MainStop \/ StopRequest
    <2>1. CASE StartPriv \/ StartCamera \/ StartCapture \/ StartRender \/ StopFlag \/ StopBroadcast
      BY <2>1 DEF StartPriv, StartCamera, StartCapture, StartRender, StopFlag, StopBroadcast,
         WakeRender, workers, control
    <2>2. CASE JoinCapture \/ JoinRender \/ DrainSlot \/ DrainRelease
      BY <2>2 DEF JoinCapture, JoinRender, DrainSlot, DrainLimit, DrainRelease, workers, capture,
         render, control
    <2>3. CASE DrainReleased \/ StopEnd \/ MainShutdown \/ StopRequest
      BY <2>3 DEF DrainReleased, StopEnd, MainShutdown, StopRequest, workers
    <2> QED
      BY <1>5, <2>1, <2>2, <2>3 DEF MainStop
  <1>6. CASE Exited \/ UNCHANGED vars
    BY <1>6, <1>2 DEF Exited, vars, capture, render, control
  <1> QED
    BY <1>3, <1>4, <1>5, <1>6 DEF Next

-------------------------------------------------------------------------------
(* The camera.                                                              *)

CamIInv == CamTypeOK /\ CamInv

LEMMA CamInitInv == CamInit => CamIInv
  <1> SUFFICES ASSUME CamInit PROVE CamIInv
    OBVIOUS
  <1>1. fd \in BOOLEAN /\ streaming \in BOOLEAN /\ fits \in BOOLEAN
    BY Zenon DEF CamInit
  <1> QED
    BY <1>1 DEF CamInit, CamIInv, CamTypeOK, CamInv

LEMMA CamUnchanged == CamIInv /\ UNCHANGED camVars => CamIInv'
  BY DEF CamIInv, CamTypeOK, CamInv, CamReleased, camVars

LEMMA MappedCount == CamTypeOK => Cardinality(mapped) \in Nat
  <1> SUFFICES ASSUME CamTypeOK PROVE Cardinality(mapped) \in Nat
    OBVIOUS
  <1>1. mapped \in SUBSET (0..buf_count-1) /\ buf_count-1 \in Int
    BY DEF CamTypeOK
  <1>2. IsFiniteSet(0..buf_count-1)
    BY <1>1, FS_Interval
  <1>3. IsFiniteSet(mapped)
    BY <1>1, <1>2, FS_Subset
  <1> QED
    BY <1>3, FS_CardinalityType

\* close_v4l2 leaves nothing, whether the camera was open or not.
LEMMA CamReleaseAll ==
  ASSUME CamTypeOK, CamRelease, fd \/ CamReleased
  PROVE  CamReleased'
  BY DEF CamTypeOK, CamRelease, CamReleased

LEMMA CamFlags ==
  ASSUME fd \in BOOLEAN /\ streaming \in BOOLEAN /\ fits \in BOOLEAN, CamOpenStep
  PROVE  fd' \in BOOLEAN /\ streaming' \in BOOLEAN /\ fits' \in BOOLEAN
  <1>1. CASE CamOpen
    BY <1>1, Zenon DEF CamOpen
  <1>2. CASE CamFormat
    BY <1>2, Zenon DEF CamFormat
  <1>3. CASE CamRequest
    BY <1>3, Zenon DEF CamRequest
  <1>4. CASE CamMap
    BY <1>4, Zenon DEF CamMap
  <1>5. CASE CamStream
    BY <1>5, Zenon DEF CamStream
  <1>6. CASE CamFailed
    BY <1>6, Zenon DEF CamFailed, CamRelease
  <1> QED
    BY <1>1, <1>2, <1>3, <1>4, <1>5, <1>6 DEF CamOpenStep

LEMMA CamOpenStepInv == CamIInv /\ CamOpenStep => CamIInv'
  <1> SUFFICES ASSUME CamIInv, CamOpenStep PROVE CamIInv'
    OBVIOUS
  <1>1. CamTypeOK /\ CamInv
    BY DEF CamIInv
  <1>2. fd' \in BOOLEAN /\ streaming' \in BOOLEAN /\ fits' \in BOOLEAN
    BY <1>1, CamFlags DEF CamTypeOK
  <1> USE <1>1, <1>2 DEF CamIInv, CamTypeOK, CamInv
  <1>3. CASE CamOpen
    BY <1>3 DEF CamOpen, CamReleased
  <1>4. CASE CamFormat
    BY <1>4 DEF CamFormat
  <1>5. CASE CamRequest
    BY <1>5 DEF CamRequest
  <1>6. CASE CamMap
    <2> DEFINE i == Cardinality(mapped)
    <2>1. i \in 0..buf_count-1 /\ UNCHANGED <<fd, buf_count, streaming>> /\ camPc = "map"
      BY <1>6, MappedCount DEF CamMap
    <2>2. camPc' \in {"map", "failed"} /\ queued' \subseteq mapped' /\ mapped' \subseteq mapped \cup {i}
      BY <1>6 DEF CamMap
    <2> QED
      BY <2>1, <2>2
  <1>7. CASE CamStream
    BY <1>7 DEF CamStream
  <1>8. CASE CamFailed
    BY <1>8, CamReleaseAll DEF CamFailed, CamRelease
  <1> QED
    BY <1>3, <1>4, <1>5, <1>6, <1>7, <1>8 DEF CamOpenStep

\* The buffers go between the driver and the capture thread.
LEMMA CamDequeueInv ==
  ASSUME NEW i \in queued, CamIInv, CamDequeue(i)
  PROVE  CamIInv' /\ i \in mapped' \ queued'
  BY DEF CamIInv, CamTypeOK, CamInv, CamReleased, CamDequeue

LEMMA CamEnqueueInv ==
  ASSUME CamIInv, capBuf \in mapped, CamEnqueue(capBuf)
  PROVE  CamIInv'
  BY DEF CamIInv, CamTypeOK, CamInv, CamReleased, CamEnqueue

LEMMA NextCamera == IInv /\ [Next]_vars => CamIInv' /\ CameraInv'
  <1> SUFFICES ASSUME IInv, [Next]_vars PROVE CamIInv' /\ CameraInv'
    OBVIOUS
  <1>1. CamIInv /\ CameraInv /\ StageInv /\ CamTypeOK
    BY TypeParts DEF IInv, CamIInv
  <1>2. CASE UNCHANGED camVars
    <2>1. CamIInv' /\ (CamReleased' <=> CamReleased)
      BY <1>1, <1>2, CamUnchanged DEF CamReleased, camVars
    <2>2. UNCHANGED <<camPc, mapped, queued, fd>>
      BY <1>2 DEF camVars
    <2> USE <1>1, <2>1, <2>2 DEF CameraInv
    <2>3. CASE Capture
      BY <2>3 DEF Capture, CaptureDequeue, CamDequeue, CaptureEnqueue, CaptureSynthetic, CaptureExit,
         CaptureAcquire, CaptureNoBlock, CaptureFill, CapturePush, QueuePush, CaptureDrop,
         CaptureRelease, CaptureReleased, Requeue, control, capture
    <2>4. CASE Render
      BY <2>4 DEF Render, RenderLoop, RenderPop, RenderTimeout, RenderHeader, RenderShow, RenderRelease,
         RenderReleaseStep, RenderReleased, control, capture
    <2>5. CASE StartPriv \/ StartCamera
      BY <2>5 DEF StartPriv, StartCamera, control, workers, StageInv, CamInv, CamIInv, CamTypeOK,
         CamReleased
    <2>9. CASE StartCapture \/ StartRender \/ StopFlag
      BY <2>9 DEF StartCapture, StartRender, StopFlag, workers, StageInv
    <2>6. CASE StopBroadcast \/ JoinCapture \/ JoinRender \/ DrainSlot \/ DrainRelease
      BY <2>6 DEF StopBroadcast, JoinCapture, JoinRender, DrainSlot, DrainRelease, workers, control,
         capture
    <2>7. CASE DrainReleased \/ StopEnd \/ MainShutdown \/ StopRequest
      BY <2>7, CamReleaseAll DEF DrainReleased, StopEnd, MainShutdown, StopRequest, workers, CamInv,
         CamIInv
    <2>8. CASE Exited \/ UNCHANGED vars
      BY <2>8 DEF Exited, vars, control, capture
    <2> QED
      BY <2>3, <2>4, <2>5, <2>6, <2>7, <2>8, <2>9 DEF Next, MainStop
  <1>3. ASSUME NEW i \in queued, CaptureDequeue(i) PROVE CamIInv' /\ CameraInv'
    <2>1. CamIInv' /\ i \in mapped' \ queued'
      BY <1>1, <1>3, CamDequeueInv DEF CaptureDequeue
    <2>2. streaming /\ camPc' = camPc
      BY <1>3 DEF CaptureDequeue, CamDequeue
    <2>3. mainPc \notin {"shutdown", "gone"} /\ ~(mainPc = "run" /\ ~privUp)
      BY <1>1, <2>2 DEF CameraInv, CamReleased
    <2> QED
      BY <1>1, <1>3, <2>1, <2>2, <2>3 DEF CaptureDequeue, CameraInv, CamReleased, control
  <1>4. CASE CaptureEnqueue
    <2>1. capBuf \in mapped /\ mapped # {}
      BY <1>1, <1>4 DEF CaptureEnqueue, CameraInv, StageInv
    <2>2. CamIInv' /\ camPc' = camPc
      BY <1>1, <1>4, <2>1, CamEnqueueInv DEF CaptureEnqueue, CamEnqueue
    <2>3. mainPc \notin {"shutdown", "gone"} /\ ~(mainPc = "run" /\ ~privUp)
      BY <1>1, <2>1 DEF CameraInv, CamReleased
    <2> QED
      BY <1>1, <1>4, <2>1, <2>2, <2>3 DEF CaptureEnqueue, CameraInv, CamReleased, control
  <1>5. CASE StartCamera
    BY <1>1, <1>5, CamOpenStepInv DEF StartCamera, CameraInv, StageInv, control
  <1>6. CASE StopEnd
    <2>1. fd \/ CamReleased
      BY <1>1, <1>6 DEF StopEnd, CameraInv, CamIInv, CamInv
    <2>2. CamReleased'
      BY <1>1, <1>6, <2>1, CamReleaseAll DEF StopEnd
    <2>3. fd' \in BOOLEAN /\ streaming' \in BOOLEAN /\ fits' \in BOOLEAN
      BY <1>1, <1>6, Zenon DEF StopEnd, CamRelease, CamTypeOK
    <2>6. CamInv'
      BY <1>1, <1>6, <2>2 DEF StopEnd, CamIInv, CamInv, CameraInv, CamReleased
    <2>4. CamIInv'
      BY <1>1, <1>6, <2>2, <2>3, <2>6 DEF StopEnd, CamIInv, CamTypeOK, CamRelease, CamReleased
    <2>5. capPc' \in {"off", "exit"}
      BY <1>1, <1>6 DEF StopEnd, StageInv, Stopped
    <2> QED
      BY <1>6, <2>2, <2>4, <2>5 DEF StopEnd, CameraInv
  <1> QED
    BY <1>2, <1>3, <1>4, <1>5, <1>6 DEF Next, Capture, CaptureSynthetic, CaptureExit, CaptureAcquire,
       CaptureNoBlock, CaptureFill, CapturePush, QueuePush, CaptureDrop, CaptureRelease, CaptureReleased,
       Render, RenderLoop, RenderPop, RenderTimeout, RenderHeader, RenderShow, RenderRelease,
       RenderReleaseStep, RenderReleased, MainStop, StartPriv, StartCapture, StartRender, StopFlag,
       StopBroadcast, JoinCapture, JoinRender, DrainSlot, DrainRelease, DrainReleased, MainShutdown,
       StopRequest, Exited, vars

-------------------------------------------------------------------------------
(* Where the threads are.                                                   *)

\* A step inside an acquire or a release goes on with it, and is nobody
\* else's beginning or end.
LEMMA AcquireStepPlace ==
  ASSUME PoolTypeOK, AcquireStep("capture")
  PROVE  /\ acqPc["capture"] \in {"lock", "scan", "wait"}
         /\ acqPc'["capture"] \in {"lock", "scan", "wait", "done"}
         /\ relPc' = relPc
  BY DEF PoolTypeOK, AcquireStep, AcquireLock, AcquireSkip, AcquireTake, AcquireWait,
     AcquireTimeout, releasing

LEMMA ReleaseStepPlace ==
  ASSUME PoolTypeOK, NEW t \in Threads, ReleaseStep(t)
  PROVE  /\ relPc[t] # "idle" /\ relPc'[t] # "idle"
         /\ \A u \in Threads : u # t => relPc'[u] = relPc[u]
         /\ \A u \in Threads : acqPc'[u] = "idle" <=> acqPc[u] = "idle"
         /\ \A u \in Threads : acqPc'[u] = "done" <=> acqPc[u] = "done"
  <1>1. CASE ReleaseStore(t)
    BY <1>1 DEF ReleaseStore, PoolTypeOK, acquiring
  <1>2. CASE ReleaseSignal(t)
    BY <1>2 DEF ReleaseSignal, PoolTypeOK
  <1> QED
    BY <1>1, <1>2 DEF ReleaseStep

LEMMA NextStage == IInv /\ [Next]_vars => StageInv'
  <1> SUFFICES ASSUME IInv, [Next]_vars PROVE StageInv'
    OBVIOUS
  <1>1. StageInv /\ PoolTypeOK /\ PoolInv /\ RingType
    BY TypeParts DEF IInv
  <1> USE <1>1 DEF StageInv, Stopped, RenderWakeup
  <1>2. CASE Capture
    <2>0. mainPc \notin {"start", "camera", "drain", "drainRelease", "shutdown", "gone"}
          /\ ~(mainPc = "run" /\ ~privUp)
      BY <1>2, AcquireStepPlace, ReleaseStepPlace DEF Capture, CaptureDequeue, CaptureEnqueue,
         CaptureSynthetic, CaptureExit, CaptureAcquire, CaptureNoBlock, CaptureFill, CapturePush,
         CaptureDrop, CaptureRelease, CaptureReleased
    <2> USE <2>0
    <2>1. CASE (\E i \in queued : CaptureDequeue(i)) \/ CaptureSynthetic
      BY <2>1 DEF CaptureDequeue, CaptureSynthetic, AcquireCall, PoolTypeOK, poolVars, releasing,
         acquiring, render, control, ring
    <2>2. CASE CaptureEnqueue \/ CaptureExit
      BY <2>2 DEF CaptureEnqueue, CaptureExit, poolVars, releasing, acquiring, render, control, ring
    <2>3. CASE CaptureAcquire
      BY <2>3, AcquireStepPlace DEF CaptureAcquire, capture, render, control, ring
    <2>4. CASE CaptureNoBlock \/ CaptureFill
      BY <2>4 DEF CaptureNoBlock, CaptureFill, AcquireReturn, PoolTypeOK, Requeue, releasing,
         render, control, ring
    <2>5. CASE CapturePush
      BY <2>5 DEF CapturePush, QueuePush, WakeRender, Requeue, poolVars, releasing, acquiring, control
    <2>6. CASE CaptureDrop
      BY <2>6 DEF CaptureDrop, ReleaseSub, PoolTypeOK, acquiring, render, control, ring
    <2>7. CASE CaptureRelease
      BY <2>7, ReleaseStepPlace DEF CaptureRelease, capture, render, control, ring
    <2>8. CASE CaptureReleased
      BY <2>8 DEF CaptureReleased, ReleaseReturn, PoolTypeOK, Requeue, acquiring, render, control, ring
    <2> QED
      BY <1>2, <2>1, <2>2, <2>3, <2>4, <2>5, <2>6, <2>7, <2>8 DEF Capture
  <1>3. CASE Render
    <2>0. renPc \notin {"off", "exit"}
      BY <1>3, ReleaseStepPlace DEF Render, RenderLoop, RenderPop, RenderTimeout, RenderHeader, RenderShow,
         RenderRelease, RenderReleaseStep, RenderReleased
    <2>1. CASE RenderLoop \/ RenderHeader \/ RenderShow
      BY <2>1 DEF RenderLoop, RenderHeader, RenderShow, poolVars, releasing, acquiring, capture, control,
         ring
    <2>2. CASE RenderPop \/ RenderTimeout
      BY <2>2 DEF RenderPop, RenderTimeout, PopOldest, PopNothing, poolVars, releasing, acquiring,
         capture, control, ring
    <2>3. CASE RenderRelease
      BY <2>3 DEF RenderRelease, ReleaseSub, PoolTypeOK, acquiring, capture, control, ring
    <2>4. CASE RenderReleaseStep
      BY <2>4, ReleaseStepPlace DEF RenderReleaseStep, capture, render, control, ring
    <2>5. CASE RenderReleased
      BY <2>5 DEF RenderReleased, ReleaseReturn, PoolTypeOK, acquiring, capture, control, ring
    <2> QED
      BY <1>3, <2>1, <2>2, <2>3, <2>4, <2>5 DEF Render
  <1>4. CASE MainStop \/ StopRequest
    <2>1. CASE StartPriv \/ StartCamera \/ StartCapture \/ StartRender
      BY <2>1 DEF StartPriv, StartCamera, StartCapture, StartRender, poolVars, releasing, acquiring,
         control, ring
    <2>2. CASE StopFlag \/ StopBroadcast \/ JoinCapture \/ JoinRender \/ StopRequest \/ StopEnd
      BY <2>2 DEF StopFlag, StopBroadcast, JoinCapture, JoinRender, StopRequest, StopEnd, WakeRender,
         poolVars, releasing, acquiring, ring
    <2>3. CASE DrainSlot
      <3>1. CASE queue[drainIdx] = Null
        BY <2>3, <3>1 DEF DrainSlot, poolVars, releasing, acquiring
      <3>2. CASE queue[drainIdx] # Null
        BY <2>3, <3>2 DEF DrainSlot, ReleaseSub, PoolTypeOK, acquiring
      <3> QED
        BY <3>1, <3>2
    <2>4. CASE DrainRelease
      BY <2>4, ReleaseStepPlace DEF DrainRelease, capture, render, control, ring
    <2>5. CASE DrainReleased
      BY <2>5 DEF DrainReleased, ReleaseReturn, PoolTypeOK, acquiring, ring
    <2>6. CASE MainShutdown
      BY <2>6 DEF MainShutdown, PoolShutdown, PoolTypeOK, releasing, ring
    <2> QED
      BY <1>4, <2>1, <2>2, <2>3, <2>4, <2>5, <2>6 DEF MainStop
  <1>5. CASE Exited \/ UNCHANGED vars
    BY <1>5 DEF Exited, vars, poolVars, releasing, acquiring, capture, render, control, ring
  <1> QED
    BY <1>2, <1>3, <1>4, <1>5 DEF Next

\* What the capture thread's steps keep.
LEMMA CaptureKeeps ==
  ASSUME IInv, Capture
  PROVE  /\ ~Stopped /\ mainPc \notin {"start", "camera"} /\ UNCHANGED control /\ UNCHANGED <<renBlk, frameSeq, rendered, shown>>
         /\ renPc' = renPc \/ (renPc = "wait" /\ renPc' = "pop")
  BY ReleaseStepPlace, AcquireStepPlace, TypeParts DEF IInv, StageInv, Stopped, Capture, CaptureDequeue,
     CaptureEnqueue, CaptureSynthetic, CaptureExit, CaptureAcquire, CaptureNoBlock, CaptureFill,
     CapturePush, QueuePush, WakeRender, CaptureDrop, CaptureRelease, CaptureReleased, control, render

\* And the render thread's.
LEMMA RenderKeeps ==
  ASSUME IInv, Render
  PROVE  /\ ~Stopped /\ mainPc \notin {"start", "camera"} /\ UNCHANGED control /\ UNCHANGED <<capture, acqBlk, blocks>>
         /\ \A u \in Threads : acqPc'[u] = "done" <=> acqPc[u] = "done"
  <1>1. ~Stopped /\ mainPc \notin {"start", "camera"} /\ UNCHANGED control /\ UNCHANGED <<capture, acqBlk, blocks>>
    BY ReleaseStepPlace, TypeParts DEF IInv, StageInv, Stopped, Render, RenderLoop, RenderPop, RenderTimeout,
       RenderHeader, RenderShow, RenderRelease, RenderReleaseStep, RenderReleased, ReleaseSub, ReleaseStep,
       ReleaseStore, ReleaseSignal, ReleaseReturn, poolVars, acquiring
  <1>2. CASE RenderReleaseStep
    BY <1>1, <1>2, ReleaseStepPlace, TypeParts DEF RenderReleaseStep, IInv
  <1>3. CASE ~RenderReleaseStep
    <2>1. acqPc' = acqPc
      BY <1>3 DEF Render, RenderLoop, RenderPop, RenderTimeout, RenderHeader, RenderShow, RenderRelease,
         RenderReleased, ReleaseSub, ReleaseReturn, poolVars, acquiring
    <2> QED
      BY <1>1, <2>1
  <1> QED
    BY <1>1, <1>2, <1>3

-------------------------------------------------------------------------------
(* The counters.                                                            *)

\* FrameAccounting without the cardinality of the set of at most one block.
Accounted ==
  /\ seq = rendered + drop_queue + q_count
           + (IF capPc = "drop" THEN 1 ELSE 0)
           + (IF capPc = "push" THEN 1 ELSE 0)
           + (IF renPc \in {"show", "frame"} THEN 1 ELSE 0)
  /\ captured = seq + (IF camera THEN drop_pool ELSE 0)
                    + (IF camera /\ capPc = "acquire" THEN 1 ELSE 0)

LEMMA AccountedIs == FrameAccounting <=> Accounted
  <1>1. Cardinality(Dropping) = IF capPc = "drop" THEN 1 ELSE 0
    BY FS_EmptySet, FS_Singleton DEF Dropping
  <1> QED
    BY <1>1 DEF FrameAccounting, Accounted

LEMMA AccountedIsNext == FrameAccounting' <=> Accounted'
  BY AccountedIs, PTL

LEMMA NextAccount == IInv /\ [Next]_vars => AccountInv'
  <1> SUFFICES ASSUME IInv, [Next]_vars PROVE AccountInv'
    OBVIOUS
  <1>1. Accounted /\ AccountInv /\ Numbers /\ RingType /\ StageInv /\ CamTypeOK
    BY TypeParts, AccountedIs DEF IInv, AccountInv
  <1>2. SUFFICES Accounted' /\ (mainPc' \in {"start", "camera"} => seq' = 0 /\ captured' = 0 /\ drop_pool' = 0)
    BY AccountedIsNext DEF AccountInv
  <1> USE <1>1 DEF Accounted, AccountInv, Numbers, RingType, StageInv
  <1>3. CASE Capture
    <2>0. mainPc \notin {"start", "camera"} /\ mainPc' = mainPc
      BY <1>3, CaptureKeeps DEF control
    <2> USE <2>0
    <2>1. CASE \E i \in queued : CaptureDequeue(i)
      BY <2>1 DEF CaptureDequeue, render, control, ring
    <2>2. CASE CaptureEnqueue \/ CaptureSynthetic \/ CaptureExit
      BY <2>2 DEF CaptureEnqueue, CaptureSynthetic, CaptureExit, stats, render, control, ring
    <2>3. CASE CaptureAcquire \/ CaptureRelease
      BY <2>3 DEF CaptureAcquire, CaptureRelease, capture, stats, render, control, ring
    <2>4. CASE CaptureNoBlock \/ CaptureFill
      BY <2>4 DEF CaptureNoBlock, CaptureFill, Requeue, render, control, ring
    <2>5. CASE CapturePush
      BY <2>5 DEF CapturePush, QueuePush, QueueFull, WakeRender, Requeue, stats, control
    <2>6. CASE CaptureDrop \/ CaptureReleased
      BY <2>6 DEF CaptureDrop, CaptureReleased, Requeue, stats, render, control, ring
    <2> QED
      BY <1>3, <2>1, <2>2, <2>3, <2>4, <2>5, <2>6 DEF Capture
  <1>4. CASE Render
    <2>1. CASE RenderLoop \/ RenderHeader \/ RenderShow
      BY <2>1 DEF RenderLoop, RenderHeader, RenderShow, capture, control, ring, stats
    <2>2. CASE RenderPop \/ RenderTimeout
      BY <2>2 DEF RenderPop, RenderTimeout, PopOldest, PopNothing, capture, control, ring, stats
    <2>3. CASE RenderRelease \/ RenderReleaseStep \/ RenderReleased
      BY <2>3 DEF RenderRelease, RenderReleaseStep, RenderReleased, capture, control, ring, stats, render
    <2> QED
      BY <1>4, <2>1, <2>2, <2>3 DEF Render
  <1>5. CASE MainStop \/ StopRequest
    <2>1. CASE StartPriv \/ StartCamera \/ StartCapture \/ StartRender
      BY <2>1 DEF StartPriv, StartCamera, StartCapture, StartRender, workers, stats, control, ring
    <2>2. CASE StopFlag \/ StopBroadcast \/ JoinCapture \/ JoinRender \/ StopRequest \/ StopEnd
      BY <2>2 DEF StopFlag, StopBroadcast, JoinCapture, JoinRender, StopRequest, StopEnd, WakeRender,
         workers, stats, ring
    <2>3. CASE DrainSlot \/ DrainRelease \/ DrainReleased \/ MainShutdown
      BY <2>3 DEF DrainSlot, DrainRelease, DrainReleased, MainShutdown, workers, stats, capture, render,
         control, ring
    <2> QED
      BY <1>5, <2>1, <2>2, <2>3 DEF MainStop
  <1>6. CASE Exited \/ UNCHANGED vars
    BY <1>6 DEF Exited, vars, capture, render, control, ring, stats
  <1> QED
    BY <1>3, <1>4, <1>5, <1>6 DEF Next

-------------------------------------------------------------------------------
(* The slots of the ring.                                                   *)

Window(h, n) == {(h + i) % QueueDepth : i \in 0..n-1}

LEMMA ModOnce ==
  ASSUME NEW a \in Nat, a < 2 * QueueDepth
  PROVE  a % QueueDepth = (IF a < QueueDepth THEN a ELSE a - QueueDepth)
  BY DEF Slot

LEMMA Place == ASSUME NEW h \in Slot, NEW i \in 0..QueueDepth
               PROVE  (h + i) % QueueDepth = (IF h + i < QueueDepth THEN h + i ELSE h + i - QueueDepth)
                      /\ (h + i) % QueueDepth \in Slot
  BY ModOnce DEF Slot

\* Places of a ring differ unless they are one turn apart.
LEMMA PlacesDiffer ==
  ASSUME NEW h \in Slot, NEW i \in 0..QueueDepth, NEW j \in 0..QueueDepth,
         i < j, j < QueueDepth \/ 0 < i
  PROVE  (h + i) % QueueDepth # (h + j) % QueueDepth
  BY Place DEF Slot

LEMMA PlaceFollowing ==
  ASSUME NEW h \in Slot, NEW i \in 0..QueueDepth-1
  PROVE  (Following(h) + i) % QueueDepth = (h + (i + 1)) % QueueDepth
  <1>1. Following(h) = (IF h + 1 < QueueDepth THEN h + 1 ELSE h + 1 - QueueDepth)
    BY Place DEF Following
  <1>2. Following(h) \in Slot
    BY FollowingSlot
  <1> QED
    BY <1>1, <1>2, Place DEF Slot

LEMMA WindowSlots == ASSUME NEW h \in Slot, NEW n \in 0..QueueDepth
                     PROVE  Window(h, n) \subseteq Slot /\ IsFiniteSet(Window(h, n))
  <1>1. Window(h, n) \subseteq Slot
    BY Place DEF Window
  <1>2. IsFiniteSet(Slot)
    BY FS_Interval DEF Slot
  <1>3. Window(h, n) \in SUBSET Slot
    BY <1>1
  <1> QED
    BY <1>1, <1>2, <1>3, FS_Subset

\* A pop takes the first place out.
LEMMA WindowPop ==
  ASSUME NEW h \in Slot, NEW n \in 1..QueueDepth
  PROVE  h \in Window(h, n) /\ Window(Following(h), n - 1) = Window(h, n) \ {h}
  <1>1. h = (h + 0) % QueueDepth /\ 0 \in 0..n-1
    BY Place DEF Slot
  <1>2. \A i \in 0..n-2 : (Following(h) + i) % QueueDepth = (h + (i + 1)) % QueueDepth
                          /\ (h + (i + 1)) % QueueDepth # h
    BY <1>1, PlaceFollowing, PlacesDiffer
  <1>3. Window(Following(h), n - 1) \subseteq Window(h, n) \ {h}
    BY <1>2 DEF Window
  <1>4. ASSUME NEW s \in Window(h, n), s # h PROVE s \in Window(Following(h), n - 1)
    <2>1. PICK i \in 0..n-1 : s = (h + i) % QueueDepth
      BY DEF Window
    <2>2. i # 0 /\ i - 1 \in 0..n-2 /\ s = (h + ((i - 1) + 1)) % QueueDepth
      BY <1>1, <1>4, <2>1
    <2> QED
      BY <1>2, <2>2 DEF Window
  <1> QED
    BY <1>1, <1>3, <1>4 DEF Window

\* A push into a ring with room adds the place after the last one.
LEMMA WindowPush ==
  ASSUME NEW h \in Slot, NEW n \in 0..QueueDepth-1
  PROVE  /\ (h + n) % QueueDepth \notin Window(h, n)
         /\ Window(h, n + 1) = Window(h, n) \cup {(h + n) % QueueDepth}
         /\ Following((h + n) % QueueDepth) = (h + (n + 1)) % QueueDepth
  <1>1. (h + n) % QueueDepth \notin Window(h, n)
    BY PlacesDiffer DEF Window
  <1>2. 0..(n + 1)-1 = (0..n-1) \cup {n}
    OBVIOUS
  <1>3. Window(h, n + 1) = Window(h, n) \cup {(h + n) % QueueDepth}
    BY <1>2 DEF Window
  <1>4. Following((h + n) % QueueDepth) = (h + (n + 1)) % QueueDepth
    BY Place DEF Following, Slot
  <1> QED
    BY <1>1, <1>3, <1>4

\* A full ring has all slots, wherever it begins.
LEMMA WindowFull ==
  ASSUME NEW h \in Slot
  PROVE  Window(h, QueueDepth) = Slot /\ (h + QueueDepth) % QueueDepth = h
  <1>1. (h + QueueDepth) % QueueDepth = h
    BY Place DEF Slot
  <1>2. ASSUME NEW s \in Slot PROVE s \in Window(h, QueueDepth)
    <2> DEFINE i == IF h <= s THEN s - h ELSE s + QueueDepth - h
    <2>1. i \in 0..QueueDepth-1 /\ s = (h + i) % QueueDepth
      BY Place DEF Slot
    <2> QED
      BY <2>1 DEF Window
  <1>3. Window(h, QueueDepth) \subseteq Slot
    BY WindowSlots
  <1> QED
    BY <1>1, <1>2, <1>3

LEMMA QueuedWindow == QueuedSlots = Window(q_head, q_count)
  BY DEF QueuedSlots, Window

LEMMA QueuedWindowNext == QueuedSlots' = Window(q_head', q_count')
  BY DEF QueuedSlots, Window

\* What a push and a pop do to the slots in use.
LEMMA PushEffect ==
  ASSUME IInv, CapturePush
  PROVE  /\ acqBlk["capture"] \in Block /\ q_tail \in Slot /\ ~Stopped
         /\ queue' = [queue EXCEPT ![q_tail] = acqBlk["capture"]]
         /\ QueuedSlots' = QueuedSlots \cup {q_tail}
         /\ q_tail' = (q_head' + q_count') % QueueDepth
         /\ ~QueueFull => q_tail \notin QueuedSlots /\ capPc' # "drop"
         /\ QueueFull => /\ q_count = QueueDepth /\ q_tail = q_head /\ q_head \in QueuedSlots
                         /\ capPc' = "drop" /\ capDrop' = queue[q_head]
  <1>1. /\ queue \in [Slot -> Block \cup {Null}] /\ q_head \in Slot /\ q_tail \in Slot
        /\ q_count \in 0..QueueDepth /\ q_tail = (q_head + q_count) % QueueDepth
    BY TypeParts DEF IInv, RingType, RingInv
  <1>2. acqBlk["capture"] \in Block /\ ~Stopped
    BY InHand DEF CapturePush, IInv, StageInv
  <1>3. CASE QueueFull
    <2>1. q_count = QueueDepth /\ q_count' = q_count /\ q_head' = Following(q_head)
      BY <1>1, <1>3 DEF QueueFull, CapturePush, QueuePush
    <2>2. q_tail = q_head /\ Following(q_head) \in Slot
      BY <1>1, <2>1, WindowFull, FollowingSlot
    <2>3. QueuedSlots = Slot /\ QueuedSlots' = Slot
      BY <1>1, <2>1, <2>2, WindowFull, QueuedWindow, QueuedWindowNext
    <2>4. q_tail' = Following(q_head) /\ (q_head' + q_count') % QueueDepth = Following(q_head)
      BY <2>1, <2>2, WindowFull DEF CapturePush, QueuePush
    <2> QED
      BY <1>1, <1>2, <1>3, <2>1, <2>2, <2>3, <2>4 DEF CapturePush, QueuePush
  <1>4. CASE ~QueueFull
    <2>1. q_count \in 0..QueueDepth-1 /\ q_count' = q_count + 1 /\ q_head' = q_head
      BY <1>1, <1>4 DEF QueueFull, CapturePush, QueuePush
    <2>2. q_tail \notin QueuedSlots /\ QueuedSlots' = QueuedSlots \cup {q_tail}
      BY <1>1, <2>1, WindowPush, QueuedWindow, QueuedWindowNext
    <2>3. q_tail' = (q_head' + q_count') % QueueDepth
      BY <1>1, <2>1, WindowPush DEF CapturePush, QueuePush
    <2>4. capPc' # "drop" /\ queue' = [queue EXCEPT ![q_tail] = acqBlk["capture"]]
      BY <1>4 DEF CapturePush, QueuePush, Requeue
    <2> QED
      BY <1>1, <1>2, <1>4, <2>2, <2>3, <2>4
  <1> QED
    BY <1>3, <1>4

LEMMA PopEffect ==
  ASSUME IInv, PopOldest
  PROVE  /\ q_head \in QueuedSlots /\ QueuedSlots' = QueuedSlots \ {q_head}
         /\ q_tail' = (q_head' + q_count') % QueueDepth
  <1>1. /\ q_head \in Slot /\ q_tail = (q_head + q_count) % QueueDepth /\ q_count \in 1..QueueDepth
        /\ q_head' = Following(q_head) /\ q_count' = q_count - 1 /\ q_tail' = q_tail
    BY TypeParts DEF IInv, RingType, RingInv, PopOldest
  <1>2. q_head \in QueuedSlots /\ QueuedSlots' = QueuedSlots \ {q_head}
    BY <1>1, WindowPop, QueuedWindow, QueuedWindowNext
  <1>3. (Following(q_head) + (q_count - 1)) % QueueDepth = (q_head + q_count) % QueueDepth
    BY <1>1, PlaceFollowing
  <1> QED
    BY <1>1, <1>2, <1>3

\* A thread pops while the pipeline is in use, and finds a block.
LEMMA Popping ==
  ASSUME IInv, RenderPop \/ RenderTimeout, PopOldest
  PROVE  ~Stopped /\ queue[q_head] \in Block
  <1>1. ~Stopped
    BY DEF IInv, StageInv, RenderPop, RenderTimeout
  <1>2. q_head \in QueuedSlots /\ q_head \in Slot
    BY PopEffect, TypeParts DEF IInv, RingType
  <1> QED
    BY <1>1, <1>2, InHand DEF IInv, RingInv

LEMMA RingUnchanged == UNCHANGED ring => QueuedSlots' = QueuedSlots
  BY QueuedWindow, QueuedWindowNext DEF ring

LEMMA NextRingInv == IInv /\ [Next]_vars => RingInv'
  <1> SUFFICES ASSUME IInv, [Next]_vars PROVE RingInv'
    OBVIOUS
  <1>1. RingInv /\ StageInv /\ PoolTypeOK /\ RingType /\ Places
    BY TypeParts DEF IInv
  <1> USE <1>1 DEF RingInv
  <1>2. CASE Capture
    <2>0. ~Stopped /\ mainPc # "start" /\ mainPc' = mainPc /\ privUp' = privUp
      BY <1>2, CaptureKeeps DEF control
    <2> USE <2>0 DEF Stopped
    <2>1. CASE (\E i \in queued : CaptureDequeue(i)) \/ CaptureSynthetic
      BY <2>1, RingUnchanged DEF CaptureDequeue, CaptureSynthetic, AcquireCall, ring, render
    <2>2. CASE CaptureEnqueue \/ CaptureExit \/ CaptureReleased
      BY <2>2, RingUnchanged DEF CaptureEnqueue, CaptureExit, CaptureReleased, Requeue, ring, render
    <2>3. CASE CaptureAcquire
      <3>1. capPc = "acquire"
        BY <2>3, AcquireStepPlace DEF CaptureAcquire, StageInv
      <3> QED
        BY <2>3, <3>1, RingUnchanged DEF CaptureAcquire, ring, capture, render
    <2>4. CASE CaptureNoBlock \/ CaptureFill
      BY <2>4, RingUnchanged DEF CaptureNoBlock, CaptureFill, AcquireReturn, Requeue, ring, render
    <2>5. CASE CapturePush
      <3>1. \A s \in QueuedSlots : s \in Slot /\ queue[s] # Null
        BY QueuedWindow, WindowSlots DEF RingType
      <3>2. ASSUME NEW s \in QueuedSlots' PROVE queue'[s] # Null
        <4>1. s = q_tail \/ s \in QueuedSlots
          BY <2>5, PushEffect
        <4>2. acqBlk["capture"] # Null /\ queue' = [queue EXCEPT ![q_tail] = acqBlk["capture"]]
          BY <2>5, PushEffect DEF Null, Block
        <4> QED
          BY <3>1, <4>1, <4>2 DEF RingType
      <3>3. capPc' = "drop" => capDrop' # Null
        BY <2>5, <3>1, PushEffect
      <3>4. capPc' # "push" /\ (renPc' \in {"show", "frame", "shown"} => renPc' = renPc) /\ renBlk' = renBlk
        BY <2>5 DEF CapturePush, QueuePush, Requeue, WakeRender
      <3> QED
        BY <2>5, <3>2, <3>3, <3>4, PushEffect
    <2>6. CASE CaptureDrop \/ CaptureRelease
      BY <2>6, RingUnchanged DEF CaptureDrop, CaptureRelease, ReleaseSub, ReleaseStep, ReleaseStore,
         ReleaseSignal, acquiring, ring, capture, render
    <2> QED
      BY <1>2, <2>1, <2>2, <2>3, <2>4, <2>5, <2>6 DEF Capture
  <1>3. CASE Render
    <2>0. ~Stopped /\ mainPc # "start" /\ UNCHANGED <<mainPc, privUp, capPc, capDrop, acqBlk>>
      BY <1>3, RenderKeeps DEF control, capture
    <2> USE <2>0 DEF Stopped
    <2>1. CASE (RenderPop \/ RenderTimeout) /\ PopOldest
      <3>1. UNCHANGED queue /\ renBlk' = queue[q_head] /\ queue[q_head] # Null
        BY <2>1, Popping DEF PopOldest, Null, Block
      <3> QED
        BY <3>1, <2>1, PopEffect
    <2>2. CASE (RenderPop \/ RenderTimeout) /\ ~PopOldest
      BY <2>2, RingUnchanged DEF RenderPop, RenderTimeout, PopNothing, ring
    <2>3. CASE ~(RenderPop \/ RenderTimeout)
      BY <1>3, <2>3, RingUnchanged DEF Render, RenderLoop, RenderHeader, RenderShow, RenderRelease,
         RenderReleaseStep, RenderReleased, ring, render
    <2> QED
      BY <2>1, <2>2, <2>3
  <1>4. CASE MainStop \/ StopRequest
    <2>1. CASE StartPriv \/ StartCamera \/ StartCapture \/ StartRender
      BY <2>1, RingUnchanged DEF StartPriv, StartCamera, StartCapture, StartRender, poolVars, acquiring,
         control, ring, workers, Stopped, StageInv
    <2>2. CASE StopFlag \/ StopBroadcast \/ JoinCapture \/ JoinRender \/ StopRequest
      BY <2>2, RingUnchanged DEF StopFlag, StopBroadcast, JoinCapture, JoinRender, StopRequest, WakeRender,
         poolVars, acquiring, ring, workers, Stopped, Slot
    <2>3. CASE DrainSlot
      <3>1. /\ capPc \in {"off", "exit"} /\ renPc \in {"off", "exit"} /\ drainIdx \in Slot
            /\ UNCHANGED <<q_head, q_tail, q_count, capPc, renPc, capDrop, renBlk, privUp>>
        BY <2>3 DEF DrainSlot, DrainLimit, Places, StageInv, Stopped, Slot, workers
      <3>2. CASE queue[drainIdx] = Null
        BY <2>3, <3>1, <3>2 DEF DrainSlot, Stopped, Slot
      <3>3. CASE queue[drainIdx] # Null
        BY <2>3, <3>1, <3>3 DEF DrainSlot, Stopped, Slot, RingType
      <3> QED
        BY <3>2, <3>3
    <2>4. CASE DrainRelease
      <3>1. mainPc = "drainRelease" /\ UNCHANGED <<ring, capture, render, control, acqBlk>>
        BY <2>4, ReleaseStepPlace DEF DrainRelease, StageInv, ReleaseStep, ReleaseStore, ReleaseSignal,
           acquiring
      <3> QED
        BY <3>1 DEF ring, capture, render, control, Stopped, StageInv
    <2>5. CASE DrainReleased
      BY <2>5 DEF DrainReleased, ReleaseReturn, acquiring, ring, workers, Stopped, StageInv
    <2>6. CASE StopEnd
      <3>1. \A s \in Slot : queue'[s] = Null
        BY <2>6 DEF StopEnd, DrainLimit, Slot, Places, ring
      <3>2. capPc' \in {"off", "exit"} /\ renPc' \in {"off", "exit"} /\ mainPc' \in {"shutdown", "run"}
        BY <2>6 DEF StopEnd, Stopped, StageInv
      <3>3. ~privUp' /\ UNCHANGED ring
        BY <2>6 DEF StopEnd
      <3> QED
        BY <3>1, <3>2, <3>3 DEF ring, Stopped
    <2>7. CASE MainShutdown
      BY <2>7 DEF MainShutdown, PoolShutdown, ring, workers, Stopped, StageInv
    <2> QED
      BY <1>4, <2>1, <2>2, <2>3, <2>4, <2>5, <2>6, <2>7 DEF MainStop
  <1>5. CASE Exited \/ UNCHANGED vars
    BY <1>5, RingUnchanged DEF Exited, vars, poolVars, acquiring, capture, render, control, ring, Stopped
  <1> QED
    BY <1>2, <1>3, <1>4, <1>5 DEF Next

-------------------------------------------------------------------------------
(* Whose hands a block is in.                                               *)

\* Nothing that held a block has let go of it.
LEMMA HeldStill ==
  ASSUME HeldInv, UNCHANGED <<refs, queue>>, LiveSlots \subseteq LiveSlots', Hands \subseteq Hands',
         \A b \in Block : Storing(b) => Storing(b)'
  PROVE  HeldInv'
  BY DEF HeldInv

\* A release that has just begun is followed to its store.
LEMMA HeldReleased ==
  ASSUME HeldInv, PoolIInv, NEW t \in Threads, NEW b \in Block, ReleaseSub(t, b),
         \A s \in LiveSlots : queue[s] # b => s \in LiveSlots' /\ queue'[s] = queue[s],
         Hands \subseteq Hands' \cup {b}
  PROVE  HeldInv'
  <1>1. relPc[t] = "idle" /\ relPc' = [relPc EXCEPT ![t] = "store"] /\ relBlk' = [relBlk EXCEPT ![t] = b]
        /\ \A c \in Block : c # b => refs'[c] = refs[c]
    BY DEF ReleaseSub, PoolIInv, PoolInv, PoolTypeOK
  <1>2. Storing(b)' /\ \A c \in Block : Storing(c) => Storing(c)'
    BY <1>1 DEF Storing, PoolIInv, PoolTypeOK
  <1> QED
    BY <1>1, <1>2 DEF HeldInv

\* The other steps of a release.
LEMMA HeldReleaseStep ==
  ASSUME HeldInv, PoolIInv, NEW t \in Threads, ReleaseStep(t),
         UNCHANGED queue, LiveSlots \subseteq LiveSlots', Hands \subseteq Hands'
  PROVE  HeldInv'
  <1>1. CASE ReleaseStore(t)
    <2>1. relBlk[t] \in Block /\ refs' = [refs EXCEPT ![relBlk[t]] = 0]
      BY <1>1 DEF ReleaseStore, PoolIInv, PoolTypeOK
    <2>2. \A c \in Block : c # relBlk[t] /\ Storing(c) => Storing(c)'
      BY <1>1 DEF ReleaseStore, Storing, PoolIInv, PoolTypeOK
    <2> QED
      BY <2>1, <2>2 DEF HeldInv, PoolIInv, PoolTypeOK
  <1>2. CASE ReleaseSignal(t)
    <2>1. \A c \in Block : Storing(c) => Storing(c)'
      BY <1>2 DEF ReleaseSignal, Storing, PoolIInv, PoolTypeOK
    <2> QED
      BY <1>2, <2>1, HeldStill DEF ReleaseSignal
  <1> QED
    BY <1>1, <1>2 DEF ReleaseStep

LEMMA HeldReturn ==
  ASSUME HeldInv, PoolIInv, NEW t \in Threads, ReleaseReturn(t),
         UNCHANGED queue, LiveSlots \subseteq LiveSlots', Hands \subseteq Hands'
  PROVE  HeldInv'
  <1>1. \A c \in Block : Storing(c) => Storing(c)'
    BY DEF ReleaseReturn, Storing, PoolIInv, PoolTypeOK
  <1> QED
    BY <1>1, HeldStill DEF ReleaseReturn

LEMMA LiveUnchanged ==
  UNCHANGED <<ring, mainPc, privUp, drainIdx>> => LiveSlots' = LiveSlots
  BY RingUnchanged DEF LiveSlots, Stopped

LEMMA NextHeld == IInv /\ [Next]_vars => HeldInv'
  <1> SUFFICES ASSUME IInv, [Next]_vars PROVE HeldInv'
    OBVIOUS
  <1>1. HeldInv /\ PoolIInv /\ StageInv /\ RingInv /\ PoolTypeOK /\ RingType /\ Places
    BY TypeParts DEF IInv, PoolIInv
  <1> USE <1>1
  <1>2. CASE Capture
    <2>0. ~Stopped /\ UNCHANGED <<mainPc, privUp, drainIdx>> /\ Showing' = Showing
      BY <1>2, CaptureKeeps DEF control, Showing
    <2>1. ASSUME UNCHANGED ring PROVE LiveSlots' = LiveSlots /\ UNCHANGED queue
      BY <2>0, <2>1, LiveUnchanged DEF ring
    <2>2. CASE \/ \E i \in queued : CaptureDequeue(i)
               \/ CaptureSynthetic \/ CaptureEnqueue \/ CaptureExit
      <3>1. UNCHANGED <<ring, refs, releasing>> /\ Filling = {} /\ Dropping = {}
        BY <2>2 DEF CaptureDequeue, CaptureSynthetic, CaptureEnqueue, CaptureExit, AcquireCall, poolVars,
           StageInv, Filling, Dropping
      <3>2. \A b \in Block : Storing(b) => Storing(b)'
        BY <3>1 DEF Storing, releasing
      <3> QED
        BY <2>0, <2>1, <3>1, <3>2, HeldStill DEF Hands
    <2>3. CASE CaptureAcquire
      <3>1. UNCHANGED <<ring, releasing, capPc>> /\ capPc = "acquire" /\ AcquireStep("capture")
            /\ Filling = {} /\ Dropping = {}
        BY <2>3, AcquireStepPlace DEF CaptureAcquire, capture, releasing, AcquireStep, AcquireLock, AcquireSkip,
           AcquireTake, AcquireWait, AcquireTimeout, StageInv, Filling, Dropping
      <3>2. \A b \in Block : Storing(b) => Storing(b)'
        BY <3>1 DEF Storing, releasing
      <3>3. CASE AcquireTake("capture")
        <4>1. acqIdx["capture"] \in Block /\ refs' = [refs EXCEPT ![acqIdx["capture"]] = 1]
              /\ acqIdx["capture"] \in Filling'
          BY <3>3 DEF AcquireTake, PoolTypeOK, Filling, Block, Null
        <4> QED
          BY <2>0, <2>1, <3>1, <3>2, <4>1 DEF HeldInv, Hands, PoolTypeOK
      <3>4. CASE ~AcquireTake("capture")
        <4>1. UNCHANGED refs
          BY <3>1, <3>4 DEF AcquireStep, AcquireLock, AcquireSkip, AcquireWait, AcquireTimeout
        <4> QED
          BY <2>0, <2>1, <3>1, <3>2, <4>1, HeldStill DEF Hands
      <3> QED
        BY <3>3, <3>4
    <2>4. CASE CaptureNoBlock \/ CaptureFill
      <3>1. UNCHANGED <<ring, refs, releasing, acqBlk>> /\ Filling \subseteq Filling' /\ Dropping = {}
        BY <2>4 DEF CaptureNoBlock, CaptureFill, AcquireReturn, Filling, Dropping
      <3>2. \A b \in Block : Storing(b) => Storing(b)'
        BY <3>1 DEF Storing, releasing
      <3> QED
        BY <2>0, <2>1, <3>1, <3>2, HeldStill DEF Hands
    <2>5. CASE CapturePush
      <3>1. UNCHANGED <<refs, releasing>> /\ Filling = {acqBlk["capture"]} /\ Dropping = {}
        BY <2>5, InHand DEF CapturePush, QueuePush, poolVars, Filling, Dropping, Null, Block
      <3>2. \A b \in Block : Storing(b) => Storing(b)'
        BY <3>1 DEF Storing, releasing
      <3>3. LiveSlots = QueuedSlots /\ LiveSlots' = QueuedSlots' /\ QueuedSlots \subseteq Slot
        BY <2>0, QueuedWindow, WindowSlots DEF LiveSlots, Stopped, RingType
      <3>4. ASSUME NEW b \in Block, refs'[b] # 0
            PROVE  (\E s \in LiveSlots' : queue'[s] = b) \/ b \in Hands' \/ Storing(b)'
        <4>1. CASE b = acqBlk["capture"]
          BY <2>5, <3>3, <4>1, PushEffect DEF RingType
        <4>2. ASSUME NEW s \in QueuedSlots, queue[s] = b
              PROVE  (\E r \in LiveSlots' : queue'[r] = b) \/ b \in Hands'
          <5>1. CASE s = q_tail
            BY <2>5, <4>2, <5>1, PushEffect DEF Hands, Dropping
          <5>2. CASE s # q_tail
            BY <2>5, <3>3, <4>2, <5>2, PushEffect DEF RingType
          <5> QED
            BY <5>1, <5>2
        <4> QED
          BY <2>0, <3>1, <3>2, <3>3, <3>4, <4>1, <4>2 DEF HeldInv, Hands
      <3> QED
        BY <3>4 DEF HeldInv
    <2>6. CASE CaptureDrop
      <3>1. capDrop \in Block /\ ReleaseSub("capture", capDrop) /\ Dropping = {capDrop}
            /\ Filling = {}
        BY <2>6, InHand DEF CaptureDrop, Dropping, Filling, StageInv
      <3> QED
        BY <2>0, <2>1, <2>6, <3>1, HeldReleased DEF CaptureDrop, Hands
    <2>7. CASE CaptureRelease
      <3>1. capPc = "release" /\ ReleaseStep("capture") /\ UNCHANGED <<ring, capture, acqBlk>>
            /\ acqPc["capture"] = "idle" /\ acqPc'["capture"] = "idle"
        BY <2>7, ReleaseStepPlace DEF CaptureRelease, StageInv, ReleaseStep, ReleaseStore, ReleaseSignal, acquiring
      <3>2. Filling = {} /\ Dropping = {}
        BY <3>1 DEF Filling, Dropping
      <3> QED
        BY <2>0, <2>1, <3>1, <3>2, HeldReleaseStep DEF Hands
    <2>8. CASE CaptureReleased
      <3>1. Filling = {} /\ Dropping = {}
        BY <2>8 DEF CaptureReleased, Filling, Dropping, StageInv
      <3> QED
        BY <2>0, <2>1, <2>8, <3>1, HeldReturn DEF CaptureReleased, Hands
    <2> QED
      BY <1>2, <2>2, <2>3, <2>4, <2>5, <2>6, <2>7, <2>8 DEF Capture
  <1>3. CASE Render
    <2>0. /\ ~Stopped /\ UNCHANGED <<mainPc, privUp, drainIdx>>
          /\ Filling' = Filling /\ Dropping' = Dropping
      BY <1>3, RenderKeeps DEF control, capture, Filling, Dropping
    <2>1. ASSUME UNCHANGED ring PROVE LiveSlots' = LiveSlots /\ UNCHANGED queue
      BY <2>0, <2>1, LiveUnchanged DEF ring
    <2>2. CASE (RenderPop \/ RenderTimeout) /\ PopOldest
      <3>1. UNCHANGED <<refs, queue, releasing>> /\ Showing = {} /\ Showing' = {queue[q_head]}
        BY <2>2 DEF RenderPop, RenderTimeout, PopOldest, poolVars, Showing
      <3>2. \A b \in Block : Storing(b) => Storing(b)'
        BY <3>1 DEF Storing, releasing
      <3>3. LiveSlots = QueuedSlots /\ LiveSlots' = QueuedSlots \ {q_head}
        BY <2>0, <2>2, PopEffect DEF LiveSlots, Stopped
      <3> QED
        BY <2>0, <3>1, <3>2, <3>3 DEF HeldInv, Hands
    <2>3. CASE \/ (RenderPop \/ RenderTimeout) /\ ~PopOldest
               \/ RenderLoop \/ RenderHeader \/ RenderShow
      <3>1. UNCHANGED <<ring, refs, releasing>> /\ Showing' = Showing
        BY <2>3 DEF RenderPop, RenderTimeout, PopNothing, RenderLoop, RenderHeader, RenderShow, poolVars, Showing
      <3>2. \A b \in Block : Storing(b) => Storing(b)'
        BY <3>1 DEF Storing, releasing
      <3> QED
        BY <2>0, <2>1, <3>1, <3>2, HeldStill DEF Hands
    <2>4. CASE RenderRelease
      <3>1. renBlk \in Block /\ ReleaseSub("render", renBlk) /\ Showing = {renBlk}
        BY <2>4, InHand DEF RenderRelease, Showing
      <3> QED
        BY <2>0, <2>1, <2>4, <3>1, HeldReleased DEF RenderRelease, Hands
    <2>5. CASE RenderReleaseStep
      <3>1. ReleaseStep("render") /\ UNCHANGED ring /\ Showing' = Showing
        BY <2>5 DEF RenderReleaseStep, render, Showing
      <3> QED
        BY <2>0, <2>1, <3>1, HeldReleaseStep DEF Hands
    <2>6. CASE RenderReleased
      <3>1. ReleaseReturn("render") /\ UNCHANGED ring /\ Showing = {}
        BY <2>6 DEF RenderReleased, Showing
      <3> QED
        BY <2>0, <2>1, <3>1, HeldReturn DEF Hands
    <2> QED
      BY <1>3, <2>2, <2>3, <2>4, <2>5, <2>6 DEF Render
  <1>4. CASE MainStop \/ StopRequest
    <2>1. CASE StartPriv
      <3>1. \A b \in Block : refs[b] = 0
        <4>1. mainPc = "start" /\ Hands = {} /\ \A b \in Block : ~Storing(b)
          BY <2>1 DEF StartPriv, StageInv, Hands, Filling, Dropping, Showing, Storing
        <4>2. \A s \in LiveSlots : s \in Slot
          BY QueuedWindow, WindowSlots DEF LiveSlots, RingType, Places, Slot
        <4> QED
          BY <4>1, <4>2 DEF HeldInv, RingInv, Block, Null
      <3> QED
        BY <2>1, <3>1 DEF StartPriv, poolVars, HeldInv
    <2>2. CASE StartCamera \/ StartCapture \/ StartRender \/ StopFlag \/ StopBroadcast \/ JoinCapture
      <3>1. /\ UNCHANGED <<refs, ring, releasing, acquiring, renBlk, capDrop>>
            /\ ~Stopped /\ ~Stopped' /\ Filling = Filling' /\ Dropping = Dropping' /\ Showing = Showing'
        BY <2>2 DEF StartCamera, StartCapture, StartRender, StopFlag, StopBroadcast, JoinCapture, WakeRender,
           poolVars, acquiring, workers, control, StageInv, Stopped, Filling, Dropping, Showing
      <3>2. \A b \in Block : Storing(b) => Storing(b)'
        BY <3>1 DEF Storing, releasing
      <3>3. LiveSlots' = LiveSlots
        BY <3>1, RingUnchanged DEF LiveSlots, Stopped
      <3> QED
        BY <3>1, <3>2, <3>3, HeldStill DEF Hands, ring
    <2>3. CASE JoinRender \/ StopRequest \/ StopEnd
      <3>1. UNCHANGED <<refs, ring, releasing, acquiring, renPc, renBlk, capPc, capDrop>>
        BY <2>3 DEF JoinRender, StopRequest, StopEnd, poolVars, workers
      <3>2. \A b \in Block : Storing(b) => Storing(b)'
        BY <3>1 DEF Storing, releasing
      <3>3. Hands' = Hands
        BY <3>1 DEF Hands, Filling, Dropping, Showing, acquiring
      <3>4. LiveSlots \subseteq LiveSlots'
        <4>1. QueuedSlots \subseteq Slot /\ QueuedSlots' = QueuedSlots
          BY <3>1, QueuedWindow, WindowSlots, RingUnchanged DEF RingType
        <4>2. CASE JoinRender
          BY <4>1, <4>2 DEF JoinRender, LiveSlots, Stopped, Slot
        <4>3. CASE StopRequest
          BY <4>1, <4>3 DEF StopRequest, LiveSlots, Stopped
        <4>4. CASE StopEnd
          <5>1. LiveSlots = {}
            BY <4>4 DEF StopEnd, DrainLimit, LiveSlots, Places
          <5> QED
            BY <5>1
        <4> QED
          BY <2>3, <4>2, <4>3, <4>4
      <3> QED
        BY <3>1, <3>2, <3>3, <3>4, HeldStill DEF ring
    <2>4. CASE DrainSlot
      <3>1. /\ UNCHANGED <<renPc, renBlk, capPc, capDrop, acqPc, acqBlk, privUp, q_head, q_count>>
            /\ mainPc = "drain" /\ drainIdx \in Slot /\ LiveSlots = drainIdx..QueueDepth-1
        BY <2>4 DEF DrainSlot, DrainLimit, ReleaseSub, poolVars, acquiring, workers, LiveSlots, Places, Slot
      <3>2. Hands' = Hands
        BY <3>1 DEF Hands, Filling, Dropping, Showing
      <3>3. CASE queue[drainIdx] = Null
        <4>1. UNCHANGED <<refs, releasing, queue>> /\ LiveSlots' = LiveSlots \ {drainIdx}
          BY <2>4, <3>1, <3>3 DEF DrainSlot, poolVars, LiveSlots, Slot
        <4>2. \A b \in Block : Storing(b) => Storing(b)'
          BY <4>1 DEF Storing, releasing
        <4> QED
          BY <3>2, <3>3, <4>1, <4>2 DEF HeldInv, Block, Null
      <3>4. CASE queue[drainIdx] # Null
        <4>1. queue[drainIdx] \in Block /\ ReleaseSub("main", queue[drainIdx]) /\ LiveSlots' = LiveSlots
              /\ \A s \in LiveSlots : s # drainIdx => queue'[s] = queue[s]
          BY <2>4, <3>1, <3>4 DEF DrainSlot, LiveSlots, RingType, Slot
        <4> QED
          BY <3>2, <4>1, HeldReleased
      <3> QED
        BY <3>3, <3>4
    <2>5. CASE DrainRelease \/ DrainReleased
      <3>1. /\ UNCHANGED <<ring, drainIdx, capPc, capDrop, renPc, renBlk>>
            /\ capPc \notin {"acquire", "push", "drop"} /\ mainPc = "drainRelease"
            /\ mainPc' \in {"drain", "drainRelease"}
            /\ ReleaseStep("main") \/ ReleaseReturn("main")
        BY <2>5, ReleaseStepPlace DEF DrainRelease, DrainReleased, capture, render, control, workers, StageInv,
           Stopped
      <3>2. Filling = {} /\ Dropping = {} /\ Dropping' = {} /\ Showing' = Showing
        BY <3>1 DEF Filling, Dropping, Showing, StageInv
      <3>3. LiveSlots' = LiveSlots /\ UNCHANGED queue
        BY <3>1 DEF LiveSlots, ring
      <3> QED
        BY <3>1, <3>2, <3>3, HeldReleaseStep, HeldReturn DEF Hands
    <2>6. CASE MainShutdown
      <3>1. UNCHANGED <<refs, ring, releasing, capPc, capDrop, renPc, renBlk, acqBlk>>
            /\ LiveSlots = {} /\ capPc \in {"off", "exit"}
        BY <2>6 DEF MainShutdown, PoolShutdown, workers, LiveSlots, Stopped, StageInv
      <3>2. \A b \in Block : Storing(b) => Storing(b)'
        BY <3>1 DEF Storing, releasing
      <3>3. Hands \subseteq Hands'
        BY <3>1 DEF Hands, Filling, Dropping, Showing, StageInv
      <3> QED
        BY <3>1, <3>2, <3>3, HeldStill DEF ring
    <2> QED
      BY <1>4, <2>1, <2>2, <2>3, <2>4, <2>5, <2>6 DEF MainStop
  <1>5. CASE Exited \/ UNCHANGED vars
    <2>1. UNCHANGED <<refs, ring, releasing, capPc, capDrop, renPc, renBlk, acquiring, mainPc, privUp, drainIdx>>
      BY <1>5 DEF Exited, vars, poolVars, capture, render, control
    <2>2. \A b \in Block : Storing(b) => Storing(b)'
      BY <2>1 DEF Storing, releasing
    <2>3. Hands' = Hands /\ LiveSlots' = LiveSlots
      BY <2>1, LiveUnchanged DEF Hands, Filling, Dropping, Showing, acquiring
    <2> QED
      BY <2>1, <2>2, <2>3, HeldStill DEF ring
  <1> QED
    BY <1>2, <1>3, <1>4, <1>5 DEF Next

-------------------------------------------------------------------------------
(* Counts and holders.                                                      *)

QueuedAt(b) == {s \in QueuedSlots : queue[s] = b}
Queued(b) == Cardinality(QueuedAt(b))

LEMMA HoldersAre ==
  ASSUME NEW b \in Block
  PROVE  Holders(b) = Queued(b) + Count(b, Filling) + Count(b, Dropping) + Count(b, Showing)
  BY DEF Holders, Queued, QueuedAt

LEMMA HoldersAreNext ==
  ASSUME NEW b \in Block
  PROVE  Holders(b)' = Queued(b)' + Count(b, Filling') + Count(b, Dropping') + Count(b, Showing')
  BY DEF Holders, Queued, QueuedAt, Count

LEMMA QueuedNat ==
  ASSUME RingType, NEW b \in Block
  PROVE  IsFiniteSet(QueuedAt(b)) /\ Queued(b) \in Nat
  <1>1. QueuedAt(b) \in SUBSET QueuedSlots /\ IsFiniteSet(QueuedSlots)
    BY QueuedWindow, WindowSlots DEF QueuedAt, RingType
  <1>2. IsFiniteSet(QueuedAt(b))
    BY <1>1, FS_Subset
  <1> QED
    BY <1>2, FS_CardinalityType DEF Queued

LEMMA HoldersNat ==
  ASSUME RingType, NEW b \in Block
  PROVE  Holders(b) \in Nat
  BY HoldersAre, QueuedNat DEF Count

LEMMA QueuedUnchanged == ASSUME NEW b \in Block, UNCHANGED ring PROVE Queued(b)' = Queued(b)
  BY RingUnchanged DEF Queued, QueuedAt, ring

LEMMA QueuedPopped ==
  ASSUME IInv, PopOldest, NEW b \in Block
  PROVE  Queued(b)' = Queued(b) - (IF queue[q_head] = b THEN 1 ELSE 0)
  <1>1. QueuedAt(b)' = QueuedAt(b) \ {q_head} /\ (q_head \in QueuedAt(b) <=> queue[q_head] = b)
    BY PopEffect DEF QueuedAt, PopOldest
  <1>2. IsFiniteSet(QueuedAt(b)) /\ Queued(b) \in Nat
    BY QueuedNat, TypeParts DEF IInv
  <1>3. Cardinality(QueuedAt(b) \ {q_head}) = Queued(b) - (IF q_head \in QueuedAt(b) THEN 1 ELSE 0)
    BY <1>2, FS_RemoveElement, SMTT(30) DEF Queued
  <1>4. Queued(b)' = Cardinality(QueuedAt(b) \ {q_head})
    BY <1>1 DEF Queued
  <1> QED
    BY <1>1, <1>3, <1>4

LEMMA QueuedPushed ==
  ASSUME IInv, CapturePush, NEW b \in Block
  PROVE  Queued(b)' = Queued(b) + (IF acqBlk["capture"] = b THEN 1 ELSE 0)
                                - (IF QueueFull /\ queue[q_head] = b THEN 1 ELSE 0)
  <1>1. IsFiniteSet(QueuedAt(b)) /\ Queued(b) \in Nat /\ RingType
    BY QueuedNat, TypeParts DEF IInv
  <1>2. QueuedSlots \subseteq Slot /\ QueuedSlots' = QueuedSlots \cup {q_tail} /\ q_tail \in Slot
        /\ queue' = [queue EXCEPT ![q_tail] = acqBlk["capture"]]
    BY <1>1, PushEffect, QueuedWindow, WindowSlots DEF RingType
  <1>3. QueuedAt(b)' = IF acqBlk["capture"] = b THEN QueuedAt(b) \cup {q_tail} ELSE QueuedAt(b) \ {q_tail}
    BY <1>1, <1>2 DEF QueuedAt, RingType
  <1>4. q_tail \in QueuedAt(b) <=> QueueFull /\ queue[q_head] = b
    BY PushEffect DEF QueuedAt
  <1>5. /\ Cardinality(QueuedAt(b) \cup {q_tail})
              = IF q_tail \in QueuedAt(b) THEN Queued(b) ELSE Queued(b) + 1
        /\ Cardinality(QueuedAt(b) \ {q_tail})
              = IF q_tail \in QueuedAt(b) THEN Queued(b) - 1 ELSE Queued(b)
    <2>1. /\ Cardinality(QueuedAt(b) \cup {q_tail})
                = IF q_tail \in QueuedAt(b) THEN Cardinality(QueuedAt(b)) ELSE Cardinality(QueuedAt(b)) + 1
          /\ Cardinality(QueuedAt(b) \ {q_tail})
                = IF q_tail \in QueuedAt(b) THEN Cardinality(QueuedAt(b)) - 1 ELSE Cardinality(QueuedAt(b))
      BY <1>1, FS_AddElement, FS_RemoveElement
    <2> QED
      BY <2>1 DEF Queued
  <1>6. CASE acqBlk["capture"] = b
    <2>1. Queued(b)' = Cardinality(QueuedAt(b) \cup {q_tail})
      BY <1>3, <1>6 DEF Queued
    <2> QED
      BY <1>1, <1>4, <1>5, <1>6, <2>1
  <1>7. CASE acqBlk["capture"] # b
    <2>1. Queued(b)' = Cardinality(QueuedAt(b) \ {q_tail})
      BY <1>3, <1>7 DEF Queued
    <2> QED
      BY <1>1, <1>4, <1>5, <1>7, <2>1
  <1> QED
    BY <1>6, <1>7

\* A race is not forgotten.
LEMMA RacedGrows == [Next]_vars => raced \subseteq raced'
  <1> SUFFICES ASSUME [Next]_vars PROVE raced \subseteq raced'
    OBVIOUS
  <1> USE DEF poolVars, AcquireCall, AcquireReturn, ReleaseSub, ReleaseReturn, ReleaseStep, ReleaseStore,
              ReleaseSignal
  <1>1. CASE Capture
    BY <1>1 DEF Capture, CaptureDequeue, CaptureEnqueue, CaptureSynthetic, CaptureExit, CaptureAcquire,
       AcquireStep, AcquireLock, AcquireSkip, AcquireTake, AcquireWait, AcquireTimeout, CaptureNoBlock,
       CaptureFill, CapturePush, QueuePush, CaptureDrop, CaptureRelease, CaptureReleased
  <1>2. CASE Render
    BY <1>2 DEF Render, RenderLoop, RenderPop, RenderTimeout, RenderHeader, RenderShow, RenderRelease,
       RenderReleaseStep, RenderReleased
  <1>3. CASE MainStop \/ StopRequest
    BY <1>3 DEF MainStop, StartPriv, StartCamera, StartCapture, StartRender, StopFlag, StopBroadcast,
       JoinCapture, JoinRender, DrainSlot, DrainRelease, DrainReleased, StopEnd, MainShutdown, PoolShutdown,
       StopRequest
  <1>4. CASE Exited \/ UNCHANGED vars
    BY <1>4 DEF Exited, vars
  <1> QED
    BY <1>1, <1>2, <1>3, <1>4 DEF Next

\* When the pipeline is taken down nobody holds a block any more.
LEMMA StoppedFree ==
  ASSUME IInv, Stopped, mainPc \notin {"drain", "drainRelease"} \/ (mainPc = "drain" /\ drainIdx >= QueueDepth)
  PROVE  \A b \in Block : refs[b] = 0
  <1>1. LiveSlots = {}
    BY TypeParts DEF IInv, LiveSlots, Stopped, Places
  <1>2. Hands = {} /\ \A b \in Block : ~Storing(b)
    BY DEF IInv, StageInv, Hands, Filling, Dropping, Showing, Storing
  <1> QED
    BY <1>1, <1>2 DEF IInv, HeldInv

\* The steps of a release after the first leave counts alone, if there is no race.
LEMMA CountReleaseStep ==
  ASSUME IInv, raced' = {}, raced = {}, ~Stopped, NEW t \in Threads, ReleaseStep(t)
  PROVE  UNCHANGED refs
  <1>1. CASE ReleaseStore(t)
    <2>1. relBlk[t] \in Block /\ refs \in [Block -> Int]
      BY <1>1 DEF ReleaseStore, IInv, TypeOK, PoolTypeOK
    <2>2. refs[relBlk[t]] = Holders(relBlk[t]) /\ Holders(relBlk[t]) \in Nat
      BY <2>1, HoldersNat, TypeParts DEF IInv, CountIsHolders, Stopped
    <2>3. refs[relBlk[t]] = 0
      BY <1>1, <2>1, <2>2 DEF ReleaseStore, IInv, PoolInv
    <2> QED
      BY <1>1, <2>1, <2>3 DEF ReleaseStore
  <1>2. CASE ReleaseSignal(t)
    BY <1>2 DEF ReleaseSignal
  <1> QED
    BY <1>1, <1>2 DEF ReleaseStep

Counted == \A b \in Block : refs[b] = Holders(b)

\* A step that neither counts nor hands on anything.
LEMMA CountStill ==
  ASSUME Counted, UNCHANGED <<refs, ring>>, Filling' = Filling, Dropping' = Dropping, Showing' = Showing
  PROVE  Counted'
  <1> SUFFICES ASSUME NEW b \in Block PROVE refs'[b] = Holders(b)'
    BY DEF Counted
  <1>1. Holders(b)' = Holders(b)
    BY HoldersAre, HoldersAreNext, QueuedUnchanged
  <1> QED
    BY <1>1 DEF Counted

\* A release whose caller has had the block in its hands.
LEMMA CountReleased ==
  ASSUME Counted, PoolIInv, NEW t \in Threads, NEW c \in Block, ReleaseSub(t, c),
         RingType, UNCHANGED ring,
         \A b \in Block : Count(b, Filling') + Count(b, Dropping') + Count(b, Showing')
                          = Count(b, Filling) + Count(b, Dropping) + Count(b, Showing)
                            - (IF b = c THEN 1 ELSE 0)
  PROVE  Counted'
  <1> SUFFICES ASSUME NEW b \in Block PROVE refs'[b] = Holders(b)'
    BY DEF Counted
  <1>1. Queued(b) \in Nat /\ Queued(b)' = Queued(b)
    BY QueuedNat, QueuedUnchanged
  <1>2. Holders(b)' = Queued(b) + (Count(b, Filling') + Count(b, Dropping') + Count(b, Showing'))
        /\ Holders(b) = Queued(b) + (Count(b, Filling) + Count(b, Dropping) + Count(b, Showing))
    BY <1>1, HoldersAre, HoldersAreNext DEF Count
  <1>3. refs'[b] = refs[b] - (IF b = c THEN 1 ELSE 0)
    BY DEF ReleaseSub, PoolIInv, PoolTypeOK
  <1>4. refs[b] = Holders(b)
    BY DEF Counted
  <1> QED
    BY <1>1, <1>2, <1>3, <1>4 DEF Count

LEMMA CaptureCount == ASSUME IInv, Capture, Counted, raced = {}, raced' = {} PROVE Counted'
  <1>1. RingType /\ PoolTypeOK /\ PoolIInv /\ StageInv /\ Places
    BY TypeParts DEF IInv, PoolIInv
  <1>2. ~Stopped /\ Showing' = Showing
    BY CaptureKeeps DEF Showing
  <1>3. CASE (\E i \in queued : CaptureDequeue(i)) \/ CaptureSynthetic \/ CaptureEnqueue \/ CaptureExit
    <2>1. UNCHANGED <<ring, refs>> /\ Filling' = Filling /\ Dropping' = Dropping
      BY <1>1, <1>3 DEF CaptureDequeue, CaptureSynthetic, CaptureEnqueue, CaptureExit, AcquireCall, poolVars,
         acquiring, StageInv, Filling, Dropping, PoolTypeOK
    <2> QED
      BY <1>2, <2>1, CountStill
  <1>4. CASE CaptureAcquire
    <2>1. UNCHANGED <<ring, capPc, capDrop>> /\ capPc = "acquire" /\ AcquireStep("capture")
          /\ Filling = {} /\ Dropping' = Dropping
      BY <1>1, <1>4, AcquireStepPlace DEF CaptureAcquire, capture, StageInv, Filling, Dropping
    <2>2. CASE AcquireTake("capture")
      <3> DEFINE c == acqIdx["capture"]
      <3>1. c \in Block /\ refs[c] = 0 /\ refs' = [refs EXCEPT ![c] = 1] /\ Filling' = {c}
        BY <1>1, <2>1, <2>2 DEF AcquireTake, IsBlockFree, PoolTypeOK, Filling, Block, Null
      <3> SUFFICES ASSUME NEW b \in Block PROVE refs'[b] = Holders(b)'
        BY DEF Counted
      <3>2. Holders(b)' = Holders(b) + (IF b = c THEN 1 ELSE 0) /\ Holders(b) \in Nat
        BY <1>1, <1>2, <2>1, <3>1, HoldersAre, HoldersAreNext, QueuedUnchanged, QueuedNat DEF Count
      <3> QED
        BY <1>1, <3>1, <3>2 DEF Counted, PoolTypeOK
    <2>3. CASE ~AcquireTake("capture")
      <3>1. UNCHANGED refs /\ Filling' = {}
        BY <1>1, <2>1, <2>3 DEF AcquireStep, AcquireLock, AcquireSkip, AcquireWait, AcquireTimeout, Filling,
           PoolTypeOK
      <3> QED
        BY <1>2, <2>1, <3>1, CountStill
    <2> QED
      BY <2>2, <2>3
  <1>5. CASE CaptureNoBlock \/ CaptureFill
    <2>1. UNCHANGED <<ring, refs>> /\ Filling' = Filling /\ Dropping' = Dropping
      BY <1>1, <1>5 DEF CaptureNoBlock, CaptureFill, AcquireReturn, Requeue, Filling, Dropping, PoolTypeOK
    <2> QED
      BY <1>2, <2>1, CountStill
  <1>6. CASE CapturePush
    <2>1. UNCHANGED refs /\ Filling = {acqBlk["capture"]} /\ Filling' = {} /\ Dropping = {}
          /\ Dropping' = IF QueueFull THEN {queue[q_head]} ELSE {}
      BY <1>1, <1>6, InHand, SMTT(30) DEF CapturePush, QueuePush, Requeue, poolVars, acquiring, StageInv, Filling,
         Dropping, Null, Block
    <2> SUFFICES ASSUME NEW b \in Block PROVE refs'[b] = Holders(b)'
      BY DEF Counted
    <2>2. Queued(b) \in Nat
          /\ Queued(b)' = Queued(b) + (IF acqBlk["capture"] = b THEN 1 ELSE 0)
                                    - (IF QueueFull /\ queue[q_head] = b THEN 1 ELSE 0)
      BY <1>1, <1>6, QueuedNat, QueuedPushed
    <2>3. Holders(b) = Queued(b) + (IF acqBlk["capture"] = b THEN 1 ELSE 0) + Count(b, Showing)
      BY <2>1, <2>2, HoldersAre DEF Count
    <2>4. Holders(b)' = Queued(b)' + (IF QueueFull /\ queue[q_head] = b THEN 1 ELSE 0) + Count(b, Showing)
      BY <1>2, <2>1, <2>2, HoldersAreNext DEF Count
    <2> QED
      BY <2>1, <2>2, <2>3, <2>4 DEF Counted, Count
  <1>7. CASE CaptureDrop
    <2>1. capDrop \in Block /\ ReleaseSub("capture", capDrop) /\ UNCHANGED ring
          /\ Dropping = {capDrop} /\ Dropping' = {} /\ Filling' = {} /\ Filling = {}
      BY <1>1, <1>7, InHand DEF CaptureDrop, ReleaseSub, acquiring, StageInv, Filling, Dropping
    <2> QED
      BY <1>1, <1>2, <2>1, CountReleased DEF Count
  <1>8. CASE CaptureRelease
    <2>1. UNCHANGED <<ring, capPc, capDrop, acqBlk>> /\ ReleaseStep("capture")
      BY <1>8 DEF CaptureRelease, capture, ReleaseStep, ReleaseStore, ReleaseSignal, acquiring
    <2>2. UNCHANGED refs
      BY <1>2, <2>1, CountReleaseStep
    <2>3. Filling' = Filling /\ Dropping' = Dropping
      BY <1>1, <2>1, ReleaseStepPlace DEF Filling, Dropping
    <2> QED
      BY <1>2, <2>1, <2>2, <2>3, CountStill
  <1>9. CASE CaptureReleased
    <2>1. UNCHANGED <<ring, refs>> /\ Filling' = Filling /\ Dropping' = Dropping
      BY <1>9 DEF CaptureReleased, ReleaseReturn, Requeue, acquiring, Filling, Dropping
    <2> QED
      BY <1>2, <2>1, CountStill
  <1> QED
    BY <1>3, <1>4, <1>5, <1>6, <1>7, <1>8, <1>9 DEF Capture

LEMMA RenderCount == ASSUME IInv, Render, Counted, raced = {}, raced' = {} PROVE Counted'
  <1>1. RingType /\ PoolTypeOK /\ PoolIInv /\ StageInv
    BY TypeParts DEF IInv, PoolIInv
  <1>2. ~Stopped /\ Filling' = Filling /\ Dropping' = Dropping
    BY RenderKeeps DEF capture, Filling, Dropping
  <1>3. CASE (RenderPop \/ RenderTimeout) /\ PopOldest
    <2>1. UNCHANGED refs /\ Showing = {} /\ Showing' = {queue[q_head]}
      BY <1>3 DEF RenderPop, RenderTimeout, PopOldest, poolVars, Showing
    <2> SUFFICES ASSUME NEW b \in Block PROVE refs'[b] = Holders(b)'
      BY DEF Counted
    <2>2. Queued(b) \in Nat /\ Queued(b)' = Queued(b) - (IF queue[q_head] = b THEN 1 ELSE 0)
      BY <1>1, <1>3, QueuedNat, QueuedPopped
    <2>3. Holders(b)' = Holders(b)
      BY <1>2, <2>1, <2>2, HoldersAre, HoldersAreNext DEF Count
    <2> QED
      BY <2>1, <2>3 DEF Counted
  <1>4. CASE \/ (RenderPop \/ RenderTimeout) /\ ~PopOldest
             \/ RenderLoop \/ RenderHeader \/ RenderShow \/ RenderReleased
    <2>1. UNCHANGED <<ring, refs>> /\ Showing' = Showing
      BY <1>4 DEF RenderPop, RenderTimeout, PopNothing, RenderLoop, RenderHeader, RenderShow, RenderReleased,
         ReleaseReturn, poolVars, Showing
    <2> QED
      BY <1>2, <2>1, CountStill
  <1>5. CASE RenderRelease
    <2>1. renBlk \in Block /\ ReleaseSub("render", renBlk) /\ UNCHANGED ring
          /\ Showing = {renBlk} /\ Showing' = {}
      BY <1>5, InHand DEF RenderRelease, Showing
    <2> QED
      BY <1>1, <1>2, <2>1, CountReleased DEF Count
  <1>6. CASE RenderReleaseStep
    <2>1. UNCHANGED refs /\ UNCHANGED ring /\ Showing' = Showing
      BY <1>2, <1>6, CountReleaseStep DEF RenderReleaseStep, render, Showing
    <2> QED
      BY <1>2, <2>1, CountStill
  <1> QED
    BY <1>3, <1>4, <1>5, <1>6 DEF Render

LEMMA NextCount == IInv /\ [Next]_vars => CountIsHolders'
  <1> SUFFICES ASSUME IInv, [Next]_vars, raced' = {},
                      mainPc' \notin {"drain", "drainRelease", "shutdown", "gone"}
               PROVE  Counted'
    BY DEF CountIsHolders, Counted
  <1>1. raced = {} /\ StageInv /\ RingInv /\ RingType /\ Places
    BY RacedGrows, TypeParts DEF IInv
  <1>2. mainPc \notin {"drain", "drainRelease", "shutdown", "gone"} => Counted
    BY <1>1 DEF IInv, CountIsHolders, Counted
  <1>3. CASE Capture
    BY <1>1, <1>2, <1>3, CaptureCount, CaptureKeeps DEF control
  <1>4. CASE Render
    BY <1>1, <1>2, <1>4, RenderCount, RenderKeeps DEF control
  <1>5. CASE StopEnd
    <2>1. Stopped /\ mainPc = "drain" /\ drainIdx >= QueueDepth /\ UNCHANGED <<refs, ring, capPc, capDrop, renPc, renBlk, acquiring>>
      BY <1>5 DEF StopEnd, DrainLimit, Stopped, poolVars, workers
    <2>2. \A b \in Block : refs[b] = 0
      BY <2>1, StoppedFree
    <2>3. Filling' = {} /\ Dropping' = {} /\ Showing' = {}
      BY <1>1, <2>1 DEF StageInv, Filling, Dropping, Showing, acquiring
    <2>4. \A s \in Slot : queue[s] = Null
      BY <1>1, <2>1 DEF RingInv, Slot, Places
    <2> SUFFICES ASSUME NEW b \in Block PROVE refs'[b] = Holders(b)'
      BY DEF Counted
    <2>5. QueuedAt(b) = {}
      BY <1>1, <2>4, QueuedWindow, WindowSlots DEF QueuedAt, RingType, Block, Null
    <2>6. Queued(b)' = 0
      BY <2>1, <2>5, QueuedUnchanged, FS_EmptySet DEF Queued
    <2> QED
      BY <2>1, <2>2, <2>3, <2>6, HoldersAreNext DEF Count
  <1>6. CASE (MainStop \/ StopRequest) /\ ~StopEnd
    <2>1. mainPc \notin {"drain", "drainRelease", "shutdown", "gone"}
          /\ UNCHANGED <<refs, ring, capDrop, renBlk, acquiring>>
      BY <1>6, <1>1, ReleaseStepPlace, TypeParts DEF MainStop, StartPriv, StartCamera, StartCapture, StartRender,
         StopFlag, StopBroadcast, JoinCapture, JoinRender, DrainSlot, DrainRelease, DrainReleased, MainShutdown,
         StopRequest, poolVars, workers, control, IInv, StageInv
    <2>2. Filling' = Filling /\ Dropping' = Dropping /\ Showing' = Showing
      BY <1>6, <1>1, <2>1 DEF MainStop, StartPriv, StartCamera, StartCapture, StartRender, StopFlag,
         StopBroadcast, JoinCapture, JoinRender, DrainSlot, DrainRelease, DrainReleased, MainShutdown,
         StopRequest, WakeRender, capture, render, control, acquiring, StageInv, Filling, Dropping, Showing
    <2> QED
      BY <1>2, <2>1, <2>2, CountStill
  <1>7. CASE Exited \/ UNCHANGED vars
    <2>1. UNCHANGED <<refs, ring, capPc, capDrop, renPc, renBlk, acquiring, mainPc>>
      BY <1>7 DEF Exited, vars, poolVars, capture, render, control
    <2>2. Filling' = Filling /\ Dropping' = Dropping /\ Showing' = Showing
      BY <2>1 DEF Filling, Dropping, Showing, acquiring
    <2> QED
      BY <1>2, <2>1, <2>2, CountStill
  <1> QED
    BY <1>3, <1>4, <1>5, <1>6, <1>7 DEF Next

-------------------------------------------------------------------------------
(* The frames in the blocks.                                                *)

\* Without a race no block is in two hands.
LEMMA InOneHand ==
  ASSUME IInv, raced = {}, ~Stopped, NEW b \in Block
  PROVE  Queued(b) + Count(b, Filling) + Count(b, Dropping) + Count(b, Showing) <= 1
  <1>1. refs[b] = Holders(b)
    BY DEF IInv, CountIsHolders, Stopped
  <1>2. refs[b] <= 1
    BY DEF IInv, PoolInv
  <1> QED
    BY <1>1, <1>2, HoldersAre

\* What the capture thread writes to is neither queued nor on the screen.
LEMMA FillingAlone ==
  ASSUME IInv, raced = {}, ~Stopped, NEW b \in Filling
  PROVE  b \in Block /\ b \notin Showing /\ \A s \in QueuedSlots : queue[s] # b
  <1>1. b \in Block /\ RingType
    BY TypeParts DEF IInv, Filling, PoolTypeOK
  <1>2. Queued(b) \in Nat /\ IsFiniteSet(QueuedAt(b))
    BY <1>1, QueuedNat
  <1>3. Queued(b) = 0 /\ b \notin Showing
    BY <1>1, <1>2, InOneHand DEF Count
  <1>4. QueuedAt(b) = {}
    BY <1>2, <1>3, FS_EmptySet DEF Queued
  <1> QED
    BY <1>1, <1>3, <1>4 DEF QueuedAt

LEMMA NextPixel == IInv /\ [Next]_vars => PixelInv'
  <1> SUFFICES ASSUME IInv, [Next]_vars PROVE PixelInv'
    OBVIOUS
  <1>1. PixelInv /\ StageInv /\ Numbers /\ Flags /\ PoolTypeOK /\ raced \subseteq raced'
    BY TypeParts, RacedGrows DEF IInv
  <1>2. CASE CaptureFill
    <2> DEFINE c == acqBlk["capture"]
    <2>1. PICK p \in Pixels(seq + 1) : blkPix' = [blkPix EXCEPT ![c] = p]
      BY <1>2 DEF CaptureFill
    <2>2. c \in Block /\ c \in Filling /\ blkSeq' = [blkSeq EXCEPT ![c] = seq + 1]
          /\ UNCHANGED <<camera, renPc, renBlk, frameSeq, raced>> /\ ~Stopped
      BY <1>1, <1>2, InHand DEF CaptureFill, AcquireReturn, Filling, Null, control, render, StageInv
    <2>3. p = seq + 1 \/ (camera /\ p = Older)
      BY <2>1 DEF Pixels
    <2>4. \A b \in Block : blkPix'[b] = blkSeq'[b] \/ (camera' /\ blkPix'[b] = Older)
      BY <1>1, <2>1, <2>2, <2>3 DEF PixelInv, Numbers
    <2>5. raced = {} /\ renPc = "frame" => renBlk # c
      BY <2>2, FillingAlone DEF Showing
    <2>6. raced' = {} /\ renPc' = "frame" => blkSeq'[renBlk'] = frameSeq'
      BY <1>1, <2>2, <2>5 DEF PixelInv, Numbers
    <2> QED
      BY <2>4, <2>6 DEF PixelInv
  <1>3. CASE RenderHeader
    BY <1>1, <1>3 DEF RenderHeader, PixelInv, blocks, control
  <1>4. CASE ~CaptureFill /\ ~RenderHeader
    <2>1. UNCHANGED blocks /\ (renPc' = "frame" => renPc = "frame" /\ UNCHANGED <<renBlk, frameSeq>>)
      <3>1. CASE Capture
        BY <1>4, <3>1, CaptureKeeps DEF Capture, CaptureDequeue, CaptureEnqueue, CaptureSynthetic, CaptureExit,
           CaptureAcquire, CaptureNoBlock, CapturePush, QueuePush, CaptureDrop, CaptureRelease, CaptureReleased
      <3>2. CASE Render
        BY <1>4, <3>2 DEF Render, RenderLoop, RenderPop, RenderTimeout, PopOldest, PopNothing, RenderShow,
           RenderRelease, RenderReleaseStep, RenderReleased, render
      <3>3. CASE MainStop \/ StopRequest
        BY <3>3 DEF MainStop, StartPriv, StartCamera, StartCapture, StartRender, StopFlag, StopBroadcast,
           JoinCapture, JoinRender, DrainSlot, DrainRelease, DrainReleased, StopEnd, MainShutdown, StopRequest,
           WakeRender, workers, render
      <3>4. CASE Exited \/ UNCHANGED vars
        BY <3>4 DEF Exited, vars, render
      <3> QED
        BY <3>1, <3>2, <3>3, <3>4 DEF Next
    <2>2. camera => camera'
      <3>1. CASE Capture \/ Render
        BY <3>1, CaptureKeeps, RenderKeeps DEF control
      <3>2. CASE StartCapture
        BY <1>1, <3>2 DEF StartCapture, StageInv
      <3>3. CASE (MainStop \/ StopRequest \/ Exited \/ UNCHANGED vars) /\ ~StartCapture
        BY <3>3 DEF MainStop, StartPriv, StartCamera, StartRender, StopFlag, StopBroadcast, JoinCapture,
           JoinRender, DrainSlot, DrainRelease, DrainReleased, StopEnd, MainShutdown, StopRequest, Exited, vars,
           control
      <3> QED
        BY <3>1, <3>2, <3>3 DEF Next
    <2> QED
      BY <1>1, <2>1, <2>2 DEF PixelInv, blocks
  <1> QED
    BY <1>2, <1>3, <1>4

-------------------------------------------------------------------------------
(* The order of the frames.                                                 *)

LEMMA NumberNext == ASSUME NEW i PROVE Number(i)' = blkSeq'[queue'[(q_head' + i) % QueueDepth]]
  BY DEF Number, Nth

\* The i-th slot in use holds a block, which has a number.
LEMMA NthQueued ==
  ASSUME IInv, ~Stopped, NEW i \in 0..q_count-1
  PROVE  Nth(i) \in QueuedSlots /\ Nth(i) \in Slot /\ queue[Nth(i)] \in Block /\ Number(i) \in Nat
  <1>1. Nth(i) \in QueuedSlots /\ RingType /\ Numbers
    BY TypeParts DEF IInv, QueuedSlots, Nth
  <1>2. Nth(i) \in Slot
    BY <1>1, Place DEF Nth, RingType
  <1>3. queue[Nth(i)] \in Block
    BY <1>1, <1>2 DEF IInv, RingInv, RingType
  <1> QED
    BY <1>1, <1>2, <1>3 DEF Number, Numbers

\* A pop moves every frame one place up, a push adds one at the end.
LEMMA NumbersPopped ==
  ASSUME IInv, PopOldest, UNCHANGED blocks, NEW i \in 0..q_count-2
  PROVE  Number(i)' = Number(i + 1)
  <1>1. RingType /\ q_head' = Following(q_head) /\ UNCHANGED <<queue, blkSeq>>
    BY TypeParts DEF IInv, PopOldest, blocks
  <1>2. (Following(q_head) + i) % QueueDepth = (q_head + (i + 1)) % QueueDepth
    BY <1>1, PlaceFollowing DEF RingType
  <1> QED
    BY <1>1, <1>2, NumberNext DEF Number, Nth

LEMMA NumbersPushed ==
  ASSUME IInv, CapturePush
  PROVE  /\ q_count' = (IF QueueFull THEN q_count ELSE q_count + 1) /\ q_count' \in 1..QueueDepth
         /\ \A i \in 0..q_count'-1 :
              Number(i)' = IF i = q_count' - 1 THEN blkSeq[acqBlk["capture"]]
                           ELSE Number(IF QueueFull THEN i + 1 ELSE i)
  <1>1. /\ queue \in [Slot -> Block \cup {Null}] /\ q_head \in Slot /\ q_tail \in Slot
        /\ q_count \in 0..QueueDepth /\ q_tail = (q_head + q_count) % QueueDepth
        /\ queue' = [queue EXCEPT ![q_tail] = acqBlk["capture"]] /\ UNCHANGED blkSeq
    BY TypeParts, PushEffect DEF IInv, RingType, RingInv, CapturePush, QueuePush, blocks
  <1>2. CASE QueueFull
    <2>1. q_count = QueueDepth /\ q_count' = q_count /\ q_head' = Following(q_head) /\ q_tail = q_head
      BY <1>2, PushEffect DEF CapturePush, QueuePush
    <2>2. \A i \in 0..q_count-1 : (q_head' + i) % QueueDepth = (q_head + (i + 1)) % QueueDepth
      BY <1>1, <2>1, PlaceFollowing
    <2>3. ASSUME NEW i \in 0..q_count-1, i # q_count - 1 PROVE Number(i)' = Number(i + 1)
      <3>1. q_head = (q_head + 0) % QueueDepth
        BY <1>1, Place DEF Slot
      <3>2. i + 1 \in 0..QueueDepth /\ 0 \in 0..QueueDepth /\ 0 < i + 1 /\ i + 1 < QueueDepth
        BY <2>1, <2>3
      <3>3. (q_head + (i + 1)) % QueueDepth \in Slot
        BY <1>1, <3>2, Place
      <3>4. (q_head + (i + 1)) % QueueDepth # q_head
        BY <1>1, <3>1, <3>2, PlacesDiffer
      <3> QED
        BY <1>1, <2>1, <2>2, <3>3, <3>4, NumberNext DEF Number, Nth
    <2>4. ASSUME NEW i \in 0..q_count-1, i = q_count - 1 PROVE Number(i)' = blkSeq[acqBlk["capture"]]
      <3>1. (q_head' + i) % QueueDepth = q_tail
        BY <1>1, <2>1, <2>2, <2>4
      <3> QED
        BY <1>1, <3>1, NumberNext
    <2> QED
      BY <1>2, <2>1, <2>3, <2>4
  <1>3. CASE ~QueueFull
    <2>1. q_count \in 0..QueueDepth-1 /\ q_count' = q_count + 1 /\ q_head' = q_head
      BY <1>1, <1>3 DEF QueueFull, CapturePush, QueuePush
    <2>2. ASSUME NEW i \in 0..q_count-1 PROVE Number(i)' = Number(i)
      <3>1. i \in 0..QueueDepth /\ q_count \in 0..QueueDepth /\ i < q_count /\ q_count < QueueDepth
        BY <2>1
      <3>2. (q_head + i) % QueueDepth \in Slot
        BY <1>1, <3>1, Place
      <3>3. (q_head + i) % QueueDepth # q_tail
        BY <1>1, <3>1, PlacesDiffer
      <3> QED
        BY <1>1, <2>1, <3>2, <3>3, NumberNext DEF Number, Nth
    <2>3. ASSUME NEW i, i = q_count PROVE Number(i)' = blkSeq[acqBlk["capture"]]
      BY <1>1, <2>1, <2>3, NumberNext
    <2>4. q_count' - 1 = q_count /\ \A i \in 0..q_count : i # q_count => i \in 0..q_count-1
      BY <2>1
    <2> QED
      BY <1>3, <2>1, <2>2, <2>3, <2>4
  <1> QED
    BY <1>2, <1>3

\* A step that neither numbers, nor queues, nor shows a frame.
LEMMA OrderStill ==
  ASSUME Ordered, UNCHANGED <<ring, blkSeq, seq, shown>>, Latest' = Latest,
         renPc' \in {"show", "frame"} => renPc \in {"show", "frame"},
         capPc' = "push" => capPc = "push" /\ acqBlk' = acqBlk
  PROVE  Ordered'
  <1>1. \A i : Number(i)' = Number(i)
    BY DEF Number, Nth, ring
  <1> QED
    BY <1>1 DEF Ordered, ring

LEMMA CaptureOrder == ASSUME IInv, Capture, Ordered, raced = {} PROVE Ordered'
  <1>1. StageInv /\ RingType /\ Numbers /\ PoolTypeOK /\ ~Stopped /\ UNCHANGED <<renBlk, frameSeq, shown>>
        /\ (renPc' = renPc \/ (renPc = "wait" /\ renPc' = "pop"))
    BY TypeParts, CaptureKeeps DEF IInv
  <1>2. CASE CaptureFill
    <2> DEFINE c == acqBlk["capture"]
    <2>1. c \in Filling /\ blkSeq' = [blkSeq EXCEPT ![c] = seq + 1] /\ seq' = seq + 1
          /\ capPc' = "push" /\ UNCHANGED <<ring, renPc, acqBlk>>
      BY <1>1, <1>2 DEF CaptureFill, AcquireReturn, Filling, render
    <2>2. c \in Block /\ c \notin Showing /\ \A s \in QueuedSlots : queue[s] # c
      BY <1>1, <2>1, FillingAlone
    <2>3. Latest' = Latest
      BY <1>1, <2>1, <2>2 DEF Latest, Showing, Numbers
    <2>4. ASSUME NEW i \in 0..q_count-1 PROVE Number(i)' = Number(i) /\ Number(i) \in Nat
      BY <1>1, <2>1, <2>2, NthQueued, NumberNext DEF Number, Nth, Numbers, ring
    <2>5. blkSeq'[acqBlk'["capture"]] = seq + 1 /\ seq \in Nat /\ Latest \in Nat
      BY <1>1, <2>1, <2>2, InHand DEF Numbers, Latest
    <2> QED
      BY <1>1, <2>1, <2>3, <2>4, <2>5 DEF Ordered, ring, Numbers
  <1>3. CASE CapturePush
    <2> DEFINE c == acqBlk["capture"]
    <2>1. capPc = "push" /\ capPc' # "push" /\ UNCHANGED <<seq, blkSeq>>
      BY <1>3 DEF CapturePush, QueuePush, Requeue, blocks
    <2>2. Latest' = Latest /\ (renPc' \in {"show", "frame"} <=> renPc \in {"show", "frame"})
      BY <1>1, <2>1 DEF Latest
    <2>3. \A i \in 0..q_count-1 : Number(i) \in Nat
      BY <1>1, NthQueued
    <2>4. blkSeq[c] = seq /\ Latest < seq /\ \A i \in 0..q_count-1 : Number(i) < seq
      BY <2>1 DEF Ordered
    <2>5. /\ q_count \in 0..QueueDepth /\ q_count' = (IF QueueFull THEN q_count ELSE q_count + 1)
          /\ q_count' \in 1..QueueDepth
      BY <1>1, <1>3, NumbersPushed DEF RingType
    <2>6. ASSUME NEW i \in 0..q_count'-1
          PROVE  \/ i = q_count' - 1 /\ Number(i)' = seq
                 \/ /\ i < q_count' - 1 /\ Number(i)' = Number(IF QueueFull THEN i + 1 ELSE i)
                    /\ (IF QueueFull THEN i + 1 ELSE i) \in 0..q_count-1
      BY <1>3, <2>4, <2>5, NumbersPushed
    <2>7. ASSUME NEW i \in 0..q_count'-1 PROVE Latest < Number(i)' /\ Number(i)' <= seq
      BY <1>1, <2>3, <2>4, <2>6 DEF Ordered, Numbers
    <2>8. ASSUME NEW i \in 0..q_count'-1, NEW j \in 0..q_count'-1, i < j PROVE Number(i)' < Number(j)'
      <3>1. CASE j = q_count' - 1
        BY <2>4, <2>5, <2>6, <2>8, <3>1
      <3>2. CASE j # q_count' - 1
        BY <2>3, <2>5, <2>6, <2>8, <3>2 DEF Ordered
      <3> QED
        BY <3>1, <3>2
    <2> QED
      BY <1>1, <2>1, <2>2, <2>7, <2>8 DEF Ordered
  <1>4. CASE ~CaptureFill /\ ~CapturePush
    <2>1. UNCHANGED <<ring, blkSeq, seq>> /\ (capPc' = "push" => capPc = "push" /\ acqBlk' = acqBlk)
      BY <1>1, <1>4, AcquireStepPlace DEF Capture, CaptureDequeue, CaptureEnqueue, CaptureSynthetic, CaptureExit,
         CaptureAcquire, CaptureNoBlock, CaptureDrop, CaptureRelease, CaptureReleased, Requeue, StageInv,
         blocks, capture, ReleaseStep, ReleaseStore, ReleaseSignal, acquiring
    <2>2. Latest' = Latest
      BY <1>1, <2>1 DEF Latest
    <2> QED
      BY <1>1, <2>1, <2>2, OrderStill
  <1> QED
    BY <1>2, <1>3, <1>4

LEMMA RenderOrder == ASSUME IInv, Render, Ordered, raced = {} PROVE Ordered'
  <1>1. RingType /\ Numbers /\ ~Stopped /\ UNCHANGED <<capPc, seq, acqBlk, blocks, blkSeq>>
    BY TypeParts, RenderKeeps DEF IInv, capture, blocks
  <1>2. CASE (RenderPop \/ RenderTimeout) /\ PopOldest
    <2>1. /\ renPc \in {"pop", "wait"} /\ renPc' = "show" /\ renBlk' = queue[q_head] /\ UNCHANGED shown
          /\ q_count \in 1..QueueDepth /\ q_count' = q_count - 1
      BY <1>1, <1>2 DEF RenderPop, RenderTimeout, PopOldest, RingType
    <2>2. Latest = shown /\ Latest' = Number(0) /\ 0 \in 0..q_count-1
      <3>1. (q_head + 0) % QueueDepth = q_head
        BY <1>1, Place DEF RingType, Slot
      <3> QED
        BY <1>1, <2>1, <3>1 DEF Latest, Number, Nth
    <2>3. \A i \in 0..q_count-1 : Number(i) \in Nat
      BY <1>1, NthQueued
    <2>4. \A i \in 0..q_count'-1 : Number(i)' = Number(i + 1) /\ i + 1 \in 0..q_count-1 /\ 0 < i + 1
      BY <1>1, <1>2, <2>1, NumbersPopped
    <2> QED
      BY <1>1, <2>1, <2>2, <2>3, <2>4 DEF Ordered, Numbers
  <1>3. CASE RenderHeader
    <2>1. Latest' = Latest /\ UNCHANGED <<ring, shown>> /\ renPc = "show"
      BY <1>3 DEF RenderHeader, Latest
    <2> QED
      BY <1>1, <2>1, OrderStill
  <1>4. CASE RenderShow
    <2>1. shown' = Latest /\ Latest' = Latest /\ UNCHANGED ring /\ renPc' = "shown"
      BY <1>4 DEF RenderShow, Latest
    <2>2. \A i : Number(i)' = Number(i)
      BY <1>1, <2>1 DEF Number, Nth, ring
    <2>3. Latest <= Latest
      BY <1>1, <1>4 DEF RenderShow, Latest, Numbers
    <2> QED
      BY <1>1, <2>1, <2>2, <2>3 DEF Ordered, ring
  <1>5. CASE /\ Render /\ ~RenderHeader /\ ~RenderShow
             /\ ~((RenderPop \/ RenderTimeout) /\ PopOldest)
    <2>1. UNCHANGED <<ring, shown, frameSeq, renBlk>> /\ (renPc' \in {"show", "frame"} => renPc' = renPc)
          /\ (renPc \in {"show", "frame"} => renPc' = renPc)
      BY <1>5 DEF Render, RenderLoop, RenderPop, RenderTimeout, PopNothing, RenderRelease, RenderReleaseStep,
         RenderReleased, render
    <2>2. Latest' = Latest
      BY <1>1, <2>1 DEF Latest
    <2> QED
      BY <1>1, <2>1, <2>2, OrderStill
  <1> QED
    BY <1>2, <1>3, <1>4, <1>5

LEMMA NextOrder == IInv /\ [Next]_vars => OrderInv'
  <1> SUFFICES ASSUME IInv, [Next]_vars, raced' = {}, ~Stopped' PROVE Ordered'
    BY DEF OrderInv
  <1>1. raced = {} /\ (~Stopped => Ordered)
    BY RacedGrows DEF IInv, OrderInv
  <1>2. CASE Capture
    BY <1>1, <1>2, CaptureOrder, CaptureKeeps
  <1>3. CASE Render
    BY <1>1, <1>3, RenderOrder, RenderKeeps
  <1>4. CASE MainStop \/ StopRequest
    <2>1. ~Stopped
      BY <1>4, ReleaseStepPlace, TypeParts DEF IInv, StageInv, MainStop, StartPriv, StartCamera, StartCapture,
         StartRender, StopFlag, StopBroadcast, JoinCapture, JoinRender, DrainSlot, DrainRelease, DrainReleased,
         StopEnd, MainShutdown, StopRequest, Stopped, control
    <2>2. UNCHANGED <<ring, blkSeq, seq, shown, frameSeq, renBlk, acqBlk>>
      BY <1>4, <2>1, ReleaseStepPlace, TypeParts DEF IInv, StageInv, MainStop, StartPriv, StartCamera,
         StartCapture, StartRender, StopFlag, StopBroadcast, JoinCapture, JoinRender, DrainSlot, DrainRelease,
         DrainReleased, StopEnd, MainShutdown, StopRequest, Stopped, workers, blocks, poolVars, acquiring
    <2>3. /\ renPc' = renPc \/ (renPc \notin {"show", "frame"} /\ renPc' \notin {"show", "frame"})
          /\ capPc' = "push" => capPc = "push"
      BY <1>4, <2>1 DEF IInv, StageInv, MainStop, StartPriv, StartCamera, StartCapture, StartRender, StopFlag,
         StopBroadcast, JoinCapture, JoinRender, DrainSlot, DrainRelease, DrainReleased, StopEnd, MainShutdown,
         StopRequest, WakeRender, capture, render
    <2>4. Latest' = Latest
      BY <2>2, <2>3 DEF Latest
    <2> QED
      BY <1>1, <2>1, <2>2, <2>3, <2>4, OrderStill
  <1>5. CASE Exited \/ UNCHANGED vars
    <2>1. UNCHANGED <<ring, blkSeq, seq, shown, frameSeq, renBlk, renPc, capPc, acqBlk, mainPc, privUp>>
      BY <1>5 DEF Exited, vars, capture, render, control, blocks, poolVars, acquiring
    <2>2. Latest' = Latest /\ ~Stopped
      BY <2>1 DEF Latest, Stopped
    <2> QED
      BY <1>1, <2>1, <2>2, OrderStill
  <1> QED
    BY <1>2, <1>3, <1>4, <1>5 DEF Next

-------------------------------------------------------------------------------
(* The theorems.                                                            *)

LEMMA InitInv == Init => IInv
  <1> SUFFICES ASSUME Init PROVE IInv
    OBVIOUS
  <1>1. PoolIInv /\ CamIInv
    BY PoolInitInv, CamInitInv DEF Init
  <1>2. Flags
    BY Zenon DEF Init, Flags
  <1>3. RingType /\ Numbers /\ Places
    BY DEF Init, RingType, Numbers, Places, Slot, Older, NoBuf
  <1>4. TypeOK /\ PoolInv /\ CamInv
    BY <1>1, <1>2, <1>3, TypeParts DEF PoolIInv, CamIInv
  <1>5. StageInv
    BY DEF Init, PoolInit, StageInv, Stopped, RenderWakeup
  <1>6. CameraInv
    BY DEF Init, CamInit, CameraInv
  <1>7. RingInv
    BY Place DEF Init, RingInv, Stopped, QueuedSlots, Slot
  <1>8. QueuedSlots = {} /\ Filling = {} /\ Dropping = {} /\ Showing = {} /\ \A b \in Block : refs[b] = 0
    BY DEF Init, PoolInit, QueuedSlots, Filling, Dropping, Showing
  <1>9. HeldInv /\ CountIsHolders
    <2>1. \A b \in Block : QueuedAt(b) = {}
      BY <1>8 DEF QueuedAt
    <2>2. \A b \in Block : Queued(b) = 0
      BY <2>1, FS_EmptySet DEF Queued
    <2> QED
      BY <1>8, <2>2, HoldersAre DEF HeldInv, CountIsHolders, Count
  <1>10. AccountInv
    BY AccountedIs DEF Init, Accounted, AccountInv
  <1>11. PixelInv
    BY DEF Init, PixelInv, Older
  <1>12. OrderInv
    BY DEF Init, OrderInv, Ordered, Latest
  <1> QED
    BY <1>4, <1>5, <1>6, <1>7, <1>9, <1>10, <1>11, <1>12 DEF IInv

LEMMA NextInv == IInv /\ [Next]_vars => IInv'
  <1> SUFFICES ASSUME IInv, [Next]_vars PROVE IInv'
    OBVIOUS
  <1>1. PoolTypeOK' /\ PoolInv'
    BY NextPool DEF PoolIInv
  <1>2. CamTypeOK' /\ CamInv' /\ CameraInv'
    BY NextCamera DEF CamIInv
  <1>3. Flags' /\ RingType' /\ Numbers' /\ Places'
    BY NextFlags, NextRing, NextNumbers, NextPlaces, TypeParts DEF IInv
  <1>4. TypeOK'
    BY <1>1, <1>2, <1>3, TypeParts, PTL
  <1> QED
    BY <1>1, <1>2, <1>4, NextStage, NextRingInv, NextHeld, NextCount, NextAccount, NextPixel, NextOrder DEF IInv

LEMMA Inductive == Spec => []IInv
  BY InitInv, NextInv, PTL DEF Spec

\* Every variable of the pool, of the camera and of the pipeline stays in its
\* type: no index leaves the ring or the pool.
THEOREM TypeCorrect == Spec => []TypeOK
  BY Inductive, PTL DEF IInv

\* hub_mem_pool_release signals under the mutex hub_mem_pool_acquire waits with:
\* no thread sleeps past a block that has become free.
THEOREM PoolWakeup == Spec => []NoLostWakeup
  BY Inductive, PTL DEF IInv, PoolInv

\* Up to hub_mem_pool_release's late reset of a count, a block's count says
\* exactly in how many hands it is.
THEOREM CountsAreHolders == Spec => []CountIsHolders
  BY Inductive, PTL DEF IInv

\* And then no block is in two hands, which is what the pool is for.
THEOREM HeldOnce == Spec => [](raced = {} /\ ~Stopped => BlockExclusive)
  <1>1. ASSUME IInv PROVE raced = {} /\ ~Stopped => BlockExclusive
    BY <1>1, InOneHand, HoldersAre DEF BlockExclusive
  <1> QED
    BY <1>1, Inductive, PTL

\* The frame on_frame is called with has the header of the pixels in its block,
\* and the camera's buffer is not the driver's while it is read.
THEOREM ShownIntact == Spec => []FrameIntact
  <1>1. ASSUME IInv PROVE FrameIntact
    <2>1. renPc = "frame" => renBlk \in Block
      BY <1>1, InHand
    <2> QED
      BY <1>1, <2>1 DEF IInv, PixelInv, CameraInv, FrameIntact
  <1> QED
    BY <1>1, Inductive, PTL

\* The counters of hub_video_pipeline add up at every step of every thread.
THEOREM FramesAddUp == Spec => []FrameAccounting
  BY Inductive, PTL DEF IInv, AccountInv

\* queue_push and hub_video_pipeline_stop wake the render thread.
THEOREM NoRenderSleep == Spec => []RenderWakeup
  BY Inductive, PTL DEF IInv, StageInv

\* hub_video_pipeline_stop frees what both threads have left.
THEOREM FreedLast == Spec => []FreedAfterUse
  <1>1. ASSUME IInv PROVE FreedAfterUse
    BY <1>1 DEF IInv, StageInv, Stopped, PoolInv, FreedAfterUse
  <1> QED
    BY <1>1, Inductive, PTL

\* After hub_video_pipeline_stop every block and the camera are given back,
\* raced or not.
THEOREM ReturnedAll == Spec => []AllReturned
  <1>1. ASSUME IInv PROVE AllReturned
    <2>1. mainPc \in {"shutdown", "gone"} => \A b \in Block : refs[b] = 0
      BY <1>1, StoppedFree DEF Stopped
    <2> QED
      BY <1>1, <2>1 DEF IInv, CameraInv, CamInv, AllReturned
  <1> QED
    BY <1>1, Inductive, PTL

\* on_frame is called with frames in the order of their capture, none twice.
THEOREM InCaptureOrder == Spec => ShownInOrder
  <1>1. ASSUME IInv, [Next]_vars, raced' = {}, rendered' # rendered PROVE shown' > shown
    <2>1. RenderShow
      <3>1. CASE Capture
        BY <1>1, <3>1, CaptureKeeps
      <3>2. CASE Render
        BY <1>1, <3>2 DEF Render, RenderLoop, RenderPop, RenderTimeout, RenderHeader, RenderRelease,
           RenderReleaseStep, RenderReleased, render
      <3>3. CASE MainStop \/ StopRequest \/ Exited \/ UNCHANGED vars
        BY <1>1, <3>3 DEF MainStop, StartPriv, StartCamera, StartCapture, StartRender, StopFlag, StopBroadcast,
           JoinCapture, JoinRender, DrainSlot, DrainRelease, DrainReleased, StopEnd, MainShutdown, StopRequest,
           Exited, vars, workers, render
      <3> QED
        BY <1>1, <3>1, <3>2, <3>3 DEF Next
    <2>2. raced = {} /\ ~Stopped
      BY <1>1, <2>1, RacedGrows DEF RenderShow, IInv, StageInv
    <2>3. shown < Latest /\ shown' = Latest /\ shown \in Nat /\ Latest \in Nat
      BY <1>1, <2>1, <2>2, TypeParts DEF RenderShow, IInv, OrderInv, Ordered, Latest, Numbers
    <2> QED
      BY <2>3
  <1>2. ASSUME IInv, [Next]_vars PROVE [raced' = {} /\ rendered' # rendered => shown' > shown]_vars
    BY <1>1, <1>2
  <1> QED
    BY <1>2, Inductive, PTL DEF Spec, ShownInOrder

-------------------------------------------------------------------------------
(* The pipeline is a line of frames.                                        *)

LEMMA OpenPhase ==
  Phase = "open" <=> raced = {} /\ ~Stopped
  BY DEF Phase

LEMMA OpenPhaseNext ==
  Phase' = "open" <=> raced' = {} /\ ~Stopped'
  BY DEF Phase

\* The line, one frame after the other.
LEMMA LineIs ==
  Phase = "open" => Line = [i \in 1..q_count |-> Number(i - 1)]
  BY DEF Line

LEMMA LineNext ==
  Phase' = "open" => Line' = [i \in 1..q_count' |-> Number(i - 1)']
  BY DEF Line

\* A stopped pipeline stays so, and shows and captures nothing.
LEMMA StoppedStays ==
  ASSUME IInv, [Next]_vars, Stopped
  PROVE  Stopped' /\ UNCHANGED <<seq, shown, drop_queue, capPc>>
  <1>1. ~Capture /\ ~Render
    BY CaptureKeeps, RenderKeeps
  <1>2. CASE MainStop \/ StopRequest
    BY <1>2, ReleaseStepPlace, TypeParts DEF IInv, StageInv, MainStop, StartPriv, StartCamera, StartCapture,
       StartRender, StopFlag, StopBroadcast, JoinCapture, JoinRender, DrainSlot, DrainRelease, DrainReleased,
       StopEnd, MainShutdown, StopRequest, Stopped, control, workers, stats, capture, render
  <1>3. CASE Exited \/ UNCHANGED vars
    BY <1>3 DEF Exited, vars, Stopped, control, stats, capture, render
  <1> QED
    BY <1>1, <1>2, <1>3 DEF Next

\* The stop is the last join; nobody is in the line's way.
LEMMA Stopping ==
  ASSUME IInv, [Next]_vars, ~Stopped, Stopped'
  PROVE  /\ UNCHANGED <<seq, shown, drop_queue, capPc, renPc>>
         /\ capPc \notin {"push", "drop"} /\ renPc \notin {"show", "frame"}
  <1>1. ~Capture /\ ~Render
    BY CaptureKeeps, RenderKeeps DEF control, Stopped
  <1>2. CASE MainStop \/ StopRequest
    BY <1>2, ReleaseStepPlace, TypeParts DEF IInv, StageInv, MainStop, StartPriv, StartCamera, StartCapture,
       StartRender, StopFlag, StopBroadcast, JoinCapture, JoinRender, DrainSlot, DrainRelease, DrainReleased,
       StopEnd, MainShutdown, StopRequest, Stopped, control, workers, stats, capture, render
  <1>3. CASE Exited \/ UNCHANGED vars
    BY <1>3 DEF Exited, vars, Stopped, control
  <1> QED
    BY <1>1, <1>2, <1>3 DEF Next

\* A step after which line, counters and the frame in hand are what they were.
LEMMA StreamStill ==
  ASSUME Phase = "open", Phase' = "open", q_count' = q_count,
         \A i \in 0..q_count-1 : Number(i)' = Number(i), q_count \in Nat,
         Picked' = Picked, Made' = Made, LastShown' = LastShown, Lost' = Lost
  PROVE  UNCHANGED Stream!vars
  <1>1. \A i \in 1..q_count : Number(i - 1)' = Number(i - 1)
    OBVIOUS
  <1>2. Line' = Line
    BY <1>1, LineIs, LineNext
  <1> QED
    BY <1>2 DEF Stream!vars

\* A line written out place by place.
LEMMA LineAppend ==
  ASSUME NEW n \in Nat, NEW L, NEW e, DOMAIN L = 1..n, L = [i \in 1..n |-> L[i]]
  PROVE  Append(L, e) = [i \in 1..n+1 |-> IF i = n + 1 THEN e ELSE L[i]]
  OBVIOUS

LEMMA LineTail ==
  ASSUME NEW n \in Nat, n > 0, NEW L, DOMAIN L = 1..n, L = [i \in 1..n |-> L[i]]
  PROVE  Tail(L) = [i \in 1..n-1 |-> L[i + 1]]
  OBVIOUS

LEMMA PushEnters ==
  ASSUME IInv, CapturePush, Phase = "open", Phase' = "open"
  PROVE  Stream!Enter
  <1>1. RingType /\ Numbers /\ Ordered /\ capPc = "push" /\ ~Stopped /\ Phase # "spoilt" /\ Phase' # "spoilt"
    BY OpenPhase, TypeParts DEF IInv, OrderInv, CapturePush
  <1>2. /\ q_count' = (IF QueueFull THEN q_count ELSE q_count + 1) /\ q_count' \in 1..QueueDepth
        /\ q_count \in 0..QueueDepth
        /\ \A i \in 0..q_count'-1 :
             Number(i)' = IF i = q_count' - 1 THEN seq ELSE Number(IF QueueFull THEN i + 1 ELSE i)
    BY <1>1, NumbersPushed DEF Ordered, RingType
  <1>3. /\ capPc' = IF QueueFull THEN "drop" ELSE Requeue
        /\ UNCHANGED <<seq, shown, drop_queue, renBlk, frameSeq, blkSeq>>
        /\ (renPc' = renPc \/ (renPc = "wait" /\ renPc' = "pop"))
    BY <1>1 DEF CapturePush, QueuePush, WakeRender, stats, blocks
  <1>4. Made' = Made + 1 /\ Made' = seq /\ LastShown' = LastShown /\ Picked' = Picked
    BY <1>1, <1>3 DEF Made, LastShown, Picked, Promised, Requeue, Numbers
  <1>5. Line = [i \in 1..q_count |-> Number(i - 1)] /\ Len(Line) = q_count
    BY <1>2, LineIs
  <1>6. Line' = [i \in 1..q_count' |-> Number(i - 1)']
    BY LineNext
  <1>7. CASE QueueFull
    <2>1. q_count = QueueDepth /\ q_count' = q_count
      BY <1>2, <1>7, QueueDepthAssumption DEF QueueFull
    <2>2. Lost' = Lost + 1
      BY <1>1, <1>3, <1>7 DEF Lost, Promised, Numbers
    <2>3. ASSUME NEW i \in 1..q_count PROVE Number(i - 1)' = IF i = q_count THEN seq ELSE Number(i)
      <3>1. i - 1 \in 0..q_count'-1 /\ (i - 1) + 1 = i /\ (i - 1 = q_count' - 1 <=> i = q_count)
        BY <1>2, <2>1
      <3> QED
        BY <1>2, <1>7, <3>1
    <2>4. Tail(Line) = [i \in 1..q_count-1 |-> Number(i)]
      <3>1. \A i \in 1..q_count-1 : Line[i + 1] = Number(i)
        BY <1>2, <1>5
      <3>2. Tail(Line) = [i \in 1..Len(Line)-1 |-> Line[i + 1]]
        BY <1>2, <1>5, <2>1, LineTail, QueueDepthAssumption
      <3> QED
        BY <1>5, <3>1, <3>2
    <2>5. Line' = Append(Tail(Line), seq)
      <3>1. Line' = [i \in 1..q_count |-> IF i = q_count THEN seq ELSE Number(i)]
        BY <1>6, <2>1, <2>3
      <3>2. Append(Tail(Line), seq) = [i \in 1..q_count |-> IF i = q_count THEN seq ELSE Number(i)]
        <4> DEFINE L == Tail(Line)
        <4>1. q_count - 1 \in Nat /\ (q_count - 1) + 1 = q_count
          BY <2>1, QueueDepthAssumption
        <4>2. DOMAIN L = 1..q_count-1 /\ \A i \in 1..q_count-1 : L[i] = Number(i)
          BY <2>4
        <4>3. L = [i \in 1..q_count-1 |-> L[i]]
          BY <2>4
        <4> HIDE DEF L
        <4>4. Append(L, seq) = [i \in 1..q_count |-> IF i = q_count THEN seq ELSE L[i]]
          BY <4>1, <4>2, <4>3, LineAppend
        <4>5. \A i \in 1..q_count : i # q_count => i \in 1..q_count-1
          BY <4>1
        <4>6. Append(L, seq) = [i \in 1..q_count |-> IF i = q_count THEN seq ELSE Number(i)]
          BY <4>2, <4>4, <4>5
        <4> QED
          BY <4>6 DEF L
      <3> QED
        BY <3>1, <3>2
    <2> QED
      BY <1>1, <1>4, <1>5, <2>1, <2>2, <2>5 DEF Stream!Enter
  <1>8. CASE ~QueueFull
    <2>1. q_count < QueueDepth /\ q_count' = q_count + 1
      BY <1>2, <1>8, QueueDepthAssumption DEF QueueFull
    <2>2. Lost' = Lost
      BY <1>1, <1>3, <1>8 DEF Lost, Promised, Requeue
    <2>3. ASSUME NEW i \in 1..q_count+1 PROVE Number(i - 1)' = IF i = q_count + 1 THEN seq ELSE Number(i - 1)
      <3>1. i - 1 \in 0..q_count'-1 /\ (i - 1 = q_count' - 1 <=> i = q_count + 1)
        BY <1>2, <2>1
      <3> QED
        BY <1>2, <1>8, <3>1
    <2>4. Line' = Append(Line, seq)
      <3>1. Line' = [i \in 1..q_count+1 |-> IF i = q_count + 1 THEN seq ELSE Number(i - 1)]
        BY <1>6, <2>1, <2>3
      <3>2. Append(Line, seq) = [i \in 1..q_count+1 |-> IF i = q_count + 1 THEN seq ELSE Number(i - 1)]
        BY <1>2, <1>5, LineAppend
      <3> QED
        BY <3>1, <3>2
    <2> QED
      BY <1>1, <1>4, <1>5, <2>1, <2>2, <2>4 DEF Stream!Enter
  <1> QED
    BY <1>7, <1>8

LEMMA PopPicks ==
  ASSUME IInv, RenderPop \/ RenderTimeout, PopOldest, Phase = "open", Phase' = "open"
  PROVE  Stream!Pick
  <1>1. RingType /\ Numbers /\ Ordered /\ ~Stopped /\ Phase # "spoilt" /\ Phase' # "spoilt"
    BY OpenPhase, TypeParts DEF IInv, OrderInv
  <1>2. /\ q_count \in 1..QueueDepth /\ q_count' = q_count - 1 /\ renPc \in {"pop", "wait"} /\ renPc' = "show"
        /\ renBlk' = queue[q_head] /\ UNCHANGED <<blocks, blkSeq, seq, shown, drop_queue, capPc>>
    BY <1>1 DEF RenderPop, RenderTimeout, PopOldest, RingType, stats, capture, blocks
  <1>3. Made' = Made /\ LastShown' = LastShown /\ Lost' = Lost
    BY <1>1, <1>2 DEF Made, LastShown, Lost, Promised
  <1>4. Line = [i \in 1..q_count |-> Number(i - 1)] /\ Len(Line) = q_count /\ Line # <<>>
    BY <1>2, LineIs
  <1>5. Picked = 0 /\ Picked' = Head(Line)
    <2>1. (q_head + 0) % QueueDepth = q_head
      BY <1>1, Place, QueueDepthAssumption DEF RingType, Slot
    <2>2. Picked' = Number(0)
      BY <1>2, <2>1 DEF Picked, Number, Nth
    <2> QED
      BY <1>2, <1>4, <2>2 DEF Picked
  <1>6. \A i \in 1..q_count-1 : Number(i - 1)' = Number(i)
    <2>1. ASSUME NEW i \in 1..q_count-1 PROVE Number(i - 1)' = Number(i)
      <3>1. i - 1 \in 0..q_count-2 /\ (i - 1) + 1 = i
        BY <1>2
      <3> QED
        BY <1>2, <3>1, NumbersPopped
    <2> QED
      BY <2>1
  <1>7. Line' = Tail(Line)
    <2>1. Tail(Line) = [i \in 1..q_count-1 |-> Line[i + 1]]
      BY <1>2, <1>4, LineTail
    <2>2. \A i \in 1..q_count-1 : Line[i + 1] = Number(i)
      BY <1>2, <1>4
    <2> QED
      BY <1>2, <1>6, <2>1, <2>2, LineNext
  <1> QED
    BY <1>3, <1>4, <1>5, <1>7 DEF Stream!Pick

LEMMA ShowShows ==
  ASSUME IInv, RenderShow, Phase = "open", Phase' = "open"
  PROVE  Stream!Show
  <1>1. RingType /\ Numbers /\ Ordered /\ Phase # "spoilt" /\ Phase' # "spoilt"
    BY OpenPhase, TypeParts DEF IInv, OrderInv
  <1>2. /\ renPc = "frame" /\ renPc' = "shown" /\ shown' = frameSeq
        /\ UNCHANGED <<ring, blkSeq, seq, drop_queue, capPc>>
    BY DEF RenderShow, stats, capture, blocks
  <1>3. Picked = frameSeq /\ frameSeq # 0 /\ Picked' = 0
    BY <1>1, <1>2 DEF Picked, Ordered, Latest, Numbers
  <1>4. Made' = Made /\ LastShown' = frameSeq /\ Lost' = Lost
    BY <1>1, <1>2 DEF Made, LastShown, Lost, Promised
  <1>5. q_count' = q_count /\ \A i : Number(i)' = Number(i)
    BY <1>2 DEF Number, Nth, ring
  <1>6. Line' = Line
    BY <1>5, LineIs, LineNext
  <1> QED
    BY <1>3, <1>4, <1>6 DEF Stream!Show

\* The other steps of the capture thread do not touch the line.
LEMMA CaptureStill ==
  ASSUME IInv, Capture, ~CapturePush, Phase = "open", Phase' = "open"
  PROVE  UNCHANGED Stream!vars
  <1>1. /\ StageInv /\ RingType /\ Numbers /\ PoolTypeOK /\ ~Stopped /\ raced = {} /\ Phase # "spoilt" /\ Phase' # "spoilt"
        /\ UNCHANGED <<renBlk, frameSeq, shown>> /\ (renPc' = renPc \/ (renPc = "wait" /\ renPc' = "pop"))
    BY TypeParts, CaptureKeeps, OpenPhase DEF IInv
  <1>2. UNCHANGED ring /\ q_count' = q_count /\ q_count \in Nat
    BY <1>1 DEF Capture, CaptureDequeue, CaptureEnqueue, CaptureSynthetic, CaptureExit, CaptureAcquire,
       CaptureNoBlock, CaptureFill, CaptureDrop, CaptureRelease, CaptureReleased, RingType, ring
  <1>3. CASE CaptureFill
    <2> DEFINE c == acqBlk["capture"]
    <2>1. c \in Filling /\ blkSeq' = [blkSeq EXCEPT ![c] = seq + 1] /\ seq' = seq + 1
          /\ capPc = "acquire" /\ capPc' = "push" /\ UNCHANGED <<renPc, drop_queue>>
      BY <1>1, <1>3 DEF CaptureFill, AcquireReturn, Filling, render
    <2>2. c \in Block /\ c \notin Showing /\ \A s \in QueuedSlots : queue[s] # c
      BY <1>1, <2>1, FillingAlone
    <2>3. Picked' = Picked
      BY <1>1, <2>1, <2>2 DEF Picked, Showing, Numbers
    <2>4. \A i \in 0..q_count-1 : Number(i)' = Number(i)
      BY <1>1, <1>2, <2>1, <2>2, NthQueued, NumberNext DEF Number, Nth, Numbers, ring
    <2>5. Made' = Made /\ LastShown' = LastShown /\ Lost' = Lost
      BY <1>1, <2>1 DEF Made, LastShown, Lost, Promised, Numbers
    <2> QED
      BY <1>2, <2>3, <2>4, <2>5, StreamStill
  <1>4. CASE ~CaptureFill
    <2>1. /\ UNCHANGED <<blkSeq, seq>> /\ (capPc' = "push" <=> capPc = "push")
          /\ drop_queue' + (IF capPc' = "drop" THEN 1 ELSE 0) = drop_queue + (IF capPc = "drop" THEN 1 ELSE 0)
      BY <1>1, <1>4, AcquireStepPlace, ReleaseStepPlace DEF Capture, CaptureDequeue, CaptureEnqueue, CaptureSynthetic,
         CaptureExit, CapturePush, CaptureAcquire, CaptureNoBlock, CaptureDrop, CaptureRelease, CaptureReleased,
         Requeue, StageInv, blocks, capture, stats, Numbers
    <2>2. Picked' = Picked
      BY <1>1, <2>1 DEF Picked
    <2>3. \A i : Number(i)' = Number(i)
      BY <1>2, <2>1 DEF Number, Nth, ring
    <2>4. Made' = Made /\ LastShown' = LastShown /\ Lost' = Lost
      BY <1>1, <2>1 DEF Made, LastShown, Lost, Promised
    <2> QED
      BY <1>2, <2>2, <2>3, <2>4, StreamStill
  <1> QED
    BY <1>3, <1>4

\* Nor do those of the render thread.
LEMMA RenderStill ==
  ASSUME IInv, Render, ~RenderShow, ~((RenderPop \/ RenderTimeout) /\ PopOldest),
         Phase = "open", Phase' = "open"
  PROVE  UNCHANGED Stream!vars
  <1>1. /\ RingType /\ Numbers /\ Phase # "spoilt" /\ Phase' # "spoilt"
        /\ UNCHANGED <<capPc, seq, blkSeq>>
    BY TypeParts, RenderKeeps DEF IInv, capture, blocks
  <1>2. /\ UNCHANGED <<ring, shown, drop_queue>>
        /\ \/ RenderHeader
           \/ /\ UNCHANGED <<renBlk, frameSeq>>
              /\ renPc' \in {"show", "frame"} => renPc' = renPc
              /\ renPc \in {"show", "frame"} => renPc' = renPc
    BY DEF Render, RenderLoop, RenderPop, RenderTimeout, PopNothing, RenderHeader, RenderRelease,
       RenderReleaseStep, RenderReleased, render, stats
  <1>3. Picked' = Picked
    <2>1. CASE RenderHeader
      BY <1>1, <2>1 DEF Picked, RenderHeader
    <2>2. CASE ~RenderHeader
      BY <1>1, <1>2, <2>2 DEF Picked
    <2> QED
      BY <2>1, <2>2
  <1>4. q_count' = q_count /\ q_count \in Nat /\ \A i : Number(i)' = Number(i)
    BY <1>1, <1>2 DEF Number, Nth, ring, RingType
  <1>5. Made' = Made /\ LastShown' = LastShown /\ Lost' = Lost
    BY <1>1, <1>2 DEF Made, LastShown, Lost, Promised
  <1> QED
    BY <1>3, <1>4, <1>5, StreamStill

LEMMA MainStill ==
  ASSUME IInv, MainStop \/ StopRequest \/ Exited \/ UNCHANGED vars, Phase = "open", Phase' = "open"
  PROVE  UNCHANGED Stream!vars
  <1>1. RingType /\ Phase # "spoilt" /\ Phase' # "spoilt" /\ ~Stopped /\ ~Stopped'
    BY TypeParts, OpenPhase, OpenPhaseNext DEF IInv
  <1>2. /\ UNCHANGED <<ring, blkSeq, seq, shown, drop_queue, frameSeq, renBlk>>
        /\ capPc' = capPc \/ (capPc \notin {"push", "drop"} /\ capPc' \notin {"push", "drop"})
        /\ renPc' = renPc \/ (renPc \notin {"show", "frame"} /\ renPc' \notin {"show", "frame"})
    <2>1. CASE MainStop \/ StopRequest
      BY <1>1, <2>1, ReleaseStepPlace, TypeParts DEF IInv, StageInv, MainStop, StartPriv, StartCamera,
         StartCapture, StartRender, StopFlag, StopBroadcast, JoinCapture, JoinRender, DrainSlot, DrainRelease,
         DrainReleased, StopEnd, MainShutdown, StopRequest, Stopped, WakeRender, workers, stats, blocks,
         capture, render
    <2>2. CASE Exited \/ UNCHANGED vars
      BY <2>2 DEF Exited, vars, stats, blocks, capture, render
    <2> QED
      BY <2>1, <2>2
  <1>3. Picked' = Picked
    BY <1>2 DEF Picked
  <1>4. q_count' = q_count /\ q_count \in Nat /\ \A i : Number(i)' = Number(i)
    BY <1>1, <1>2 DEF Number, Nth, ring, RingType
  <1>5. Made' = Made /\ LastShown' = LastShown /\ Lost' = Lost
    BY <1>1, <1>2 DEF Made, LastShown, Lost, Promised
  <1> QED
    BY <1>3, <1>4, <1>5, StreamStill

LEMMA StreamStep == IInv /\ [Next]_vars => [Stream!Next]_(Stream!vars)
  <1> SUFFICES ASSUME IInv, [Next]_vars PROVE Stream!Next \/ UNCHANGED Stream!vars
    OBVIOUS
  <1>1. raced \subseteq raced' /\ (Phase = "spoilt" <=> raced # {}) /\ (Phase' = "spoilt" <=> raced' # {})
    BY RacedGrows DEF Phase
  <1>2. CASE Phase = "spoilt"
    <2>1. Phase' = "spoilt"
      BY <1>1, <1>2
    <2> QED
      BY <1>2, <2>1 DEF Stream!vars, Line, Picked, Made, LastShown, Lost, Promised
  <1>3. CASE Phase # "spoilt" /\ Phase' = "spoilt"
    <2>1. Line' = <<>> /\ Picked' = 0 /\ Made' = 0 /\ LastShown' = 0 /\ Lost' = 0
      BY <1>3 DEF Line, Picked, Made, LastShown, Lost, Promised
    <2> QED
      BY <1>3, <2>1 DEF Stream!Next, Stream!Spoil
  <1>4. CASE Phase # "spoilt" /\ Phase' # "spoilt" /\ Stopped
    <2>1. Phase = "closed" /\ Phase' = "closed" /\ UNCHANGED <<seq, shown, drop_queue, capPc>>
      BY <1>4, StoppedStays DEF Phase
    <2> QED
      BY <2>1 DEF Stream!vars, Line, Picked, Made, LastShown, Lost, Promised
  <1>5. CASE Phase # "spoilt" /\ Phase' # "spoilt" /\ ~Stopped /\ Stopped'
    <2>1. /\ Phase = "open" /\ Phase' = "closed" /\ UNCHANGED <<seq, shown, drop_queue, capPc>>
          /\ renPc \notin {"show", "frame"}
      BY <1>5, Stopping DEF Phase
    <2>2. Picked = 0 /\ Picked' = 0 /\ Line' = <<>> /\ Made' = Made /\ LastShown' = LastShown /\ Lost' = Lost
      BY <2>1 DEF Line, Picked, Made, LastShown, Lost, Promised
    <2> QED
      BY <2>1, <2>2 DEF Stream!Next, Stream!Close
  <1>6. CASE Phase # "spoilt" /\ Phase' # "spoilt" /\ ~Stopped /\ ~Stopped'
    <2>1. Phase = "open" /\ Phase' = "open"
      BY <1>6 DEF Phase
    <2> QED
      BY <2>1, PushEnters, PopPicks, ShowShows, CaptureStill, RenderStill, MainStill DEF Next, Stream!Next
  <1> QED
    BY <1>2, <1>3, <1>4, <1>5, <1>6

\* The pipeline implements FrameStream: whatever the threads do, its user sees a
\* bounded line of frames which gives up its oldest one, counted, when full.
THEOREM StreamRefined == Spec => StreamSpec
  <1>1. Init => Stream!Init
    <2> SUFFICES ASSUME Init PROVE Stream!Init
      OBVIOUS
    <2>1. Phase = "open" /\ q_count = 0
      BY DEF Init, PoolInit, Phase, Stopped
    <2>2. Line = <<>>
      BY <2>1, LineIs
    <2> QED
      BY <2>1, <2>2 DEF Init, Stream!Init, Picked, Made, LastShown, Lost, Promised
  <1> QED
    BY <1>1, StreamStep, Inductive, PTL DEF Spec, StreamSpec, Stream!Spec

===============================================================================
