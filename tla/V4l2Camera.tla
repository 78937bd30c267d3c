------------------------------ MODULE V4l2Camera ------------------------------
(***************************************************************************)
(* The camera of smart_home_hub/src/video/video_pipeline.c: open_v4l2,     *)
(* close_v4l2, and the buffers that go between the driver and the capture  *)
(* thread.  The driver is modelled from how the code uses it: any call may *)
(* fail, and STREAMOFF takes all buffers from its queue.                    *)
(***************************************************************************)
EXTENDS Integers, FiniteSets

CONSTANT BufCount    \* HUB_V4L2_BUF_COUNT

ASSUME BufCountAssumption == BufCount \in Nat /\ BufCount >= 2

VARIABLES
  camPc,       \* main in open_v4l2: the ioctl it is about to make
  fd,          \* priv->fd >= 0
  buf_count, mapped,   \* priv->buf_count, and the bufs that are mapped
  queued,      \* the buffers the driver may fill
  streaming,
  fits         \* the size the driver has chosen is no larger than a block

camVars == <<camPc, fd, buf_count, mapped, queued, streaming, fits>>

CamInit ==
  /\ camPc = "open" /\ fd = FALSE /\ buf_count = 0
  /\ mapped = {} /\ queued = {} /\ streaming = FALSE /\ fits = TRUE

\* open and QUERYCAP
CamOpen ==
  /\ camPc = "open"
  /\ \/ camPc' = "done" /\ UNCHANGED fd
     \/ camPc' \in {"format", "failed"} /\ fd' = TRUE
  /\ UNCHANGED <<buf_count, mapped, queued, streaming, fits>>

\* S_FMT: the driver may settle for another size, which is kept also when a
\* later call fails.
CamFormat ==
  /\ camPc = "format"
  /\ \/ camPc' = "request" /\ fits' \in BOOLEAN
     \/ camPc' = "failed" /\ UNCHANGED fits
  /\ UNCHANGED <<fd, buf_count, mapped, queued, streaming>>

\* REQBUFS: the driver may give fewer, but two at least are needed.
CamRequest ==
  /\ camPc = "request"
  /\ \/ camPc' = "map" /\ buf_count' \in 2..BufCount
     \/ camPc' = "failed" /\ UNCHANGED buf_count
  /\ UNCHANGED <<fd, mapped, queued, streaming, fits>>

\* QUERYBUF, mmap and QBUF of the next buffer.
CamMap ==
  LET i == Cardinality(mapped)
  IN  /\ camPc = "map" /\ i < buf_count
      /\ \/ camPc' = "failed" /\ UNCHANGED <<mapped, queued>>
         \/ camPc' = "failed" /\ mapped' = mapped \cup {i} /\ UNCHANGED queued
         \/ mapped' = mapped \cup {i} /\ queued' = queued \cup {i} /\ UNCHANGED camPc
      /\ UNCHANGED <<fd, buf_count, streaming, fits>>

CamStream ==
  /\ camPc = "map" /\ Cardinality(mapped) = buf_count
  /\ \/ camPc' = "done" /\ streaming' = TRUE
     \/ camPc' = "failed" /\ UNCHANGED streaming
  /\ UNCHANGED <<fd, buf_count, mapped, queued, fits>>

\* close_v4l2, which does nothing without a descriptor.  The mutant closes
\* the descriptor and leaves the buffers mapped.
CamReleaseMapped ==
  /\ fd' = FALSE /\ streaming' = FALSE /\ queued' = {}
  /\ UNCHANGED <<buf_count, mapped, fits>>

CamRelease ==
  /\ fd' = FALSE /\ streaming' = FALSE /\ queued' = {}
  /\ mapped' = IF fd THEN mapped \ (0..buf_count-1) ELSE mapped
  /\ UNCHANGED <<buf_count, fits>>

\* err_out
CamFailed == camPc = "failed" /\ camPc' = "done" /\ CamRelease

CamOpenStep == CamOpen \/ CamFormat \/ CamRequest \/ CamMap \/ CamStream \/ CamFailed

\* DQBUF gives buffer i to the capture thread...
CamDequeue(i) ==
  /\ streaming /\ i \in queued
  /\ queued' = queued \ {i}
  /\ UNCHANGED <<camPc, fd, buf_count, mapped, streaming, fits>>

\* ...and QBUF gives it back, unless it fails, which goes unnoticed.
CamEnqueue(i) ==
  /\ queued' \in {queued, queued \cup {i}}
  /\ UNCHANGED <<camPc, fd, buf_count, mapped, streaming, fits>>

CamTypeOK ==
  /\ camPc \in {"open", "format", "request", "map", "failed", "done"}
  /\ fd \in BOOLEAN /\ streaming \in BOOLEAN /\ fits \in BOOLEAN
  /\ buf_count \in 0..BufCount
  /\ mapped \subseteq 0..buf_count-1 /\ queued \subseteq mapped

\* Nothing of the camera is held.
CamReleased == ~fd /\ ~streaming /\ mapped = {} /\ queued = {}

===============================================================================
