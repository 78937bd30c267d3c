----------------------------- MODULE MCRingBuffer -----------------------------
(***************************************************************************)
(* Instances of RingBuffer for TLC.                                        *)
(*                                                                         *)
(* MCRingBuffer.cfg has the one consumer that ARCHITECTURE.md gives the    *)
(* buffer.  MCRingBufferReaders.cfg has the two that the program starts:   *)
(* main, whose loop calls edt_logic_analyzer_capture_blocking              *)
(* (src/main.c:157), and a SUMP client thread, which calls it for every    *)
(* ARM command (src/protocol/sump_server.c:185).                           *)
(***************************************************************************)
EXTENDS RingBuffer

CONSTANTS
  Requested,   \* the capacity_bytes that edt_ring_buffer_init is given
  main, sump_client  \* the threads that read

\* The capacity of the instance is the one the code would compute.
ASSUME InstanceCapacity == Capacity = RoundUpPow2(Requested)

===============================================================================
