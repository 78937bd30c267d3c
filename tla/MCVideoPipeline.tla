--------------------------- MODULE MCVideoPipeline ---------------------------
(***************************************************************************)
(* VideoPipeline for TLC.  One block more than the queue has slots is the  *)
(* smallest pool with which both the pool runs empty and the queue         *)
(* overflows; two blocks are enough for the race of memory_pool.c:138.     *)
(***************************************************************************)
EXTENDS VideoPipeline

===============================================================================
