--------------------------- MODULE MCLogicAnalyzer ---------------------------
(***************************************************************************)
(* LogicAnalyzer for TLC: one channel, batches of one and two samples and  *)
(* a ring buffer that holds one sample.                                     *)
(***************************************************************************)
EXTENDS LogicAnalyzer

===============================================================================
