---------------------------- MODULE MCDebugService ----------------------------
(***************************************************************************)
(* DebugToolkit for TLC: two clients that may be served at once, and one   *)
(* plugin more than there are slots.                                        *)
(***************************************************************************)
EXTENDS DebugToolkit

===============================================================================
