----------------------------- MODULE MCSumpServer -----------------------------
(***************************************************************************)
(* SumpServer for TLC: two clients, three channels, parameters modulo 16,  *)
(* and for each setting values at the edges: the divider and the read      *)
(* count that wrap, a mask of two channels, a mode that does not fit an     *)
(* octet and one that is not known.                                         *)
(***************************************************************************)
EXTENDS SumpServer, TLC

MCOffered == [divider |-> {2, 15}, read_count |-> {2, 15}, trigger_mask |-> {6},
              trigger_value |-> {2, 12}, trigger_mode |-> {5, 9}]

Symmetry == Permutations(Clients)

===============================================================================
