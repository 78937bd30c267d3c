------------------------------ MODULE MediaPlayer ------------------------------
(***************************************************************************)
(* hub_media_player_t of smart_home_hub/src/media/media_player.c: at most  *)
(* one aplay process, forked by play and terminated by the next play or    *)
(* stop.                                                                   *)
(*                                                                         *)
(* mp->lock is held from the reap to the end of a call, so the calls are   *)
(* serial: mpPc is where the one that owns the lock is.                    *)
(***************************************************************************)
EXTENDS Integers, FiniteSets

CONSTANT Pids     \* process ids of players, positive numbers

ASSUME PidsAssumption == Pids \subseteq Nat \ {0}

VARIABLES
  pid,          \* mp->pid
  child,        \* the process table: "none", "alive" or "zombie"
  mpPc, mpOp    \* the call: where it is, "play" or "stop"

mediaVars == <<pid, child, mpPc, mpOp>>

NoPid == -1

MediaInit ==
  /\ pid = NoPid
  /\ child = [p \in Pids |-> "none"]
  /\ mpPc = "idle" /\ mpOp = "stop"

\* hub_media_player_play and _stop up to the lock; a play without a file named
\* or configured returns at once.
MediaCall(op) ==
  /\ mpPc = "idle"
  /\ mpPc' = "reap" \/ (op = "play" /\ mpPc' = "done")
  /\ mpOp' = op
  /\ UNCHANGED <<pid, child>>

AfterKill == IF mpOp = "play" THEN "fork" ELSE "done"

\* A mutant: play does not end the player that still plays.
ReapOnly ==
  /\ mpPc = "reap"
  /\ IF pid # NoPid /\ child[pid] = "zombie"
     THEN child' = [child EXCEPT ![pid] = "none"] /\ pid' = NoPid
     ELSE UNCHANGED <<pid, child>>
  /\ mpPc' = AfterKill
  /\ UNCHANGED mpOp

\* reap_if_exited; a player that still plays gets SIGTERM.
Reap ==
  /\ mpPc = "reap"
  /\ IF pid # NoPid /\ child[pid] = "zombie"
     THEN /\ child' = [child EXCEPT ![pid] = "none"] /\ pid' = NoPid
          /\ mpPc' = AfterKill
     ELSE /\ mpPc' = IF pid = NoPid THEN AfterKill ELSE "wait"
          /\ UNCHANGED <<pid, child>>
  /\ UNCHANGED mpOp

\* waitpid without WNOHANG, after the SIGTERM.
WaitChild ==
  /\ mpPc = "wait" /\ child[pid] = "zombie"
  /\ child' = [child EXCEPT ![pid] = "none"] /\ pid' = NoPid
  /\ mpPc' = AfterKill
  /\ UNCHANGED mpOp

Fork ==
  /\ mpPc = "fork"
  /\ \/ \E p \in Pids : /\ child[p] = "none"
                        /\ child' = [child EXCEPT ![p] = "alive"]
                        /\ pid' = p
     \/ UNCHANGED <<pid, child>>
  /\ mpPc' = "done"
  /\ UNCHANGED mpOp

MediaStep == Reap \/ WaitChild \/ Fork

MediaReturn ==
  /\ mpPc = "done"
  /\ mpPc' = "idle" /\ mpOp' = "stop"
  /\ UNCHANGED <<pid, child>>

\* aplay ends: the sound is over, it has failed, or it has got SIGTERM.
ChildExit ==
  /\ \E p \in Pids : /\ child[p] = "alive"
                     /\ child' = [child EXCEPT ![p] = "zombie"]
  /\ UNCHANGED <<pid, mpPc, mpOp>>

-------------------------------------------------------------------------------

MediaTypeOK ==
  /\ pid \in Pids \cup {NoPid}
  /\ child \in [Pids -> {"none", "alive", "zombie"}]
  /\ mpPc \in {"idle", "reap", "wait", "fork", "done"}
  /\ mpOp \in {"play", "stop"}

\* There is never a second player, nor a process nobody will wait for: the
\* player in the process table is the one in mp->pid, and the id there is
\* still its own.
OnePlayer == \A p \in Pids : child[p] # "none" <=> p = pid

\* Why, as an inductive invariant: a call forks, or a stop returns, only after
\* the player before has been waited for.
PlayerInv ==
  /\ OnePlayer
  /\ mpPc = "wait" => pid # NoPid
  /\ mpPc = "fork" => pid = NoPid /\ mpOp = "play"
  /\ mpPc = "done" /\ mpOp = "stop" => pid = NoPid

===============================================================================
