------------------------------ MODULE FrameStream ------------------------------
(***************************************************************************)
(* What hub_video_pipeline_t promises to the caller of its on_frame: the   *)
(* frames captured stand in a line of bounded length, the one at its head  *)
(* is picked and shown, and each frame that finds the line full pushes the *)
(* oldest one out, which is counted.  Frames are numbered from 1.          *)
(*                                                                         *)
(* The promise holds until a block gets into two hands (`Spoil').          *)
(***************************************************************************)
EXTENDS Naturals, Sequences

CONSTANT Depth   \* the frames that may stand in line

VARIABLES phase,    \* "open", "closed" by the stop, or "spoilt"
          made,     \* the number of the last frame that came to the line
          line,     \* the frames in line
          picked,   \* the frame about to be shown, or 0
          shown,    \* the frame shown last, or 0
          lost      \* how many were pushed out

vars == <<phase, made, line, picked, shown, lost>>

Init == /\ phase = "open" /\ line = <<>> /\ picked = 0
        /\ made = 0 /\ shown = 0 /\ lost = 0

Enter ==
  /\ phase = "open"
  /\ made' = made + 1
  /\ \/ /\ Len(line) < Depth
        /\ line' = Append(line, made')
        /\ UNCHANGED lost
     \/ /\ Len(line) = Depth
        /\ line' = Append(Tail(line), made')
        /\ lost' = lost + 1
  /\ UNCHANGED <<phase, picked, shown>>

Pick ==
  /\ phase = "open" /\ picked = 0 /\ line # <<>>
  /\ picked' = Head(line) /\ line' = Tail(line)
  /\ UNCHANGED <<phase, made, shown, lost>>

Show ==
  /\ phase = "open" /\ picked # 0
  /\ shown' = picked /\ picked' = 0
  /\ UNCHANGED <<phase, made, line, lost>>

\* Frames still in line are never shown.
Close ==
  /\ phase = "open" /\ picked = 0
  /\ phase' = "closed" /\ line' = <<>>
  /\ UNCHANGED <<made, picked, shown, lost>>

\* From here on nothing is promised.
Spoil ==
  /\ phase # "spoilt"
  /\ phase' = "spoilt" /\ line' = <<>> /\ picked' = 0
  /\ made' = 0 /\ shown' = 0 /\ lost' = 0

Next == Enter \/ Pick \/ Show \/ Close \/ Spoil

Spec == Init /\ [][Next]_vars

===============================================================================
