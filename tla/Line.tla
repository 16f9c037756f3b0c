-------------------------------- MODULE Line --------------------------------
(***************************************************************************)
(* What a live session promises of its sounds, whatever they wait for:     *)
(* they are settled (sent, dropped or stopped) in the order the runtime    *)
(* made them, and each is settled in the end.                              *)
(***************************************************************************)
EXTENDS Naturals

CONSTANT Burst      \* the most sounds one turn of the worker makes

VARIABLES made,     \* how many sounds the runtime has made
          settled   \* how many of them, the first ones, are settled

lineVars == <<made, settled>>

Init == made = 0 /\ settled = 0

Next ==
  /\ made' \in made..(made + Burst)
  /\ settled' \in settled..made'

Progress == settled < made /\ Next /\ settled' > settled

Spec == Init /\ [][Next]_lineVars /\ WF_lineVars(Progress)
=============================================================================
