------------------------------- MODULE MCDeck -------------------------------
(***************************************************************************)
(* Two cards and the editor, two runs, Stops and an engine made again.     *)
(***************************************************************************)
EXTENDS Deck

CONSTANTS c1, c2, r1, r2
=============================================================================
