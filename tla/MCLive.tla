------------------------------- MODULE MCLive -------------------------------
(***************************************************************************)
(* A session of two runs, one synthdef with a second version at a URL, and *)
(* one sample; a call of the runtime makes up to two sounds, of which each *)
(* needs the synthdef, both, or nothing (a control or a free).             *)
(***************************************************************************)
EXTENDS LiveCore

CONSTANTS d1, b1, u1, r1, r2

MCDefs == {d1}
MCBufs == {b1}
MCUrls == {u1}
MCRuns == {r1, r2}
MCNames == [r \in MCRuns |-> IF r = r1 THEN {d1} ELSE {}]
MCOutboxes == {<<>>, <<{d1}>>, <<{}, {d1}>>, <<{b1, d1}, {}>>}
=============================================================================
