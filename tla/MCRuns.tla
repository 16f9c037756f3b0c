------------------------------- MODULE MCRuns -------------------------------
(***************************************************************************)
(* Instances of Runs, parts of one program: run j1 starts r1, which starts *)
(* b1 and c1, and c1 starts d1; run j2 starts r2, which starts c2.  With a *)
(* name, all threads ask for it.                                           *)
(***************************************************************************)
EXTENDS Runs

CONSTANTS j1, j2, r1, b1, c1, d1, r2, c2, x

MCParent == [t \in Threads |-> CASE t = r1 -> j1
                                 [] t \in {b1, c1} -> r1
                                 [] t = d1 -> c1
                                 [] t = r2 -> j2
                                 [] t = c2 -> r2]
MCJobOf == [t \in Threads |-> IF t \in {r2, c2} THEN j2 ELSE j1]
AllNamed == [t \in Threads |-> x]
NoneNamed == [t \in Threads |-> Nobody]
=============================================================================
