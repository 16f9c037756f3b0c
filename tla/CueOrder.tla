------------------------------ MODULE CueOrder ------------------------------
(***************************************************************************)
(* The order of events: CueEvent compares their times, then priorities,    *)
(* then the ids of the threads that made them, then how many events those  *)
(* threads had made before (delta).  The id of a thread is the path to it  *)
(* in the tree of in_threads: the number of its run and, at each level,    *)
(* how many threads its parent had spawned before.  Ids of different       *)
(* lengths are compared, and the comparison walks along its left operand   *)
(* only.                                                                   *)
(***************************************************************************)
EXTENDS Integers, Sequences, FiniteSetsExt

\* What an event is compared by.  Times, rationals in the code, are whole here.
CueKeys == [time : Int, priority : Int, thread : Seq(Int), delta : Int]

Sign(x, y) == CASE x < y -> -1 [] x > y -> 1 [] x = y -> 0

\* Where ThreadId's loop over the elements of a returns.
Parts(a, b) == {i \in DOMAIN a : i > Len(b) \/ a[i] # b[i]}

CompareIds(a, b) ==
  LET i == Min(Parts(a, b))
  IN  IF Parts(a, b) = {} THEN (IF Len(b) > Len(a) THEN -1 ELSE 0)
      ELSE IF i > Len(b) THEN 1 ELSE Sign(a[i], b[i])

Compare(k, l) ==
  CASE k.time # l.time -> Sign(k.time, l.time)
    [] k.time = l.time /\ k.priority # l.priority -> Sign(k.priority, l.priority)
    [] OTHER -> LET threads == CompareIds(k.thread, l.thread)
                IN  IF threads # 0 THEN threads ELSE Sign(k.delta, l.delta)
=============================================================================
