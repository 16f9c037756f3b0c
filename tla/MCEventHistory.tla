--------------------------- MODULE MCEventHistory ---------------------------
(***************************************************************************)
(* Instances of EventHistory: a run's thread t1, an in_thread t2 of it and *)
(* the handler sys of incoming messages, on two paths and a few patterns,  *)
(* while get may be asked for any pattern of up to four segments, in a     *)
(* history of any path of up to four names.                                *)
(***************************************************************************)
EXTENDS EventHistory

CONSTANTS a, b, none, star, t1, t2, sys

MCIds == [t \in Threads |-> CASE t = t1 -> <<3>> [] t = t2 -> <<3, 0>> [] t = sys -> <<-1>>]

\* A thread, an in_thread of it at the same time, a message a little later, and the
\* two threads at that time.
At(time, thread) == [time |-> time, priority |-> 0, thread |-> thread, delta |-> 0]
Moments == <<At(1, <<3>>), At(1, <<3, 0>>), At(2, <<-1>>), At(2, <<3>>), At(2, <<3, 0>>)>>
MCKeys == SubSeq(Moments, 1, MaxRank)

MCNames == {a, b, none}
MCPaths == {<<a>>, <<a, b>>}
Named(S) == [names |-> S, spells |-> Alone(S)]
AnyName == Named(MCNames)
MCPatterns == {<<star>>, <<Named({a}), star>>}
OnePattern == {<<star>>}

\* Segments a, {a,b}, *, ?b (of which a is a name) and b.* (of which b is one).
Query == [names |-> {a}, spells |-> {<<a>>, <<none, b>>}]
Untranslated == [names |-> {b}, spells |-> {}]
Lengths(S, n) == UNION {[1 .. k -> S] : k \in 1 .. n}
AllPatterns == Lengths({star, AnyName, Named({a}), Query}, 4)
                 \cup Lengths({star, AnyName, Named({a}), Named({a, b}), Untranslated}, 3)
AllPaths == Lengths({a, b}, 4) \cup {p \in Lengths(MCNames, 3) : ProperPath(p)}
=============================================================================
