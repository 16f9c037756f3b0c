----------------------------- MODULE TimeState -----------------------------
(***************************************************************************)
(* What the Time State promises a thread that syncs, whatever the history  *)
(* looks like inside: a board of events, and for every thread the logical  *)
(* moment it has reached.  A sync moves the thread forward to an event on  *)
(* the board that comes after that moment and is asked for, and jumps over *)
(* an event it asked for only where one it did not ask for came first on   *)
(* the same path.  A thread's time never goes back.  Its moment may, among *)
(* those of one time: after a sleep of nothing the same event can release  *)
(* it again.  EventHistory implements this specification.                  *)
(***************************************************************************)
EXTENDS Integers

CONSTANTS Threads, Paths, Patterns, Finds, Vals, Matchers,
          Time   \* the time of each moment, a function

VARIABLES board,   \* the events that can still be found
          moment,  \* [Threads -> the logical moment a thread has reached]
          asking   \* what a thread in sync asks for: a pattern and the values
                   \* it accepts, or <<>> outside sync

vars == <<board, moment, asking>>

Event == [id : Nat, path : Paths, at : Nat, val : Vals]

\* The events a thread could be released by.
Awaited(t) == {e \in board : /\ e.path \in Finds[asking[t][1]]
                             /\ e.at > moment[t]
                             /\ e.val \in asking[t][2]}

Init == /\ board = {}
        /\ moment \in [Threads -> DOMAIN Time]
        /\ asking = [t \in Threads |-> <<>>]

\* At most one event is added, after all the others; what is forgotten to make
\* room is no later than anything that stays on the same path, and something
\* stays.
Post == /\ board' \subseteq board \cup Event
        /\ \A e, f \in board' \ board : e = f
        /\ \A e \in board' \ board, f \in board : f.id < e.id
        /\ \A f \in board \ board' :
             /\ \E g \in board' : g.path = f.path
             /\ \A g \in board' : g.path = f.path => f.at <= g.at
        /\ UNCHANGED <<moment, asking>>

\* A thread's own clock: sleep, outside sync.
Pass(t) == /\ asking[t] = <<>>
           /\ moment'[t] \in DOMAIN Time /\ Time[moment'[t]] >= Time[moment[t]]
           /\ moment' = [moment EXCEPT ![t] = moment'[t]]
           /\ UNCHANGED <<board, asking>>

Ask(t) == /\ asking[t] = <<>>
          /\ \E pat \in Patterns, ok \in Matchers : asking' = [asking EXCEPT ![t] = <<pat, ok>>]
          /\ UNCHANGED <<board, moment>>

\* An event may be jumped over behind one with a value not accepted: the search
\* of a path ends there.
Hidden(t, f) == \E g \in board : /\ g.path = f.path
                                 /\ moment[t] < g.at /\ g.at <= f.at
                                 /\ g.val \notin asking[t][2]

\* The earliest event asked for releases a thread, and sets its clock.
Release(t) == /\ asking[t] # <<>>
              /\ \E e \in Awaited(t) : /\ \A f \in Awaited(t) : f.at < e.at => Hidden(t, f)
                                       /\ Time[e.at] >= Time[moment[t]]
                                       /\ moment' = [moment EXCEPT ![t] = e.at]
              /\ asking' = [asking EXCEPT ![t] = <<>>]
              /\ UNCHANGED board

\* A thread that dies in sync: its clock stands still.
Leave(t) == /\ asking[t] # <<>>
            /\ asking' = [asking EXCEPT ![t] = <<>>]
            /\ UNCHANGED <<board, moment>>

Next == Post \/ \E t \in Threads : Pass(t) \/ Ask(t) \/ Release(t) \/ Leave(t)

Spec == Init /\ [][Next]_vars
=============================================================================
