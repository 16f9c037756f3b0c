------------------------------- MODULE Loader -------------------------------
(***************************************************************************)
(* What a live session loads before it can sound: synthdefs, by name and   *)
(* for some from a URL, and samples into numbered buffers.  The runtime's  *)
(* worker asks (RemoteLoader), the page loads (WorkerSession and Bridge)   *)
(* and answers by name: a load is under way from the asking to the answer  *)
(* heard.  Loads of one name may end in any order.                         *)
(***************************************************************************)
EXTENDS Naturals, Sequences, SequencesExt

CONSTANTS Defs, Bufs,   \* synthdef names, buffer numbers
          Urls, Own,    \* where a program may load a synthdef from, or its own place
          MaxAsks       \* bound: how often one thing is asked for

Things == Defs \cup Bufs
Nothing == "nothing"

ASSUME LoaderAssumption == /\ Defs \cap Bufs = {}
                           /\ Own \notin Urls /\ Nothing \notin Urls \cup {Own}
                           /\ MaxAsks \in Nat

VARIABLES asks,      \* [Things -> Seq of promises]: the last is the thing's
          unanswered,\* things whose last promise is still to be resolved (#waiting)
          url,       \* [Defs -> the URL last asked for]
          loading,   \* loads under way: [thing, from]
          engine,    \* [Things -> what the engine last loaded under this name, or Nothing]
          freed      \* buffers freed

loaderVars == <<asks, unanswered, url, loading, engine, freed>>

Promises == {"pending", "ok", "failed"}

Made == UNION {{x} \X DOMAIN asks[x] : x \in Things}    \* the promises made

LoaderTypeOK ==
  /\ asks \in [Things -> Seq(Promises)]
  /\ unanswered \subseteq {x \in Things : asks[x] # <<>>}
  /\ url \in [Defs -> Urls \cup {Own}]
  /\ \A l \in loading : <<l.thing, l.nth>> \in Made /\ l.from \in Urls \cup {Own}
  /\ engine \in [Things -> Urls \cup {Own, Nothing}]
  /\ freed \in SUBSET Bufs

LoaderInit ==
  /\ asks = [x \in Things |-> <<>>]
  /\ unanswered = {}
  /\ url = [d \in Defs |-> Own]
  /\ loading = {}
  /\ engine = [x \in Things |-> Nothing]
  /\ freed = {}

-----------------------------------------------------------------------------
(* a thing's promise is its last: a URL's replaces the one before           *)

State(a, x) == IF a[x] = <<>> THEN Nothing ELSE Last(a[x])

(* Mutant: what was loaded into a freed buffer is still asked of it.        *)
IsReadyFreed(a, need) == \A x \in need : x \notin freed /\ State(a, x) = "ok"

(* synthDefReady, bufferReady: a buffer freed is no longer waited on        *)
IsReady(a, need) == \A x \in need : x \in freed \/ State(a, x) = "ok"

(* what a sound waiting for its loads awaits                                *)
Awaits(a, need) == {<<x, Len(a[x])>> : x \in need \ freed}
Settled(a, on) == \A p \in on : a[p[1]][p[2]] # "pending"

(* synthDef, loadBuffer: asked for once, whatever came of it                *)
Unasked(X) == {x \in X : asks[x] = <<>>}
Asked(X) == [x \in Things |-> IF x \in Unasked(X) THEN <<"pending">> ELSE asks[x]]
Ask(X) ==
  /\ asks' = Asked(X)
  /\ unanswered' = unanswered \cup Unasked(X)
  /\ loading' = loading \cup {[thing |-> x, from |-> Own, nth |-> 1] : x \in Unasked(X)}
  /\ UNCHANGED <<url, engine, freed>>

(* synthDefUrl: another URL under the same name starts over                 *)
AskUrl(d, u) ==
  /\ url[d] # u
  /\ Len(asks[d]) < MaxAsks
  /\ url' = [url EXCEPT ![d] = u]
  /\ asks' = [asks EXCEPT ![d] = Append(@, "pending")]
  /\ unanswered' = unanswered \cup {d}
  /\ loading' = loading \cup {[thing |-> d, from |-> u, nth |-> Len(asks[d]) + 1]}
  /\ UNCHANGED <<engine, freed>>

(* the answer says the name, not which load: it resolves the last promise   *)
Answered(l, said) ==
  IF l.thing \in unanswered
    THEN [asks EXCEPT ![l.thing][Len(asks[l.thing])] = said]
    ELSE asks
Answer(l, said) ==
  /\ asks' = Answered(l, said)
  /\ unanswered' = unanswered \ {l.thing}
  /\ loading' = loading \ {l}
  /\ engine' = IF said = "ok" THEN [engine EXCEPT ![l.thing] = l.from] ELSE engine
  /\ UNCHANGED <<url, freed>>

(* Mutant: the promise goes with the buffer.                                *)
FreeForgets(b) ==
  /\ b \notin freed /\ asks[b] # <<>>
  /\ freed' = freed \cup {b}
  /\ engine' = [engine EXCEPT ![b] = Nothing]
  /\ asks' = [asks EXCEPT ![b] = <<>>]
  /\ UNCHANGED <<unanswered, url, loading>>

(* freeBuffer: the engine lets it go                                        *)
Free(b) ==
  /\ b \notin freed /\ asks[b] # <<>>
  /\ freed' = freed \cup {b}
  /\ engine' = [engine EXCEPT ![b] = Nothing]
  /\ UNCHANGED <<asks, unanswered, url, loading>>
=============================================================================
