----------------------------- MODULE PathMatch -----------------------------
(***************************************************************************)
(* How Sonic Pi decides whether an event path such as /foo/bar/baz is      *)
(* named by a pattern.  The code decides it twice:                         *)
(*                                                                         *)
(*   - EventHistory walks a tree with one node per path segment            *)
(*     (get_w_mutex, __get, matching_ancestors): that is how get, and the  *)
(*     two lookups of sync, find an event;                                 *)
(*   - EventMatcher turns the whole pattern into one regular expression:   *)
(*     that is how a new event wakes a thread sleeping in sync.            *)
(*                                                                         *)
(* A path is a sequence of names, any of them but the last perhaps empty.  *)
(* A pattern is a sequence of segments: a segment is DoubleStar, which     *)
(* spans several names, or has the set of the names it stands for in the   *)
(* tree (names: one for a literal, all of them for a "*") and the texts    *)
(* its piece of the one expression accepts, cut into names at their        *)
(* slashes (spells).  Mostly these are its names again.  But "?" becomes   *)
(* "." and "[!x]" becomes "[^x]", and both match a slash too: "f?o" spells *)
(* <<f, o>>, and "?oo" spells <<Empty, oo>>.  A "*" after a "." is not     *)
(* translated: "x.*" spells no name that it stands for in the tree.        *)
(*                                                                         *)
(* Left out: paths and patterns that end in a slash, and patterns with a   *)
(* "," outside braces, of which the expression makes two alternatives.     *)
(***************************************************************************)
EXTENDS Naturals, Sequences

CONSTANTS Names,        \* the names of path segments
          Empty,        \* the one with no characters
          DoubleStar,   \* the pattern segment "**"
          Asked,        \* the patterns that gets and syncs ask for
          Present       \* the paths of the events there are

Segments == {DoubleStar} \cup [names : SUBSET Names, spells : SUBSET Seq(Names)]

\* What does not end in a slash.
ProperPath(path) == path # <<>> /\ path[Len(path)] # Empty
ProperPattern(pat) ==
  pat # <<>> /\ (pat[Len(pat)] = DoubleStar \/ pat[Len(pat)].names # {Empty})

ASSUME NamesAssumption == Empty \in Names
ASSUME AskedAssumption == /\ Asked \subseteq Seq(Segments) /\ \A pat \in Asked : ProperPattern(pat)
                          /\ Present \subseteq Seq(Names) /\ \A p \in Present : ProperPath(p)

IsDeep(pat, i) == i \in DOMAIN pat /\ pat[i] = DoubleStar

\* The depths of the nodes on a path, the root's first.
Depths(path) == 0 .. Len(path)

\* Those whose child on the path is named by segment i of the pattern, and in S.
Above(pat, path, i, S) ==
  {d \in Depths(path) : d < Len(path) /\ path[d + 1] \in pat[i].names /\ d + 1 \in S}

\* Mutant: matching_ancestors looks at children only.
Children(path, S) == S

\* matching_ancestors: a parent from S is here or further down.
Ancestors(path, S) == {d \in Depths(path) : \E k \in S : d <= k}

(***************************************************************************)
(* The tree search.  below[i] are the depths on the path from whose nodes  *)
(* the search reaches the path's own node with the segments from i on      *)
(* (__get).  Of neighbouring "**" only the last counts (get_w_mutex).  A   *)
(* final "**" looks at every node strictly below the current one           *)
(* (next_ancestor_event); any other goes to every node below it, at any    *)
(* depth, that the following segment names (matching_ancestors).           *)
(***************************************************************************)
Below(pat, path, below, i) ==
  CASE i > Len(pat) -> {Len(path)}
    [] IsDeep(pat, i) /\ i = Len(pat) -> {d \in Depths(path) : d < Len(path)}
    [] IsDeep(pat, i) /\ IsDeep(pat, i + 1) -> below[i + 1]
    [] IsDeep(pat, i) /\ i < Len(pat) /\ ~IsDeep(pat, i + 1) ->
         Ancestors(path, Above(pat, path, i + 1, below[i + 2]))
    [] OTHER -> Above(pat, path, i, below[i + 1])

TreeFinds(pat, path) ==
  LET below[i \in 1 .. Len(pat) + 1] == Below(pat, path, below, i)
  IN  0 \in below[1]

(***************************************************************************)
(* The regular expression of EventMatcher.  The leading slash is removed   *)
(* before "/**/" and a final "/**" are rewritten to "/.*", so a "**" that  *)
(* opens the pattern is not rewritten and neither is one whose left slash  *)
(* the rewriting of its neighbour has just consumed: those are left to the *)
(* rule for "*", take exactly one name, and that may be Empty.  ".*"       *)
(* between two slashes, or after the last one, spans one name or more.     *)
(*                                                                         *)
(* A path keeps its leading slash, and the expression begins with "/?": it *)
(* is read after that slash or, where its first segment can be empty, with *)
(* the empty name before it.                                               *)
(***************************************************************************)
Rewritten(pat, mid, i) == i > 1 /\ i < Len(pat) /\ IsDeep(pat, i) /\ ~mid[i - 1]

Spans(pat) ==
  LET mid[i \in 0 .. Len(pat)] == Rewritten(pat, mid, i)
  IN  {i \in 2 .. Len(pat) : IsDeep(pat, i) /\ (mid[i] \/ i = Len(pat))}

\* Mutant: the slash before "**" is made optional with it.
SomeOrNone(text, S) == {d \in Depths(text) : \E k \in S : d <= k}

\* ".*" after a slash.
Some(text, S) == {d \in Depths(text) : \E k \in S : d < k}

\* The piece of segment i accepts the names from d to k.
Spelled(pat, text, i, S) ==
  {d \in Depths(text) : \E k \in S : d < k /\ SubSeq(text, d + 1, k) \in pat[i].spells}

\* rest[i] are the depths after which the expression matches what is left of
\* the text with what is left of the pattern from segment i on.
Rest(pat, text, rest, i) ==
  CASE i > Len(pat) -> {Len(text)}
    [] i \in Spans(pat) -> Some(text, rest[i + 1])
    [] IsDeep(pat, i) /\ i \notin Spans(pat) -> {d \in Depths(text) : d + 1 \in rest[i + 1]}
    [] OTHER -> Spelled(pat, text, i, rest[i + 1])

Reads(pat, text) ==
  LET rest[i \in 1 .. Len(pat) + 1] == Rest(pat, text, rest, i)
  IN  0 \in rest[1]

MatcherMatches(pat, path) == Reads(pat, path) \/ Reads(pat, <<Empty>> \o path)

(***************************************************************************)
(* What the tutorial promises of a pattern (10.3, Pattern Matching): each  *)
(* segment stands for one name of the path, in order, and a "**" followed  *)
(* by further segments for any number of names, none included.  At[i] is   *)
(* the number of names the first i segments take.                          *)
(***************************************************************************)
Takes(pat, path, At, i) ==
  IF IsDeep(pat, i)
  THEN At[i] >= At[i - 1] + (IF i = Len(pat) THEN 1 ELSE 0)
  ELSE At[i] = At[i - 1] + 1 /\ path[At[i]] \in pat[i].names

Describes(pat, path) ==
  \E At \in [0 .. Len(pat) -> Depths(path)] :
    /\ At[0] = 0 /\ At[Len(pat)] = Len(path)
    /\ \A i \in 1 .. Len(pat) : Takes(pat, path, At, i)

\* The same, with every "**" taking one name at least.
EachTakesOne(pat, path) ==
  \E At \in [0 .. Len(pat) -> Depths(path)] :
    /\ At[0] = 0 /\ At[Len(pat)] = Len(path)
    /\ \A i \in 1 .. Len(pat) :
         /\ At[i] > At[i - 1]
         /\ IsDeep(pat, i) \/ Takes(pat, path, At, i)

Alone(S) == {<<n>> : n \in S}

\* No segment of the pattern has a character that matches a slash, and the first
\* cannot be an empty name: it is no "*".
Plain(pat) ==
  /\ \A i \in 1 .. Len(pat) : IsDeep(pat, i) \/ pat[i].spells \subseteq Alone(pat[i].names)
  /\ pat # <<>> => IsDeep(pat, 1) \/ Empty \notin pat[1].names

\* The expression accepts every name a segment stands for in the tree.
Exact(pat) ==
  \A i \in 1 .. Len(pat) : IsDeep(pat, i) \/ Alone(pat[i].names) \subseteq pat[i].spells

BetweenNamed(pat) == \A i \in 1 .. Len(pat) : IsDeep(pat, i) =>
                       /\ i > 1 /\ i < Len(pat)
                       /\ ~IsDeep(pat, i - 1) /\ ~IsDeep(pat, i + 1)

(***************************************************************************)
(* How the readings of what is asked for, over the paths there are, agree. *)
(***************************************************************************)
SearchAgrees == \A pat \in Asked, p \in Present : TreeFinds(pat, p) <=> Describes(pat, p)

MatcherIsFound == \A pat \in Asked, p \in Present :
                    Plain(pat) /\ MatcherMatches(pat, p) => TreeFinds(pat, p)

MatcherTakesOne == \A pat \in Asked, p \in Present :
                     BetweenNamed(pat) /\ Plain(pat) /\ Exact(pat) =>
                       (MatcherMatches(pat, p) <=> EachTakesOne(pat, p))
=============================================================================
