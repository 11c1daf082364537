----------------------------- MODULE MCLazyUnion -----------------------------
(* Instance of LazyUnion: two keys, and containers of every kind on both sides of *)
(* the bounds, two of which make a full bitset or an empty one.                   *)
EXTENDS LazyUnion

Bitset(S) == BitsetOf(S, Cardinality(S))
Samples ==
    {ArrayOf({3}), ArrayOf({0, 2, 4, 6}), RunsAs(RunsOf(0..3)), RunsAs(FullRun),
     Bitset({0, 2, 4, 6, 8}), Bitset({0, 1, 3, 5, 7}), Bitset(Numbers)}

Contents ==
    {[k \in Keys |-> IF k = 0 THEN d ELSE Null] : d \in Samples \cup {Null}}
    \cup {[k \in Keys |-> IF k = 1 THEN d ELSE Null] : d \in {ArrayOf({3, 4}), RunsAs(FullRun)}}
    \cup {[k \in Keys |-> IF k = 0 THEN Bitset({0, 2, 4, 6, 8}) ELSE ArrayOf({3, 4})]}

Bitmaps(contents, flags) == [x \in DOMAIN contents |-> [at |-> contents[x], cow |-> flags[x]]]
MCLoads ==
    UNION {{Bitmaps(contents, flags) : contents \in [1..n -> Contents], flags \in [1..n -> BOOLEAN]} :
               n \in 0..2}
    \cup {Bitmaps(contents, flags) :
              contents \in [1..3 -> Contents],
              flags \in {<<TRUE, TRUE, TRUE>>, <<FALSE, FALSE, FALSE>>, <<TRUE, FALSE, TRUE>>}}
MCLists == {<<>>, <<1>>, <<1, 2>>, <<1, 2, 3>>, <<1, 2, 1>>, <<1, 2, 3, 4>>}
=============================================================================
