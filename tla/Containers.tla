------------------------------ MODULE Containers ------------------------------
(* One container of a bitmap, in the slot of its key, under the operations of  *)
(* roaring.c on that key.                                                      *)
EXTENDS ContainerKinds

VARIABLE c          \* the container in the slot, Null when the key is absent
-------------------------------------------------------------------------------
\* A container that has no number left is freed and its key removed.
Keep(d) == c' = IF CardOf(d) = 0 THEN Null ELSE d

Init == c = Null

\* roaring_bitmap_add and roaring_bitmap_remove.
Add(v) == Keep(IF c = Null THEN ArrayOf({v}) ELSE Plus(c, v))
Remove1(v) == c # Null /\ Keep(Minus(c, v))

\* roaring_bitmap_from_range, on a bitmap that is being made, and
\* roaring_bitmap_add_range_closed and roaring_bitmap_remove_range_closed.
MakeRange(low, high, step) == c = Null /\ Keep(FromRange(low, high, step))
AddClosed(low, high) ==
    Keep(IF c = Null THEN FromRange(low, high + 1, 1) ELSE PlusRange(c, low, high))
RemoveClosed(low, high) == c # Null /\ c' = MinusRange(c, low, high)

\* The in-place operations of roaring.c, with the container d of the other bitmap.
AndWith(d) == c # Null /\ Keep(And(c, d))
OrWith(d) == Keep(IF c = Null THEN d ELSE IF CardOf(c) = U THEN c ELSE InPlaceOr(c, d))
XorWith(d) == Keep(IF c = Null THEN d ELSE Xor(c, d))
AndNotWith(d) == c # Null /\ Keep(AndNot(c, d))

\* inplace_fully_flip_container and inplace_flip_container.
FlipAll == Keep(IF c = Null THEN RangeOfOnes(0, U) ELSE Not(c))
Flip(low, high) == Keep(IF c = Null THEN RangeOfOnes(low, high) ELSE NotRange(c, low, high))

\* roaring_bitmap_run_optimize and roaring_bitmap_remove_run_compression.
RunOptimize == c # Null /\ c' = Optimized(c)
RemoveRunCompression == c # Null /\ c' = WithoutRuns(c)

Next ==
    \/ \E v \in Numbers : Add(v) \/ Remove1(v)
    \/ \E low \in Numbers : \E high \in low..(U - 1) :
        \/ AddClosed(low, high)
        \/ RemoveClosed(low, high)
        \/ Flip(low, high + 1)
        \/ \E step \in 1..3 : MakeRange(low, high + 1, step)
    \/ \E d \in Operands : AndWith(d) \/ OrWith(d) \/ XorWith(d) \/ AndNotWith(d)
    \/ FlipAll
    \/ RunOptimize
    \/ RemoveRunCompression

Spec == Init /\ [][Next]_c
-------------------------------------------------------------------------------
\* The container is of a kind and of a size the library makes: an array has at most
\* MaxArray numbers and a bitset more, the cardinality a bitset carries is the number
\* of its numbers, and runs are in order and do not touch (array.h:27, and the
\* conversions of every operation).
WellFormed == c = Null \/ c \in Operands

\* Any operation on this container and any other one gives the numbers the set
\* operation gives, whichever pair of kinds it is computed on (containers.h).
ResultsExact ==
    c # Null => \A d \in Operands :
        /\ ValuesOf(And(c, d)) = ValuesOf(c) \cap ValuesOf(d)
        /\ ValuesOf(InPlaceOr(c, d)) = ValuesOf(c) \cup ValuesOf(d)
        /\ ValuesOf(Xor(c, d)) = SymDiff(ValuesOf(c), ValuesOf(d))
        /\ ValuesOf(AndNot(c, d)) = ValuesOf(c) \ ValuesOf(d)

\* Adding, removing or flipping a range, or one number, changes the numbers of the
\* range and no other; a conversion changes none (roaring.c, containers.h).
RangesExact ==
    c # Null =>
        /\ \A low \in Numbers : \A high \in low..(U - 1) :
            /\ ValuesOf(PlusRange(c, low, high)) = ValuesOf(c) \cup (low..high)
            /\ ValuesOf(MinusRange(c, low, high)) = ValuesOf(c) \ (low..high)
            /\ ValuesOf(NotRange(c, low, high + 1)) = SymDiff(ValuesOf(c), low..high)
        /\ \A v \in Numbers : /\ ValuesOf(Plus(c, v)) = ValuesOf(c) \cup {v}
                              /\ ValuesOf(Minus(c, v)) = ValuesOf(c) \ {v}
        /\ ValuesOf(Not(c)) = Numbers \ ValuesOf(c)
        /\ ValuesOf(Optimized(c)) = ValuesOf(c)
        /\ ValuesOf(WithoutRuns(c)) = ValuesOf(c)

\* The in-place negation of a run container, which reads the runs from the memory it
\* writes to, gives the runs of the plain one and fits in the capacity it found, be
\* it full or with room for one more run (mixed_negation.c:283-354).
NegationFits ==
    c # Null /\ c.kind = "run" =>
        \A low \in Numbers : \A high \in (low + 1)..U : \A spare \in 0..1 :
            LET capacity == Len(c.runs) + spare
                done == NegatedInPlace(c.runs, low, high)
            IN  NoRoom(c.runs, capacity, low, high)
                \/ /\ Len(done.mem) <= capacity
                   /\ done.runs = Negated(c.runs, low, high)

\* The queries on runs agree with the set of numbers: rank, select and whether a
\* whole range is there (run.c:787-840, run.h:265-286). A container is said to be a
\* subset of another one exactly when each of its numbers is in the other one
\* (roaring.h, roaring_bitmap_is_subset).
QueriesExact ==
    /\ c # Null => \A d \in Operands : IsSubset(c, d) = (ValuesOf(c) \subseteq ValuesOf(d))
    /\ c # Null /\ c.kind = "run" =>
        LET vals == ValuesOf(c)
        IN  /\ Card(c.runs) = Cardinality(vals)
            /\ \A v \in Numbers : RankOf(c.runs, v) = Cardinality({u \in vals : u <= v})
            /\ \A rank \in 0..(Cardinality(vals) - 1) :
                SelectAt(c.runs, rank) = Sorted(vals)[rank + 1]
            /\ \A low \in Numbers : \A high \in (low + 1)..U :
                ContainsRange(c.runs, low, high) = (low..(high - 1) \subseteq vals)

\* The two halves of a container moved by an offset are the numbers that stay below
\* U and the ones that do not, and runs stay in order and apart (containers.h:1598).
OffsetsExact ==
    c # Null => \A offset \in 1..(U - 1) :
        LET moved == {v + offset : v \in ValuesOf(c)}
            low == LowHalf(c, offset)
            high == HighHalf(c, offset)
        IN  /\ ValuesOf(low) = {v \in moved : v < U}
            /\ ValuesOf(high) = {v - U : v \in {w \in moved : w >= U}}
            /\ \A half \in {low, high} \ {Null} :
                half.kind = "run" => half.runs = RunsOf(ValuesOf(half))
===============================================================================
