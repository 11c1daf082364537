---------------------------- MODULE ContainerKinds ----------------------------
(* The operations on containers, the numbers of one key as an array, a bitset  *)
(* or a run container (containers/containers.h, mixed_*.c, convert.c).  Each   *)
(* picks the algorithm and the kind of its result by the kinds and sizes it    *)
(* finds; a bitset carries its cardinality with it.                            *)
EXTENDS RunContainer

CONSTANTS
    MaxArray,       \* DEFAULT_MAX_SIZE
    RunEntryBytes,  \* size of a run
    Threshold       \* arbitrary_threshold of mixed_xor.c and mixed_andnot.c

ASSUME SizesAssumption ==
    /\ MaxArray \in Nat \ {0} /\ 2 * MaxArray < U
    /\ RunEntryBytes \in Nat \ {0}
    /\ Threshold \in 0..MaxArray

Null == [kind |-> "null"]
ArrayOf(vals) == [kind |-> "array", vals |-> vals]
BitsetOf(vals, card) == [kind |-> "bitset", vals |-> vals, card |-> card]
RunsAs(runs) == [kind |-> "run", runs |-> runs]

Numbers == 0..(U - 1)
ValuesOf(d) == IF d = Null THEN {}
               ELSE IF d.kind = "run" THEN RunValues(d.runs) ELSE d.vals
Has(d, v) == IF d.kind = "run" THEN HasValue(d.runs, v) ELSE v \in d.vals
CardOf(d) == CASE d.kind = "array" -> Cardinality(d.vals)
               [] d.kind = "bitset" -> d.card
               [] d.kind = "run" -> Card(d.runs)

\* Sizes of the serialized forms; a bitset takes as much as MaxArray numbers.
BitsetBytes == 2 * MaxArray
ArrayBytes(card) == 2 * card + 2
RunBytes(n) == 2 + RunEntryBytes * n

\* bitset_set_list_withcard, bitset_clear_list and bitset_flip_list_withcard.
SetListCard(card, vals, list) == card + Cardinality(list \ vals)
ClearListCard(card, vals, list) == card - Cardinality(list \cap vals)

\* Variant: the numbers that are cleared are counted as set.
FlipListCardAdds(card, vals, list) == card + Cardinality(list)

FlipListCard(card, vals, list) ==
    card + Cardinality(list \ vals) - Cardinality(list \cap vals)

-------------------------------------------------------------------------------
\* A bitset, or the array made of it when it has few numbers.
ByCard(vals, card) == IF card <= MaxArray THEN ArrayOf(vals) ELSE BitsetOf(vals, card)

\* convert_run_to_efficient_container.
Efficient(runs) ==
    IF RunBytes(Len(runs)) <= Min({BitsetBytes, ArrayBytes(Card(runs))}) THEN RunsAs(runs)
    ELSE ByCard(RunValues(runs), Card(runs))

\* convert_run_optimize.
Optimized(d) ==
    LET bytes == IF d.kind = "array" THEN ArrayBytes(Cardinality(d.vals)) ELSE BitsetBytes
    IN  IF d.kind = "run" THEN Efficient(d.runs)
        ELSE IF RunBytes(Len(RunsOf(d.vals))) < bytes THEN RunsAs(RunsOf(d.vals)) ELSE d

\* convert_to_bitset_or_array_container, of a run container.
WithoutRuns(d) == IF d.kind = "run" THEN ByCard(RunValues(d.runs), Card(d.runs)) ELSE d

\* container_range_of_ones counts the end it leaves out, and container_from_range.
RangeOfOnes(low, high) ==
    IF high - low + 1 <= 2 THEN ArrayOf(low..(high - 1)) ELSE RunsAs(<<Run(low, high - low - 1)>>)
FromRange(low, high, step) ==
    LET size == (high - low + step - 1) \div step
    IN  IF step = 1 THEN RangeOfOnes(low, high)
        ELSE ByCard({low + step * i : i \in 0..(size - 1)}, size)
-------------------------------------------------------------------------------
\* container_add and container_remove.
Plus(d, v) ==
    CASE d.kind = "bitset" -> BitsetOf(d.vals \cup {v}, SetListCard(d.card, d.vals, {v}))
      [] d.kind = "array" -> ByCard(d.vals \cup {v}, Cardinality(d.vals \cup {v}))
      [] d.kind = "run" -> RunsAs(AddValue(d.runs, v))

Minus(d, v) ==
    CASE d.kind = "bitset" -> ByCard(d.vals \ {v}, ClearListCard(d.card, d.vals, {v}))
      [] d.kind = "array" -> ArrayOf(d.vals \ {v})
      [] d.kind = "run" -> RunsAs(RemoveValue(d.runs, v))

\* container_add_range, from low to high.
PlusRange(d, low, high) ==
    LET vals == ValuesOf(d) \cup (low..high)
        card == CardOf(d) + (high - low + 1) - Cardinality(ValuesOf(d) \cap (low..high))
        runs == AddRange(d.runs, low, high)
    IN  CASE d.kind # "run" /\ card = U -> RunsAs(FullRun)
          [] d.kind = "bitset" /\ card # U -> BitsetOf(vals, card)
          [] d.kind = "array" /\ card # U -> ByCard(vals, card)
          [] d.kind = "run" -> IF RunEntryBytes * Len(runs) <= BitsetBytes
                               THEN RunsAs(runs) ELSE ByCard(vals, card)

\* container_remove_range, from low to high.
MinusRange(d, low, high) ==
    LET vals == ValuesOf(d) \ (low..high)
        card == CardOf(d) - Cardinality(ValuesOf(d) \cap (low..high))
    IN  IF d.kind = "run"
        THEN IF low <= d.runs[1].value /\ End(d.runs[Len(d.runs)]) <= high THEN Null
             ELSE Efficient(RemoveRange(d.runs, low, high))
        ELSE IF card = 0 THEN Null
        ELSE IF d.kind = "array" THEN ArrayOf(vals) ELSE ByCard(vals, card)

\* container_not and container_inot: the opposite of an array is a bitset.
Not(d) ==
    CASE d.kind = "bitset" -> ByCard(Numbers \ d.vals, Cardinality(Numbers \ d.vals))
      [] d.kind = "array" -> BitsetOf(Numbers \ d.vals, ClearListCard(U, Numbers, d.vals))
      [] d.kind = "run" -> Efficient(Negated(d.runs, 0, U))

\* container_not_range and container_inot_range, from low up to but not including
\* high.
NotRange(d, low, high) ==
    LET flipped == SymDiff(ValuesOf(d), low..(high - 1))
        inRange == Cardinality(ValuesOf(d) \cap (low..(high - 1)))
    IN  CASE d.kind = "bitset" -> ByCard(flipped, Cardinality(flipped))
          [] d.kind = "array" ->
                ByCard(flipped, Cardinality(d.vals) + (high - low) - 2 * inRange)
          [] d.kind = "run" -> Efficient(Negated(d.runs, low, high))
-------------------------------------------------------------------------------
\* The container of one kind among two of different kinds, and the other one.
OfKind(d, e, kind) == IF d.kind = kind THEN d ELSE e
Kinds(d, e) == {d.kind, e.kind}

\* The numbers of an array as runs of one number.
Singles(vals) == [i \in DOMAIN Sorted(vals) |-> Run(Sorted(vals)[i], 0)]

\* run_bitset_container_intersection.
RunBitsetAnd(runs, bits) ==
    LET common == RunValues(runs) \cap bits.vals
    IN  IF IsFullRun(runs) THEN bits
        ELSE IF Card(runs) <= MaxArray THEN ArrayOf(common)
        ELSE ByCard(common, Cardinality(common))

\* container_and and container_iand.
And(d, e) ==
    LET run == OfKind(d, e, "run")
        bits == OfKind(d, e, "bitset")
        arr == OfKind(d, e, "array")
        common == ValuesOf(d) \cap ValuesOf(e)
    IN  CASE Kinds(d, e) = {"run"} -> Efficient(IntersectRuns(d.runs, e.runs))
          [] Kinds(d, e) = {"bitset"} -> ByCard(common, Cardinality(common))
          [] Kinds(d, e) = {"run", "bitset"} -> RunBitsetAnd(run.runs, bits)
          [] "array" \in Kinds(d, e) ->
                ArrayOf({v \in arr.vals : Has(IF arr = d THEN e ELSE d, v)})

\* array_array_container_union and its in-place form.
ArraysOr(S, T) ==
    IF Cardinality(S) + Cardinality(T) <= MaxArray THEN ArrayOf(S \cup T)
    ELSE ByCard(S \cup T, SetListCard(Cardinality(S), S, T))

\* container_or.
Or(d, e) ==
    LET run == OfKind(d, e, "run")
        bits == OfKind(d, e, "bitset")
        arr == OfKind(d, e, "array")
        all == ValuesOf(d) \cup ValuesOf(e)
    IN  CASE Kinds(d, e) = {"run"} -> Efficient(UnionRuns(d.runs, e.runs))
          [] Kinds(d, e) = {"run", "array"} ->
                Efficient(UnionRuns(run.runs, Singles(arr.vals)))
          [] Kinds(d, e) = {"run", "bitset"} ->
                IF IsFullRun(run.runs) THEN run ELSE BitsetOf(all, Cardinality(all))
          [] Kinds(d, e) = {"bitset"} -> BitsetOf(all, Cardinality(all))
          [] Kinds(d, e) = {"bitset", "array"} ->
                BitsetOf(all, SetListCard(bits.card, bits.vals, arr.vals))
          [] Kinds(d, e) = {"array"} -> ArraysOr(d.vals, e.vals)

\* container_ior: the union of two bitsets becomes a run container when it is full.
InPlaceOr(d, e) ==
    LET or == Or(d, e)
    IN  IF Kinds(d, e) = {"bitset"} /\ or.card = U THEN RunsAs(FullRun) ELSE or

\* array_array_container_xor, and bitset_array_container_ixor.
XorArrays(S, T) ==
    IF Cardinality(S) + Cardinality(T) <= MaxArray THEN ArrayOf(SymDiff(S, T))
    ELSE ByCard(SymDiff(S, T), FlipListCard(Cardinality(S), S, T))
XorBitsetArray(vals, card, list) == ByCard(SymDiff(vals, list), FlipListCard(card, vals, list))

\* array_run_container_xor.
ArrayRunXor(vals, runs) ==
    IF Cardinality(vals) < Threshold THEN Efficient(XorRuns(runs, Singles(vals)))
    ELSE IF Card(runs) <= MaxArray THEN XorArrays(RunValues(runs), vals)
    ELSE XorBitsetArray(RunValues(runs), Card(runs), vals)

\* container_xor and container_ixor.
Xor(d, e) ==
    LET run == OfKind(d, e, "run")
        bits == OfKind(d, e, "bitset")
        arr == OfKind(d, e, "array")
        one == SymDiff(ValuesOf(d), ValuesOf(e))
    IN  CASE Kinds(d, e) = {"run"} -> Efficient(XorRuns(d.runs, e.runs))
          [] Kinds(d, e) = {"run", "array"} -> ArrayRunXor(arr.vals, run.runs)
          [] Kinds(d, e) \in {{"bitset"}, {"run", "bitset"}} -> ByCard(one, Cardinality(one))
          [] Kinds(d, e) = {"bitset", "array"} ->
                XorBitsetArray(bits.vals, bits.card, arr.vals)
          [] Kinds(d, e) = {"array"} -> XorArrays(d.vals, e.vals)

\* bitset_array_container_andnot and its in-place form.
BitsetMinusArray(vals, card, list) == ByCard(vals \ list, ClearListCard(card, vals, list))

\* run_bitset_container_andnot.
RunBitsetAndNot(runs, bits) ==
    LET left == RunValues(runs) \ bits.vals
    IN  IF Card(runs) <= MaxArray THEN ArrayOf(left) ELSE ByCard(left, Cardinality(left))

\* run_array_container_andnot.
RunArrayAndNot(runs, vals) ==
    IF Card(runs) <= Threshold THEN Efficient(AndNotRuns(runs, Singles(vals)))
    ELSE IF Card(runs) <= MaxArray THEN ArrayOf(RunValues(runs) \ vals)
    ELSE BitsetMinusArray(RunValues(runs), Card(runs), vals)

\* container_andnot and container_iandnot.
AndNot(d, e) ==
    LET left == ValuesOf(d) \ ValuesOf(e)
    IN  CASE d.kind = "array" -> ArrayOf({v \in d.vals : ~Has(e, v)})
          [] d.kind = "bitset" /\ e.kind = "array" -> BitsetMinusArray(d.vals, d.card, e.vals)
          [] d.kind = "bitset" /\ e.kind # "array" -> ByCard(left, Cardinality(left))
          [] d.kind = "run" /\ e.kind = "array" -> RunArrayAndNot(d.runs, e.vals)
          [] d.kind = "run" /\ e.kind = "bitset" -> RunBitsetAndNot(d.runs, e)
          [] d.kind = "run" /\ e.kind = "run" -> Efficient(AndNotRuns(d.runs, e.runs))
-------------------------------------------------------------------------------

\* container_is_subset.  A bitset is in no array, by construction; where one of the
\* two is a bitset or an array, the sizes are compared first.
IsSubset(d, e) ==
    CASE d.kind = "bitset" /\ e.kind = "array" -> FALSE
      [] d.kind = "run" /\ e.kind = "run" -> SubsetRuns(d.runs, e.runs)
      [] OTHER -> CardOf(d) <= CardOf(e) /\ \A v \in ValuesOf(d) : Has(e, v)

\* container_add_offset: what stays under the key and what goes to the next key.  A
\* half has the kind of the container it is made of.
LowHalf(d, offset) ==
    LET vals == {v + offset : v \in {u \in ValuesOf(d) : u + offset < U}}
    IN  CASE vals = {} -> Null
          [] vals # {} /\ d.kind = "array" -> ArrayOf(vals)
          [] vals # {} /\ d.kind = "bitset" -> BitsetOf(vals, Cardinality(vals))
          [] vals # {} /\ d.kind = "run" -> RunsAs(OffsetLow(d.runs, offset))
HighHalf(d, offset) ==
    LET vals == {v + offset - U : v \in {u \in ValuesOf(d) : u + offset >= U}}
    IN  CASE vals = {} -> Null
          [] vals # {} /\ d.kind = "array" -> ArrayOf(vals)
          [] vals # {} /\ d.kind = "bitset" -> BitsetOf(vals, Cardinality(vals))
          [] vals # {} /\ d.kind = "run" -> RunsAs(OffsetHigh(d.runs, offset))
-------------------------------------------------------------------------------
\* The containers that the library makes.
Operands ==
    {ArrayOf(S) : S \in {S \in SUBSET Numbers : Cardinality(S) \in 1..MaxArray}}
    \cup {BitsetOf(S, Cardinality(S)) :
            S \in {S \in SUBSET Numbers : Cardinality(S) > MaxArray}}
    \cup {RunsAs(RunsOf(S)) : S \in (SUBSET Numbers) \ {{}}}
===============================================================================
