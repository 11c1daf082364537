--------------------------- MODULE MCPortableFormat ---------------------------
(* Bitmaps of up to nine containers: every pair of six, and longer ones whose flags, offsets *)
(* or cardinalities meet a limit.                                                          *)
EXTENDS PortableFormat

ArrayOf(values) ==
    [kind |-> "array", card |-> Len(values), data |-> FlattenSeq([i \in DOMAIN values |-> U16(values[i])])]
RunOf(card, numbers) ==
    [kind |-> "run", card |-> card, data |-> FlattenSeq([i \in DOMAIN numbers |-> U16(numbers[i])])]
BitsetOf(values) ==
    [kind |-> "bitset", card |-> Cardinality(values),
     data |-> [j \in 1..BitsetBytes |->
                  LET Bit(v) == IF 8 * (j - 1) + v \in values THEN 2^v ELSE 0
                  IN  Bit(0) + Bit(1) + Bit(2) + Bit(3) + Bit(4) + Bit(5) + Bit(6) + Bit(7)]]

One == ArrayOf(<<5>>)
FullArray == ArrayOf(<<1, 256, 263>>)
LeastBitset == BitsetOf({0, 1, 9, 262})
MoreBits == BitsetOf(0..17)
OneRun == RunOf(8, <<0, 7>>)
TwoRuns == RunOf(4, <<2, 1, 261, 1>>)
Everything == RunOf(65536, <<0, 65535>>)
Containers == {One, FullArray, LeastBitset, MoreBits, OneRun, TwoRuns}

At(key, c) == [key |-> key, kind |-> c.kind, card |-> c.card, data |-> c.data]
Keyed(cs) == [i \in DOMAIN cs |-> At(IF i = 1 THEN 0 ELSE 254 + i, cs[i])]
MCBitmaps ==
    {<<>>} \cup {Keyed(<<c>>) : c \in Containers \cup {Everything}}
    \cup {Keyed(<<c, d>>) : c \in Containers, d \in Containers}
    \cup {Keyed(<<One, TwoRuns, LeastBitset>>), Keyed(<<One, One, TwoRuns, FullArray>>),
          Keyed(<<TwoRuns, LeastBitset, OneRun, One>>), Keyed(<<One, FullArray, LeastBitset, One>>),
          Keyed(<<One, OneRun, LeastBitset, OneRun, FullArray>>),
          Keyed([i \in 1..8 |-> IF i = 8 THEN OneRun ELSE One]),
          Keyed([i \in 1..9 |-> IF i \in {3, 9} THEN TwoRuns ELSE One])}

\* Zeros, a bitmap in the layout of roaring_bitmap_serialize, in the frozen one, and a header that counts
\* more containers than there are keys.
MCForeign ==
    {U32(0) \o U32(0), U32(SERIAL_COOKIE_NO_RUNCONTAINER) \o U32(MaxContainers + 1),
     roaring_bitmap_frozen_serialize(Keyed(<<One, OneRun>>)),
     roaring_bitmap_serialize(Keyed(<<One>>), <<>>)}
===============================================================================
