----------------------------- MODULE BitsetWords -----------------------------
(* A bitset container word by word: the masks, shifts and loops of bitset_util.h,
   bitset_util.c and containers/bitset.c, and the cardinality they keep beside
   the words. A word is the set of its bits. *)
EXTENDS Integers, Sequences, FiniteSetsExt, SequencesExt

CONSTANTS B,          \* bits in a word (64)
          WordCount,  \* BITSET_CONTAINER_SIZE_IN_WORDS (1024)
          Lane,       \* bits decoded by one table look-up (8)
          MaxList     \* the longest list of values a step sets, clears or flips

ASSUME WordAssumption ==
    /\ B \in Nat \ {0} /\ WordCount \in Nat \ {0}
    /\ Lane \in 1 .. B /\ B % Lane = 0 /\ MaxList \in Nat

VARIABLES words,  \* bitset->words
          card    \* bitset->cardinality
vars == <<words, card>>

U == B * WordCount
Bits == 0 .. B - 1
Indices == 0 .. WordCount - 1
Values == 0 .. U - 1

ShiftLeft(w, n) == {b + n : b \in w} \cap Bits
ShiftRight(w, n) == {b - n : b \in w} \cap Bits

\* ~0 << (start % 64) and ~0 >> ((~end + 1) % 64)
HeadMask(start) == ShiftLeft(Bits, start % B)
TailMask(end) == ShiftRight(Bits, (-end) % B)

Elements(w) == {x \in Values : x % B \in w[x \div B]}
Empty == [i \in Indices |-> {}]
bitset_container_compute_cardinality(w) == MapThenSumSet(LAMBDA i : Cardinality(w[i]), Indices)

-----------------------------------------------------------------------------
(* Ranges: [start, end), or start and the length less one *)

Masked(op, x, mask) == IF op = "set" THEN x \cup mask ELSE x \ mask

\* Masks for the first and the last word, and the words between as a whole.
InRange(w, start, end, op) ==
    LET first == start \div B
        last == (end - 1) \div B
    IN  IF start = end THEN w
        ELSE [i \in Indices |->
                 IF first = last /\ i = first
                 THEN Masked(op, w[i], HeadMask(start) \cap TailMask(end))
                 ELSE IF i = first THEN Masked(op, w[i], HeadMask(start))
                 ELSE IF i = last THEN Masked(op, w[i], TailMask(end))
                 ELSE IF first < i /\ i < last THEN Masked(op, w[i], Bits)
                 ELSE w[i]]

bitset_set_range(w, start, end) == InRange(w, start, end, "set")
bitset_reset_range(w, start, end) == InRange(w, start, end, "reset")

\* All words but the last are negated whole, and the borders made good by xor.
bitset_flip_range(w, start, end) ==
    LET first == start \div B
        last == (end - 1) \div B
        Xor(x, y) == SymDiff(x, y)
        head == [w EXCEPT ![first] = Xor(@, Bits \ HeadMask(start))]
        turned == [i \in Indices |-> IF first <= i /\ i < last THEN Bits \ head[i] ELSE head[i]]
    IN  IF start = end THEN w ELSE [turned EXCEPT ![last] = Xor(@, TailMask(end))]

\* The mask for the last word of start .. start + len.
LenTailMask(start, len) == ShiftRight(Bits, (-start - len - 1) % B)
LenMask(start, len) == ShiftLeft(ShiftRight(Bits, (B - 1 - len) % B), start % B)

\* Words are filled two by two, maybe the last one too; it is put right at the end.
\* Variant: by what it is then.
bitset_set_lenrangeUnsaved(w, start, len) ==
    LET first == start \div B
        last == (start + len) \div B
        filled == UNION {{i, i + 1} : i \in {k \in first + 1 .. last - 1 : (k - first) % 2 = 1}}
    IN  IF first = last THEN [w EXCEPT ![first] = @ \cup LenMask(start, len)]
        ELSE [i \in Indices |->
                 IF i \in filled THEN Bits
                 ELSE IF i = first THEN w[i] \cup HeadMask(start)
                 ELSE IF i = last THEN w[i] \cup LenTailMask(start, len)
                 ELSE w[i]]
bitset_set_lenrange(w, start, len) ==
    LET first == start \div B
        last == (start + len) \div B
        filled == UNION {{i, i + 1} : i \in {k \in first + 1 .. last - 1 : (k - first) % 2 = 1}}
    IN  IF first = last THEN [w EXCEPT ![first] = @ \cup LenMask(start, len)]
        ELSE [i \in Indices |->
                 IF i = last THEN w[i] \cup LenTailMask(start, len)
                 ELSE IF i = first THEN w[i] \cup HeadMask(start)
                 ELSE IF i \in filled THEN Bits
                 ELSE w[i]]

bitset_lenrange_cardinality(w, start, len) ==
    LET first == start \div B
        last == (start + len) \div B
    IN  IF first = last THEN Cardinality(w[first] \cap LenMask(start, len))
        ELSE Cardinality(w[first] \cap HeadMask(start))
             + MapThenSumSet(LAMBDA i : Cardinality(w[i]), first + 1 .. last - 1)
             + Cardinality(w[last] \cap LenTailMask(start, len))

bitset_lenrange_empty(w, start, len) ==
    LET first == start \div B
        last == (start + len) \div B
    IN  IF first = last THEN w[first] \cap LenMask(start, len) = {}
        ELSE /\ w[first] \cap HeadMask(start) = {}
             /\ \A i \in first + 1 .. last - 1 : w[i] = {}
             /\ w[last] \cap LenTailMask(start, len) = {}

\* bitset_container_get_range: the border end may lie behind the last word.
bitset_container_get_range(w, start, end) ==
    LET first == HeadMask(start)
        last == 0 .. (end % B) - 1
        to == end \div B
    IN  IF start \div B = to THEN first \cap last \subseteq w[to]
        ELSE /\ first \subseteq w[start \div B]
             /\ to < WordCount => last \subseteq w[to]
             /\ \A i \in (start \div B) + 1 .. to - 1 : i < WordCount => w[i] = Bits

\* min, min + step, ... below max, on a new bitset: by a mask if step divides 64.
bitset_container_add_from_range(min, max, step) ==
    LET mask == {b \in Bits : b >= min % step /\ (b - (min % step)) % step = 0}
        first == min \div B
        last == (max - 1) \div B
        byMask == [i \in Indices |->
                      IF first = last /\ i = first THEN mask \cap HeadMask(min) \cap TailMask(max)
                      ELSE IF i = first THEN mask \cap HeadMask(min)
                      ELSE IF i = last THEN mask \cap TailMask(max)
                      ELSE IF first < i /\ i < last THEN mask
                      ELSE {}]
        reached == {x \in min .. max - 1 : (x - min) % step = 0}
    IN  IF B % step = 0
        THEN [words |-> byMask, card |-> (max - min + step - 1) \div step]
        ELSE [words |-> [i \in Indices |-> {b \in Bits : i * B + b \in reached}],
              card |-> Cardinality(reached)]

-----------------------------------------------------------------------------
(* Lists of values: c is the words with the cardinality kept beside them *)

Changed(c, x, new, by) ==
    [words |-> [c.words EXCEPT ![x \div B] = new], card |-> c.card + by]

\* The change of the word, shifted down, is what the cardinality changes by.
Difference(c, x, new) == Cardinality(ShiftRight(SymDiff(c.words[x \div B], new), x % B))
SetBit(c, x) ==
    LET new == c.words[x \div B] \cup {x % B} IN Changed(c, x, new, Difference(c, x, new))
ClearBit(c, x) ==
    LET new == c.words[x \div B] \ {x % B} IN Changed(c, x, new, -Difference(c, x, new))
FlipBit(c, x) ==
    LET old == c.words[x \div B]
    IN  Changed(c, x, SymDiff(old, {x % B}), 1 - 2 * Cardinality(old \cap {x % B}))

bitset_set_list_withcard(c, list) == FoldLeft(SetBit, c, list)
bitset_clear_list(c, list) == FoldLeft(ClearBit, c, list)
bitset_flip_list_withcard(c, list) == FoldLeft(FlipBit, c, list)

-----------------------------------------------------------------------------
(* Decoding: the values, and how far behind the start of the output it has written.
   A vectorised loop decodes whole words while there is room for one, storing
   more than it keeps; the rest goes value by value. *)

WordValues(w, i) == SelectSeq([k \in 1 .. B |-> i * B + k - 1], LAMBDA x : x % B \in w[i])

Written(d, kept, store) ==
    LET far == Len(d.out) + store
    IN  [out |-> d.out \o kept, far |-> IF far > d.far THEN far ELSE d.far]

Nothing == [out |-> <<>>, far |-> 0]
\* Called alone it takes no capacity: that is U, the number of all bits.
bitset_extract_setbits(w, d, from, capacity) ==
    FoldLeft(LAMBDA s, x : IF Len(s.out) < capacity THEN Written(s, <<x>>, 1) ELSE s, d,
             FlattenSeq([k \in 1 .. WordCount - from |-> WordValues(w, from + k - 1)]))

\* Stores of size bits each, as long as limit values fit behind those written.
Vectorised(w, capacity, size, limit) ==
    LET Store(i, d, k) ==
            Written(d, SelectSeq(WordValues(w, i), LAMBDA x : (x % B) \div size = k), size)
        Word(i, d) == FoldLeft(LAMBDA e, k : Store(i, e, k), d, [k \in 1 .. B \div size |-> k - 1])
        Step(s, i) ==
            IF s.next = i /\ Len(s.d.out) + limit <= capacity
            THEN [next |-> i + 1, d |-> Word(i, s.d)] ELSE s
        fast == FoldLeft(Step, [next |-> 0, d |-> Nothing], [k \in 1 .. WordCount |-> k - 1])
    IN  bitset_extract_setbits(w, fast.d, fast.next, capacity)

bitset_extract_setbits_avx2(w, capacity) == Vectorised(w, capacity, Lane, B)

\* Variant: one table look-up is enough room, as in bitset_extract_setbits_sse_uint16.
bitset_extract_setbits_avx512Early(w, capacity) == Vectorised(w, capacity, B, 1)
bitset_extract_setbits_avx512(w, capacity) == Vectorised(w, capacity, B, B + 1)

-----------------------------------------------------------------------------
(* Queries of a container c, with its words and cardinality *)

bitset_container_rank(w, x) ==
    MapThenSumSet(LAMBDA i : Cardinality(w[i]), 0 .. (x \div B) - 1)
    + Cardinality(w[x \div B] \cap 0 .. x % B)

bitset_container_get_index(w, x) ==
    IF x % B \in w[x \div B] THEN bitset_container_rank(w, x) - 1 ELSE -1

bitset_container_index_equalorlarger(w, x) ==
    LET k == x \div B
        here == {b \in w[k] : b >= x % B}
        later == {i \in k + 1 .. WordCount - 1 : w[i] # {}}
    IN  IF here # {} THEN k * B + Min(here)
        ELSE IF later = {} THEN -1
        ELSE Min(later) * B + Min(w[Min(later)])

\* The word is entered even if the rank is that of the first value behind it. The
\* element is -1 when the loop runs out, where the code is undefined.
bitset_container_select(c, start, rank) ==
    LET Bit(s, x) ==
            IF s.element >= 0 THEN s
            ELSE IF s.start = rank THEN [s EXCEPT !.element = x]
            ELSE [s EXCEPT !.start = @ + 1]
        Word(s, i) ==
            LET size == Cardinality(c.words[i])
            IN  IF s.element >= 0 THEN s
                ELSE IF rank <= s.start + size THEN FoldLeft(Bit, s, WordValues(c.words, i))
                ELSE [s EXCEPT !.start = @ + size]
    IN  IF rank >= start + c.card THEN [found |-> FALSE, start |-> start + c.card, element |-> -1]
        ELSE FoldLeft(Word, [found |-> TRUE, start |-> start, element |-> -1],
                      [k \in 1 .. WordCount |-> k - 1])

bitset_container_minimum(w) ==
    LET used == {i \in Indices : w[i] # {}}
    IN  IF used = {} THEN U - 1 ELSE Min(used) * B + Min(w[Min(used)])

\* Word 0 is never looked at.
bitset_container_maximum(w) ==
    LET used == {i \in Indices \ {0} : w[i] # {}}
    IN  IF used = {} THEN 0 ELSE Max(used) * B + Max(w[Max(used)])

\* The ends of runs inside words, and those at the end of a word.
\* Variant: a run that goes on in the next word ends all the same.
bitset_container_number_of_runsByWord(w) ==
    MapThenSumSet(LAMBDA i : Cardinality(ShiftLeft(w[i], 1) \ w[i])
                             + (IF B - 1 \in w[i] THEN 1 ELSE 0), Indices)
bitset_container_number_of_runs(w) ==
    LET Inside(i) == Cardinality(ShiftLeft(w[i], 1) \ w[i])
        AtEnd(i) == IF B - 1 \in w[i] /\ (i = WordCount - 1 \/ 0 \notin w[i + 1]) THEN 1 ELSE 0
    IN  MapThenSumSet(LAMBDA i : Inside(i) + AtEnd(i), Indices)

\* The halves of the bitset moved up by offset, word by word.
bitset_container_offset(w, offset) ==
    LET b == offset \div B
        i == offset % B
        Moved(k) == ShiftLeft(w[k], i) \cup (IF k = 0 THEN {} ELSE ShiftRight(w[k - 1], B - i))
        end == WordCount - b
    IN  [low |-> [k \in Indices |-> IF k < b THEN {} ELSE Moved(k - b)],
         high |-> [k \in Indices |-> IF k < b THEN Moved(end + k)
                                     ELSE IF k = b THEN ShiftRight(w[WordCount - 1], B - i)
                                     ELSE {}]]

\* Equal cardinalities of 2^16 need no look at the words.
bitset_container_equals(c, d) ==
    /\ c.card = d.card
    /\ c.card = U \/ c.words = d.words
bitset_container_is_subset(c, d) ==
    c.card <= d.card /\ \A i \in Indices : c.words[i] \subseteq d.words[i]
bitset_container_intersect(c, d) == \E i \in Indices : c.words[i] \cap d.words[i] # {}

-----------------------------------------------------------------------------
(* Steps: what the functions of containers.h do to the container *)

Become(c) == words' = c.words /\ card' = c.card
This == [words |-> words, card |-> card]
Counted(w) == [words |-> w, card |-> bitset_container_compute_cardinality(w)]

bitset_container_clear == Become([words |-> Empty, card |-> 0])
bitset_container_set_all == Become([words |-> [i \in Indices |-> Bits], card |-> U])
bitset_container_set_range(start, end) == Become(Counted(bitset_set_range(words, start, end)))

\* container_add_range and container_remove_range: the cardinality is reckoned, not counted.
\* A result that is full or empty is no bitset any more, and these words stay as they are.
container_add_range(min, max) ==
    LET union == card + max - min + 1 - bitset_lenrange_cardinality(words, min, max - min)
    IN  /\ union # U
        /\ Become([words |-> bitset_set_lenrange(words, min, max - min), card |-> union])

\* Variant: the value at max is not counted.
container_remove_rangeOneLess(min, max) ==
    LET left == card - bitset_lenrange_cardinality(words, min, IF max > min THEN max - min - 1 ELSE 0)
    IN  left # 0 /\ Become([words |-> bitset_reset_range(words, min, max + 1), card |-> left])
container_remove_range(min, max) ==
    LET left == card - bitset_lenrange_cardinality(words, min, max - min)
    IN  left # 0 /\ Become([words |-> bitset_reset_range(words, min, max + 1), card |-> left])

bitset_container_negation_range(start, end) == Become(Counted(bitset_flip_range(words, start, end)))

\* BITSET_CONTAINER_FN: word by word, counting as it goes.
WithWords(op, other) ==
    Become(Counted([i \in Indices |-> CASE op = "and" -> words[i] \cap other[i]
                                        [] op = "or" -> words[i] \cup other[i]
                                        [] op = "xor" -> SymDiff(words[i], other[i])
                                        [] op = "andnot" -> words[i] \ other[i]]))

Lists == {SelectSeq([k \in 1 .. U |-> k - 1], LAMBDA x : x \in S) :
              S \in UNION {kSubset(n, Values) : n \in 1 .. MaxList}}

Init == words = Empty /\ card = 0

Next ==
    \/ bitset_container_clear
    \/ bitset_container_set_all
    \/ \E start \in Values : \E end \in start .. U :
        \/ bitset_container_set_range(start, end)
        \/ bitset_container_negation_range(start, end)
        \/ \E op \in {"and", "or", "xor", "andnot"} :
             WithWords(op, bitset_set_range(Empty, start, end))
    \/ \E min \in Values : \E max \in min .. U - 1 :
        container_add_range(min, max) \/ container_remove_range(min, max)
    \/ \E list \in Lists :
        \/ Become(bitset_set_list_withcard(This, list))
        \/ Become(bitset_clear_list(This, list))
        \/ Become(bitset_flip_list_withcard(This, list))
    \/ /\ card = 0
       /\ \E min \in Values, step \in 1 .. U : \E max \in min + 1 .. U :
            Become(bitset_container_add_from_range(min, max, step))

Spec == Init /\ [][Next]_vars

-----------------------------------------------------------------------------

\* A range of bits set, reset, flipped, tested or counted is the range asked for, at any
\* place in the words, the borders of words and of the container included.
WordRangesExact ==
    \A start \in Values : \A end \in start .. U :
        LET range == start .. end - 1
            values == Elements(words)
            other == Counted(bitset_set_range(Empty, start, end))
        IN  /\ Elements(bitset_set_range(words, start, end)) = values \cup range
            /\ Elements(bitset_reset_range(words, start, end)) = values \ range
            /\ Elements(bitset_flip_range(words, start, end)) = SymDiff(values, range)
            /\ bitset_container_equals(This, other) = (values = range)
            /\ bitset_container_is_subset(This, other) = (values \subseteq range)
            /\ bitset_container_intersect(This, other) = (values \cap range # {})
            /\ start < end =>
                 /\ bitset_container_get_range(words, start, end) = (range \subseteq values)
                 /\ Elements(bitset_set_lenrange(words, start, end - start - 1)) = values \cup range
                 /\ bitset_lenrange_cardinality(words, start, end - start - 1)
                        = Cardinality(values \cap range)
                 /\ bitset_lenrange_empty(words, start, end - start - 1) = (values \cap range = {})

\* The queries of a bitset agree with its values, the cardinality included, which is kept
\* beside the words, most often by adding up differences, through every sequence of edits. The maximum is asked of a bitset of
\* more values than a word has bits, which every bitset container should be.
WordQueriesExact ==
    LET values == Elements(words)
        sorted == SelectSeq([k \in 1 .. U |-> k - 1], LAMBDA x : x \in values)
    IN  /\ card = Cardinality(values)
        /\ \A x \in Values :
             LET larger == {v \in values : v >= x}
                 rank == Cardinality({v \in values : v <= x})
             IN  /\ bitset_container_rank(words, x) = rank
                 /\ bitset_container_get_index(words, x) = IF x \in values THEN rank - 1 ELSE -1
                 /\ bitset_container_index_equalorlarger(words, x)
                        = IF larger = {} THEN -1 ELSE Min(larger)
                 /\ LET halves == bitset_container_offset(words, x)
                    IN  x > 0 =>
                          /\ Elements(halves.low) = {v + x : v \in values} \cap Values
                          /\ Elements(halves.high) = {v + x - U : v \in values} \cap Values
        /\ \A start \in 0 .. 1 : \A rank \in start .. start + U :
             bitset_container_select(This, start, rank) =
                 IF rank < start + Len(sorted)
                 THEN [found |-> TRUE, start |-> rank, element |-> sorted[rank - start + 1]]
                 ELSE [found |-> FALSE, start |-> start + Len(sorted), element |-> -1]
        /\ values # {} => bitset_container_minimum(words) = Min(values)
        /\ Cardinality(values) > B => bitset_container_maximum(words) = Max(values)
        /\ bitset_container_number_of_runs(words) = Cardinality({v \in values : v + 1 \notin values})

\* Every way of decoding gives all values in order, and stores nothing beyond the room
\* the caller has for exactly these values.
DecodingFits ==
    \A d \in {bitset_extract_setbits(words, Nothing, 0, U),
              bitset_extract_setbits_avx2(words, card),
              bitset_extract_setbits_avx512(words, card)} :
        /\ d.out = SelectSeq([k \in 1 .. U |-> k - 1], LAMBDA x : x \in Elements(words))
        /\ d.far <= card
=============================================================================
