----------------------------- MODULE KeyArrays ------------------------------
(* The array of slots of one bitmap, as the calls on ranges and the queries    *)
(* use it (roaring.c, roaring_array.c): a call splits its numbers into high    *)
(* and low halves, finds slots by key, makes room for new ones or closes gaps, *)
(* and treats the first and the last key of a range apart from those between.  *)
(* The operations of two bitmaps are the loops of InplaceMerge, begun from the *)
(* same bitmaps.                                                               *)
(*                                                                             *)
(* A number is below Universe (2^32) and has a low half below L (2^16).        *)
EXTENDS InplaceMerge, SequencesExt, FiniteSetsExt

CONSTANTS Ranges,   \* pairs of bounds, of which the second is left out
          Offsets,  \* given to add_offset
          Steps     \* given to from_range

L == Cardinality(Lows)
Universe == Cardinality(Keys) * L
High(x) == (x \div L) % Cardinality(Keys)
LowOf(x) == x % L

ASSUME KeyArraysAssumption ==
    /\ Lows = 0..L - 1 /\ Keys = 0..Cardinality(Keys) - 1
    /\ \A r \in Ranges : r[1] \in 0..Universe /\ r[2] \in Nat
    /\ Offsets \subseteq Int /\ Steps \subseteq 1..L - 1

VARIABLES args,   \* what the last call was given
          calls   \* calls made so far, at most MaxCalls
keyVars == <<vars, args, calls>>

\* Any bitmap may be the first one, so that one call shows what a later one does.
MaxCalls == 1

-----------------------------------------------------------------------------
(* Finding slots *)

\* count_less, count_greater
CountLess(s, k) == Cardinality({i \in DOMAIN s : s[i].key < k})
CountGreater(s, k) == Cardinality({i \in DOMAIN s : s[i].key > k})

\* The slot of a key, or less than zero: the place the key would have.
GetIndex(s, k) ==
    LET i == CountLess(s, k) + 1
    IN  IF i <= Len(s) /\ s[i].key = k THEN i ELSE -i

\* The first slot after pos whose key is at least k.
Advance(s, k, pos) == CHOOSE p \in pos + 1..Len(s) + 1 : IsNext(s, k, pos, p)

-----------------------------------------------------------------------------
(* Ranges added and removed *)

\* What the slots beyond the old size of an array hold.
Junk == [key |-> -1, low |-> {}]

\* Variant: the last slots stay where they are.
ShiftTailUnmoved(s, count, distance) ==
    [j \in 1..Len(s) + distance |-> IF j <= Len(s) THEN s[j] ELSE Junk]
\* The last count slots moved by distance; the slots they leave keep what they held.
ShiftTail(s, count, distance) ==
    [j \in 1..Len(s) + distance |->
        IF j > Len(s) + distance - count THEN s[j - distance]
        ELSE IF j <= Len(s) THEN s[j] ELSE Junk]

\* The low halves a closed range has in the slot of key k.
LowsOfRange(k, min, max) ==
    (IF k = High(min) THEN LowOf(min) ELSE 0)..(IF k = High(max) THEN LowOf(max) ELSE L - 1)

AddRangeClosed(s, min, max) ==
    LET suffix == CountGreater(s, High(max))
        prefix == CountLess(s, High(min))
        common == Len(s) - prefix - suffix
        keys == High(max) - High(min) + 1
        wide == IF keys > common THEN ShiftTail(s, suffix, keys - common) ELSE s
        Fill(f, k) ==
            LET found == f.src >= 1 /\ f.slots[f.src].key = k
                low == IF found THEN f.slots[f.src].low ELSE {}
            IN  [slots |-> [f.slots EXCEPT ![f.dst] =
                              [key |-> k, low |-> low \cup LowsOfRange(k, min, max)]],
                 src |-> IF found THEN f.src - 1 ELSE f.src, dst |-> f.dst - 1]
        start == [slots |-> wide, src |-> prefix + common, dst |-> Len(wide) - suffix]
    IN  IF min > max THEN s
        ELSE FoldLeft(Fill, start, [j \in 1..keys |-> High(max) + 1 - j]).slots

RemoveRangeClosed(s, min, max) ==
    LET first == CountLess(s, High(min)) + 1
        beyond == Len(s) - CountGreater(s, High(max)) + 1
        Cut(f, src) ==
            LET slot == f.slots[src]
                low == slot.low \ LowsOfRange(slot.key, min, max)
            IN  IF low = {} THEN f
                ELSE [slots |-> [f.slots EXCEPT ![f.dst] = [slot EXCEPT !.low = low]],
                      dst |-> f.dst + 1]
        cut == FoldLeft(Cut, [slots |-> s, dst |-> first],
                        [j \in 1..beyond - first |-> first + j - 1])
    IN  IF min > max THEN s
        ELSE IF beyond > cut.dst THEN ShiftTail(cut.slots, Len(s) + 1 - beyond, cut.dst - beyond)
        ELSE cut.slots

\* What add_range and remove_range do to (uint32_t)min and (uint32_t)(max - 1).
roaring_bitmap_add_range(s, min, max) ==
    IF max <= min THEN s ELSE AddRangeClosed(s, min % Universe, (max - 1) % Universe)
roaring_bitmap_remove_range(s, min, max) ==
    IF max <= min THEN s ELSE RemoveRangeClosed(s, min % Universe, (max - 1) % Universe)

\* The runs of one container after another, each begun where the step leads.
FromRange(min, max, step) ==
    LET end == IF max > Universe THEN Universe ELSE max
        Turn[from \in 0..Universe + step] ==
            IF from >= end THEN <<>>
            ELSE LET lo == LowOf(from)
                     hi == IF end - High(from) * L < L THEN end - High(from) * L ELSE L
                     gap == hi - lo + step - 1
                 IN  <<[key |-> High(from), low |-> {v \in lo..hi - 1 : ((v - lo) % step) = 0}]>>
                     \o Turn[from + gap - (gap % step)]
    IN  Turn[min]

-----------------------------------------------------------------------------
(* Ranges flipped *)

\* The keys a flip touches and what it flips of each: first a part, if the range begins
\* within a key, then whole keys, then a part, if it ends within a key.
FlipParts(start, end) ==
    LET hbStart == High(start)  lbStart == LowOf(start)
        hbEnd == High(end - 1)  lbEnd == LowOf(end - 1)
        first == IF lbStart > 0 THEN hbStart + 1 ELSE hbStart
        last == IF lbEnd # L - 1 THEN hbEnd - 1 ELSE hbEnd
        Part(k, low) == <<[key |-> k, low |-> low]>>
        Whole == [j \in 1..last + 1 - first |-> [key |-> first + j - 1, low |-> Lows]]
    IN  IF hbStart = hbEnd THEN Part(hbStart, lbStart..lbEnd)
        ELSE (IF lbStart > 0 THEN Part(hbStart, lbStart..L - 1) ELSE <<>>)
             \o Whole
             \o (IF lbEnd # L - 1 THEN Part(hbEnd, 0..lbEnd) ELSE <<>>)

\* inplace_flip_container, inplace_fully_flip_container
FlipSlot(s, part) ==
    LET i == GetIndex(s, part.key)
        low == IF i > 0 THEN SymDiff(s[i].low, part.low) ELSE part.low
    IN  IF i < 0 THEN InsertSlot(s, -i, part)
        ELSE IF low = {} THEN RemoveSlot(s, i)
        ELSE [s EXCEPT ![i].low = low]

FlippedInPlace(s, start, end) ==
    IF start >= end THEN s
    ELSE FoldLeft(FlipSlot, s, FlipParts(start, IF end > Universe THEN Universe ELSE end))

\* insert_flipped_container, insert_fully_flipped_container
Flipped(s, start, end) ==
    LET parts == FlipParts(start, IF end > Universe THEN Universe ELSE end)
        Insert(ans, part) ==
            LET i == GetIndex(s, part.key)
                low == IF i > 0 THEN SymDiff(s[i].low, part.low) ELSE part.low
            IN  IF low = {} THEN ans
                ELSE InsertSlot(ans, -GetIndex(ans, part.key), [part EXCEPT !.low = low])
        before == SubSeq(s, 1, CountLess(s, Head(parts).key))
        i == GetIndex(s, Last(parts).key)
    IN  IF start >= end THEN s
        ELSE AppendFrom(FoldLeft(Insert, before, parts), s, IF i > 0 THEN i + 1 ELSE -i)

-----------------------------------------------------------------------------
(* Numbers moved *)

\* offset_append_with_merge
AppendMerged(ans, slot) ==
    IF ans = <<>> \/ Last(ans).key # slot.key THEN Append(ans, slot)
    ELSE [ans EXCEPT ![Len(ans)].low = @ \cup slot.low]

\* A container moved by no whole number of keys becomes two, of which the lower one may
\* join what the slot before has left.
Moved(s, offset) ==
    LET up == offset \div L
        inKey == offset % L
        Whole(slot) == [slot EXCEPT !.key = @ + up]
        Split(ans, slot) ==
            LET k == slot.key + up
                sums == {v + inKey : v \in slot.low}
                lo == [key |-> k, low |-> {v \in sums : v < L}]
                hi == [key |-> k + 1, low |-> {v - L : v \in {n \in sums : n >= L}}]
                ans1 == IF k \in Keys /\ lo.low # {} THEN AppendMerged(ans, lo) ELSE ans
            IN  IF k + 1 \in Keys /\ hi.low # {} THEN Append(ans1, hi) ELSE ans1
    IN  IF inKey = 0
        THEN SelectSeq([i \in DOMAIN s |-> Whole(s[i])], LAMBDA slot : slot.key \in Keys)
        ELSE FoldLeft(Split, <<>>, s)

-----------------------------------------------------------------------------
(* Queries *)

\* The numbers in the slots before position n, and all of them.
CardBefore(s, n) == MapThenSumSet(LAMBDA i : Cardinality(s[i].low), 1..n - 1)
GetCardinality(s) == CardBefore(s, Len(s) + 1)

\* container_rank: the numbers of a container up to x.
RankIn(low, x) == Cardinality({v \in low : v <= x})

KeyAt(s, n, k) == n <= Len(s) /\ s[n].key = k

Rank(s, x) ==
    LET n == Advance(s, High(x), 0)
    IN  CardBefore(s, n)
        + (IF KeyAt(s, n, High(x)) THEN RankIn(s[n].low, LowOf(x)) ELSE 0)

GetIndexOf(s, x) ==
    LET i == GetIndex(s, High(x))
    IN  IF i < 0 THEN -1
        ELSE IF LowOf(x) \notin s[i].low THEN -1
        ELSE CardBefore(s, i) + RankIn(s[i].low, LowOf(x)) - 1

Minimum(s) == IF s = <<>> THEN Universe - 1 ELSE s[1].key * L + Min(s[1].low)
Maximum(s) == IF s = <<>> THEN 0 ELSE Last(s).key * L + Max(Last(s).low)

\* The number of a rank, or -1 when there is none.
Select(s, rank) ==
    LET n == CHOOSE n \in 1..Len(s) + 1 :
                 /\ CardBefore(s, n) <= rank
                 /\ n <= Len(s) => CardBefore(s, n + 1) > rank
    IN  IF n > Len(s) THEN -1
        ELSE s[n].key * L
             + CHOOSE v \in s[n].low : RankIn(s[n].low, v) = rank - CardBefore(s, n) + 1

RangeCardinality(s, start, end) ==
    LET last == (IF end > Universe THEN Universe ELSE end) - 1
        minhb == High(start)
        maxhb == High(last)
        i == GetIndex(s, minhb)
        inFirst == IF minhb = maxhb THEN RankIn(s[i].low, LowOf(last)) ELSE Cardinality(s[i].low)
        ahead == IF LowOf(start) # 0 THEN RankIn(s[i].low, LowOf(start) - 1) ELSE 0
        next == IF i > 0 THEN i + 1 ELSE -i
        n == Advance(s, maxhb, next - 1)
    IN  IF start > last THEN 0
        ELSE (IF i > 0 THEN inFirst - ahead ELSE 0)
             + CardBefore(s, n) - CardBefore(s, next)
             + (IF KeyAt(s, n, maxhb) THEN RankIn(s[n].low, LowOf(last)) ELSE 0)

ContainsNumber(s, x) == LET i == GetIndex(s, High(x)) IN i > 0 /\ LowOf(x) \in s[i].low

\* Variant: only the first and the last key are looked for.
KeysAtEnds(is, ie, span) == is > 0 /\ ie > 0
\* The keys of a range are all there if its first and its last key are as far apart as
\* slots as they are as keys.
KeysThroughout(is, ie, span) == is > 0 /\ ie > 0 /\ ie - is = span

ContainsRange(s, start, end) ==
    LET last == (IF end > Universe THEN Universe ELSE end) - 1
        span == High(last) - High(start)
        is == GetIndex(s, High(start))
        ie == GetIndex(s, High(last))
    IN  \/ start > last
        \/ start = last /\ ContainsNumber(s, start)
        \/ /\ start < last /\ Len(s) >= span + 1
           /\ KeysThroughout(is, ie, span)
           /\ IF span = 0 THEN LowOf(start)..LowOf(last) \subseteq s[is].low
              ELSE /\ LowOf(start)..L - 1 \subseteq s[is].low
                   /\ 0..LowOf(last) \subseteq s[ie].low
                   /\ \A i \in is + 1..ie - 1 : s[i].low = Lows

Equals(s, t) == /\ Len(s) = Len(t)
                /\ \A i \in DOMAIN s : s[i].key = t[i].key
                /\ \A i \in DOMAIN s : s[i].low = t[i].low

IsSubset(s, t) ==
    LET From[p \in 1..Len(s) + 1, q \in 1..Len(t) + 1] ==
            \/ p > Len(s)
            \/ /\ p <= Len(s) /\ q <= Len(t)
               /\ \/ /\ s[p].key = t[q].key /\ s[p].low \subseteq t[q].low
                     /\ From[p + 1, q + 1]
                  \/ s[p].key > t[q].key /\ From[p, Advance(t, s[p].key, q)]
    IN  From[1, 1]

\* The pairs of slots of one key at which the loops of two bitmaps meet.
Met(s, t) ==
    LET From[p \in 1..Len(s) + 1, q \in 1..Len(t) + 1] ==
            IF p > Len(s) \/ q > Len(t) THEN {}
            ELSE IF s[p].key = t[q].key THEN {<<p, q>>} \cup From[p + 1, q + 1]
            ELSE IF s[p].key < t[q].key THEN From[Advance(s, t[q].key, p), q]
            ELSE From[p, Advance(t, s[p].key, q)]
    IN  From[1, 1]

Intersect(s, t) == \E m \in Met(s, t) : s[m[1]].low \cap t[m[2]].low # {}
AndCardinality(s, t) ==
    MapThenSumSet(LAMBDA m : Cardinality(s[m[1]].low \cap t[m[2]].low), Met(s, t))
OrCardinality(s, t) == GetCardinality(s) + GetCardinality(t) - AndCardinality(s, t)
AndnotCardinality(s, t) == GetCardinality(s) - AndCardinality(s, t)
XorCardinality(s, t) == GetCardinality(s) + GetCardinality(t) - 2 * AndCardinality(s, t)

-----------------------------------------------------------------------------
(* The calls *)

KeyInit == Init /\ args = <<>> /\ calls = 0

\* A call of one bitmap: x1 becomes s, or the new bitmap the call returns.
Edit(name, given, s) ==
    /\ calls < MaxCalls /\ calls' = calls + 1
    /\ op' = name /\ args' = given
    /\ x1' = s /\ old' = x1
    /\ UNCHANGED <<x2, running, pos1, pos2, isize>>

\* The bounds of add_range and remove_range are narrowed to 32 bits.
Narrow(r) == r[2] <= Universe

AddRange == \E r \in Ranges :
    Narrow(r) /\ Edit("add_range", r, roaring_bitmap_add_range(x1, r[1], r[2]))
RemoveRange == \E r \in Ranges :
    Narrow(r) /\ Edit("remove_range", r, roaring_bitmap_remove_range(x1, r[1], r[2]))
FlipInPlace == \E r \in Ranges :
    r[1] < Universe /\ Edit("flip_inplace", r, FlippedInPlace(x1, r[1], r[2]))
Flip == \E r \in Ranges :
    r[1] < Universe /\ Edit("flip", r, Flipped(x1, r[1], r[2]))
AddOffset == \E o \in Offsets : Edit("add_offset", <<o>>, Moved(x1, o))
NewFromRange == \E r \in Ranges, step \in Steps :
    x1 = <<>> /\ Edit("from_range", r \o <<step>>, FromRange(r[1], r[2], step))

BeginMerge == calls < MaxCalls /\ calls' = calls + 1 /\ Begin /\ UNCHANGED args
Turn == (Meet \/ SkipLeft \/ KeepLeft \/ SkipRight \/ TakeRight \/ Finish)
        /\ UNCHANGED <<args, calls>>

KeyNext == \/ AddRange \/ RemoveRange \/ FlipInPlace \/ Flip \/ AddOffset \/ NewFromRange
           \/ BeginMerge \/ Turn
KeySpec == KeyInit /\ [][KeyNext]_keyVars

-----------------------------------------------------------------------------
(* Properties *)

Numbers(s) == {k * L + v : <<k, v>> \in {kv \in Keys \X Lows : Holds(s, kv[1], kv[2])}}
Span(r) == {x \in 0..Universe - 1 : r[1] <= x /\ x < r[2]}

\* A call on a range, a flip or a shift leaves exactly the numbers it should of the
\* bitmap it found, in the order of their keys and with no empty container and no slot
\* that was only made room for.
RangeEditsExact ==
    args # <<>> =>
       /\ x1 \in Seq(Slots) /\ Ascending(x1)
       /\ LET in == Numbers(old)
              out == Numbers(x1)
          IN  /\ op = "add_range" => out = in \cup Span(args)
              /\ op = "remove_range" => out = in \ Span(args)
              /\ op \in {"flip", "flip_inplace"} => out = SymDiff(in, Span(args))
              /\ op = "add_offset" => out = {n + args[1] : n \in in} \cap 0..Universe - 1
              /\ op = "from_range" =>
                    out = {x \in Span(args) : ((x - args[1]) % args[3]) = 0}

\* The queries of a bitmap, which walk its slots, agree with its numbers.
KeyedQueriesExact ==
    calls = 0 =>
       LET s == x1
           in == Numbers(s)
           UpTo(x) == Cardinality({n \in in : n <= x})
       IN  /\ in # {} => Minimum(s) = Min(in) /\ Maximum(s) = Max(in)
           /\ \A x \in 0..Universe - 1 :
                 /\ Rank(s, x) = UpTo(x)
                 /\ ContainsNumber(s, x) <=> x \in in
                 /\ GetIndexOf(s, x) = IF x \in in THEN UpTo(x) - 1 ELSE -1
                 /\ LET n == Select(s, x)
                    IN  IF x < Cardinality(in) THEN n \in in /\ UpTo(n) = x + 1 ELSE n = -1
           /\ \A r \in Ranges :
                 /\ RangeCardinality(s, r[1], r[2]) = Cardinality(in \cap Span(r))
                 /\ ContainsRange(s, r[1], r[2]) <=> Span(r) \subseteq in
           /\ \A t \in Operands :
                 LET other == Numbers(t)
                 IN  /\ Equals(s, t) <=> in = other
                     /\ IsSubset(s, t) <=> in \subseteq other
                     /\ Intersect(s, t) <=> in \cap other # {}
                     /\ OrCardinality(s, t) = Cardinality(in \cup other)
                     /\ AndnotCardinality(s, t) = Cardinality(in \ other)
                     /\ XorCardinality(s, t) = Cardinality(SymDiff(in, other))
=============================================================================
