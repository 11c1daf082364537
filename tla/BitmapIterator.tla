---------------------------- MODULE BitmapIterator ----------------------------
(* roaring_uint32_iterator_t (roaring.c, roaring.h): an iterator over the      *)
(* containers of a bitmap that does not change.  It keeps the container it is  *)
(* in, a place within that container that depends on the container's kind, and *)
(* the value found there.                                                      *)
EXTENDS Integers, Sequences, FiniteSets, SequencesExt

CONSTANTS Keys,       \* how many keys there are, 2^16 in the code
          Lows,       \* how many values a container can hold, 2^16 in the code
          MaxArray,   \* DEFAULT_MAX_SIZE
          MaxSize,    \* bound: the most containers a bitmap has
          MaxCount    \* bound: the most values one call of Read asks for

ASSUME SizeAssumption == Keys \in Nat \ {0} /\ Lows \in Nat \ {0, 1} /\ MaxArray \in Nat
ASSUME BoundAssumption == MaxSize \in Nat /\ MaxCount \in Nat

VARIABLES bitmap,   \* the keys, kinds and values of the containers, in key order
          it,       \* the iterator
          call      \* the last call: the function, its argument and what it copied

vars == <<bitmap, it, call>>

Top == Keys * Lows - 1      \* UINT32_MAX
Wrapped(v) == v % (Top + 1) \* a uint32_t
-------------------------------------------------------------------------------
\* A run container may hold any values; which of the other two kinds holds them
\* depends on their number.
Kinds(vals) == {"run", IF Cardinality(vals) <= MaxArray THEN "array" ELSE "bitset"}

ContainersOf(k) == {c \in [key : {k}, kind : {"run", "array", "bitset"},
                           vals : (SUBSET (0..(Lows - 1))) \ {{}}] :
                      c.kind \in Kinds(c.vals)}

Ordered(bm) == \A i, j \in 1..Len(bm) : i < j => bm[i].key < bm[j].key
Bitmaps == {bm \in UNION {[1..n -> UNION {ContainersOf(k) : k \in 0..(Keys - 1)}] :
                            n \in 0..MaxSize} : Ordered(bm)}

High(c) == c.key * Lows
\* The i-th value of a container, from 0; the place of a value.
Nth(vals, i) == CHOOSE v \in vals : Cardinality({u \in vals : u < v}) = i
Place(vals, v) == Cardinality({u \in vals : u < v})
Least(vals) == Nth(vals, 0)
Greatest(vals) == Nth(vals, Cardinality(vals) - 1)
Above(vals, v) == {u \in vals : u >= v}
Below(vals, v) == {u \in vals : u <= v}

\* The runs of a run container: where each begins and ends.
Begins(vals) == {v \in vals : v - 1 \notin vals}
Ends(vals) == {v \in vals : v + 1 \notin vals}
RunBegin(vals, i) == Nth(Begins(vals), i)
RunEnd(vals, i) == Nth(Ends(vals), i)
Runs(vals) == Cardinality(Begins(vals))

Size == Len(bitmap)
-------------------------------------------------------------------------------
\* iter_new_container_partial_init: iterator i goes to container n.
PartialInit(i, n) ==
    IF n < 0 \/ n >= Size
    THEN [i EXCEPT !.container_index = n, !.in_container_index = 0,
                   !.run_index = 0, !.current_value = Top, !.has_value = FALSE]
    ELSE [container_index |-> n, in_container_index |-> 0, run_index |-> 0,
          current_value |-> 0, has_value |-> TRUE, container |-> bitmap[n + 1]]

\* Iterator i at place p of its container: a value, and what the kind of
\* container needs to find it again.
At(i, v) ==
    LET c == i.container
    IN  [i EXCEPT !.in_container_index = CASE c.kind = "bitset" -> v
                                           [] c.kind = "array" -> Place(c.vals, v)
                                           [] c.kind = "run" -> 0,
                  !.run_index = IF c.kind = "run"
                                THEN Cardinality(Below(Begins(c.vals), v)) - 1 ELSE 0,
                  !.current_value = High(c) + v,
                  !.has_value = TRUE]

\* loadfirstvalue and loadlastvalue.
LoadFirst(i, n) == LET p == PartialInit(i, n)
                   IN  IF p.has_value THEN At(p, Least(p.container.vals)) ELSE p
LoadLast(i, n) == LET p == PartialInit(i, n)
                  IN  IF p.has_value THEN At(p, Greatest(p.container.vals)) ELSE p

\* Variant: the largest value of a container counts as below itself.
SoughtSkips(i, val) ==
    LET hb == val \div Lows
        lb == val % Lows
        before == Cardinality({n \in 1..Size : bitmap[n].key < hb})
        found == \E n \in 1..Size : bitmap[n].key = hb
        c == bitmap[before + 1]
    IN  IF ~found THEN LoadFirst(i, before)
        ELSE IF Greatest(c.vals) <= lb THEN LoadFirst(i, before + 1)
        ELSE At(PartialInit(i, before), Least(Above(c.vals, lb)))

\* roaring_move_uint32_iterator_equalorlarger.
Sought(i, val) ==
    LET hb == val \div Lows
        lb == val % Lows
        before == Cardinality({n \in 1..Size : bitmap[n].key < hb})
        found == \E n \in 1..Size : bitmap[n].key = hb
        c == bitmap[before + 1]
    IN  IF ~found THEN LoadFirst(i, before)
        ELSE IF Greatest(c.vals) < lb THEN LoadFirst(i, before + 1)
        ELSE At(PartialInit(i, before), Least(Above(c.vals, lb)))

\* roaring_advance_uint32_iterator, within the container; LoadFirst of the next
\* container when there is nothing more in this one.
AdvanceBitset(i) ==
    LET more == Above(i.container.vals, i.in_container_index + 1)
    IN  IF more # {} THEN At(i, Least(more)) ELSE LoadFirst(i, i.container_index + 1)

AdvanceArray(i) ==
    LET n == i.in_container_index + 1
        c == i.container
    IN  IF n < Cardinality(c.vals)
        THEN [i EXCEPT !.in_container_index = n, !.has_value = TRUE,
                       !.current_value = High(c) + Nth(c.vals, n)]
        ELSE LoadFirst(i, i.container_index + 1)

AdvanceRun(i) ==
    LET c == i.container
        next == Wrapped(i.current_value + 1)
    IN  IF i.current_value = Top THEN [i EXCEPT !.has_value = FALSE]
        ELSE IF next <= High(c) + RunEnd(c.vals, i.run_index)
        THEN [i EXCEPT !.current_value = next, !.has_value = TRUE]
        ELSE IF i.run_index + 1 < Runs(c.vals)
        THEN [i EXCEPT !.run_index = @ + 1, !.has_value = TRUE,
                       !.current_value = High(c) + RunBegin(c.vals, i.run_index + 1)]
        ELSE LoadFirst(i, i.container_index + 1)

Advanced(i) == IF i.container_index >= Size THEN [i EXCEPT !.has_value = FALSE]
               ELSE IF i.container_index < 0 THEN LoadFirst(i, 0)
               ELSE CASE i.container.kind = "bitset" -> AdvanceBitset(i)
                      [] i.container.kind = "array" -> AdvanceArray(i)
                      [] i.container.kind = "run" -> AdvanceRun(i)

\* roaring_previous_uint32_iterator.
PreviousBitset(i) ==
    LET less == Below(i.container.vals, i.in_container_index - 1)
    IN  IF less # {} THEN At(i, Greatest(less)) ELSE LoadLast(i, i.container_index - 1)

PreviousArray(i) ==
    LET n == i.in_container_index - 1
        c == i.container
    IN  IF n >= 0
        THEN [i EXCEPT !.in_container_index = n, !.has_value = TRUE,
                       !.current_value = High(c) + Nth(c.vals, n)]
        ELSE LoadLast(i, i.container_index - 1)

\* Variant: zero is not looked for before the value is decremented.
PreviousRunUnguarded(i) ==
    LET c == i.container
        next == Wrapped(i.current_value - 1)
    IN  IF next >= High(c) + RunBegin(c.vals, i.run_index)
        THEN [i EXCEPT !.current_value = next, !.has_value = TRUE]
        ELSE IF i.run_index > 0
        THEN [i EXCEPT !.run_index = @ - 1, !.has_value = TRUE,
                       !.current_value = High(c) + RunEnd(c.vals, i.run_index - 1)]
        ELSE LoadLast(i, i.container_index - 1)

PreviousRun(i) ==
    LET c == i.container
        next == Wrapped(i.current_value - 1)
    IN  IF i.current_value = 0 THEN [i EXCEPT !.has_value = FALSE]
        ELSE IF next >= High(c) + RunBegin(c.vals, i.run_index)
        THEN [i EXCEPT !.current_value = next, !.has_value = TRUE]
        ELSE IF i.run_index > 0
        THEN [i EXCEPT !.run_index = @ - 1, !.has_value = TRUE,
                       !.current_value = High(c) + RunEnd(c.vals, i.run_index - 1)]
        ELSE LoadLast(i, i.container_index - 1)

Preceded(i) == IF i.container_index < 0 THEN [i EXCEPT !.has_value = FALSE]
               ELSE IF i.container_index >= Size THEN LoadLast(i, Size - 1)
               ELSE CASE i.container.kind = "bitset" -> PreviousBitset(i)
                      [] i.container.kind = "array" -> PreviousArray(i)
                      [] i.container.kind = "run" -> PreviousRun(i)
-------------------------------------------------------------------------------
\* roaring_read_uint32_iterator, one container: at most n values from iterator i
\* on, and the iterator behind them.
First(vals, n) == {v \in vals : Place(vals, v) < n}
Sorted(vals) == [j \in 1..Cardinality(vals) |-> Nth(vals, j - 1)]

ReadSet(i, n, left) ==
    LET c == i.container
        rest == left \ First(left, n)
    IN  [buf |-> [j \in 1..Cardinality(First(left, n)) |-> High(c) + Sorted(left)[j]],
         it |-> IF rest # {} THEN At(i, Least(rest)) ELSE [i EXCEPT !.has_value = FALSE]]

\* One run of a run container.  The value after the last one of the last container
\* wraps to zero.
ReadRun(i, n) ==
    LET c == i.container
        largest == High(c) + RunEnd(c.vals, i.run_index)
        left == largest - i.current_value + 1
        num == IF left < n THEN left ELSE n
        next == Wrapped(i.current_value + num)
        moved == [i EXCEPT !.current_value = next]
    IN  [buf |-> [j \in 1..num |-> i.current_value + j - 1],
         it |-> IF next <= largest /\ next # 0 THEN moved
                ELSE IF i.run_index + 1 < Runs(c.vals)
                THEN [moved EXCEPT !.run_index = @ + 1,
                        !.current_value = High(c) + RunBegin(c.vals, i.run_index + 1)]
                ELSE [moved EXCEPT !.run_index = @ + 1, !.has_value = FALSE]]

ReadSome(i, n) ==
    LET vals == i.container.vals
    IN  CASE i.container.kind = "bitset" ->
               ReadSet(i, n, Above(vals, i.in_container_index))
          [] i.container.kind = "array" ->
               ReadSet(i, n, {v \in vals : Place(vals, v) >= i.in_container_index})
          [] i.container.kind = "run" -> ReadRun(i, n)

\* One round of the loop: r is the iterator, what was copied and how many values
\* are still asked for.
ReadRound(r) ==
    IF ~r.it.has_value \/ r.left = 0 THEN r
    ELSE LET some == ReadSome(r.it, r.left)
         IN  [it |-> IF some.it.has_value THEN some.it
                     ELSE LoadFirst(some.it, r.it.container_index + 1),
              buf |-> r.buf \o some.buf,
              left |-> r.left - Len(some.buf)]

\* A round copies at least one value, so that n rounds are enough for n values.
ReadFrom(i, n) ==
    LET round[k \in 0..n] == IF k = 0 THEN [it |-> i, buf |-> <<>>, left |-> n]
                             ELSE ReadRound(round[k - 1])
    IN  round[n]
-------------------------------------------------------------------------------
\* The memory of an iterator before roaring_init_iterator.
Raw == [container_index |-> 0, in_container_index |-> 0, run_index |-> 0,
        current_value |-> 0, has_value |-> FALSE, container |-> <<>>]

Called(op, arg, i, buf) == /\ it' = i
                           /\ call' = [op |-> op, arg |-> arg, buf |-> buf]
                           /\ UNCHANGED bitmap

InitFirst == Called("first", 0, LoadFirst(it, 0), <<>>)
InitLast == Called("last", 0, LoadLast(it, Size - 1), <<>>)
MoveEqualOrLarger(val) == Called("seek", val, Sought(it, val), <<>>)
Advance == Called("advance", 0, Advanced(it), <<>>)
Previous == Called("previous", 0, Preceded(it), <<>>)
Read(n) == LET r == ReadFrom(it, n)
           IN  Called("read", n, r.it, r.buf)

Init == /\ bitmap \in Bitmaps
        /\ it \in {LoadFirst(Raw, 0), LoadLast(Raw, Size - 1)}
        /\ call = [op |-> "init", arg |-> 0, buf |-> <<>>]

\* Advance at UINT32_MAX and previous at zero leave a run container's iterator
\* without a value where it is.
StoppedInside == ~it.has_value /\ it.container_index \in 0..(Size - 1)

\* A caller who never turns round after the iterator has stopped like that.
Forward == Advance /\ ~(StoppedInside /\ it.current_value = 0)
Backward == Previous /\ ~(StoppedInside /\ it.current_value = Top)

Jump == \/ InitFirst
        \/ InitLast
        \/ \E val \in 0..Top : MoveEqualOrLarger(val)
        \/ \E n \in 0..MaxCount : Read(n)

Next == Jump \/ Forward \/ Backward
Spec == Init /\ [][Next]_vars
-------------------------------------------------------------------------------
\* An iterator stays within or next to its bitmap, and with a value it is in
\* step with it: it keeps the container of its index, and the place it keeps for the
\* kind of that container holds the value it shows.  Read starts from the place,
\* advance from the place or from the value, so a call that updated one of the two
\* only would go wrong at the next.
InStep ==
    /\ it.container_index \in -1..Size
    /\ it.has_value =>
          LET c == it.container
              v == it.current_value - High(c)
          IN  /\ it.container_index \in 0..(Size - 1)
              /\ c = bitmap[it.container_index + 1]
              /\ v \in c.vals
              /\ c.kind = "bitset" => it.in_container_index = v
              /\ c.kind = "array" => it.in_container_index = Place(c.vals, v)
              /\ c.kind = "run" => v \in RunBegin(c.vals, it.run_index)
                                           ..RunEnd(c.vals, it.run_index)

\* The values of the bitmap, and the place among them the iterator stands for.
Values == UNION {{High(c) + v : v \in c.vals} : c \in ToSet(bitmap)}
Standing == IF it.has_value THEN it.current_value
            ELSE IF it.container_index < 0 \/ (StoppedInside /\ it.current_value = 0)
            THEN -1
            ELSE Top + 1

Cursor == INSTANCE IteratorCursor WITH set <- Values, at <- Standing

CursorNext == \/ Cursor!Start \/ Cursor!Finish \/ Cursor!Advance \/ Cursor!Previous
              \/ \E v \in 0..Top : Cursor!Seek(v)
              \/ \E n \in 0..MaxCount : Cursor!Read(n)

\* An iterator behaves like a cursor on the values of the bitmap, whatever kinds
\* of container they are in and however the calls are mixed ("satisfies semantics
\* of iteration and can be used together with other iterator functions",
\* roaring.h:931).
IsCursor == Cursor!Init /\ [][CursorNext]_<<Values, Standing, call>>
===============================================================================
