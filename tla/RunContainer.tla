----------------------------- MODULE RunContainer -----------------------------
(* Run containers (containers/run.c, run.h): a sequence of runs in increasing  *)
(* order, no two of which overlap or touch.  A run [value, length] stands for  *)
(* the length + 1 numbers from value on; both are 16 bits wide.  The positions *)
(* that the binary searches of run.h return are stated by what they count.     *)
EXTENDS Integers, Sequences, FiniteSets, SequencesExt, FiniteSetsExt

CONSTANT U      \* how many numbers there are, 2^16 in the code

ASSUME UAssumption == U \in Nat \ {0}

\* MAKE_RLE16: both fields are cast to 16 bits.
Run(value, length) == [value |-> value % U, length |-> length % U]
End(run) == run.value + run.length

RunValues(runs) == UNION {runs[i].value .. End(runs[i]) : i \in DOMAIN runs}
FullRun == <<Run(0, U - 1)>>
IsFullRun(runs) == runs = FullRun

\* The numbers of a set in increasing order, and the runs they form.
Sorted(vals) ==
    [i \in 1..Cardinality(vals) |->
        CHOOSE v \in vals : Cardinality({u \in vals : u < v}) = i - 1]
RunsOf(vals) ==
    LET begins == Sorted({v \in vals : v - 1 \notin vals})
        ends == Sorted({v \in vals : v + 1 \notin vals})
    IN  [i \in DOMAIN begins |-> Run(begins[i], ends[i] - begins[i])]

\* How many runs begin at v or before it: the place of the run that may hold v.
PlaceOf(runs, v) == Cardinality({i \in DOMAIN runs : runs[i].value <= v})

\* The run that holds v, if there is one, and the first one that ends at v or
\* after it (rle16_find_run).
Holds(run, v) == run.value <= v /\ v <= End(run)
HasValue(runs, v) == \E i \in DOMAIN runs : Holds(runs[i], v)
FirstEndingFrom(runs, v) == 1 + Cardinality({i \in DOMAIN runs : End(runs[i]) < v})
-------------------------------------------------------------------------------
\* run_container_add.
AddValue(runs, pos) ==
    LET p == PlaceOf(runs, pos)
        after == p > 0 /\ pos = End(runs[p]) + 1
        before == p < Len(runs) /\ runs[p + 1].value = pos + 1
    IN  IF p > 0 /\ Holds(runs[p], pos) THEN runs
        ELSE IF after /\ before
        THEN RemoveAt([runs EXCEPT ![p] = Run(@.value, End(runs[p + 1]) - @.value)], p + 1)
        ELSE IF after THEN [runs EXCEPT ![p].length = @ + 1]
        ELSE IF before THEN [runs EXCEPT ![p + 1] = Run(pos, @.length + 1)]
        ELSE InsertAt(runs, p + 1, Run(pos, 0))

\* run_container_remove.
RemoveValue(runs, pos) ==
    LET p == PlaceOf(runs, pos)
        run == runs[p]
    IN  IF p = 0 \/ ~Holds(run, pos) THEN runs
        ELSE IF run.value = pos
        THEN IF run.length = 0 THEN RemoveAt(runs, p)
             ELSE [runs EXCEPT ![p] = Run(pos + 1, @.length - 1)]
        ELSE IF pos < End(run)
        THEN InsertAt([runs EXCEPT ![p] = Run(@.value, pos - @.value - 1)],
                      p + 1, Run(pos + 1, End(run) - pos - 1))
        ELSE [runs EXCEPT ![p].length = @ - 1]

\* run_container_add_range_nruns.  The runs in between, which overlap or touch the
\* range from low to high, become one.
AddRange(runs, low, high) ==
    LET less == Cardinality({i \in DOMAIN runs : End(runs[i]) + 1 < low})
        greater == Cardinality({i \in DOMAIN runs : runs[i].value > high + 1})
        last == Len(runs) - greater
        begin == Min({low, runs[less + 1].value})
        end == Max({high, End(runs[last])})
    IN  SubSeq(runs, 1, less)
        \o (IF less = last THEN <<Run(low, high - low)>> ELSE <<Run(begin, end - begin)>>)
        \o SubSeq(runs, last + 1, Len(runs))

\* Variant: the last run is kept when the range ends with it.
RemoveRangeKeepsLast(runs, low, high) ==
    LET f == FirstEndingFrom(runs, low)
        l == FirstEndingFrom(runs, high)
        startsIn == HasValue(runs, low) /\ runs[f].value < low
        endsIn == HasValue(runs, high)
    IN  SubSeq(runs, 1, f - 1)
        \o (IF startsIn THEN <<Run(runs[f].value, low - 1 - runs[f].value)>> ELSE <<>>)
        \o (IF endsIn THEN <<Run(high + 1, End(runs[l]) - (high + 1))>> ELSE <<>>)
        \o SubSeq(runs, IF HasValue(runs, high) THEN l + 1 ELSE l, Len(runs))

\* run_container_remove_range.  What is left of the runs that hold low and high
\* stays; when they are one run it is split.
RemoveRange(runs, low, high) ==
    LET f == FirstEndingFrom(runs, low)
        l == FirstEndingFrom(runs, high)
        startsIn == HasValue(runs, low) /\ runs[f].value < low
        endsIn == HasValue(runs, high) /\ high < End(runs[l])
    IN  SubSeq(runs, 1, f - 1)
        \o (IF startsIn THEN <<Run(runs[f].value, low - 1 - runs[f].value)>> ELSE <<>>)
        \o (IF endsIn THEN <<Run(high + 1, End(runs[l]) - (high + 1))>> ELSE <<>>)
        \o SubSeq(runs, IF HasValue(runs, high) THEN l + 1 ELSE l, Len(runs))
-------------------------------------------------------------------------------
\* The order in which the merge loops take the runs of two containers: the one
\* that begins first, of r1 when both begin at one number.
Merged(r1, r2) ==
    LET merged[p \in (1..(Len(r1) + 1)) \X (1..(Len(r2) + 1))] ==
            LET i == p[1]
                j == p[2]
            IN  IF i > Len(r1) THEN SubSeq(r2, j, Len(r2))
                ELSE IF j > Len(r2) THEN SubSeq(r1, i, Len(r1))
                ELSE IF r1[i].value <= r2[j].value THEN <<r1[i]>> \o merged[<<i + 1, j>>]
                ELSE <<r2[j]>> \o merged[<<i, j + 1>>]
    IN  merged[<<1, 1>>]

\* run_container_append and run_container_append_first.
AppendRun(runs, run) ==
    LET n == Len(runs)
    IN  IF n = 0 \/ run.value > End(runs[n]) + 1 THEN Append(runs, run)
        ELSE IF End(run) + 1 > End(runs[n])
        THEN [runs EXCEPT ![n] = Run(@.value, End(run) - @.value)]
        ELSE runs

\* run_container_union, run_container_union_inplace and, for an array's values as
\* runs of one number, array_run_container_union and its in-place form.
UnionRuns(r1, r2) ==
    IF IsFullRun(r1) \/ IsFullRun(r2) THEN FullRun
    ELSE FoldLeft(AppendRun, <<>>, Merged(r1, r2))

\* run_container_smart_append_exclusive: the numbers of the last run that run has
\* too go, the ones only one of them has stay.
AppendExclusive(runs, run) ==
    LET n == Len(runs)
        oldEnd == End(runs[n]) + 1
        newEnd == End(run) + 1
        from == Min({oldEnd, newEnd})
        to == Max({oldEnd, newEnd})
    IN  IF n = 0 \/ run.value > oldEnd THEN Append(runs, run)
        ELSE IF run.value = oldEnd
        THEN [runs EXCEPT ![n] = Run(@.value, @.length + run.length + 1)]
        ELSE SubSeq(runs, 1, n - 1)
             \o (IF run.value = runs[n].value THEN <<>>
                 ELSE <<Run(runs[n].value, run.value - runs[n].value - 1)>>)
             \o (IF from = to THEN <<>> ELSE <<Run(from, to - from - 1)>>)

\* run_container_xor and array_run_container_lazy_xor.
XorRuns(r1, r2) == FoldLeft(AppendExclusive, <<>>, Merged(r1, r2))

\* run_container_intersection.
IntersectRuns(r1, r2) ==
    LET Overlap(a, b) == LET begin == Max({a.value, b.value})
                         IN  Run(begin, Min({End(a), End(b)}) - begin)
        meet[p \in (1..(Len(r1) + 1)) \X (1..(Len(r2) + 1))] ==
            LET i == p[1]
                j == p[2]
            IN  IF i > Len(r1) \/ j > Len(r2) THEN <<>>
                ELSE IF End(r1[i]) < r2[j].value THEN meet[<<i + 1, j>>]
                ELSE IF End(r2[j]) < r1[i].value THEN meet[<<i, j + 1>>]
                ELSE <<Overlap(r1[i], r2[j])>>
                     \o meet[<<IF End(r1[i]) <= End(r2[j]) THEN i + 1 ELSE i,
                               IF End(r2[j]) <= End(r1[i]) THEN j + 1 ELSE j>>]
    IN  IF IsFullRun(r1) THEN r2 ELSE IF IsFullRun(r2) THEN r1 ELSE meet[<<1, 1>>]

\* Variant: a run of r1 is dropped from where the first run of r2 begins in it.
AndNotRunsOneCut(r1, r2) ==
    LET Begin(i) == IF i <= Len(r1) THEN r1[i].value ELSE 0
        rest[i \in 1..(Len(r1) + 1), j \in 1..(Len(r2) + 1), start \in 0..U] ==
            IF i > Len(r1) THEN <<>>
            ELSE IF j > Len(r2) \/ End(r1[i]) < r2[j].value
            THEN <<Run(start, End(r1[i]) - start)>> \o rest[i + 1, j, Begin(i + 1)]
            ELSE IF End(r2[j]) < start THEN rest[i, j + 1, start]
            ELSE (IF start < r2[j].value
                  THEN <<Run(start, r2[j].value - start - 1)>> ELSE <<>>)
                 \o rest[i + 1, j, Begin(i + 1)]
    IN  rest[1, 1, Begin(1)]

\* run_container_andnot and, for an array's values as runs of one number, the first
\* case of run_array_container_andnot.  start is where what is left of run i begins.
AndNotRuns(r1, r2) ==
    LET Begin(i) == IF i <= Len(r1) THEN r1[i].value ELSE 0
        rest[p \in (1..(Len(r1) + 1)) \X (1..(Len(r2) + 1)) \X (0..U)] ==
            LET i == p[1]
                j == p[2]
                start == p[3]
            IN  IF i > Len(r1) THEN <<>>
                ELSE IF j > Len(r2) \/ End(r1[i]) < r2[j].value
                THEN <<Run(start, End(r1[i]) - start)>> \o rest[<<i + 1, j, Begin(i + 1)>>]
                ELSE IF End(r2[j]) < start THEN rest[<<i, j + 1, start>>]
                ELSE (IF start < r2[j].value
                      THEN <<Run(start, r2[j].value - start - 1)>> ELSE <<>>)
                     \o IF End(r2[j]) < End(r1[i]) THEN rest[<<i, j, End(r2[j]) + 1>>]
                        ELSE rest[<<i + 1, j, Begin(i + 1)>>]
    IN  rest[<<1, 1, Begin(1)>>]
-------------------------------------------------------------------------------
\* run_container_negation_range, from low up to but not including high.
Negated(runs, low, high) ==
    LET k == Cardinality({i \in DOMAIN runs : runs[i].value < low})
    IN  IF high <= low THEN runs
        ELSE FoldLeft(AppendExclusive,
                      AppendExclusive(SubSeq(runs, 1, k), Run(low, high - low - 1)),
                      SubSeq(runs, k + 1, Len(runs)))

\* run_container_negation_range_inplace: when the array of runs has no room left,
\* and the range can add a run, there is no in-place negation.
NoRoom(runs, capacity, low, high) ==
    /\ capacity = Len(runs)
    /\ (low > 0 /\ HasValue(runs, low - 1)) = HasValue(runs, low)
    /\ HasValue(runs, high - 1) = (high # U /\ HasValue(runs, high))

\* Variant: the run that may be overwritten is read when it is needed.
NegatedInPlaceUnbuffered(runs, low, high) ==
    LET k == Cardinality({i \in DOMAIN runs : runs[i].value < low})
        Write(s, run) ==
            LET out == AppendExclusive(SubSeq(s.mem, 1, s.n), run)
            IN  [s EXCEPT !.mem = out \o SubSeq(@, Len(out) + 1, Len(@)),
                          !.n = Len(out)]
        Turn(s, i) == Write(s, s.mem[i])
        done == FoldLeft(Turn,
                         Write([mem |-> runs, n |-> k, buffered |-> <<>>],
                               Run(low, high - low - 1)),
                         [i \in 1..(Len(runs) - k) |-> k + i])
    IN  [mem |-> done.mem, runs |-> SubSeq(done.mem, 1, done.n)]

\* run_container_negation_range_inplace otherwise: the runs are read from the array
\* mem they are written to, one ahead.
NegatedInPlace(runs, low, high) ==
    LET k == Cardinality({i \in DOMAIN runs : runs[i].value < low})
        At(mem, i) == IF i <= Len(runs) THEN mem[i] ELSE Run(0, 0)
        Write(s, run) ==
            LET out == AppendExclusive(SubSeq(s.mem, 1, s.n), run)
            IN  [s EXCEPT !.mem = out \o SubSeq(@, Len(out) + 1, Len(@)),
                          !.n = Len(out)]
        Turn(s, i) == [Write(s, s.buffered) EXCEPT !.buffered = At(s.mem, i + 1)]
        done == FoldLeft(Turn,
                         Write([mem |-> runs, n |-> k, buffered |-> At(runs, k + 1)],
                               Run(low, high - low - 1)),
                         [i \in 1..(Len(runs) - k) |-> k + i])
    IN  [mem |-> done.mem, runs |-> SubSeq(done.mem, 1, done.n)]
-------------------------------------------------------------------------------
Card(runs) == Len(runs) + MapThenSumSet(LAMBDA i : runs[i].length, DOMAIN runs)

\* Variant: the run that holds low counts in full.
ContainsRangeWholeRuns(runs, low, high) ==
    LET p == PlaceOf(runs, low)
        Count(i) == IF runs[i].value >= high THEN 0
                    ELSE IF End(runs[i]) >= high THEN high - runs[i].value
                    ELSE runs[i].length
    IN  /\ p > 0 /\ Holds(runs[p], low)
        /\ SumFunction([i \in p..Len(runs) |-> Count(i)]) >= high - low - 1

\* run_container_contains_range, from low up to but not including high.
ContainsRange(runs, low, high) ==
    LET p == PlaceOf(runs, low)
        Count(i) == IF runs[i].value >= high THEN 0
                    ELSE IF End(runs[i]) >= high THEN high - runs[i].value
                    ELSE Min({End(runs[i]) - low, runs[i].length})
    IN  /\ p > 0 /\ Holds(runs[p], low)
        /\ SumFunction([i \in p..Len(runs) |-> Count(i)]) >= high - low - 1

\* run_container_rank and run_container_select.
RankOf(runs, v) ==
    SumFunction([i \in 1..PlaceOf(runs, v) |->
                    IF v <= End(runs[i]) THEN v - runs[i].value + 1 ELSE runs[i].length + 1])
SelectAt(runs, rank) ==
    LET Before(i) == SumFunction([j \in 1..(i - 1) |-> runs[j].length + 1])
        i == CHOOSE i \in DOMAIN runs :
                Before(i) <= rank /\ rank <= Before(i) + runs[i].length
    IN  runs[i].value + rank - Before(i)

\* run_container_is_subset.
SubsetRuns(r1, r2) ==
    LET in[p \in (1..(Len(r1) + 1)) \X (1..(Len(r2) + 1))] ==
            LET i == p[1]
                j == p[2]
            IN  IF i > Len(r1) THEN TRUE
                ELSE /\ j <= Len(r2)
                     /\ r2[j].value <= r1[i].value
                     /\ in[<<IF End(r1[i]) <= End(r2[j]) THEN i + 1 ELSE i,
                             IF End(r2[j]) <= End(r1[i]) THEN j + 1 ELSE j>>]
    IN  in[<<1, 1>>]

\* run_container_offset: the runs that stay below U and the ones that go beyond it.
\* The run at the pivot does both if it begins below the first number that does.
Shifted(run, offset) == Run(run.value + offset, run.length)
OffsetLow(runs, offset) ==
    LET top == U - offset
        pivot == FirstEndingFrom(runs, top)
        split == pivot <= Len(runs) /\ runs[pivot].value < top
        Moved(i) == Shifted(runs[i], offset)
    IN  [i \in 1..(IF split THEN pivot ELSE pivot - 1) |->
            IF i = pivot THEN Run(Moved(i).value, U - Moved(i).value - 1) ELSE Moved(i)]

\* Variant: the length of the run that is split is left as it was.
OffsetHighKeepsLength(runs, offset) ==
    LET top == U - offset
        pivot == FirstEndingFrom(runs, top)
        At(i) == runs[pivot + i - 1]
    IN  [i \in 1..(Len(runs) - pivot + 1) |->
            IF i = 1 /\ At(1).value < top THEN Run(0, At(1).length)
            ELSE Shifted(At(i), offset)]

OffsetHigh(runs, offset) ==
    LET top == U - offset
        pivot == FirstEndingFrom(runs, top)
        At(i) == runs[pivot + i - 1]
    IN  [i \in 1..(Len(runs) - pivot + 1) |->
            IF i = 1 /\ At(1).value < top
            THEN Run(0, At(1).length - (U - Shifted(At(1), offset).value))
            ELSE Shifted(At(i), offset)]
===============================================================================
