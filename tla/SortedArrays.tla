---------------------------- MODULE SortedArrays ----------------------------
(* The searches and edits of an array container: a sorted array of distinct
   16-bit values (array_util.h, containers/array.h). An array is a sequence;
   the index i of the code is position i + 1, and results are indices as the
   code returns them (-(i + 1) for "not found, belongs at i"). Loops are
   recursive functions of the variables they change. *)
EXTENDS Integers, Sequences, FiniteSets

CONSTANTS U,            \* 2^16: values are 0 .. U - 1
          LinearSearch  \* contains() searches linearly below this length (16)

ASSUME ArrayAssumption == U \in Nat \ {0} /\ LinearSearch \in Nat \ {0}

Values == 0 .. U - 1
Increasing(a) == \A i \in 1 .. Len(a) - 1 : a[i] < a[i + 1]
At(a, i) == a[i + 1]

\* array[from .. to) as a sequence
Slice(a, from, to) == SubSeq(a, from + 1, to)

-----------------------------------------------------------------------------
(* Searches *)

binarySearch(a, key) ==
    LET search[low \in 0 .. Len(a), high \in -1 .. Len(a) - 1] ==
            LET middle == (low + high) \div 2
            IN  IF low > high THEN -(low + 1)
                ELSE IF At(a, middle) < key THEN search[middle + 1, high]
                ELSE IF At(a, middle) > key THEN search[low, middle - 1]
                ELSE middle
    IN  search[0, Len(a) - 1]

\* The lower half of advanceUntil: array[lower] < min < array[upper].
Bisect(a, lo, up, min) ==
    LET bisect[lower \in 0 .. Len(a), upper \in 0 .. Len(a)] ==
            LET mid == (lower + upper) \div 2
            IN  IF lower + 1 = upper THEN upper
                ELSE IF At(a, mid) = min THEN mid
                ELSE IF At(a, mid) < min THEN bisect[mid, upper]
                ELSE bisect[lower, mid]
    IN  bisect[lo, up]

\* Galloping search: the first index after pos whose value is at least min.
advanceUntil(a, pos, min) ==
    LET lower == pos + 1
        gallop[span \in 1 .. 2 * Len(a) + 2] ==
            IF lower + span < Len(a) /\ At(a, lower + span) < min
            THEN gallop[2 * span] ELSE span
        Found(span, upper) ==
            IF At(a, upper) = min THEN upper
            ELSE IF At(a, upper) < min THEN Len(a)
            ELSE Bisect(a, lower + span \div 2, upper, min)
        Reach(span) ==
            Found(span, IF lower + span < Len(a) THEN lower + span ELSE Len(a) - 1)
    IN  IF lower >= Len(a) \/ At(a, lower) >= min THEN lower
        ELSE Reach(gallop[1])

\* The branchless search of binarySearch2 and binarySearch4, for one target, in
\* the n values from index base on: the index, from base, of the first value
\* that is not smaller.
BranchlessSearch(a, base, n, target) ==
    LET search[at \in 0 .. Len(a), m \in 1 .. Len(a)] ==
            LET half == m \div 2
            IN  IF m = 1 THEN at - base + (IF At(a, at) < target THEN 1 ELSE 0)
                ELSE search[IF At(a, at + half) < target THEN at + half ELSE at, m - half]
    IN  search[base, n]

count_less(a, key) ==
    IF a = <<>> THEN 0
    ELSE LET pos == binarySearch(a, key) IN IF pos >= 0 THEN pos ELSE -(pos + 1)

count_greater(a, key) ==
    IF a = <<>> THEN 0
    ELSE LET pos == binarySearch(a, key)
         IN  IF pos >= 0 THEN Len(a) - (pos + 1) ELSE Len(a) - (-pos - 1)

\* Bisects while more than LinearSearch values are left, then looks at each.
ContainsKey(a, key) ==
    LET search[low \in 0 .. Len(a), high \in -1 .. Len(a) - 1] ==
            LET middle == (low + high) \div 2
            IN  IF high < low + LinearSearch
                THEN \E i \in low .. high :
                         At(a, i) = key /\ \A k \in low .. i - 1 : At(a, k) <= key
                ELSE IF At(a, middle) < key THEN search[middle + 1, high]
                ELSE IF At(a, middle) > key THEN search[low, middle - 1]
                ELSE TRUE
    IN  search[0, Len(a) - 1]

\* The range is start .. end - 1; the code narrows both borders to 16 bits.
ContainsRange(a, start, end) ==
    LET count == end - start
        first == binarySearch(a, start % U)
    IN  \/ count <= 0
        \/ /\ count <= Len(a)
           /\ first >= 0
           /\ Len(a) >= first + count
           /\ At(a, first + count - 1) = (end - 1) % U

Rank(a, key) ==
    LET pos == binarySearch(a, key) IN IF pos >= 0 THEN pos + 1 ELSE -pos - 1

GetIndex(a, key) ==
    LET pos == binarySearch(a, key) IN IF pos >= 0 THEN pos ELSE -1

IndexEqualOrLarger(a, key) ==
    LET pos == binarySearch(a, key)
    IN  IF pos >= 0 THEN pos ELSE IF -pos - 1 < Len(a) THEN -pos - 1 ELSE -1

IsSubset(a, b) ==
    LET walk[i \in 0 .. Len(a), j \in 0 .. Len(b)] ==
            IF i = Len(a) \/ j = Len(b) THEN i = Len(a)
            ELSE IF At(a, i) = At(b, j) THEN walk[i + 1, j + 1]
            ELSE At(a, i) > At(b, j) /\ walk[i, j + 1]
    IN  Len(a) <= Len(b) /\ walk[0, 0]

NumberOfRuns(a) ==
    Cardinality({i \in 1 .. Len(a) : IF i = 1 THEN TRUE ELSE a[i] # a[i - 1] + 1})

-----------------------------------------------------------------------------
(* Edits. The result is the array, and for try_add what it returns. *)

\* 1: added, 0: was there, -1: no room under max_cardinality.
TryAdd(a, value, max) ==
    LET loc == binarySearch(a, value)
        idx == -loc - 1
    IN  IF (a = <<>> \/ a[Len(a)] < value) /\ Len(a) < max
        THEN [array |-> Append(a, value), result |-> 1]
        ELSE IF loc >= 0 THEN [array |-> a, result |-> 0]
        ELSE IF Len(a) < max
        THEN [array |-> Slice(a, 0, idx) \o <<value>> \o Slice(a, idx, Len(a)), result |-> 1]
        ELSE [array |-> a, result |-> -1]

Removed(a, value) ==
    LET idx == binarySearch(a, value)
    IN  IF idx >= 0 THEN Slice(a, 0, idx) \o Slice(a, idx + 1, Len(a)) ELSE a

\* Adds min .. max, given how many values are less than min and greater than
\* max: those greater are moved up (or down), the others overwritten.
AddRange(a, min, max, less, greater) ==
    LET total == less + (max - min + 1) + greater
    IN  [i \in 1 .. total |->
            IF i > total - greater THEN a[Len(a) - (total - i)]
            ELSE IF i > less THEN min + (i - less - 1)
            ELSE a[i]]

\* Drops count values from index pos on.
RemoveRange(a, pos, count) ==
    IF count = 0 THEN a ELSE Slice(a, 0, pos) \o Slice(a, pos + count, Len(a))

\* array_container_offset: the values moved up by offset, cut at U.
\* Variant: the value that becomes U is counted with those below.
OffsetHalvesPastTop(a, offset) ==
    LET low == Rank(a, (U - offset) % U)
    IN  <<[i \in 1 .. low |-> (a[i] + offset) % U],
          [i \in 1 .. Len(a) - low |-> (a[i + low] + offset) % U]>>
OffsetHalves(a, offset) ==
    LET low == count_less(a, (U - offset) % U)
    IN  <<[i \in 1 .. low |-> (a[i] + offset) % U],
          [i \in 1 .. Len(a) - low |-> (a[i + low] + offset) % U]>>
=============================================================================
