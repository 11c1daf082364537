---------------------------- MODULE ArrayKernels ----------------------------
(* The merge kernels of array_util.c and the operations of containers/array.c
   that choose between them: scalar merges, merges by vectors of W values
   (8 in the code), and the skewed intersection that searches a long array for
   the values of a short one.

   One call at a time is made on two sorted arrays. mem holds the memory it
   works on: the operands A and B, the output C with the capacity the caller
   gives it, and the buffer T on the stack. A vector store writes W values
   whatever their number, so what lies behind the output matters: C ends with W cells
   that no store may touch. A step is one iteration of a loop. *)
EXTENDS SortedArrays, SequencesExt, TLC

CONSTANT W  \* values in a vector

ASSUME VectorAssumption == W \in Nat \ {0, 1}

VARIABLES call,  \* the operation and its operands, as sets
          mem,   \* the arrays
          r      \* the local variables of the kernel
vars == <<call, mem, r>>

Free == U  \* what an unused cell of C holds: no 16-bit value
Sorted(S) == SelectSeq([k \in 1 .. U |-> k - 1], LAMBDA v : v \in S)

\* r.at: the loop; r.x, r.y: the arrays that are merged; r.to: the array that gets
\* the result, or "count" or "any" in the forms that return a number or whether
\* there is any; r.i, r.j: places in x and y; r.n: values written; r.found: lanes of
\* the vector of x seen in y so far; r.last, r.max: laststore and vecMax;
\* r.size: values in the buffer T before repetitions are dropped.
Idle == [at |-> "idle", x |-> "A", y |-> "B", to |-> "C", i |-> 0, j |-> 0, n |-> 0,
         found |-> {}, tmp |-> <<>>, last |-> <<>>, max |-> <<>>, size |-> 0]
NoCall == [op |-> "none", a |-> {}, b |-> {}]
NoMemory == [A |-> <<>>, B |-> <<>>, C |-> <<>>, T |-> <<>>]

X == mem[r.x]
Y == mem[r.y]
Set(reg) == r' = reg @@ r

\* The array m with the values v from index i on.
Put(m, i, v) == [k \in DOMAIN m |-> IF k - i \in DOMAIN v THEN v[k - i] ELSE m[k]]

\* The memory m after v is written behind the first n values of the result.
WrittenTo(m, n, v) == IF r.to \in DOMAIN m THEN [m EXCEPT ![r.to] = Put(@, n, v)] ELSE m
Write(v) == \E w \in {v} : mem' = WrittenTo(mem, r.n, w)

-----------------------------------------------------------------------------
(* Vectors *)

Lanes == [k \in 1 .. W |-> k]
Zero == [k \in 1 .. W |-> 0]
Load(a, i) == Slice(a, i, i + W)
Whole(a) == (Len(a) \div W) * W

\* _mm_cmpestrm: the lanes of u that hold a value of v.
EqualAny(u, v) == {k \in 1 .. W : \E l \in 1 .. W : u[k] = v[l]}

\* _mm_cmpistrm: the same, but a zero ends either vector.
EqualAnyImplicit(u, v) ==
    {k \in EqualAny(u, v) :
        /\ \A m \in 1 .. k : u[m] # 0
        /\ \E l \in 1 .. W : v[l] = u[k] /\ \A m \in 1 .. l : v[m] # 0}

\* _mm_shuffle_epi8 with a row of shuffle_mask16 or uniqshuf: the lanes in keep,
\* moved together, and zeros.
Pack(v, keep) == FoldLeft(LAMBDA s, k : IF k \in keep THEN Append(s, v[k]) ELSE s, <<>>, Lanes)
Shuffle(v, keep) == SubSeq(Pack(v, keep) \o Zero, 1, W)

\* _mm_alignr_epi8: the last n lanes of old and all but the last n of new.
Align(old, new, n) == SubSeq(old \o new, W - n + 1, 2 * W - n)
Rotate(v) == Tail(v) \o <<Head(v)>>

MinLanes(u, v) == [k \in 1 .. W |-> IF u[k] <= v[k] THEN u[k] ELSE v[k]]
MaxLanes(u, v) == [k \in 1 .. W |-> IF u[k] <= v[k] THEN v[k] ELSE u[k]]

\* Two sorted vectors into the W smallest and the W largest values, each sorted.
sse_merge(u, v) ==
    LET round(p) == [min |-> MinLanes(Rotate(p.min), p.max), max |-> MaxLanes(Rotate(p.min), p.max)]
        merged == FoldLeft(LAMBDA p, k : round(p),
                           [min |-> MinLanes(u, v), max |-> MaxLanes(u, v)], Tail(Lanes))
    IN  [merged EXCEPT !.min = Rotate(@)]

\* What of a vector is new after the vector old, and what of old's last value and
\* the vector but its last occurs once.
store_unique(old, new) ==
    LET shifted == Align(old, new, 1)
    IN  [from |-> new, keep |-> {k \in 1 .. W : shifted[k] # new[k]}]

\* Variant: what equals the value before is taken for a new value.
store_unique_xorForward(old, new) ==
    LET here == Align(old, new, 1)
    IN  [from |-> here, keep |-> {k \in 1 .. W : here[k] # new[k]}]
store_unique_xor(old, new) ==
    LET before == Align(old, new, 2)
        here == Align(old, new, 1)
    IN  [from |-> here, keep |-> {k \in 1 .. W : here[k] # before[k] /\ here[k] # new[k]}]

-----------------------------------------------------------------------------
(* The calls. skewed stands for the comparison of the two sizes by the factor
   64 ("subject to tuning"): whichever way it is decided, the result must be right. *)

Start(op, a, b, at, x, y, to, capacity) ==
    /\ call' = [op |-> op, a |-> a, b |-> b]
    /\ mem' = [A |-> Sorted(a), B |-> Sorted(b), T |-> <<>>,
               C |-> [k \in 1 .. capacity + W |-> Free]]
    /\ r' = [Idle EXCEPT !.at = at, !.x = x, !.y = y, !.to = to]

\* The smaller array first.
fast_union_uint16(a, b, avx2, capacity) ==
    LET at == IF avx2 THEN "vector union" ELSE "union"
    IN  IF Cardinality(a) < Cardinality(b) THEN Start("or", a, b, at, "A", "B", "C", capacity)
        ELSE Start("or", a, b, at, "B", "A", "C", capacity)

array_container_union(a, b, avx2) ==
    fast_union_uint16(a, b, avx2, Cardinality(a) + Cardinality(b))

array_container_xor(a, b, avx2) ==
    Start("xor", a, b, IF avx2 THEN "vector xor" ELSE "xor", "A", "B", "C",
          Cardinality(a) + Cardinality(b))

\* In place, out is array_1, and the vector kernel is not used.
array_container_andnot(a, b, avx2, out) ==
    Start("andnot", a, b, IF avx2 /\ out = "C" THEN "vector difference" ELSE "difference",
          "A", "B", out, Cardinality(a))

\* An intersection is given the smaller size and a vector, if it is given anything.
\* Variant: the vector is forgotten.
RoomNoVector(a, b) == IF Cardinality(a) < Cardinality(b) THEN Cardinality(a) ELSE Cardinality(b)
Room(a, b) ==
    LET card == IF Cardinality(a) < Cardinality(b) THEN Cardinality(a) ELSE Cardinality(b)
    IN  IF card = 0 THEN 0 ELSE card + W

\* The skewed kernel takes the smaller array first; it is chosen only if one is smaller.
Skewed(op, a, b, at, to, capacity) ==
    \/ Cardinality(a) < Cardinality(b) /\ Start(op, a, b, at, "A", "B", to, capacity)
    \/ Cardinality(b) < Cardinality(a) /\ Start(op, a, b, at, "B", "A", to, capacity)

array_container_intersection(a, b, avx2, skewed) ==
    IF skewed THEN Skewed("and", a, b, "skewed", "C", Room(a, b))
    ELSE Start("and", a, b, IF avx2 THEN "lead" ELSE "intersect", "A", "B", "C",
               Room(a, b))

array_container_intersection_inplace(a, b, avx2, skewed) ==
    IF skewed THEN Skewed("and", a, b, "skewed", "A", 0)
    ELSE Start("and", a, b, IF avx2 THEN "lead" ELSE "intersect", "A", "B", "A", 0)

array_container_intersection_cardinality(a, b, avx2, skewed) ==
    IF skewed THEN Skewed("and", a, b, "skewed count", "count", 0)
    ELSE Start("and", a, b, IF avx2 THEN "lead" ELSE "intersect", "A", "B", "count", 0)

array_container_intersect(a, b, skewed) ==
    IF skewed THEN Skewed("and", a, b, "skewed count", "any", 0)
    ELSE Start("and", a, b, "intersect", "A", "B", "any", 0)

Return ==
    /\ r.at = "done"
    /\ call' = NoCall /\ mem' = NoMemory /\ r' = Idle

-----------------------------------------------------------------------------
(* Scalar merges: values that only x has, that only y has and that both have are
   taken in order; keeps says which of them are written. *)

Merge(at, keeps) ==
    /\ r.at = at
    /\ r.i < Len(X) /\ r.j < Len(Y)
    /\ LET a == At(X, r.i)
           b == At(Y, r.j)
           case == IF a < b THEN "x" ELSE IF b < a THEN "y" ELSE "both"
           kept == IF case \in keeps THEN <<IF a < b THEN a ELSE b>> ELSE <<>>
       IN  /\ Write(kept)
           /\ Set([n |-> r.n + Len(kept),
                   i |-> IF a <= b THEN r.i + 1 ELSE r.i,
                   j |-> IF b <= a THEN r.j + 1 ELSE r.j])
    /\ UNCHANGED call

\* One array is at its end: what is left of the other is copied if it is kept.
EndMerge(at, keeps) ==
    /\ r.at = at
    /\ r.i >= Len(X) \/ r.j >= Len(Y)
    /\ LET rest == (IF "x" \in keeps THEN Slice(X, r.i, Len(X)) ELSE <<>>)
                   \o (IF "y" \in keeps THEN Slice(Y, r.j, Len(Y)) ELSE <<>>)
       IN  Write(rest) /\ Set([at |-> "done", n |-> r.n + Len(rest)])
    /\ UNCHANGED call

union_uint16 == Merge("union", {"x", "y", "both"}) \/ EndMerge("union", {"x", "y", "both"})
xor_uint16 == Merge("xor", {"x", "y"}) \/ EndMerge("xor", {"x", "y"})
difference_uint16 == Merge("difference", {"x"}) \/ EndMerge("difference", {"x"})
IntersectTail == Merge("tail", {"both"}) \/ EndMerge("tail", {"both"})
DifferenceTail == Merge("difference tail", {"x"}) \/ EndMerge("difference tail", {"x"})

\* Two inner loops, over the smaller
\* values of x and of y, and a jump into the first one past its test.
Forward(at, i, j) ==
    /\ Set([at |-> IF i = Len(X) \/ j = Len(Y) THEN "done" ELSE at, i |-> i, j |-> j])
    /\ UNCHANGED mem

IntersectMerge ==
    /\ \/ /\ r.at = "intersect"
          /\ X = <<>> \/ Y = <<>>
          /\ Set([at |-> "done"]) /\ UNCHANGED mem
       \/ /\ r.at = "intersect"
          /\ X # <<>> /\ Y # <<>>
          /\ IF At(X, r.i) < At(Y, r.j) THEN Forward("intersect", r.i + 1, r.j)
             ELSE Forward("greater", r.i, r.j)
       \/ /\ r.at = "greater"
          /\ At(X, r.i) > At(Y, r.j)
          /\ Forward("greater", r.i, r.j + 1)
       \/ /\ r.at = "greater"
          /\ At(X, r.i) < At(Y, r.j)
          /\ Forward("intersect", r.i + 1, r.j)
       \/ /\ r.at = "greater"
          /\ At(X, r.i) = At(Y, r.j)
          /\ Write(<<At(X, r.i)>>)
          /\ Set([n |-> r.n + 1, i |-> r.i + 1, j |-> r.j + 1,
                  at |-> IF r.to = "any" \/ r.i + 1 = Len(X) \/ r.j + 1 = Len(Y)
                         THEN "done" ELSE "intersect"])
    /\ UNCHANGED call

intersect_uint16 == r.to \in {"A", "C"} /\ IntersectMerge
intersect_uint16_cardinality == r.to = "count" /\ IntersectMerge
intersect_uint16_nonempty == r.to = "any" /\ IntersectMerge

-----------------------------------------------------------------------------
(* Skewed intersections: x is the small array, y the large one *)

\* Searches y for the next k values of x at once, then looks at each place found,
\* while the results are written (maybe into x or y).
SearchBlock(k, at) ==
    LET target == Slice(X, r.i, r.i + k)
        index == [m \in 1 .. k |-> r.j + BranchlessSearch(Y, r.j, Len(Y) - r.j, target[m])]
        Check(s, m) ==
            IF index[m] < Len(Y) /\ At(s.mem[r.y], index[m]) = target[m]
            THEN [mem |-> WrittenTo(s.mem, s.n, <<target[m]>>), n |-> s.n + 1]
            ELSE s
    IN  \E checked \in {FoldLeft(Check, [mem |-> mem, n |-> r.n], [m \in 1 .. k |-> m])} :
            /\ mem' = checked.mem
            /\ Set([at |-> at, n |-> checked.n, i |-> r.i + k, j |-> index[k]])

intersect_skewed_uint16 ==
    LET More(k) == r.i + k <= Len(X) /\ r.j < Len(Y)
    IN  /\ \/ r.at = "skewed" /\ More(4) /\ SearchBlock(4, "skewed")
           \/ /\ r.at = "skewed" /\ ~More(4)
              /\ IF More(2) THEN SearchBlock(2, "skewed last")
                 ELSE Set([at |-> "skewed last"]) /\ UNCHANGED mem
           \/ /\ r.at = "skewed last"
              /\ LET value == At(X, r.i)
                     found == IF More(1) /\ binarySearch(Slice(Y, r.j, Len(Y)), value) >= 0
                              THEN <<value>> ELSE <<>>
                 IN  Write(found) /\ Set([at |-> "done", n |-> r.n + Len(found)])
        /\ UNCHANGED call

\* The counting form and the test: galloping in y.
\* Variant: the place in x moves only with the count.
GallopCounted(n, i, j) ==
    Set([at |-> IF i = Len(X) \/ j = Len(Y) THEN "done" ELSE r.at, n |-> n,
         i |-> IF n = r.n THEN r.i ELSE i, j |-> j])
Gallop(n, i, j) ==
    Set([at |-> IF i = Len(X) \/ j = Len(Y) THEN "done" ELSE r.at, n |-> n, i |-> i, j |-> j])

SkewedCount ==
    /\ r.at = "skewed count"
    /\ \/ X = <<>> /\ Set([at |-> "done"])
       \/ /\ X # <<>>
          /\ At(Y, r.j) < At(X, r.i)
          /\ Gallop(r.n, r.i, advanceUntil(Y, r.j, At(X, r.i)))
       \/ /\ X # <<>>
          /\ At(X, r.i) < At(Y, r.j)
          /\ Gallop(r.n, r.i + 1, r.j)
       \/ /\ X # <<>>
          /\ At(X, r.i) = At(Y, r.j)
          /\ IF r.to = "any" THEN Set([at |-> "done", n |-> 1])
             ELSE IF r.i + 1 = Len(X) THEN Gallop(r.n + 1, r.i + 1, r.j)
             ELSE Gallop(r.n + 1, r.i + 1, advanceUntil(Y, r.j, At(X, r.i + 1)))
    /\ UNCHANGED <<call, mem>>

intersect_skewed_uint16_cardinality == r.to = "count" /\ SkewedCount
intersect_skewed_uint16_nonempty == r.to = "any" /\ SkewedCount

-----------------------------------------------------------------------------
(* intersect_vector16, its in-place form and its counting form *)

MoreVectors == r.i < Whole(X) /\ r.j < Whole(Y)

\* In place, what is found waits in tmp until x has moved on.
\* Variant: it is written at once.
HeldNever(i) == FALSE
Held(i) == r.to = "A" /\ i = r.i

\* One pair of vectors. While one of them begins with zero the comparison is by length
\* ("lead"), and zero-terminated afterwards. The loop ends on x before y is looked at.
IntersectVectors(u, v, seen, leading) ==
    LET i == IF u[W] <= v[W] THEN r.i + W ELSE r.i
        j == IF v[W] <= u[W] /\ i < Whole(X) THEN r.j + W ELSE r.j
        tmp == r.tmp \o Pack(u, seen)
        move == [at |-> IF leading THEN "lead" ELSE "blocks", i |-> i, j |-> j]
    IN  \/ /\ r.to # "A"
           /\ Write(Shuffle(u, seen))
           /\ Set([n |-> r.n + Cardinality(seen)] @@ move)
        \/ /\ Held(i)
           /\ Set([tmp |-> tmp] @@ move)
           /\ UNCHANGED mem
        \/ /\ r.to = "A" /\ ~Held(i)
           /\ Write(SubSeq(tmp \o Zero, 1, W))
           /\ Set([n |-> r.n + Len(tmp), tmp |-> <<>>] @@ move)

IntersectBlocks ==
    /\ r.at \in {"lead", "blocks"}
    /\ \/ /\ MoreVectors
          /\ \E u \in {Load(X, r.i)}, v \in {Load(Y, r.j)},
                leading \in {r.at = "lead" /\ (At(X, r.i) = 0 \/ At(Y, r.j) = 0)} :
             \E seen \in {IF leading THEN EqualAny(u, v) ELSE EqualAnyImplicit(u, v)} :
                 IntersectVectors(u, v, seen, leading)
       \/ /\ ~MoreVectors
          /\ Write(r.tmp)
          /\ Set([at |-> "tail", i |-> r.i + Len(r.tmp), n |-> r.n + Len(r.tmp), tmp |-> <<>>])
    /\ UNCHANGED call

intersect_vector16 == r.to = "C" /\ IntersectBlocks
intersect_vector16_inplace == r.to = "A" /\ IntersectBlocks
intersect_vector16_cardinality == r.to = "count" /\ IntersectBlocks

-----------------------------------------------------------------------------
(* difference_vector16 *)

\* A zero at the front would end a vector: it is dealt with first.
DifferenceStart ==
    LET zeroX == At(X, 0) = 0
        zeroY == At(Y, 0) = 0
        x == IF zeroX THEN Tail(X) ELSE X
        y == IF zeroY THEN Tail(Y) ELSE Y
        kept == IF zeroX /\ ~zeroY THEN <<0>> ELSE <<>>
    IN  /\ r.at = "vector difference"
        /\ \/ X = <<>> /\ Set([at |-> "done"]) /\ UNCHANGED mem
           \/ X # <<>> /\ Y = <<>> /\ Write(X) /\ Set([at |-> "done", n |-> Len(X)])
           \/ /\ X # <<>> /\ Y # <<>>
              /\ mem' = (r.x :> x @@ r.y :> y @@ WrittenTo(mem, 0, kept))
              /\ Set([n |-> Len(kept),
                      at |-> IF Len(x) >= W /\ Len(y) >= W THEN "difference blocks"
                             ELSE "difference tail"])
        /\ UNCHANGED call

\* The vector of x is written, without the lanes found, once nothing more of y can equal it.
DifferenceVectors(u, v, found) ==
    LET left == 1 .. W \ found
        over == u[W] <= v[W]
        i == IF over THEN r.i + W ELSE r.i
        j == IF v[W] <= u[W] /\ i < Whole(X) THEN r.j + W ELSE r.j
    IN  /\ IF over THEN Write(Shuffle(u, left)) ELSE UNCHANGED mem
        /\ Set([i |-> i, j |-> j,
                n |-> IF over THEN r.n + Cardinality(left) ELSE r.n,
                found |-> IF over THEN {} ELSE found,
                at |-> IF i = Whole(X) THEN "difference tail"
                       ELSE IF j = Whole(Y) THEN "difference masked"
                       ELSE "difference blocks"])

\* y has no whole vector left: its last values are padded with zeros.
DifferenceMasked(u, v, found) ==
    LET left == 1 .. W \ found
    IN  /\ Write(Shuffle(u, left))
        /\ Set([at |-> "difference tail", i |-> r.i + W, n |-> r.n + Cardinality(left),
                found |-> {}])

difference_vector16 ==
    \/ DifferenceStart
    \/ /\ r.at = "difference blocks"
       /\ \E u \in {Load(X, r.i)}, v \in {Load(Y, r.j)} :
             \E found \in {r.found \cup EqualAnyImplicit(u, v)} : DifferenceVectors(u, v, found)
       /\ UNCHANGED call
    \/ /\ r.at = "difference masked"
       /\ \E u \in {Load(X, r.i)}, v \in {SubSeq(Slice(Y, r.j, Len(Y)) \o Zero, 1, W)} :
             \E found \in {r.found \cup EqualAnyImplicit(u, v)} : DifferenceMasked(u, v, found)
       /\ UNCHANGED call
    \/ DifferenceTail

-----------------------------------------------------------------------------
(* union_vector16 and xor_vector16 *)

IsUnion == call.op = "or"

\* Stores what merging the vector v with the largest values so far settles.
StoreMerged(v, max, last, i, j) ==
    \E merged \in {sse_merge(v, max)} :
    \E fresh \in {IF IsUnion THEN store_unique(last, merged.min)
                  ELSE store_unique_xor(last, merged.min)} :
        /\ Write(Shuffle(fresh.from, fresh.keep))
        /\ Set([n |-> r.n + Cardinality(fresh.keep), i |-> i, j |-> j,
                last |-> merged.min, max |-> merged.max,
                at |-> IF i < Whole(X) /\ j < Whole(Y) THEN "merge vectors" ELSE "merge rest"])

MergeVectors ==
    /\ \/ /\ r.at \in {"vector union", "vector xor"}
          /\ Len(X) >= W /\ Len(Y) >= W
          /\ StoreMerged(Load(X, 0), Load(Y, 0), [k \in 1 .. W |-> U - 1], W, W)
       \/ /\ r.at = "merge vectors"
          /\ At(X, r.i) <= At(Y, r.j)
          /\ StoreMerged(Load(X, r.i), r.max, r.last, r.i + W, r.j)
       \/ /\ r.at = "merge vectors"
          /\ At(X, r.i) > At(Y, r.j)
          /\ StoreMerged(Load(Y, r.j), r.max, r.last, r.i, r.j + W)
    /\ UNCHANGED call

ShortMerge ==
    /\ r.at \in {"vector union", "vector xor"}
    /\ Len(X) < W \/ Len(Y) < W
    /\ Set([at |-> IF IsUnion THEN "union" ELSE "xor"])
    /\ UNCHANGED <<call, mem>>

\* Sorted values without repetitions, and without those that occur twice. Both read
\* the first value, whether there is one or not.
unique(s) ==
    FoldLeft(LAMBDA out, k : IF s[k] # s[k - 1] THEN Append(out, s[k]) ELSE out,
             <<s[1]>>, [k \in 1 .. Len(s) - 1 |-> k + 1])
unique_xor(s) ==
    FoldLeft(LAMBDA out, k : IF s[k] # s[k - 1] THEN Append(out, s[k]) ELSE Front(out),
             <<s[1]>>, [k \in 1 .. Len(s) - 1 |-> k + 1])

\* The largest values and the end of the array that has no whole vector left go to
\* the buffer, are sorted, and are merged with the rest of the other array.
MergeRest ==
    LET fresh == IF IsUnion THEN store_unique(r.last, r.max) ELSE store_unique_xor(r.last, r.max)
        left == Pack(fresh.from, fresh.keep)
                \o (IF ~IsUnion /\ r.max[W] # r.max[W - 1] THEN <<r.max[W]>> ELSE <<>>)
        endX == r.i = Whole(X)
        end == IF endX THEN Slice(X, r.i, Len(X)) ELSE Slice(Y, r.j, Len(Y))
    IN  /\ r.at = "merge rest"
        /\ \E buffer \in {SortSeq(left \o end, <)} :
             /\ mem' = [mem EXCEPT !.T = IF IsUnion THEN unique(buffer)
                                         ELSE IF buffer = <<>> THEN <<>>
                                         ELSE unique_xor(buffer)]
             /\ Set([at |-> IF IsUnion THEN "union" ELSE "xor", x |-> "T", i |-> 0,
                     y |-> IF endX THEN r.y ELSE r.x, j |-> IF endX THEN r.j ELSE r.i,
                     size |-> Len(buffer)])
        /\ UNCHANGED call

union_vector16 == IsUnion /\ (ShortMerge \/ MergeVectors \/ MergeRest)
xor_vector16 == ~IsUnion /\ (ShortMerge \/ MergeVectors \/ MergeRest)

-----------------------------------------------------------------------------

Calls ==
    /\ r.at = "idle"
    /\ \E a, b \in SUBSET Values, avx2, skewed \in BOOLEAN :
        \/ array_container_union(a, b, avx2)
        \/ array_container_xor(a, b, avx2)
        \/ \E out \in {"A", "C"} : array_container_andnot(a, b, avx2, out)
        \/ array_container_intersection(a, b, avx2, skewed)
        \/ array_container_intersection_inplace(a, b, avx2, skewed)
        \/ array_container_intersection_cardinality(a, b, avx2, skewed)
        \/ array_container_intersect(a, b, skewed)

Loop ==
    \/ union_uint16 \/ xor_uint16 \/ difference_uint16
    \/ intersect_uint16 \/ intersect_uint16_cardinality \/ intersect_uint16_nonempty
    \/ intersect_skewed_uint16
    \/ intersect_skewed_uint16_cardinality \/ intersect_skewed_uint16_nonempty
    \/ intersect_vector16 \/ intersect_vector16_inplace \/ intersect_vector16_cardinality
    \/ IntersectTail
    \/ difference_vector16 \/ union_vector16 \/ xor_vector16
    \/ Return

Init == call = NoCall /\ mem = NoMemory /\ r = Idle
Next == Calls \/ Loop

\* A kernel waits for nobody: its loops run on.
Spec == Init /\ [][Next]_vars /\ WF_vars(Loop)

-----------------------------------------------------------------------------

ResultOf(op, a, b) ==
    CASE op = "and" -> a \cap b
      [] op = "or" -> a \cup b
      [] op = "xor" -> (a \ b) \cup (b \ a)
      [] op = "andnot" -> a \ b
      [] op = "none" -> {}

\* Every kernel returns the set operation of its operands: as an increasing array, as
\* their number, or as whether there is any.
KernelsExact ==
    r.at = "done" =>
        LET result == ResultOf(call.op, call.a, call.b)
        IN  CASE r.to \in DOMAIN mem -> Slice(mem[r.to], 0, r.n) = Sorted(result)
              [] r.to = "count" -> r.n = Cardinality(result)
              [] r.to = "any" -> (r.n > 0) = (result # {})

\* No store, a vector's zeros included, goes beyond the capacity the caller has provided
\* (for an intersection the smaller size and a vector), or beyond the buffer on the stack:
\* two vectors, and one more value for xor_vector16.
StoresFit ==
    /\ \A k \in 1 .. W : mem.C # <<>> => mem.C[Len(mem.C) - W + k] = Free
    /\ r.size <= IF call.op = "xor" THEN 2 * W + 1 ELSE 2 * W

\* In place, no kernel overwrites a value it has still to read.
UnreadIntact ==
    r.to = "A" /\ r.at # "done" =>
        LET original == Sorted(call.a)
            place == IF r.x = "A" THEN r.i ELSE r.j
        IN  Slice(mem.A, place, Len(mem.A)) = Slice(original, place, Len(original))

\* Every call returns: each loop comes to its end.
Returns == []<>(r.at = "idle")

\* Every search and query finds what it is asked for; a search that does not find the value
\* tells where it belongs.
Searches ==
    r.at = "idle" =>
        \A S \in SUBSET Values :
            LET a == Sorted(S)
                Less(v) == Cardinality({u \in S : u < v})
            IN  /\ \A v \in Values :
                     LET found == v \in S
                         larger == {u \in S : u >= v}
                     IN  /\ binarySearch(a, v) = IF found THEN Less(v) ELSE -Less(v) - 1
                         /\ ContainsKey(a, v) = found
                         /\ count_less(a, v) = Less(v)
                         /\ count_greater(a, v) = Cardinality(larger \ {v})
                         /\ Rank(a, v) = Less(v + 1)
                         /\ GetIndex(a, v) = IF found THEN Less(v) ELSE -1
                         /\ IndexEqualOrLarger(a, v) = IF larger = {} THEN -1 ELSE Less(v)
                         /\ \A i \in 0 .. Len(a) :
                              /\ advanceUntil(a, i - 1, v) = IF Less(v) > i THEN Less(v) ELSE i
                              /\ i < Len(a) =>
                                   BranchlessSearch(a, i, Len(a) - i, v) =
                                       (IF Less(v) > i THEN Less(v) ELSE i) - i
                /\ \A start \in Values, end \in 0 .. U :
                     ContainsRange(a, start, end) = (start .. end - 1 \subseteq S)
                /\ \A T \in SUBSET Values : IsSubset(a, Sorted(T)) = (S \subseteq T)
                /\ NumberOfRuns(a) = Cardinality({v \in S : v - 1 \notin S})

\* An edit gives the sorted array of what the caller asked for, also at its ends and at the
\* limit of its size, and an offset cuts it where the values pass 2^16.
Edits ==
    r.at = "idle" =>
        \A S \in SUBSET Values :
            LET a == Sorted(S)
                Less(v) == Cardinality({u \in S : u < v})
            IN  /\ \A v \in Values, max \in 1 .. U :
                     Len(a) <= max =>
                         LET room == v \in S \/ Len(a) < max
                         IN  TryAdd(a, v, max) =
                                 [array |-> IF room THEN Sorted(S \cup {v}) ELSE a,
                                  result |-> IF v \in S THEN 0 ELSE IF room THEN 1 ELSE -1]
                /\ \A v \in Values : Removed(a, v) = Sorted(S \ {v})
                /\ \A min \in Values : \A max \in min .. U - 1 :
                     LET greater == Len(a) - Less(max + 1)
                     IN  /\ AddRange(a, min, max, Less(min), greater) = Sorted(S \cup min .. max)
                         /\ RemoveRange(a, Less(min), Len(a) - Less(min) - greater)
                                = Sorted(S \ (min .. max))
                /\ \A offset \in 1 .. U - 1 :
                     OffsetHalves(a, offset) = <<Sorted({v + offset : v \in S} \cap Values),
                                                 Sorted({v + offset - U : v \in S} \cap Values)>>

\* The searches and queries on sorted arrays that everything else rests on, and the edits that
\* keep them sorted, are right on every array (array_util.h, array.c).
ArraysExact == Searches /\ Edits
=============================================================================
