--------------------------- MODULE LazyUnion_proofs ---------------------------
(* However unions and differences of many bitmaps share, copy, move and free their         *)
(* containers, none leaks or is freed too early, and no bitmap changes but the answer.     *)
EXTENDS LazyUnion, ContainerKinds_proofs
-------------------------------------------------------------------------------
(* Containers: arrays and bitsets of numbers, and sequences of runs *)

Typed(d) ==
    \/ d.kind = "array" /\ IsVals(d.vals)
    \/ d.kind = "bitset" /\ IsVals(d.vals)
    \/ d.kind = "run" /\ d.runs \in Seq(Run16)

LEMMA ArrayTyped == ASSUME NEW S, IsVals(S) PROVE Typed(ArrayOf(S))
  BY DEF Typed, ArrayOf
LEMMA BitsetTyped == ASSUME NEW S, IsVals(S), NEW n PROVE Typed(BitsetOf(S, n))
  BY DEF Typed, BitsetOf
LEMMA RunsTyped == ASSUME NEW r, r \in Seq(Run16) PROVE Typed(RunsAs(r))
  BY DEF Typed, RunsAs

LEMMA ValuesTyped == ASSUME NEW d, Typed(d) PROVE IsVals(ValuesOf(d))
<1>1. CASE d = Null
  BY <1>1, FS_EmptySet DEF ValuesOf, IsVals
<1>2. CASE d # Null /\ d.kind = "run"
  BY <1>2, RunValuesAre DEF ValuesOf, Typed
<1>3. CASE d # Null /\ d.kind # "run"
  BY <1>3 DEF ValuesOf, Typed
<1> QED
  BY <1>1, <1>2, <1>3

LEMMA ByCardTyped == ASSUME NEW S, IsVals(S), NEW n PROVE Typed(ByCard(S, n))
<1>1. ByCard(S, n) = ArrayOf(S) \/ ByCard(S, n) = BitsetOf(S, n)
  BY DEF ByCard
<1> QED
  BY <1>1, ArrayTyped, BitsetTyped

LEMMA EfficientTyped == ASSUME NEW r, r \in Seq(Run16) PROVE Typed(Efficient(r))
<1> DEFINE b == ByCard(RunValues(r), Card(r))
<1>1. Efficient(r) = RunsAs(r) \/ Efficient(r) = b
  BY DEF Efficient
<1>2. Typed(b)
  BY RunValuesAre, ByCardTyped
<1>3. Typed(RunsAs(r))
  BY RunsTyped
<1> HIDE DEF b
<1> QED
  BY <1>1, <1>2, <1>3

\* Which of two containers is the run container, and which the array.
LEMMA KindsTyped ==
    ASSUME NEW d, NEW e, Typed(d), Typed(e)
    PROVE  /\ d.kind \in {"array", "bitset", "run"} /\ e.kind \in {"array", "bitset", "run"}
           /\ d.kind = "run" => d.runs \in Seq(Run16)
           /\ d.kind # "run" => IsVals(d.vals)
           /\ e.kind = "run" => e.runs \in Seq(Run16)
           /\ e.kind # "run" => IsVals(e.vals)
           /\ "run" \in Kinds(d, e) => /\ OfKind(d, e, "run").runs \in Seq(Run16)
                                       /\ Typed(OfKind(d, e, "run"))
           /\ "array" \in Kinds(d, e) => IsVals(OfKind(d, e, "array").vals)
           /\ "bitset" \in Kinds(d, e) => IsVals(OfKind(d, e, "bitset").vals)
           /\ IsVals(ValuesOf(d) \cup ValuesOf(e)) /\ IsVals(SymDiff(ValuesOf(d), ValuesOf(e)))
<1>1. IsVals(ValuesOf(d) \cup ValuesOf(e)) /\ IsVals(SymDiff(ValuesOf(d), ValuesOf(e)))
  BY ValuesTyped, ValsJoined
<1> QED
  BY <1>1 DEF Typed, Kinds, OfKind

LEMMA LazyArraysTyped ==
    ASSUME NEW S, NEW T, NEW vals, IsVals(vals) PROVE Typed(LazyArrays(S, T, vals))
<1>1. LazyArrays(S, T, vals) = ArrayOf(vals) \/ LazyArrays(S, T, vals) = Dirty(vals)
  BY DEF LazyArrays
<1> QED
  BY <1>1, ArrayTyped, BitsetTyped DEF Dirty

LEMMA LazyOrTyped == ASSUME NEW d, NEW e, Typed(d), Typed(e) PROVE Typed(LazyOr(d, e))
<1> DEFINE run == OfKind(d, e, "run")
           arr == OfKind(d, e, "array")
           all == ValuesOf(d) \cup ValuesOf(e)
           K == Kinds(d, e)
<1>1. CASE K = {"run"}
  <2>1. LazyOr(d, e) = Efficient(UnionRuns(d.runs, e.runs))
    BY <1>1 DEF LazyOr
  <2>2. d.runs \in Seq(Run16) /\ e.runs \in Seq(Run16)
    BY <1>1, KindsTyped DEF Kinds
  <2> QED
    BY <2>1, <2>2, UnionRunsIs, EfficientTyped
<1>2. CASE K = {"run", "array"}
  <2>1. LazyOr(d, e) = RunsAs(UnionRuns(run.runs, Singles(arr.vals)))
    BY <1>2 DEF LazyOr
  <2>2. run.runs \in Seq(Run16) /\ IsVals(arr.vals)
    BY <1>2, KindsTyped
  <2> HIDE DEF run, arr
  <2>3. Singles(arr.vals) \in Seq(Run16)
    BY <2>2, SinglesAre
  <2> QED
    BY <2>1, <2>2, <2>3, UnionRunsIs, RunsTyped
<1>3. CASE K = {"array"}
  <2>1. LazyOr(d, e) = LazyArrays(d.vals, e.vals, all)
    BY <1>3 DEF LazyOr
  <2> QED
    BY <2>1, KindsTyped, LazyArraysTyped
<1>4. CASE "bitset" \in K
  <2>1. LazyOr(d, e) = IF "run" \in K /\ IsFullRun(run.runs) THEN run ELSE Dirty(all)
    BY <1>4 DEF LazyOr
  <2>2. Typed(Dirty(all)) /\ ("run" \in K => Typed(run))
    BY KindsTyped, BitsetTyped DEF Dirty
  <2> HIDE DEF run, all, K
  <2> QED
    BY <2>1, <2>2
<1>5. K = {"run"} \/ K = {"run", "array"} \/ K = {"array"} \/ "bitset" \in K
  BY KindsTyped DEF Kinds
<1> QED
  BY <1>1, <1>2, <1>3, <1>4, <1>5

LEMMA LazyIorTyped == ASSUME NEW d, NEW e, Typed(d), Typed(e) PROVE Typed(LazyIor(d, e))
<1> DEFINE all == ValuesOf(d) \cup ValuesOf(e)
<1>1. LazyIor(d, e) \in {RunsAs(FullRun), BitsetOf(all, Cardinality(all)), LazyOr(d, e)}
  BY DEF LazyIor
<1>2. Typed(BitsetOf(all, Cardinality(all)))
  BY KindsTyped, BitsetTyped
<1>3. Typed(RunsAs(FullRun)) /\ Typed(LazyOr(d, e))
  BY FullRunIs, RunsTyped, LazyOrTyped
<1> HIDE DEF all
<1> QED
  BY <1>1, <1>2, <1>3

LEMMA LazyXorTyped == ASSUME NEW d, NEW e, Typed(d), Typed(e) PROVE Typed(LazyXor(d, e))
<1> DEFINE run == OfKind(d, e, "run")
           arr == OfKind(d, e, "array")
           one == SymDiff(ValuesOf(d), ValuesOf(e))
           K == Kinds(d, e)
<1>1. CASE K = {"run"}
  <2>1. LazyXor(d, e) = Efficient(XorRuns(d.runs, e.runs))
    BY <1>1 DEF LazyXor
  <2>2. d.runs \in Seq(Run16) /\ e.runs \in Seq(Run16)
    BY <1>1, KindsTyped DEF Kinds
  <2> QED
    BY <2>1, <2>2, XorRunsIs, EfficientTyped
<1>2. CASE K = {"run", "array"}
  <2>1. LazyXor(d, e) = RunsAs(XorRuns(run.runs, Singles(arr.vals)))
    BY <1>2 DEF LazyXor
  <2>2. run.runs \in Seq(Run16) /\ IsVals(arr.vals)
    BY <1>2, KindsTyped
  <2> HIDE DEF run, arr
  <2>3. Singles(arr.vals) \in Seq(Run16)
    BY <2>2, SinglesAre
  <2> QED
    BY <2>1, <2>2, <2>3, XorRunsIs, RunsTyped
<1>3. CASE K = {"array"}
  <2>1. LazyXor(d, e) = LazyArrays(d.vals, e.vals, one)
    BY <1>3 DEF LazyXor
  <2> QED
    BY <2>1, KindsTyped, LazyArraysTyped
<1>4. CASE "bitset" \in K
  <2>1. LazyXor(d, e) = Dirty(one)
    BY <1>4 DEF LazyXor
  <2> QED
    BY <2>1, KindsTyped, BitsetTyped DEF Dirty
<1>5. K = {"run"} \/ K = {"run", "array"} \/ K = {"array"} \/ "bitset" \in K
  BY KindsTyped DEF Kinds
<1> QED
  BY <1>1, <1>2, <1>3, <1>4, <1>5

LEMMA CountedTyped == ASSUME NEW d, Typed(d) PROVE Typed(Counted(d))
<1>1. CASE d.kind = "bitset" /\ d.card = Unknown
  <2>1. Counted(d) = BitsetOf(d.vals, Cardinality(d.vals)) /\ IsVals(d.vals)
    BY <1>1 DEF Counted, Typed
  <2> QED
    BY <2>1, BitsetTyped
<1>2. CASE ~(d.kind = "bitset" /\ d.card = Unknown)
  BY <1>2 DEF Counted
<1> QED
  BY <1>1, <1>2

LEMMA XorArraysTyped == ASSUME NEW S, NEW T, IsVals(S), IsVals(T) PROVE Typed(XorArrays(S, T))
<1> DEFINE one == SymDiff(S, T)
           n == FlipListCard(Cardinality(S), S, T)
<1>1. IsVals(one)
  BY ValsJoined
<1>2. XorArrays(S, T) = ArrayOf(one) \/ XorArrays(S, T) = ByCard(one, n)
  BY DEF XorArrays
<1> HIDE DEF one, n
<1> QED
  BY <1>1, <1>2, ArrayTyped, ByCardTyped

LEMMA XorBitsetArrayTyped ==
    ASSUME NEW S, NEW T, NEW n, IsVals(S), IsVals(T) PROVE Typed(XorBitsetArray(S, n, T))
<1> DEFINE one == SymDiff(S, T)
           m == FlipListCard(n, S, T)
<1>1. IsVals(one)
  BY ValsJoined
<1>2. XorBitsetArray(S, n, T) = ByCard(one, m)
  BY DEF XorBitsetArray
<1> HIDE DEF one, m
<1> QED
  BY <1>1, <1>2, ByCardTyped

LEMMA ArrayRunXorTyped ==
    ASSUME NEW S, IsVals(S), NEW r, r \in Seq(Run16) PROVE Typed(ArrayRunXor(S, r))
<1> DEFINE a == Efficient(XorRuns(r, Singles(S)))
           b == XorArrays(RunValues(r), S)
           c == XorBitsetArray(RunValues(r), Card(r), S)
<1>1. Singles(S) \in Seq(Run16) /\ IsVals(RunValues(r))
  BY SinglesAre, RunValuesAre
<1>2. Typed(a) /\ Typed(b) /\ Typed(c)
  BY <1>1, XorRunsIs, EfficientTyped, XorArraysTyped, XorBitsetArrayTyped
<1>3. ArrayRunXor(S, r) \in {a, b, c}
  BY DEF ArrayRunXor
<1> HIDE DEF a, b, c
<1> QED
  BY <1>2, <1>3

LEMMA XorTyped == ASSUME NEW d, NEW e, Typed(d), Typed(e) PROVE Typed(Xor(d, e))
<1> DEFINE run == OfKind(d, e, "run")
           bits == OfKind(d, e, "bitset")
           arr == OfKind(d, e, "array")
           one == SymDiff(ValuesOf(d), ValuesOf(e))
           K == Kinds(d, e)
<1>1. CASE K = {"run"}
  <2>1. Xor(d, e) = Efficient(XorRuns(d.runs, e.runs))
    BY <1>1 DEF Xor
  <2>2. d.runs \in Seq(Run16) /\ e.runs \in Seq(Run16)
    BY <1>1, KindsTyped DEF Kinds
  <2> QED
    BY <2>1, <2>2, XorRunsIs, EfficientTyped
<1>2. CASE K = {"run", "array"}
  <2>1. Xor(d, e) = ArrayRunXor(arr.vals, run.runs)
    BY <1>2 DEF Xor
  <2>2. run.runs \in Seq(Run16) /\ IsVals(arr.vals)
    BY <1>2, KindsTyped
  <2> HIDE DEF run, arr
  <2> QED
    BY <2>1, <2>2, ArrayRunXorTyped
<1>3. CASE K \in {{"bitset"}, {"run", "bitset"}}
  <2>1. Xor(d, e) = ByCard(one, Cardinality(one))
    BY <1>3 DEF Xor
  <2>2. IsVals(one)
    BY KindsTyped
  <2> QED
    BY <2>1, <2>2, ByCardTyped
<1>4. CASE K = {"bitset", "array"}
  <2>1. Xor(d, e) = XorBitsetArray(bits.vals, bits.card, arr.vals)
    BY <1>4 DEF Xor
  <2>2. IsVals(bits.vals) /\ IsVals(arr.vals)
    BY <1>4, KindsTyped
  <2> HIDE DEF bits, arr
  <2> QED
    BY <2>1, <2>2, XorBitsetArrayTyped
<1>5. CASE K = {"array"}
  <2>1. Xor(d, e) = XorArrays(d.vals, e.vals)
    BY <1>5 DEF Xor
  <2>2. IsVals(d.vals) /\ IsVals(e.vals)
    BY <1>5, KindsTyped DEF Kinds
  <2> QED
    BY <2>1, <2>2, XorArraysTyped
<1>6. \/ K = {"run"} \/ K = {"run", "array"} \/ K \in {{"bitset"}, {"run", "bitset"}}
      \/ K = {"bitset", "array"} \/ K = {"array"}
  BY KindsTyped DEF Kinds
<1> QED
  BY <1>1, <1>2, <1>3, <1>4, <1>5, <1>6

LEMMA LazyIxorTyped == ASSUME NEW d, NEW e, Typed(d), Typed(e) PROVE Typed(LazyIxor(d, e))
<1>1. CASE Kinds(d, e) = {"bitset"}
  <2>1. LazyIxor(d, e) = Dirty(SymDiff(d.vals, e.vals)) /\ IsVals(d.vals) /\ IsVals(e.vals)
    BY <1>1, KindsTyped DEF LazyIxor, Kinds
  <2> QED
    BY <2>1, ValsJoined, BitsetTyped DEF Dirty
<1>2. CASE Kinds(d, e) # {"bitset"}
  <2>1. LazyIxor(d, e) = Xor(Counted(d), e)
    BY <1>2 DEF LazyIxor
  <2> QED
    BY <2>1, CountedTyped, XorTyped
<1> QED
  BY <1>1, <1>2

LEMMA ToBitsetTyped == ASSUME NEW d, Typed(d) PROVE Typed(ToBitset(d))
  BY ValuesTyped, BitsetTyped DEF ToBitset

LEMMA JoinedTyped ==
    ASSUME NEW op, NEW d, NEW e, Typed(d), Typed(e) PROVE Typed(Joined(op, d, e))
<1>1. Joined(op, d, e) \in {LazyXor(d, e), LazyIor(ToBitset(d), e), LazyOr(d, e)}
  BY DEF Joined
<1>2. Typed(LazyXor(d, e)) /\ Typed(LazyIor(ToBitset(d), e)) /\ Typed(LazyOr(d, e))
  BY LazyXorTyped, ToBitsetTyped, LazyIorTyped, LazyOrTyped
<1> QED
  BY <1>1, <1>2

LEMMA RepairedTyped == ASSUME NEW d, Typed(d) PROVE Typed(Repaired(d))
<1>1. CASE d.kind = "bitset"
  <2>1. Repaired(d) = ByCard(d.vals, Cardinality(d.vals)) /\ IsVals(d.vals)
    BY <1>1 DEF Repaired, Typed
  <2> QED
    BY <2>1, ByCardTyped
<1>2. CASE d.kind = "array"
  BY <1>2 DEF Repaired
<1>3. CASE d.kind = "run"
  <2>1. Repaired(d) = Efficient(d.runs) /\ d.runs \in Seq(Run16)
    BY <1>3 DEF Repaired, Typed
  <2> QED
    BY <2>1, EfficientTyped
<1> QED
  BY <1>1, <1>2, <1>3 DEF Typed

\* The containers of the bitmaps given are those the library makes.
LEMMA OperandsTyped == ASSUME NEW d \in Operands PROVE Typed(d)
<1>1. \A S \in SUBSET Numbers : IsVals(S)
  <2>1. 0 \in Int /\ U - 1 \in Int
    BY UAssumption
  <2>2. IsVals(Numbers)
    BY <2>1, NumbersAre DEF Numbers
  <2> QED
    BY <2>2, ValsWithin
<1>2. PICK S \in SUBSET Numbers :
          d = ArrayOf(S) \/ d = BitsetOf(S, Cardinality(S)) \/ d = RunsAs(RunsOf(S))
  BY DEF Operands
<1> QED
  BY <1>1, <1>2, ArrayTyped, BitsetTyped, RunsOfAre, RunsTyped
-------------------------------------------------------------------------------
(* The sizes of bitmaps *)

LEMMA BytesAre ==
    ASSUME NEW held, \A k \in Keys : held[k] = Null \/ Typed(held[k])
    PROVE  PortableBytes(held) \in Int
<1> DEFINE cons == {k \in Keys : held[k] # Null}
           Bytes(d) == CASE d.kind = "array" -> 2 * Cardinality(d.vals)
                         [] d.kind = "bitset" -> BitsetBytes
                         [] d.kind = "run" -> RunBytes(Len(d.runs))
           hasrun == \E k \in cons : held[k].kind = "run"
           n == Cardinality(cons)
           head == IF hasrun
                   THEN 4 + (n + 7) \div 8 + (IF n < NO_OFFSET_THRESHOLD THEN 4 * n ELSE 8 * n)
                   ELSE 8 + 8 * n
           B == [k \in cons |-> Bytes(held[k])]
           f == CHOOSE f : f = [s \in SUBSET cons |->
                                   IF s = {} THEN 0
                                   ELSE Bytes(held[CHOOSE x \in s : TRUE])
                                        + f[s \ {CHOOSE x \in s : TRUE}]]
<1>1. PortableBytes(held) = head + f[cons]
  BY DEF PortableBytes, MapThenSumSet, MapThenFoldSet
<1>2. IsFiniteSet(Keys)
  BY LazyAssumption, FS_Interval DEF Keys
<1>3. IsFiniteSet(cons) /\ n \in Nat
  BY <1>2, FS_Subset, FS_CardinalityType
<1>4. \A k \in cons : B[k] \in Int
  <2> SUFFICES ASSUME NEW k \in cons PROVE Bytes(held[k]) \in Int
    OBVIOUS
  <2> DEFINE d == held[k]
  <2>1. Typed(d)
    OBVIOUS
  <2> SUFFICES Bytes(d) \in Int
    OBVIOUS
  <2> HIDE DEF d
  <2>2. CASE d.kind = "array"
    <3>1. Cardinality(d.vals) \in Nat
      BY <2>1, <2>2, FS_CardinalityType DEF Typed, IsVals
    <3> QED
      BY <2>2, <3>1
  <2>3. CASE d.kind = "bitset"
    BY <2>3, SizesAssumption DEF BitsetBytes
  <2>4. CASE d.kind = "run"
    <3>1. Len(d.runs) \in Nat
      BY <2>1, <2>4 DEF Typed
    <3> DEFINE m == Len(d.runs)
    <3> HIDE DEF m
    <3>2. RunBytes(m) \in Int
      BY <3>1, SizesAssumption DEF RunBytes, m
    <3> QED
      BY <2>4, <3>2 DEF m
  <2>5. d.kind = "array" \/ d.kind = "bitset" \/ d.kind = "run"
    BY <2>1 DEF Typed
  <2> QED
    BY <2>2, <2>3, <2>4, <2>5
<1>5. head \in Int
  <2> HIDE DEF n, hasrun
  <2>1. (n + 7) \div 8 \in Int /\ 4 * n \in Int /\ 8 * n \in Int
    BY <1>3
  <2> QED
    BY <2>1 DEF NO_OFFSET_THRESHOLD
<1>6. \A k \in cons : B[k] = Bytes(held[k])
  OBVIOUS
<1> HIDE DEF B, cons, Bytes
<1>7. Adds(B, cons, f)
  <2>1. PICK g : Adds(B, cons, g)
    BY <1>3, AddsExist
  <2>2. \A h : \A s \in SUBSET cons :
           AddStep(B, h, s) = IF s = {} THEN 0
                              ELSE Bytes(held[CHOOSE x \in s : TRUE])
                                   + h[s \ {CHOOSE x \in s : TRUE}]
    BY <1>6 DEF AddStep, Chosen
  <2>3. g = [s \in SUBSET cons |-> IF s = {} THEN 0
                                   ELSE Bytes(held[CHOOSE x \in s : TRUE])
                                        + g[s \ {CHOOSE x \in s : TRUE}]]
    BY <2>1, <2>2 DEF Adds
  <2>4. f = [s \in SUBSET cons |-> IF s = {} THEN 0
                                   ELSE Bytes(held[CHOOSE x \in s : TRUE])
                                        + f[s \ {CHOOSE x \in s : TRUE}]]
    BY <2>3
  <2> HIDE DEF f
  <2> QED
    BY <2>2, <2>4 DEF Adds
<1> HIDE DEF f, head
<1>8. f[cons] \in Int
  BY <1>3, <1>4, <1>7, SumIs
<1> QED
  BY <1>1, <1>5, <1>8
-------------------------------------------------------------------------------
(* Memory that is counted right *)

Slots == [cell : Nat, shared : BOOLEAN]
IsHeap(h) ==
    /\ h = [mem |-> h.mem, bm |-> h.bm]
    /\ h.mem = [n \in DOMAIN h.mem |-> [con |-> h.mem[n].con, refs |-> h.mem[n].refs]]
    /\ h.bm = [x \in DOMAIN h.bm |-> [at |-> h.bm[x].at, cow |-> h.bm[x].cow]]
    /\ IsFiniteSet(DOMAIN h.mem) /\ IsFiniteSet(DOMAIN h.bm)
    /\ \A n \in DOMAIN h.mem : n # 0 /\ h.mem[n].refs \in Nat
    /\ \A x \in DOMAIN h.bm : h.bm[x].at \in [Keys -> Slots]

\* A container is in one slot, or in as many slots as its wrapper counts.
Holders(h, n) == {p \in (DOMAIN h.bm) \X Keys : SlotOf(h, p[1], p[2]).cell = n}
Fits(h, n) ==
    /\ Cardinality(Holders(h, n)) = IF h.mem[n].refs = 0 THEN 1 ELSE h.mem[n].refs
    /\ \A x \in DOMAIN h.bm, k \in Keys :
          SlotOf(h, x, k).cell = n => (SlotOf(h, x, k).shared <=> h.mem[n].refs # 0)
Sound(h) ==
    /\ IsHeap(h)
    /\ \A n \in DOMAIN h.mem : Typed(h.mem[n].con)
    /\ \A x \in DOMAIN h.bm, k \in Keys :
          SlotOf(h, x, k) # NoSlot => SlotOf(h, x, k).cell \in DOMAIN h.mem
    /\ \A n \in DOMAIN h.mem : Fits(h, n)
-------------------------------------------------------------------------------
(* Slots and cells *)

LEMMA SlotIs ==
    ASSUME NEW h, IsHeap(h), NEW x \in DOMAIN h.bm, NEW k \in Keys
    PROVE  /\ SlotOf(h, x, k) \in Slots
           /\ SlotOf(h, x, k).cell \in Nat /\ SlotOf(h, x, k).shared \in BOOLEAN
           /\ 0 \notin DOMAIN h.mem
  BY DEF IsHeap, SlotOf, Slots

\* A finite set of numbers leaves one of them out.
LEMMA FreshIs ==
    ASSUME NEW m, IsFiniteSet(DOMAIN m)
    PROVE  Fresh(m) \in Nat /\ Fresh(m) # 0 /\ Fresh(m) \notin DOMAIN m
<1> DEFINE c == Cardinality(DOMAIN m)
<1>1. c \in Nat
  BY FS_CardinalityType
<1>2. \E n \in 1..(c + 1) : n \notin DOMAIN m
  <2>1. SUFFICES ASSUME 1..(c + 1) \subseteq DOMAIN m PROVE FALSE
    OBVIOUS
  <2>2. Cardinality(1..(c + 1)) <= c
    BY <2>1, FS_Subset
  <2> HIDE DEF c
  <2>3. Cardinality(1..(c + 1)) = c + 1
    <3>1. 1 \in Int /\ c + 1 \in Int /\ ~(1 > c + 1)
      BY <1>1
    <3> QED
      BY <1>1, <3>1, FS_Interval
  <2> QED
    BY <1>1, <2>2, <2>3
<1>3. Fresh(m) \in 1..(c + 1) /\ Fresh(m) \notin DOMAIN m
  BY <1>2 DEF Fresh
<1> QED
  BY <1>1, <1>3

\* What it is to write a slot.
LEMMA PutIs ==
    ASSUME NEW h, IsHeap(h), NEW x \in DOMAIN h.bm, NEW k \in Keys, NEW s \in Slots
    PROVE  LET g == Put(h, x, k, s)
           IN  /\ IsHeap(g) /\ g.mem = h.mem /\ DOMAIN g.bm = DOMAIN h.bm
               /\ SlotOf(g, x, k) = s
               /\ \A z \in DOMAIN h.bm, j \in Keys :
                     z # x \/ j # k => SlotOf(g, z, j) = SlotOf(h, z, j)
<1> DEFINE g == Put(h, x, k, s)
           at == [h.bm[x].at EXCEPT ![k] = s]
<1>1. h.bm[x].at \in [Keys -> Slots]
  BY DEF IsHeap
<1>2. at \in [Keys -> Slots] /\ at[k] = s /\ \A j \in Keys : j # k => at[j] = h.bm[x].at[j]
  BY <1>1
<1>3. g = [h EXCEPT !.bm = [h.bm EXCEPT ![x] = [h.bm[x] EXCEPT !.at = at]]]
  BY DEF Put
<1>4. h.bm[x] = [at |-> h.bm[x].at, cow |-> h.bm[x].cow]
  BY DEF IsHeap
<1>5. [h.bm[x] EXCEPT !.at = at] = [at |-> at, cow |-> h.bm[x].cow]
  BY <1>4
<1> HIDE DEF g, at
<1>6. g.mem = h.mem /\ g = [mem |-> g.mem, bm |-> g.bm]
      /\ g.bm = [h.bm EXCEPT ![x] = [at |-> at, cow |-> h.bm[x].cow]]
  BY <1>3, <1>5 DEF IsHeap
<1>7. DOMAIN g.bm = DOMAIN h.bm /\ g.bm[x] = [at |-> at, cow |-> h.bm[x].cow]
      /\ \A z \in DOMAIN h.bm : z # x => g.bm[z] = h.bm[z]
  BY <1>6 DEF IsHeap
<1>8. \A z \in DOMAIN h.bm : g.bm[z] = [at |-> g.bm[z].at, cow |-> g.bm[z].cow]
  BY <1>7 DEF IsHeap
<1>9. g.bm = [z \in DOMAIN g.bm |-> [at |-> g.bm[z].at, cow |-> g.bm[z].cow]]
  BY <1>6, <1>7, <1>8 DEF IsHeap
<1>10. \A z \in DOMAIN g.bm : g.bm[z].at \in [Keys -> Slots]
  BY <1>2, <1>7 DEF IsHeap
<1>11. IsHeap(g)
  BY <1>6, <1>7, <1>9, <1>10 DEF IsHeap
<1>12. SlotOf(g, x, k) = s
  BY <1>2, <1>7 DEF SlotOf
<1>13. ASSUME NEW z \in DOMAIN h.bm, NEW j \in Keys, z # x \/ j # k
       PROVE  SlotOf(g, z, j) = SlotOf(h, z, j)
  BY <1>2, <1>7, <1>13 DEF SlotOf
<1> QED
  BY <1>6, <1>7, <1>11, <1>12, <1>13 DEF g

\* What it is to change the memory and no slot.
IsMemory(m) ==
    /\ m = [n \in DOMAIN m |-> [con |-> m[n].con, refs |-> m[n].refs]]
    /\ IsFiniteSet(DOMAIN m)
    /\ \A n \in DOMAIN m : n # 0 /\ m[n].refs \in Nat
LEMMA MemoryIs ==
    ASSUME NEW h, IsHeap(h), NEW m, IsMemory(m)
    PROVE  LET g == [h EXCEPT !.mem = m]
           IN  /\ IsHeap(g) /\ g.mem = m /\ g.bm = h.bm
               /\ \A z, j : SlotOf(g, z, j) = SlotOf(h, z, j)
  BY DEF IsHeap, IsMemory, SlotOf

\* The four ways in which it changes.
NewCell(d) == [con |-> d, refs |-> 0]
IsWith(m, h, n, d) ==
    /\ IsMemory(m) /\ DOMAIN m = DOMAIN h.mem \cup {n} /\ m[n].con = d /\ m[n].refs = 0
    /\ \A l \in DOMAIN h.mem : l # n => m[l] = h.mem[l]
LEMMA WithIs ==
    ASSUME NEW h, IsHeap(h), NEW n, n # 0, NEW d
    PROVE  IsWith(With(h.mem, n, NewCell(d)), h, n, d)
<1> DEFINE m == With(h.mem, n, NewCell(d))
<1>1. DOMAIN m = DOMAIN h.mem \cup {n} /\ m[n] = NewCell(d)
      /\ \A l \in DOMAIN h.mem : l # n => m[l] = h.mem[l]
  BY DEF With, NewCell
<1>2. m = [l \in DOMAIN m |-> m[l]]
  BY DEF With
<1> HIDE DEF m
<1>3. IsFiniteSet(DOMAIN m)
  BY <1>1, FS_AddElement DEF IsHeap
<1>4. \A l \in DOMAIN m :
         m[l] = [con |-> m[l].con, refs |-> m[l].refs] /\ l # 0 /\ m[l].refs \in Nat
  BY <1>1 DEF IsHeap, NewCell
<1>5. m = [l \in DOMAIN m |-> [con |-> m[l].con, refs |-> m[l].refs]]
  BY <1>2, <1>4
<1>6. IsMemory(m)
  BY <1>3, <1>4, <1>5 DEF IsMemory
<1> QED
  BY <1>1, <1>6 DEF m, NewCell, IsWith

LEMMA WithoutIs ==
    ASSUME NEW h, IsHeap(h), NEW n
    PROVE  LET m == Without(h.mem, n)
           IN  /\ IsMemory(m) /\ DOMAIN m = DOMAIN h.mem \ {n}
               /\ \A l \in DOMAIN m : m[l] = h.mem[l]
<1> DEFINE m == Without(h.mem, n)
<1>1. DOMAIN m = DOMAIN h.mem \ {n} /\ \A l \in DOMAIN m : m[l] = h.mem[l]
  BY DEF Without
<1>2. m = [l \in DOMAIN m |-> m[l]]
  BY DEF Without
<1> HIDE DEF m
<1>3. IsFiniteSet(DOMAIN m)
  <2>1. IsFiniteSet(DOMAIN h.mem)
    BY DEF IsHeap
  <2> QED
    BY <1>1, <2>1, FS_RemoveElement
<1>4. \A l \in DOMAIN m :
         m[l] = [con |-> m[l].con, refs |-> m[l].refs] /\ l # 0 /\ m[l].refs \in Nat
  BY <1>1 DEF IsHeap
<1>5. m = [l \in DOMAIN m |-> [con |-> m[l].con, refs |-> m[l].refs]]
  BY <1>2, <1>4
<1>6. IsMemory(m)
  BY <1>3, <1>4, <1>5 DEF IsMemory
<1> QED
  BY <1>1, <1>6 DEF m

\* Of the cell of a slot, the count or the container.
Recounted(h, n, r) == [h EXCEPT !.mem[n].refs = r]
LEMMA RecountIs ==
    ASSUME NEW h, IsHeap(h), NEW n \in DOMAIN h.mem, NEW r \in Nat
    PROVE  LET g == Recounted(h, n, r)
           IN  /\ IsHeap(g) /\ g.bm = h.bm /\ DOMAIN g.mem = DOMAIN h.mem
               /\ g.mem[n].con = h.mem[n].con /\ g.mem[n].refs = r
               /\ \A l \in DOMAIN h.mem : l # n => g.mem[l] = h.mem[l]
               /\ \A z, j : SlotOf(g, z, j) = SlotOf(h, z, j)
<1> DEFINE m == [h.mem EXCEPT ![n] = [con |-> h.mem[n].con, refs |-> r]]
           g == Recounted(h, n, r)
<1>1. h.mem[n] = [con |-> h.mem[n].con, refs |-> h.mem[n].refs]
  BY DEF IsHeap
<1>2. [h.mem[n] EXCEPT !.refs = r] = [con |-> h.mem[n].con, refs |-> r]
  BY <1>1
<1>3. g = [h EXCEPT !.mem = m]
  BY <1>2 DEF Recounted
<1>4. DOMAIN m = DOMAIN h.mem /\ m[n] = [con |-> h.mem[n].con, refs |-> r]
      /\ \A l \in DOMAIN h.mem : l # n => m[l] = h.mem[l]
  BY DEF IsHeap
<1>5. m = [l \in DOMAIN m |-> m[l]]
  BY DEF IsHeap
<1> HIDE DEF m, g
<1>6. \A l \in DOMAIN m :
         m[l] = [con |-> m[l].con, refs |-> m[l].refs] /\ l # 0 /\ m[l].refs \in Nat
  BY <1>4 DEF IsHeap
<1>7. IsMemory(m)
  <2>1. m = [l \in DOMAIN m |-> [con |-> m[l].con, refs |-> m[l].refs]]
    BY <1>5, <1>6
  <2> QED
    BY <1>4, <1>6, <2>1 DEF IsMemory, IsHeap
<1>8. IsHeap(g) /\ g.mem = m /\ g.bm = h.bm /\ \A z, j : SlotOf(g, z, j) = SlotOf(h, z, j)
  BY <1>3, <1>7, MemoryIs
<1> QED
  BY <1>4, <1>8 DEF g

Rewritten(h, n, d) == [h EXCEPT !.mem[n].con = d]
LEMMA RewriteIs ==
    ASSUME NEW h, IsHeap(h), NEW n \in DOMAIN h.mem, NEW d
    PROVE  LET g == Rewritten(h, n, d)
           IN  /\ IsHeap(g) /\ g.bm = h.bm /\ DOMAIN g.mem = DOMAIN h.mem
               /\ g.mem[n].con = d /\ g.mem[n].refs = h.mem[n].refs
               /\ \A l \in DOMAIN h.mem : l # n => g.mem[l] = h.mem[l]
               /\ \A z, j : SlotOf(g, z, j) = SlotOf(h, z, j)
<1> DEFINE m == [h.mem EXCEPT ![n] = [con |-> d, refs |-> h.mem[n].refs]]
           g == Rewritten(h, n, d)
<1>1. h.mem[n] = [con |-> h.mem[n].con, refs |-> h.mem[n].refs]
  BY DEF IsHeap
<1>2. [h.mem[n] EXCEPT !.con = d] = [con |-> d, refs |-> h.mem[n].refs]
  BY <1>1
<1>3. g = [h EXCEPT !.mem = m]
  BY <1>2 DEF Rewritten
<1>4. DOMAIN m = DOMAIN h.mem /\ m[n] = [con |-> d, refs |-> h.mem[n].refs]
      /\ \A l \in DOMAIN h.mem : l # n => m[l] = h.mem[l]
  BY DEF IsHeap
<1>5. m = [l \in DOMAIN m |-> m[l]]
  BY DEF IsHeap
<1> HIDE DEF m, g
<1>6. \A l \in DOMAIN m :
         m[l] = [con |-> m[l].con, refs |-> m[l].refs] /\ l # 0 /\ m[l].refs \in Nat
  BY <1>4 DEF IsHeap
<1>7. IsMemory(m)
  <2>1. m = [l \in DOMAIN m |-> [con |-> m[l].con, refs |-> m[l].refs]]
    BY <1>5, <1>6
  <2> QED
    BY <1>4, <1>6, <2>1 DEF IsMemory, IsHeap
<1>8. IsHeap(g) /\ g.mem = m /\ g.bm = h.bm /\ \A z, j : SlotOf(g, z, j) = SlotOf(h, z, j)
  BY <1>3, <1>7, MemoryIs
<1> QED
  BY <1>4, <1>8 DEF g
-------------------------------------------------------------------------------
(* Who holds a cell *)

\* h and g have the same bitmaps, and slots alike but for x at k.
Alike(h, g, x, k) ==
    /\ IsHeap(h) /\ IsHeap(g) /\ DOMAIN g.bm = DOMAIN h.bm
    /\ x \in DOMAIN h.bm /\ k \in Keys
    /\ \A z \in DOMAIN h.bm, j \in Keys :
          z # x \/ j # k => SlotOf(g, z, j).cell = SlotOf(h, z, j).cell

LEMMA KeysFinite == IsFiniteSet(Keys)
  BY LazyAssumption, FS_Interval DEF Keys

LEMMA HoldersFinite ==
    ASSUME NEW h, IsHeap(h), NEW n
    PROVE  IsFiniteSet(Holders(h, n)) /\ Cardinality(Holders(h, n)) \in Nat
<1>1. IsFiniteSet((DOMAIN h.bm) \X Keys)
  BY KeysFinite, FS_Product DEF IsHeap
<1>2. Holders(h, n) \in SUBSET ((DOMAIN h.bm) \X Keys)
  BY DEF Holders
<1>3. IsFiniteSet(Holders(h, n))
  BY <1>1, <1>2, FS_Subset
<1> QED
  BY <1>3, FS_CardinalityType

\* The slot that changes comes to hold n.
LEMMA HolderComes ==
    ASSUME NEW h, NEW g, NEW x, NEW k, Alike(h, g, x, k), NEW n,
           SlotOf(h, x, k).cell # n, SlotOf(g, x, k).cell = n
    PROVE  Cardinality(Holders(g, n)) = Cardinality(Holders(h, n)) + 1
<1>1. Holders(g, n) = Holders(h, n) \cup {<<x, k>>}
  BY DEF Holders, Alike
<1>2. <<x, k>> \notin Holders(h, n)
  BY DEF Holders, Alike
<1>3. IsFiniteSet(Holders(h, n))
  BY HoldersFinite DEF Alike
<1> QED
  BY <1>1, <1>2, <1>3, FS_AddElement

LEMMA HolderLeaves ==
    ASSUME NEW h, NEW g, NEW x, NEW k, Alike(h, g, x, k), NEW n,
           SlotOf(h, x, k).cell = n, SlotOf(g, x, k).cell # n
    PROVE  Cardinality(Holders(g, n)) = Cardinality(Holders(h, n)) - 1
<1>1. Alike(g, h, x, k)
  BY DEF Alike
<1>2. Cardinality(Holders(h, n)) = Cardinality(Holders(g, n)) + 1
  BY <1>1, HolderComes
<1> QED
  BY <1>2, HoldersFinite DEF Alike

LEMMA HolderStays ==
    ASSUME NEW h, NEW g, NEW x, NEW k, Alike(h, g, x, k), NEW n,
           SlotOf(h, x, k).cell = n <=> SlotOf(g, x, k).cell = n
    PROVE  Holders(g, n) = Holders(h, n)
  BY DEF Holders, Alike

\* A container that one slot holds is in no other.
LEMMA OneHolder ==
    ASSUME NEW h, IsHeap(h), NEW n, Cardinality(Holders(h, n)) = 1,
           NEW x \in DOMAIN h.bm, NEW k \in Keys, SlotOf(h, x, k).cell = n,
           NEW z \in DOMAIN h.bm, NEW j \in Keys, SlotOf(h, z, j).cell = n
    PROVE  z = x /\ j = k
<1>1. <<x, k>> \in Holders(h, n) /\ <<z, j>> \in Holders(h, n)
  BY DEF Holders
<1>2. \E p : Holders(h, n) = {p}
  BY HoldersFinite, FS_Singleton
<1> QED
  BY <1>1, <1>2
\* All that is said of a cell is kept.
LEMMA FitsKept ==
    ASSUME NEW h, NEW g, NEW x, NEW k, Alike(h, g, x, k), NEW n,
           SlotOf(h, x, k).cell = n <=> SlotOf(g, x, k).cell = n,
           \A z \in DOMAIN h.bm, j \in Keys :
              SlotOf(g, z, j).cell = n => SlotOf(g, z, j) = SlotOf(h, z, j),
           g.mem[n].refs = h.mem[n].refs, Fits(h, n)
    PROVE  Fits(g, n)
<1>1. Holders(g, n) = Holders(h, n)
  BY HolderStays
<1>2. DOMAIN g.bm = DOMAIN h.bm
  BY DEF Alike
<1> QED
  BY <1>1, <1>2 DEF Fits

\* A container that is not shared is in one slot.
LEMMA OwnCell ==
    ASSUME NEW h, Sound(h), NEW x \in DOMAIN h.bm, NEW k \in Keys,
           SlotOf(h, x, k) # NoSlot, ~SlotOf(h, x, k).shared
    PROVE  /\ SlotOf(h, x, k).cell \in DOMAIN h.mem /\ h.mem[SlotOf(h, x, k).cell].refs = 0
           /\ \A z \in DOMAIN h.bm, j \in Keys :
                 SlotOf(h, z, j).cell = SlotOf(h, x, k).cell => z = x /\ j = k
<1> DEFINE n == SlotOf(h, x, k).cell
<1>1. IsHeap(h) /\ n \in DOMAIN h.mem /\ Fits(h, n)
  BY DEF Sound
<1>2. h.mem[n].refs = 0
  BY <1>1 DEF Fits
<1>3. Cardinality(Holders(h, n)) = 1
  BY <1>1, <1>2 DEF Fits
<1> QED
  BY <1>1, <1>2, <1>3, OneHolder

LEMMA NoSlotIs == NoSlot \in Slots /\ NoSlot.cell = 0 /\ ~NoSlot.shared
  BY DEF NoSlot, Own, Slots

\* A slot is empty when its cell is 0.
LEMMA EmptySlot ==
    ASSUME NEW h, Sound(h), NEW x \in DOMAIN h.bm, NEW k \in Keys
    PROVE  SlotOf(h, x, k).cell = 0 <=> SlotOf(h, x, k) = NoSlot
<1>1. IsHeap(h)
  BY DEF Sound
<1> QED
  BY <1>1, SlotIs, NoSlotIs DEF Sound

\* A cell that is not allocated is in no slot.
LEMMA FreshCell ==
    ASSUME NEW h, Sound(h), NEW n, n \notin DOMAIN h.mem, n # 0
    PROVE  /\ Cardinality(Holders(h, n)) = 0
           /\ \A z \in DOMAIN h.bm, j \in Keys : SlotOf(h, z, j).cell # n
<1>1. \A z \in DOMAIN h.bm, j \in Keys : SlotOf(h, z, j).cell # n
  BY NoSlotIs DEF Sound
<1>2. Holders(h, n) = {}
  BY <1>1 DEF Holders
<1> QED
  BY <1>1, <1>2, FS_EmptySet
-------------------------------------------------------------------------------
(* The slot of x for key k *)

\* No other slot changes, nor what it holds.
Changes(h, g, x, k) ==
    /\ DOMAIN g.bm = DOMAIN h.bm
    /\ \A z \in DOMAIN h.bm, j \in Keys :
          z # x \/ j # k => SlotOf(g, z, j) = SlotOf(h, z, j) /\ Held(g, z, j) = Held(h, z, j)

LEMMA ConTyped ==
    ASSUME NEW h, Sound(h), NEW x \in DOMAIN h.bm, NEW k \in Keys, SlotOf(h, x, k) # NoSlot
    PROVE  Typed(Con(h, SlotOf(h, x, k)))
  BY DEF Sound, Con

LEMMA PutNewSound ==
    ASSUME NEW h, Sound(h), NEW x \in DOMAIN h.bm, NEW k \in Keys, SlotOf(h, x, k) = NoSlot, NEW d,
           Typed(d)
    PROVE  LET g == PutNew(h, x, k, d)
           IN  /\ Sound(g) /\ Changes(h, g, x, k)
               /\ SlotOf(g, x, k) # NoSlot /\ ~SlotOf(g, x, k).shared /\ Held(g, x, k) = d
<1> DEFINE n == Fresh(h.mem)
           m == With(h.mem, n, NewCell(d))
           f == [h EXCEPT !.mem = m]
           s == Own(n)
           g == PutNew(h, x, k, d)
<1>1. IsHeap(h)
  BY DEF Sound
<1>2. n \in Nat /\ n # 0 /\ n \notin DOMAIN h.mem
  BY <1>1, FreshIs DEF IsHeap
<1>3. g = Put(f, x, k, s)
  BY DEF PutNew, NewCell
<1> HIDE DEF n
<1>a. IsWith(m, h, n, d)
  BY <1>1, <1>2, WithIs
<1> HIDE DEF m
<1>4. IsMemory(m) /\ DOMAIN m = DOMAIN h.mem \cup {n} /\ m[n].con = d /\ m[n].refs = 0
      /\ \A l \in DOMAIN h.mem : l # n => m[l] = h.mem[l]
  BY <1>a DEF IsWith
<1>5. IsHeap(f) /\ f.mem = m /\ f.bm = h.bm /\ \A z, j : SlotOf(f, z, j) = SlotOf(h, z, j)
  BY <1>1, <1>4, MemoryIs
<1>6. s \in Slots /\ s.cell = n /\ ~s.shared /\ s # NoSlot
  BY <1>2, NoSlotIs DEF Slots, Own
<1> HIDE DEF f, s, g
<1>7. IsHeap(g) /\ g.mem = m /\ DOMAIN g.bm = DOMAIN h.bm /\ SlotOf(g, x, k) = s
      /\ \A z \in DOMAIN h.bm, j \in Keys : z # x \/ j # k => SlotOf(g, z, j) = SlotOf(h, z, j)
  BY <1>3, <1>5, <1>6, PutIs
<1>8. Alike(h, g, x, k)
  BY <1>1, <1>7 DEF Alike
<1>9. \A z \in DOMAIN g.bm, j \in Keys :
         SlotOf(g, z, j) # NoSlot => SlotOf(g, z, j).cell \in DOMAIN g.mem
  BY <1>4, <1>6, <1>7 DEF Sound
<1>10. Fits(g, n)
  <2>1. Cardinality(Holders(g, n)) = 1
    BY <1>2, <1>6, <1>7, <1>8, FreshCell, HolderComes
  <2>2. \A z \in DOMAIN h.bm, j \in Keys : SlotOf(g, z, j).cell = n => z = x /\ j = k
    BY <1>2, <1>7, FreshCell
  <2> QED
    BY <1>4, <1>6, <1>7, <2>1, <2>2 DEF Fits
<1>11. ASSUME NEW l \in DOMAIN h.mem PROVE Fits(g, l)
  <2>1. l # n /\ l # 0 /\ Fits(h, l) /\ g.mem[l].refs = h.mem[l].refs
    BY <1>1, <1>2, <1>4, <1>7 DEF Sound, IsHeap
  <2>2. SlotOf(h, x, k).cell # l /\ SlotOf(g, x, k).cell # l
    BY <1>6, <1>7, <2>1, NoSlotIs
  <2> QED
    BY <1>7, <1>8, <2>1, <2>2, FitsKept
<1>12. Sound(g)
  <2>1. \A l \in DOMAIN g.mem : Typed(g.mem[l].con)
    BY <1>4, <1>7 DEF Sound
  <2> QED
    BY <1>4, <1>7, <1>9, <1>10, <1>11, <2>1 DEF Sound
<1>13. ASSUME NEW z \in DOMAIN h.bm, NEW j \in Keys, z # x \/ j # k
       PROVE  Held(g, z, j) = Held(h, z, j)
  <2>1. SlotOf(g, z, j) = SlotOf(h, z, j)
    BY <1>7, <1>13
  <2>2. ASSUME SlotOf(h, z, j) # NoSlot
        PROVE  g.mem[SlotOf(h, z, j).cell] = h.mem[SlotOf(h, z, j).cell]
    BY <1>2, <1>4, <1>7, <2>2 DEF Sound
  <2> QED
    BY <2>1, <2>2 DEF Held, Con
<1>14. Held(g, x, k) = d
  BY <1>4, <1>6, <1>7 DEF Held, Con
<1> QED
  BY <1>6, <1>7, <1>12, <1>13, <1>14 DEF Changes, g

\* The last slot of a container frees it; another is one less.
LEMMA FreedSound ==
    ASSUME NEW h, Sound(h), NEW x \in DOMAIN h.bm, NEW k \in Keys, SlotOf(h, x, k) # NoSlot
    PROVE  LET g == Freed(h, x, k)
           IN  Sound(g) /\ Changes(h, g, x, k) /\ SlotOf(g, x, k) = NoSlot
<1> DEFINE s == SlotOf(h, x, k)
           n == s.cell
           c == h.mem[n].refs
           g == Freed(h, x, k)
<1>1. IsHeap(h) /\ n \in DOMAIN h.mem /\ n # 0 /\ Fits(h, n) /\ c \in Nat
      /\ (s.shared <=> c # 0) /\ Cardinality(Holders(h, n)) = IF c = 0 THEN 1 ELSE c
  BY DEF Sound, IsHeap, Fits
<1>2. CASE s.shared /\ c > 1
  <2> DEFINE f == Recounted(h, n, c - 1)
  <2>1. c - 1 \in Nat /\ c - 1 # 0 /\ g = Put(f, x, k, NoSlot)
    BY <1>1, <1>2 DEF Freed, Recounted
  <2> HIDE DEF g, n, s
  <2>2. IsHeap(f) /\ f.bm = h.bm /\ DOMAIN f.mem = DOMAIN h.mem
        /\ f.mem[n].con = h.mem[n].con /\ f.mem[n].refs = c - 1
        /\ (\A l \in DOMAIN h.mem : l # n => f.mem[l] = h.mem[l])
        /\ \A z, j : SlotOf(f, z, j) = SlotOf(h, z, j)
    BY <1>1, <2>1, RecountIs
  <2> HIDE DEF f
  <2>3. IsHeap(g) /\ g.mem = f.mem /\ DOMAIN g.bm = DOMAIN h.bm /\ SlotOf(g, x, k) = NoSlot
        /\ \A z \in DOMAIN h.bm, j \in Keys : z # x \/ j # k => SlotOf(g, z, j) = SlotOf(h, z, j)
    BY <2>1, <2>2, PutIs, NoSlotIs
  <2>4. Alike(h, g, x, k)
    BY <1>1, <2>3 DEF Alike
  <2>5. Fits(g, n)
    <3>1. Cardinality(Holders(g, n)) = c - 1
      BY <1>1, <1>2, <2>3, <2>4, HolderLeaves, NoSlotIs DEF s, n
    <3>2. ASSUME NEW z \in DOMAIN g.bm, NEW j \in Keys, SlotOf(g, z, j).cell = n
          PROVE  SlotOf(g, z, j).shared
      <4>1. z # x \/ j # k
        BY <1>1, <2>3, <3>2, NoSlotIs
      <4>2. SlotOf(g, z, j) = SlotOf(h, z, j)
        BY <2>3, <4>1
      <4> QED
        BY <1>1, <1>2, <2>3, <3>2, <4>2 DEF Fits
    <3>3. g.mem[n].refs = c - 1
      BY <2>2, <2>3
    <3> QED
      BY <2>1, <3>1, <3>2, <3>3 DEF Fits
  <2>6. ASSUME NEW l \in DOMAIN h.mem, l # n PROVE Fits(g, l)
    <3>1. l # 0 /\ Fits(h, l) /\ g.mem[l].refs = h.mem[l].refs
      BY <1>1, <2>2, <2>3, <2>6 DEF Sound, IsHeap
    <3>2. SlotOf(h, x, k).cell # l /\ SlotOf(g, x, k).cell # l
      BY <2>3, <2>6, <3>1, NoSlotIs DEF n, s
    <3> QED
      BY <2>3, <2>4, <3>1, <3>2, FitsKept
  <2>7. \A z \in DOMAIN g.bm, j \in Keys :
           SlotOf(g, z, j) # NoSlot => SlotOf(g, z, j).cell \in DOMAIN g.mem
    BY <2>2, <2>3 DEF Sound
  <2>8. Sound(g)
    BY <2>2, <2>3, <2>5, <2>6, <2>7 DEF Sound
  <2>9. \A l \in DOMAIN h.mem : g.mem[l].con = h.mem[l].con
    BY <2>2, <2>3
  <2>10. ASSUME NEW z \in DOMAIN h.bm, NEW j \in Keys, z # x \/ j # k
         PROVE  Held(g, z, j) = Held(h, z, j)
    BY <2>3, <2>9, <2>10 DEF Held, Con, Sound
  <2> QED
    BY <2>3, <2>8, <2>10 DEF Changes, g
<1>3. CASE ~(s.shared /\ c > 1)
  <2> DEFINE m == Without(h.mem, n)
             f == [h EXCEPT !.mem = m]
  <2>1. g = Put(f, x, k, NoSlot) /\ Cardinality(Holders(h, n)) = 1
    BY <1>1, <1>3 DEF Freed
  <2> HIDE DEF g
  <2>2. IsMemory(m) /\ DOMAIN m = DOMAIN h.mem \ {n} /\ \A l \in DOMAIN m : m[l] = h.mem[l]
    BY <1>1, WithoutIs
  <2> HIDE DEF m
  <2>3. IsHeap(f) /\ f.mem = m /\ f.bm = h.bm /\ \A z, j : SlotOf(f, z, j) = SlotOf(h, z, j)
    BY <1>1, <2>2, MemoryIs
  <2> HIDE DEF f
  <2>4. IsHeap(g) /\ g.mem = m /\ DOMAIN g.bm = DOMAIN h.bm /\ SlotOf(g, x, k) = NoSlot
        /\ \A z \in DOMAIN h.bm, j \in Keys : z # x \/ j # k => SlotOf(g, z, j) = SlotOf(h, z, j)
    BY <2>1, <2>3, PutIs, NoSlotIs
  <2>5. Alike(h, g, x, k)
    BY <1>1, <2>4 DEF Alike
  <2>6. \A z \in DOMAIN h.bm, j \in Keys : z # x \/ j # k => SlotOf(h, z, j).cell # n
    BY <1>1, <2>1, OneHolder
  <2>7. \A z \in DOMAIN g.bm, j \in Keys :
           SlotOf(g, z, j) # NoSlot => SlotOf(g, z, j).cell \in DOMAIN g.mem
    BY <2>2, <2>4, <2>6 DEF Sound
  <2>8. ASSUME NEW l \in DOMAIN h.mem, l # n PROVE Fits(g, l)
    <3>1. l # 0 /\ Fits(h, l) /\ g.mem[l].refs = h.mem[l].refs
      BY <1>1, <2>2, <2>4, <2>8 DEF Sound, IsHeap
    <3>2. SlotOf(h, x, k).cell # l /\ SlotOf(g, x, k).cell # l
      BY <2>4, <2>8, <3>1, NoSlotIs
    <3> QED
      BY <2>4, <2>5, <3>1, <3>2, FitsKept
  <2>9. Sound(g)
    BY <2>2, <2>4, <2>7, <2>8 DEF Sound
  <2>10. ASSUME NEW z \in DOMAIN h.bm, NEW j \in Keys, z # x \/ j # k
         PROVE  Held(g, z, j) = Held(h, z, j)
    <3>1. SlotOf(g, z, j) = SlotOf(h, z, j)
      BY <2>4, <2>10
    <3>2. ASSUME SlotOf(h, z, j) # NoSlot
          PROVE  g.mem[SlotOf(h, z, j).cell] = h.mem[SlotOf(h, z, j).cell]
      BY <2>2, <2>4, <2>6, <2>10, <3>2 DEF Sound
    <3> QED
      BY <3>1, <3>2 DEF Held, Con
  <2> QED
    BY <2>4, <2>9, <2>10 DEF Changes, g
<1> QED
  BY <1>2, <1>3

\* To write a container is to change no other slot if it is not shared.
LEMMA WriteSound ==
    ASSUME NEW h, Sound(h), NEW x \in DOMAIN h.bm, NEW k \in Keys, NEW d, Typed(d),
           SlotOf(h, x, k) # NoSlot, ~SlotOf(h, x, k).shared
    PROVE  LET g == Write(h, SlotOf(h, x, k), d)
           IN  /\ Sound(g) /\ Changes(h, g, x, k) /\ Held(g, x, k) = d
               /\ SlotOf(g, x, k) = SlotOf(h, x, k)
<1> DEFINE n == SlotOf(h, x, k).cell
           f == Rewritten(h, n, d)
           g == Write(h, SlotOf(h, x, k), d)
<1>1. IsHeap(h) /\ n \in DOMAIN h.mem
      /\ \A z \in DOMAIN h.bm, j \in Keys : z # x \/ j # k => SlotOf(h, z, j).cell # n
  BY OwnCell DEF Sound
<1>2. g = f
  BY DEF Write, Rewritten
<1> HIDE DEF g, n
<1>a. IsHeap(h) /\ n \in DOMAIN h.mem
  BY <1>1
<1>3. IsHeap(f) /\ f.bm = h.bm /\ DOMAIN f.mem = DOMAIN h.mem
      /\ f.mem[n].con = d /\ f.mem[n].refs = h.mem[n].refs
      /\ (\A l \in DOMAIN h.mem : l # n => f.mem[l] = h.mem[l])
      /\ \A z, j : SlotOf(f, z, j) = SlotOf(h, z, j)
  BY <1>a, RewriteIs
<1> HIDE DEF f
<1>4. Alike(h, g, x, k)
  BY <1>1, <1>2, <1>3 DEF Alike
<1>5. ASSUME NEW l \in DOMAIN h.mem PROVE Fits(g, l)
  BY <1>2, <1>3, <1>4, FitsKept DEF Sound
<1>6. Sound(g)
  <2>1. \A l \in DOMAIN g.mem : Typed(g.mem[l].con)
    BY <1>2, <1>3 DEF Sound
  <2> QED
    BY <1>2, <1>3, <1>5, <2>1 DEF Sound
<1>7. ASSUME NEW z \in DOMAIN h.bm, NEW j \in Keys, z # x \/ j # k
      PROVE  Held(g, z, j) = Held(h, z, j)
  <2>1. ASSUME SlotOf(h, z, j) # NoSlot
        PROVE  g.mem[SlotOf(h, z, j).cell] = h.mem[SlotOf(h, z, j).cell]
    BY <1>1, <1>2, <1>3, <1>7, <2>1 DEF Sound
  <2> QED
    BY <1>2, <1>3, <2>1 DEF Held, Con
<1>8. Held(g, x, k) = d
  BY <1>2, <1>3 DEF Held, Con, n
<1> QED
  BY <1>2, <1>3, <1>6, <1>7, <1>8 DEF Changes, g

\* get_writable_copy_if_shared leaves the slot with a container of its own, with what it held.
LEMMA UnsharedSound ==
    ASSUME NEW h, Sound(h), NEW x \in DOMAIN h.bm, NEW k \in Keys, SlotOf(h, x, k) # NoSlot
    PROVE  LET g == Unshared(h, x, k)
           IN  /\ Sound(g) /\ Changes(h, g, x, k) /\ Held(g, x, k) = Held(h, x, k)
               /\ SlotOf(g, x, k) # NoSlot /\ ~SlotOf(g, x, k).shared
<1> DEFINE s == SlotOf(h, x, k)
           n == s.cell
           g == Unshared(h, x, k)
<1>1. IsHeap(h) /\ n \in DOMAIN h.mem /\ n # 0 /\ Fits(h, n) /\ h.mem[n].refs \in Nat
      /\ (s.shared <=> h.mem[n].refs # 0) /\ s \in Slots
  BY SlotIs DEF Sound, IsHeap, Fits
<1>2. CASE ~s.shared
  <2>1. g = h
    BY <1>2 DEF Unshared
  <2> QED
    BY <1>2, <2>1 DEF Changes
<1>3. CASE s.shared /\ h.mem[n].refs = 1
  <2> DEFINE f == Recounted(h, n, 0)
             t == Own(n)
  <2>2. g = Put(f, x, k, t)
    BY <1>3 DEF Unshared, Recounted
  <2> HIDE DEF g
  <2>3. t \in Slots /\ t.cell = n /\ ~t.shared /\ t # NoSlot
    BY <1>1, NoSlotIs DEF Slots, Own
  <2>4. SlotOf(h, x, k).cell = n
    OBVIOUS
  <2> HIDE DEF n, t
  <2>5. IsHeap(f) /\ f.bm = h.bm /\ DOMAIN f.mem = DOMAIN h.mem
        /\ f.mem[n].con = h.mem[n].con /\ f.mem[n].refs = 0
        /\ (\A l \in DOMAIN h.mem : l # n => f.mem[l] = h.mem[l])
        /\ \A z, j : SlotOf(f, z, j) = SlotOf(h, z, j)
    BY <1>1, RecountIs
  <2> HIDE DEF f
  <2>6. IsHeap(g) /\ g.mem = f.mem /\ DOMAIN g.bm = DOMAIN h.bm /\ SlotOf(g, x, k) = t
        /\ \A z \in DOMAIN h.bm, j \in Keys : z # x \/ j # k => SlotOf(g, z, j) = SlotOf(h, z, j)
    BY <2>2, <2>3, <2>5, PutIs
  <2>7. Alike(h, g, x, k)
    BY <1>1, <2>6 DEF Alike
  <2>8. Cardinality(Holders(h, n)) = 1
    BY <1>1, <1>3 DEF Fits
  <2>9. \A z \in DOMAIN h.bm, j \in Keys : SlotOf(h, z, j).cell = n => z = x /\ j = k
    BY <1>1, <2>4, <2>8, OneHolder
  <2>10. Fits(g, n)
    <3>1. Holders(g, n) = Holders(h, n)
      BY <2>3, <2>4, <2>6, <2>7, HolderStays
    <3> QED
      BY <2>3, <2>5, <2>6, <2>8, <2>9, <3>1 DEF Fits
  <2>11. ASSUME NEW l \in DOMAIN h.mem, l # n PROVE Fits(g, l)
    <3>1. Fits(h, l) /\ g.mem[l].refs = h.mem[l].refs
      BY <2>5, <2>6, <2>11 DEF Sound
    <3>2. SlotOf(h, x, k).cell # l /\ SlotOf(g, x, k).cell # l
      BY <2>3, <2>4, <2>6, <2>11
    <3> QED
      BY <2>6, <2>7, <3>1, <3>2, FitsKept
  <2>12. \A z \in DOMAIN g.bm, j \in Keys :
           SlotOf(g, z, j) # NoSlot => SlotOf(g, z, j).cell \in DOMAIN g.mem
    BY <1>1, <2>3, <2>5, <2>6 DEF Sound
  <2>13. Sound(g)
    BY <2>5, <2>6, <2>10, <2>11, <2>12 DEF Sound
  <2>14. \A l \in DOMAIN h.mem : g.mem[l].con = h.mem[l].con
    BY <2>5, <2>6
  <2>15. ASSUME NEW z \in DOMAIN h.bm, NEW j \in Keys
         PROVE  Held(g, z, j) = Held(h, z, j)
    <3>1. CASE z = x /\ j = k
      BY <1>1, <2>3, <2>4, <2>6, <2>14, <3>1 DEF Held, Con
    <3>2. CASE z # x \/ j # k
      BY <2>6, <2>14, <3>2 DEF Held, Con, Sound
    <3> QED
      BY <3>1, <3>2
  <2> QED
    BY <2>3, <2>6, <2>13, <2>15 DEF Changes, g
<1>4. CASE s.shared /\ h.mem[n].refs # 1
  <2> DEFINE f == Freed(h, x, k)
  <2>1. g = PutNew(f, x, k, Con(h, s))
    BY <1>4 DEF Unshared
  <2> HIDE DEF g
  <2>2. Sound(f) /\ Changes(h, f, x, k) /\ SlotOf(f, x, k) = NoSlot
    BY FreedSound
  <2> HIDE DEF f
  <2>3. x \in DOMAIN f.bm /\ Typed(Con(h, s))
    BY <2>2, ConTyped DEF Changes
  <2>4. Sound(g) /\ Changes(f, g, x, k) /\ SlotOf(g, x, k) # NoSlot /\ ~SlotOf(g, x, k).shared
        /\ Held(g, x, k) = Con(h, s)
    BY <2>1, <2>2, <2>3, PutNewSound
  <2>5. Changes(h, g, x, k)
    BY <2>2, <2>4 DEF Changes
  <2>6. Held(h, x, k) = Con(h, s)
    BY DEF Held
  <2> QED
    BY <2>4, <2>5, <2>6 DEF g
<1> QED
  BY <1>2, <1>3, <1>4

LEMMA ChangesOn ==
    ASSUME NEW h, NEW f, NEW g, NEW x, NEW k, Changes(h, f, x, k), Changes(f, g, x, k)
    PROVE  Changes(h, g, x, k)
  BY DEF Changes
-------------------------------------------------------------------------------
(* Two slots at once *)

\* No slot for another key changes, and no bitmap but those of X is a different one.
Touches(h, g, X, k) ==
    /\ DOMAIN g.bm = DOMAIN h.bm
    /\ \A z \in DOMAIN h.bm, j \in Keys :
          /\ j # k => SlotOf(g, z, j) = SlotOf(h, z, j)
          /\ z \notin X \/ j # k =>
                Held(g, z, j) = Held(h, z, j)
                  /\ (SlotOf(g, z, j) = NoSlot <=> SlotOf(h, z, j) = NoSlot)

LEMMA ChangesTouches ==
    ASSUME NEW h, NEW g, NEW X, NEW x, NEW k, Changes(h, g, x, k),
           x \in X \/ (/\ Held(g, x, k) = Held(h, x, k)
                       /\ SlotOf(g, x, k) = NoSlot <=> SlotOf(h, x, k) = NoSlot)
    PROVE  Touches(h, g, X, k)
  BY DEF Changes, Touches

LEMMA TouchesOn ==
    ASSUME NEW h, NEW f, NEW g, NEW X, NEW k, Touches(h, f, X, k), Touches(f, g, X, k)
    PROVE  Touches(h, g, X, k)
  BY DEF Touches

LEMMA TouchesNothing ==
    ASSUME NEW h, NEW X, NEW k PROVE Touches(h, h, X, k)
  BY DEF Touches

\* A slot of y is copied to an empty one of x; under copy-on-write the two share it.
LEMMA CopyKeySound ==
    ASSUME NEW h, Sound(h), NEW x \in DOMAIN h.bm, NEW y \in DOMAIN h.bm, x # y, NEW k \in Keys,
           SlotOf(h, x, k) = NoSlot, NEW X, x \in X
    PROVE  LET g == CopyKey(h, x, y, k)
           IN  Sound(g) /\ Touches(h, g, X, k) /\ Held(g, x, k) = Held(h, y, k)
<1> DEFINE s == SlotOf(h, y, k)
           n == s.cell
           g == CopyKey(h, x, y, k)
<1>1. CASE s = NoSlot
  <2>1. g = h /\ Held(h, x, k) = Held(h, y, k)
    BY <1>1 DEF CopyKey, Held
  <2> QED
    BY <2>1, TouchesNothing
<1>2. CASE s # NoSlot /\ h.bm[y].cow
  <2> DEFINE r == IF s.shared THEN h.mem[n].refs + 1 ELSE 2
             f == Recounted(h, n, r)
             w == [cell |-> n, shared |-> TRUE]
             e == Put(f, x, k, w)
  <2>1. IsHeap(h) /\ n \in DOMAIN h.mem /\ n # 0 /\ Fits(h, n) /\ h.mem[n].refs \in Nat /\ n \in Nat
        /\ (s.shared <=> h.mem[n].refs # 0)
    BY <1>2, SlotIs DEF Sound, IsHeap, Fits
  <2>2. Cardinality(Holders(h, n)) + 1 = r /\ r \in Nat /\ r # 0
    <3> DEFINE c == h.mem[n].refs
    <3>1. Cardinality(Holders(h, n)) = IF c = 0 THEN 1 ELSE c
      BY <2>1 DEF Fits
    <3>2. CASE c = 0
      BY <2>1, <3>1, <3>2
    <3>3. CASE c # 0
      BY <2>1, <3>1, <3>3
    <3> QED
      BY <3>2, <3>3
  <2>3. g = Put(e, y, k, w)
    BY <1>2 DEF CopyKey, Recounted
  <2>4. SlotOf(h, y, k).cell = n
    OBVIOUS
  <2>5. w \in Slots /\ w.cell = n /\ w.shared /\ w # NoSlot
    BY <2>1, NoSlotIs DEF Slots
  <2> HIDE DEF n, s, r, w, g
  <2>6. IsHeap(f) /\ f.bm = h.bm /\ DOMAIN f.mem = DOMAIN h.mem
        /\ f.mem[n].con = h.mem[n].con /\ f.mem[n].refs = r
        /\ (\A l \in DOMAIN h.mem : l # n => f.mem[l] = h.mem[l])
        /\ \A z, j : SlotOf(f, z, j) = SlotOf(h, z, j)
    <3>1. IsHeap(h) /\ n \in DOMAIN h.mem /\ r \in Nat
      BY <2>1, <2>2
    <3> QED
      BY <3>1, RecountIs
  <2> HIDE DEF f
  <2>7. IsHeap(e) /\ e.mem = f.mem /\ DOMAIN e.bm = DOMAIN h.bm /\ SlotOf(e, x, k) = w
        /\ \A z \in DOMAIN h.bm, j \in Keys : z # x \/ j # k => SlotOf(e, z, j) = SlotOf(h, z, j)
    BY <2>5, <2>6, PutIs
  <2> HIDE DEF e
  <2>8. IsHeap(g) /\ g.mem = f.mem /\ DOMAIN g.bm = DOMAIN h.bm /\ SlotOf(g, y, k) = w
        /\ \A z \in DOMAIN h.bm, j \in Keys : z # y \/ j # k => SlotOf(g, z, j) = SlotOf(e, z, j)
    BY <2>3, <2>5, <2>7, PutIs
  <2>9. /\ SlotOf(g, x, k) = w
        /\ \A z \in DOMAIN h.bm, j \in Keys :
              (z # x /\ z # y) \/ j # k => SlotOf(g, z, j) = SlotOf(h, z, j)
    BY <2>7, <2>8
  <2>10. Alike(h, g, x, k)
    BY <2>1, <2>4, <2>5, <2>8, <2>9 DEF Alike
  <2>11. Fits(g, n)
    <3>1. Cardinality(Holders(g, n)) = r
      BY <2>1, <2>2, <2>5, <2>9, <2>10, HolderComes, NoSlotIs
    <3>2. ASSUME NEW z \in DOMAIN g.bm, NEW j \in Keys, SlotOf(g, z, j).cell = n
          PROVE  SlotOf(g, z, j).shared
      <4>1. CASE (z = x \/ z = y) /\ j = k
        BY <2>5, <2>8, <2>9, <4>1
      <4>2. CASE (z # x /\ z # y) \/ j # k
        <5>1. SlotOf(g, z, j) = SlotOf(h, z, j) /\ SlotOf(h, z, j).cell = n
          BY <2>8, <2>9, <3>2, <4>2
        <5>2. h.mem[n].refs # 0
          <6>1. SUFFICES ASSUME h.mem[n].refs = 0 PROVE FALSE
            OBVIOUS
          <6>2. Cardinality(Holders(h, n)) = 1
            BY <2>1, <6>1 DEF Fits
          <6>3. z = y /\ j = k
            BY <2>1, <2>4, <2>8, <5>1, <6>2, OneHolder
          <6> QED
            BY <4>2, <6>3
        <5> QED
          BY <2>1, <2>8, <5>1, <5>2 DEF Fits
      <4> QED
        BY <4>1, <4>2
    <3>3. g.mem[n].refs = r
      BY <2>6, <2>8
    <3> QED
      BY <2>2, <3>1, <3>2, <3>3 DEF Fits
  <2>12. ASSUME NEW l \in DOMAIN h.mem, l # n PROVE Fits(g, l)
    <3>1. Fits(h, l) /\ g.mem[l].refs = h.mem[l].refs /\ l # 0
      BY <2>1, <2>6, <2>8, <2>12 DEF Sound, IsHeap
    <3>2. SlotOf(h, x, k).cell # l /\ SlotOf(g, x, k).cell # l /\ SlotOf(g, y, k).cell # l
      BY <2>5, <2>8, <2>9, <2>12, <3>1, NoSlotIs
    <3>3. \A z \in DOMAIN h.bm, j \in Keys :
             SlotOf(g, z, j).cell = l => SlotOf(g, z, j) = SlotOf(h, z, j)
      BY <2>9, <3>2
    <3> QED
      BY <2>10, <3>1, <3>2, <3>3, FitsKept
  <2>13. \A z \in DOMAIN g.bm, j \in Keys :
            SlotOf(g, z, j) # NoSlot => SlotOf(g, z, j).cell \in DOMAIN g.mem
    BY <2>1, <2>5, <2>6, <2>8, <2>9 DEF Sound
  <2>14. Sound(g)
    BY <2>6, <2>8, <2>11, <2>12, <2>13 DEF Sound
  <2>15. \A l \in DOMAIN h.mem : g.mem[l].con = h.mem[l].con
    BY <2>6, <2>8
  <2>16. Held(g, x, k) = Held(h, y, k) /\ Held(g, y, k) = Held(h, y, k)
    BY <1>2, <2>1, <2>4, <2>5, <2>8, <2>9, <2>15 DEF Held, Con, s
  <2>17. ASSUME NEW z \in DOMAIN h.bm, NEW j \in Keys, (z # x /\ z # y) \/ j # k
         PROVE  Held(g, z, j) = Held(h, z, j)
    BY <2>9, <2>15, <2>17 DEF Held, Con, Sound
  <2>18. SlotOf(g, y, k) # NoSlot /\ SlotOf(h, y, k) # NoSlot
    BY <1>2, <2>5, <2>8 DEF s
  <2>19. Touches(h, g, X, k)
    BY <2>8, <2>9, <2>16, <2>17, <2>18 DEF Touches
  <2> QED
    BY <2>14, <2>16, <2>19 DEF g
<1>3. CASE s # NoSlot /\ ~h.bm[y].cow
  <2>1. g = PutNew(h, x, k, Con(h, s)) /\ Held(h, y, k) = Con(h, s) /\ Typed(Con(h, s))
    BY <1>3, ConTyped DEF CopyKey, Held
  <2> HIDE DEF g
  <2>2. Sound(g) /\ Changes(h, g, x, k) /\ Held(g, x, k) = Con(h, s)
    BY <2>1, PutNewSound
  <2>3. Touches(h, g, X, k)
    BY <2>2, ChangesTouches
  <2> QED
    BY <2>1, <2>2, <2>3 DEF g
<1> QED
  BY <1>1, <1>2, <1>3

\* A slot of x is moved to an empty one of a.
LEMMA MovedSound ==
    ASSUME NEW h, Sound(h), NEW a \in DOMAIN h.bm, NEW x \in DOMAIN h.bm, a # x, NEW k \in Keys,
           SlotOf(h, a, k) = NoSlot, SlotOf(h, x, k) # NoSlot, NEW X, {a, x} \subseteq X
    PROVE  LET g == Moved(h, a, x, k)
           IN  /\ Sound(g) /\ Touches(h, g, X, k)
               /\ Held(g, a, k) = Held(h, x, k) /\ SlotOf(g, x, k) = NoSlot
               /\ \A z \in DOMAIN h.bm : z # a /\ z # x => SlotOf(g, z, k) = SlotOf(h, z, k)
<1> DEFINE s == SlotOf(h, x, k)
           n == s.cell
           e == Put(h, a, k, s)
           g == Moved(h, a, x, k)
<1>1. IsHeap(h) /\ n \in DOMAIN h.mem /\ n # 0 /\ Fits(h, n) /\ s \in Slots
  BY SlotIs DEF Sound, IsHeap
<1>2. g = Put(e, x, k, NoSlot)
  BY DEF Moved
<1> HIDE DEF g
<1>3. IsHeap(e) /\ e.mem = h.mem /\ DOMAIN e.bm = DOMAIN h.bm /\ SlotOf(e, a, k) = s
      /\ \A z \in DOMAIN h.bm, j \in Keys : z # a \/ j # k => SlotOf(e, z, j) = SlotOf(h, z, j)
  BY <1>1, PutIs
<1> HIDE DEF e
<1>4. IsHeap(g) /\ g.mem = h.mem /\ DOMAIN g.bm = DOMAIN h.bm /\ SlotOf(g, x, k) = NoSlot
      /\ \A z \in DOMAIN h.bm, j \in Keys : z # x \/ j # k => SlotOf(g, z, j) = SlotOf(e, z, j)
  BY <1>2, <1>3, NoSlotIs, PutIs
<1>5. SlotOf(g, a, k) = s
  BY <1>3, <1>4
<1>6. \A z \in DOMAIN h.bm, j \in Keys :
         (z # a /\ z # x) \/ j # k => SlotOf(g, z, j) = SlotOf(h, z, j)
  BY <1>3, <1>4
<1>7. Alike(h, e, a, k) /\ Alike(e, g, x, k)
  BY <1>1, <1>3, <1>4 DEF Alike
<1>8. ASSUME NEW l \in DOMAIN h.mem PROVE Fits(g, l)
  <2>1. Fits(h, l) /\ l # 0
    BY <1>1 DEF Sound, IsHeap
  <2>2. SlotOf(h, a, k).cell = 0 /\ SlotOf(g, x, k).cell = 0
        /\ SlotOf(e, a, k).cell = n /\ SlotOf(e, x, k).cell = n
    BY <1>3, <1>4, NoSlotIs
  <2>3. Cardinality(Holders(g, l)) = Cardinality(Holders(h, l))
    <3>1. CASE l = n
      <4>1. Cardinality(Holders(e, l)) = Cardinality(Holders(h, l)) + 1
        BY <1>7, <2>1, <2>2, <3>1, HolderComes
      <4>2. Cardinality(Holders(g, l)) = Cardinality(Holders(e, l)) - 1
        BY <1>7, <2>1, <2>2, <3>1, HolderLeaves
      <4>3. Cardinality(Holders(h, l)) \in Nat
        BY <1>1, HoldersFinite
      <4> QED
        BY <4>1, <4>2, <4>3
    <3>2. CASE l # n
      <4>1. Holders(e, l) = Holders(h, l)
        BY <1>7, <2>1, <2>2, <3>2, HolderStays
      <4>2. Holders(g, l) = Holders(e, l)
        BY <1>7, <2>1, <2>2, <3>2, HolderStays
      <4> QED
        BY <4>1, <4>2
    <3> QED
      BY <3>1, <3>2
  <2>4. ASSUME NEW z \in DOMAIN g.bm, NEW j \in Keys, SlotOf(g, z, j).cell = l
        PROVE  SlotOf(g, z, j).shared <=> h.mem[l].refs # 0
    <3>1. CASE z = a /\ j = k
      <4>1. SlotOf(g, z, j) = SlotOf(h, x, k)
        BY <1>5, <3>1
      <4> QED
        BY <2>1, <2>4, <4>1 DEF Fits
    <3>2. CASE z = x /\ j = k
      BY <2>1, <2>2, <2>4, <3>2
    <3>3. CASE (z # a /\ z # x) \/ j # k
      BY <1>4, <1>6, <2>1, <2>4, <3>3 DEF Fits
    <3> QED
      BY <3>1, <3>2, <3>3
  <2> QED
    BY <1>4, <2>1, <2>3, <2>4 DEF Fits
<1>9. \A z \in DOMAIN g.bm, j \in Keys :
         SlotOf(g, z, j) # NoSlot => SlotOf(g, z, j).cell \in DOMAIN g.mem
  BY <1>1, <1>4, <1>5, <1>6 DEF Sound
<1>10. Sound(g)
  BY <1>4, <1>8, <1>9 DEF Sound
<1>11. Held(g, a, k) = Held(h, x, k)
  BY <1>4, <1>5 DEF Held, Con
<1>12. Touches(h, g, X, k)
  BY <1>4, <1>6 DEF Touches, Held, Con
<1> QED
  BY <1>4, <1>6, <1>10, <1>11, <1>12 DEF g
-------------------------------------------------------------------------------
(* One key of the bitmaps *)

LEMMA CombineKeySound ==
    ASSUME NEW h, Sound(h), NEW a \in DOMAIN h.bm, NEW x \in DOMAIN h.bm, NEW y \in DOMAIN h.bm,
           a # x, a # y, NEW op, NEW k \in Keys, SlotOf(h, a, k) = NoSlot
    PROVE  LET g == CombineKey(h, a, x, y, op, k) IN Sound(g) /\ Touches(h, g, {a}, k)
<1> DEFINE g == CombineKey(h, a, x, y, op, k)
           d == Joined(op, Con(h, SlotOf(h, x, k)), Con(h, SlotOf(h, y, k)))
<1>1. \/ g = h \/ g = CopyKey(h, a, x, k) \/ g = CopyKey(h, a, y, k)
      \/ g = PutNew(h, a, k, d) /\ SlotOf(h, x, k) # NoSlot /\ SlotOf(h, y, k) # NoSlot
  BY DEF CombineKey
<1>a. ASSUME SlotOf(h, x, k) # NoSlot, SlotOf(h, y, k) # NoSlot PROVE Typed(d)
  BY <1>a, ConTyped, JoinedTyped
<1> HIDE DEF g, d
<1>2. ASSUME g = PutNew(h, a, k, d), Typed(d) PROVE Sound(g) /\ Touches(h, g, {a}, k)
  <2>1. Sound(g) /\ Changes(h, g, a, k)
    BY <1>2, PutNewSound
  <2> QED
    BY <2>1, ChangesTouches
<1>3. ASSUME NEW z \in {x, y}, g = CopyKey(h, a, z, k) PROVE Sound(g) /\ Touches(h, g, {a}, k)
  BY <1>3, CopyKeySound
<1> QED
  BY <1>1, <1>a, <1>2, <1>3, TouchesNothing DEF g

\* What OrKey, XorKey and RepairKey do: a slot gets a container of its own and is written.
LEMMA UnsharedWritten ==
    ASSUME NEW h, Sound(h), NEW x \in DOMAIN h.bm, NEW k \in Keys, SlotOf(h, x, k) # NoSlot, NEW d,
           Typed(d)
    PROVE  LET u == Unshared(h, x, k)
               g == Write(u, SlotOf(u, x, k), d)
           IN  Sound(g) /\ Changes(h, g, x, k)
<1> DEFINE u == Unshared(h, x, k)
           g == Write(u, SlotOf(u, x, k), d)
<1>1. Sound(u) /\ Changes(h, u, x, k) /\ SlotOf(u, x, k) # NoSlot /\ ~SlotOf(u, x, k).shared
  BY UnsharedSound
<1> HIDE DEF u
<1>2. x \in DOMAIN u.bm
  BY <1>1 DEF Changes
<1>3. Sound(g) /\ Changes(u, g, x, k)
  BY <1>1, <1>2, WriteSound
<1> HIDE DEF g
<1>4. Changes(h, g, x, k)
  BY <1>1, <1>3, ChangesOn
<1> QED
  BY <1>3, <1>4 DEF g, u

LEMMA FreedAndNew ==
    ASSUME NEW h, Sound(h), NEW x \in DOMAIN h.bm, NEW k \in Keys, SlotOf(h, x, k) # NoSlot, NEW d,
           Typed(d)
    PROVE  LET g == PutNew(Freed(h, x, k), x, k, d)
           IN  /\ Sound(g) /\ Changes(h, g, x, k)
               /\ SlotOf(g, x, k) # NoSlot /\ ~SlotOf(g, x, k).shared
<1> DEFINE f == Freed(h, x, k)
           g == PutNew(f, x, k, d)
<1>1. Sound(f) /\ Changes(h, f, x, k) /\ SlotOf(f, x, k) = NoSlot
  BY FreedSound
<1> HIDE DEF f
<1>2. x \in DOMAIN f.bm
  BY <1>1 DEF Changes
<1>3. Sound(g) /\ Changes(f, g, x, k) /\ SlotOf(g, x, k) # NoSlot /\ ~SlotOf(g, x, k).shared
  BY <1>1, <1>2, PutNewSound
<1> HIDE DEF g
<1>4. Changes(h, g, x, k)
  BY <1>1, <1>3, ChangesOn
<1> QED
  BY <1>3, <1>4 DEF g, f

LEMMA OrKeySound ==
    ASSUME NEW h, Sound(h), NEW x \in DOMAIN h.bm, NEW y \in DOMAIN h.bm, x # y,
           NEW k \in Keys, NEW convert, SlotOf(h, x, k) # NoSlot, SlotOf(h, y, k) # NoSlot
    PROVE  LET g == OrKey(h, x, y, k, convert) IN Sound(g) /\ Changes(h, g, x, k)
<1> DEFINE g == OrKey(h, x, y, k, convert)
           d == ToBitset(Con(h, SlotOf(h, x, k)))
           p == PutNew(Freed(h, x, k), x, k, d)
           u == Unshared(h, x, k)
           Into(f) == LazyIor(Con(f, SlotOf(f, x, k)), Con(f, SlotOf(f, y, k)))
<1>1. \/ g = h
      \/ g = Write(p, SlotOf(p, x, k), Into(p))
      \/ g = Write(u, SlotOf(u, x, k), Into(u))
  BY DEF OrKey
<1>a. Typed(d)
  BY ConTyped, ToBitsetTyped
<1>b. ASSUME NEW f, Sound(f), Changes(h, f, x, k), SlotOf(f, x, k) # NoSlot PROVE Typed(Into(f))
  <2>1. x \in DOMAIN f.bm /\ y \in DOMAIN f.bm /\ SlotOf(f, y, k) # NoSlot
    BY <1>b DEF Changes
  <2> QED
    BY <1>b, <2>1, ConTyped, LazyIorTyped
<1> HIDE DEF g, d
<1>2. ASSUME g = Write(p, SlotOf(p, x, k), Into(p)) PROVE Sound(g) /\ Changes(h, g, x, k)
  <2>1. Sound(p) /\ Changes(h, p, x, k) /\ SlotOf(p, x, k) # NoSlot /\ ~SlotOf(p, x, k).shared
    BY <1>a, FreedAndNew
  <2> HIDE DEF p
  <2> DEFINE c == Into(p)
  <2>2. g = Write(p, SlotOf(p, x, k), c) /\ Typed(c)
    BY <1>2, <1>b, <2>1
  <2> HIDE DEF c
  <2>3. x \in DOMAIN p.bm
    BY <2>1 DEF Changes
  <2>4. Sound(g) /\ Changes(p, g, x, k)
    BY <2>1, <2>2, <2>3, WriteSound
  <2> QED
    BY <2>1, <2>4, ChangesOn
<1>3. ASSUME g = Write(u, SlotOf(u, x, k), Into(u)) PROVE Sound(g) /\ Changes(h, g, x, k)
  <2>a. Sound(u) /\ Changes(h, u, x, k) /\ SlotOf(u, x, k) # NoSlot
    BY UnsharedSound
  <2>b. Typed(Into(u))
    BY <1>b, <2>a
  <2> DEFINE c == Into(u)
  <2>1. g = Write(u, SlotOf(u, x, k), c) /\ Typed(c)
    BY <1>3, <2>b
  <2> HIDE DEF c
  <2> QED
    BY <2>1, UnsharedWritten
<1>4. Changes(h, h, x, k)
  BY DEF Changes
<1> QED
  BY <1>1, <1>2, <1>3, <1>4 DEF g

LEMMA XorKeySound ==
    ASSUME NEW h, Sound(h), NEW x \in DOMAIN h.bm, NEW y \in DOMAIN h.bm, NEW k \in Keys,
           SlotOf(h, x, k) # NoSlot, SlotOf(h, y, k) # NoSlot
    PROVE  LET g == XorKey(h, x, y, k) IN Sound(g) /\ Changes(h, g, x, k)
<1> DEFINE g == XorKey(h, x, y, k)
           s == SlotOf(h, x, k)
           e == Con(h, SlotOf(h, y, k))
           c == LazyXor(Con(h, s), e)
           d == LazyIxor(Con(h, s), e)
           new == IF s.shared THEN PutNew(Freed(h, x, k), x, k, c) ELSE Write(h, s, d)
<1>1. g = new \/ g = Freed(new, x, k)
  BY DEF XorKey
<1>2. Sound(new) /\ Changes(h, new, x, k) /\ SlotOf(new, x, k) # NoSlot
  <2>a. Typed(c) /\ Typed(d)
    BY ConTyped, LazyXorTyped, LazyIxorTyped
  <2> HIDE DEF c, d, e
  <2>1. CASE s.shared
    BY <2>1, <2>a, FreedAndNew
  <2>2. CASE ~s.shared
    BY <2>2, <2>a, WriteSound
  <2> QED
    BY <2>1, <2>2
<1> HIDE DEF new, g
<1>3. x \in DOMAIN new.bm
  BY <1>2 DEF Changes
<1>4. Sound(Freed(new, x, k)) /\ Changes(new, Freed(new, x, k), x, k)
  BY <1>2, <1>3, FreedSound
<1>5. Changes(h, Freed(new, x, k), x, k)
  BY <1>2, <1>4, ChangesOn
<1> QED
  BY <1>1, <1>2, <1>4, <1>5 DEF g

LEMMA InPlaceKeySound ==
    ASSUME NEW h, Sound(h), NEW x \in DOMAIN h.bm, NEW y \in DOMAIN h.bm, x # y, NEW op,
           NEW k \in Keys
    PROVE  LET g == InPlaceKey(h, x, y, op, k) IN Sound(g) /\ Touches(h, g, {x}, k)
<1> DEFINE g == InPlaceKey(h, x, y, op, k)
           convert == op = "convert"
<1>1. \/ g = h
      \/ g = CopyKey(h, x, y, k) /\ SlotOf(h, x, k) = NoSlot
      \/ SlotOf(h, x, k) # NoSlot /\ SlotOf(h, y, k) # NoSlot
        /\ (g = XorKey(h, x, y, k) \/ g = OrKey(h, x, y, k, convert))
  BY DEF InPlaceKey
<1> HIDE DEF g, convert
<1>2. ASSUME SlotOf(h, x, k) # NoSlot, SlotOf(h, y, k) # NoSlot,
             g = XorKey(h, x, y, k) \/ g = OrKey(h, x, y, k, convert)
      PROVE  Sound(g) /\ Touches(h, g, {x}, k)
  <2>1. Sound(g) /\ Changes(h, g, x, k)
    BY <1>2, XorKeySound, OrKeySound
  <2> QED
    BY <2>1, ChangesTouches
<1>3. ASSUME SlotOf(h, x, k) = NoSlot, g = CopyKey(h, x, y, k)
      PROVE  Sound(g) /\ Touches(h, g, {x}, k)
  BY <1>3, CopyKeySound
<1> QED
  BY <1>1, <1>2, <1>3, TouchesNothing DEF g

LEMMA RepairKeySound ==
    ASSUME NEW h, Sound(h), NEW x \in DOMAIN h.bm, NEW k \in Keys
    PROVE  LET g == RepairKey(h, x, k) IN Sound(g) /\ Touches(h, g, {x}, k)
<1> DEFINE g == RepairKey(h, x, k)
           u == Unshared(h, x, k)
           d == Repaired(Con(u, SlotOf(u, x, k)))
<1>1. IF SlotOf(h, x, k) = NoSlot THEN g = h ELSE g = Write(u, SlotOf(u, x, k), d)
  BY DEF RepairKey
<1> HIDE DEF g, d
<1>2. ASSUME SlotOf(h, x, k) # NoSlot PROVE Sound(g) /\ Touches(h, g, {x}, k)
  <2>a. x \in DOMAIN u.bm /\ Sound(u) /\ SlotOf(u, x, k) # NoSlot
    BY <1>2, UnsharedSound DEF Changes
  <2>b. Typed(Repaired(Con(u, SlotOf(u, x, k))))
    BY <2>a, ConTyped, RepairedTyped
  <2>c. Typed(d)
    BY <2>b DEF d
  <2>1. Sound(g) /\ Changes(h, g, x, k)
    BY <1>1, <1>2, <2>c, UnsharedWritten
  <2> QED
    BY <2>1, ChangesTouches
<1> QED
  BY <1>1, <1>2, TouchesNothing DEF g

LEMMA FreeKeySound ==
    ASSUME NEW h, Sound(h), NEW x \in DOMAIN h.bm, NEW k \in Keys
    PROVE  LET g == FreeKey(h, x, k)
           IN  Sound(g) /\ Touches(h, g, {x}, k) /\ SlotOf(g, x, k) = NoSlot
  BY FreedSound, ChangesTouches, TouchesNothing DEF FreeKey

LEMMA LoadKeySound ==
    ASSUME NEW h, Sound(h), NEW x \in DOMAIN h.bm, NEW made, NEW k \in Keys,
           SlotOf(h, x, k) = NoSlot, made.at[k] = Null \/ Typed(made.at[k])
    PROVE  LET g == LoadKey(h, x, made, k) IN Sound(g) /\ Touches(h, g, {x}, k)
  BY PutNewSound, ChangesTouches, TouchesNothing DEF LoadKey

\* Two containers become one: one is written, the other one freed and the one that was
\* written moved to the answer.
LEMMA MergedInto ==
    ASSUME NEW h, Sound(h), NEW a \in DOMAIN h.bm, NEW p \in DOMAIN h.bm, NEW q \in DOMAIN h.bm,
           a # p, a # q, p # q, NEW k \in Keys, SlotOf(h, a, k) = NoSlot,
           SlotOf(h, p, k) # NoSlot, ~SlotOf(h, p, k).shared, SlotOf(h, q, k) # NoSlot,
           NEW X, {a, p, q} \subseteq X, NEW d, Typed(d)
    PROVE  LET w == Write(h, SlotOf(h, p, k), d)
               g == Moved(Freed(w, q, k), a, p, k)
           IN  /\ Sound(g) /\ Touches(h, g, X, k)
               /\ SlotOf(g, p, k) = NoSlot /\ SlotOf(g, q, k) = NoSlot
<1> DEFINE w == Write(h, SlotOf(h, p, k), d)
           f == Freed(w, q, k)
           g == Moved(f, a, p, k)
<1>1. Sound(w) /\ Changes(h, w, p, k) /\ SlotOf(w, p, k) = SlotOf(h, p, k)
  BY WriteSound
<1> HIDE DEF w
<1>2. {a, p, q} \subseteq DOMAIN w.bm /\ SlotOf(w, q, k) = SlotOf(h, q, k)
      /\ SlotOf(w, a, k) = NoSlot /\ Touches(h, w, X, k)
  BY <1>1, ChangesTouches DEF Changes
<1>3. Sound(f) /\ Changes(w, f, q, k) /\ SlotOf(f, q, k) = NoSlot
  BY <1>1, <1>2, FreedSound
<1> HIDE DEF f
<1>4. {a, p, q} \subseteq DOMAIN f.bm /\ SlotOf(f, p, k) # NoSlot
      /\ SlotOf(f, a, k) = NoSlot /\ Touches(w, f, X, k)
  BY <1>1, <1>2, <1>3, ChangesTouches DEF Changes
<1>5. Sound(g) /\ Touches(f, g, X, k) /\ SlotOf(g, p, k) = NoSlot
      /\ \A z \in DOMAIN f.bm : z # a /\ z # p => SlotOf(g, z, k) = SlotOf(f, z, k)
  <2>1. a \in DOMAIN f.bm /\ p \in DOMAIN f.bm /\ {a, p} \subseteq X
    BY <1>4
  <2> QED
    BY <1>3, <1>4, <2>1, MovedSound
<1> HIDE DEF g
<1>6. SlotOf(g, q, k) = NoSlot
  BY <1>3, <1>4, <1>5
<1>7. Touches(h, g, X, k)
  BY <1>2, <1>4, <1>5, TouchesOn
<1> QED
  BY <1>5, <1>6, <1>7 DEF g, f, w

LEMMA MergedKeySound ==
    ASSUME NEW h, Sound(h), NEW a \in DOMAIN h.bm, NEW x \in DOMAIN h.bm, NEW y \in DOMAIN h.bm,
           a # x, a # y, x # y, NEW k \in Keys, SlotOf(h, a, k) = NoSlot,
           SlotOf(h, x, k) # NoSlot, SlotOf(h, y, k) # NoSlot
    PROVE  LET g == MergedKey(h, a, x, y, k)
           IN  /\ Sound(g) /\ Touches(h, g, {a, x, y}, k)
               /\ SlotOf(g, x, k) = NoSlot /\ SlotOf(g, y, k) = NoSlot
<1> DEFINE X == {a, x, y}
           v == Unshared(h, x, k)
           u == Unshared(v, y, k)
           d == Con(u, SlotOf(u, x, k))
           e == Con(u, SlotOf(u, y, k))
           one == LazyIor(d, e)
           two == LazyIor(e, d)
           inx == Moved(Freed(Write(u, SlotOf(u, x, k), one), y, k), a, x, k)
           iny == Moved(Freed(Write(u, SlotOf(u, y, k), two), x, k), a, y, k)
           g == MergedKey(h, a, x, y, k)
<1>1. g = inx \/ g = iny
  <2>1. CASE e.kind = "bitset" /\ d.kind # "bitset"
    <3>1. g = iny
      BY <2>1 DEF MergedKey
    <3> QED
      BY <3>1
  <2>2. CASE ~(e.kind = "bitset" /\ d.kind # "bitset")
    <3>1. g = inx
      BY <2>2 DEF MergedKey
    <3> QED
      BY <3>1
  <2> QED
    BY <2>1, <2>2
<1> HIDE DEF g
<1>2. Sound(v) /\ Changes(h, v, x, k) /\ Held(v, x, k) = Held(h, x, k)
      /\ SlotOf(v, x, k) # NoSlot /\ ~SlotOf(v, x, k).shared
  BY UnsharedSound
<1> HIDE DEF v
<1>3. {a, x, y} \subseteq DOMAIN v.bm /\ SlotOf(v, y, k) # NoSlot /\ SlotOf(v, a, k) = NoSlot
      /\ Touches(h, v, X, k)
  BY <1>2, ChangesTouches DEF Changes
<1>4. Sound(u) /\ Changes(v, u, y, k) /\ SlotOf(u, y, k) # NoSlot /\ ~SlotOf(u, y, k).shared
  BY <1>2, <1>3, UnsharedSound
<1> HIDE DEF u
<1>5. {a, x, y} \subseteq DOMAIN u.bm /\ SlotOf(u, x, k) = SlotOf(v, x, k)
      /\ SlotOf(u, a, k) = NoSlot /\ Touches(v, u, X, k)
  BY <1>2, <1>3, <1>4, ChangesTouches DEF Changes
<1>6. a \in DOMAIN u.bm /\ x \in DOMAIN u.bm /\ y \in DOMAIN u.bm /\ {a, x, y} \subseteq X
      /\ {a, y, x} \subseteq X /\ y # x
  BY <1>5
<1>7. SlotOf(u, x, k) # NoSlot /\ ~SlotOf(u, x, k).shared
  BY <1>2, <1>5
<1>a. Typed(one) /\ Typed(two)
  BY <1>4, <1>6, <1>7, ConTyped, LazyIorTyped
<1>b. Sound(u) /\ SlotOf(u, a, k) = NoSlot /\ SlotOf(u, y, k) # NoSlot /\ ~SlotOf(u, y, k).shared
  BY <1>4, <1>5
<1> HIDE DEF one, two, d, e
<1>8. Sound(inx) /\ Touches(u, inx, X, k) /\ SlotOf(inx, x, k) = NoSlot
        /\ SlotOf(inx, y, k) = NoSlot
  BY <1>6, <1>7, <1>a, <1>b, MergedInto
<1>9. Sound(iny) /\ Touches(u, iny, X, k) /\ SlotOf(iny, x, k) = NoSlot
        /\ SlotOf(iny, y, k) = NoSlot
  BY <1>6, <1>7, <1>a, <1>b, MergedInto
<1> HIDE DEF inx, iny
<1>10. Sound(g) /\ Touches(u, g, X, k) /\ SlotOf(g, x, k) = NoSlot /\ SlotOf(g, y, k) = NoSlot
  BY <1>1, <1>8, <1>9
<1>11. Touches(h, g, X, k)
  BY <1>3, <1>5, <1>10, TouchesOn
<1> QED
  BY <1>10, <1>11 DEF g

LEMMA ConsumeKeySound ==
    ASSUME NEW h, Sound(h), NEW a \in DOMAIN h.bm, NEW x \in DOMAIN h.bm, NEW y \in DOMAIN h.bm,
           a # x, a # y, x # y, NEW k \in Keys, SlotOf(h, a, k) = NoSlot
    PROVE  LET g == ConsumeKey(h, a, x, y, k)
           IN  /\ Sound(g) /\ Touches(h, g, {a, x, y}, k)
               /\ SlotOf(g, x, k) = NoSlot /\ SlotOf(g, y, k) = NoSlot
<1> DEFINE X == {a, x, y}
           g == ConsumeKey(h, a, x, y, k)
<1>1. CASE SlotOf(h, x, k) = NoSlot /\ SlotOf(h, y, k) = NoSlot
  BY <1>1, TouchesNothing DEF ConsumeKey
<1>2. CASE SlotOf(h, x, k) # NoSlot /\ SlotOf(h, y, k) = NoSlot
  <2>1. g = Moved(h, a, x, k)
    BY <1>2 DEF ConsumeKey
  <2> HIDE DEF g
  <2>2. {a, x} \subseteq X
    OBVIOUS
  <2>3. Sound(g) /\ Touches(h, g, X, k) /\ SlotOf(g, x, k) = NoSlot
        /\ \A z \in DOMAIN h.bm : z # a /\ z # x => SlotOf(g, z, k) = SlotOf(h, z, k)
    BY <1>2, <2>1, <2>2, MovedSound
  <2> QED
    BY <1>2, <2>3 DEF g
<1>3. CASE SlotOf(h, x, k) = NoSlot /\ SlotOf(h, y, k) # NoSlot
  <2>1. g = Moved(h, a, y, k)
    BY <1>3 DEF ConsumeKey
  <2> HIDE DEF g
  <2>2. {a, y} \subseteq X
    OBVIOUS
  <2>3. Sound(g) /\ Touches(h, g, X, k) /\ SlotOf(g, y, k) = NoSlot
        /\ \A z \in DOMAIN h.bm : z # a /\ z # y => SlotOf(g, z, k) = SlotOf(h, z, k)
    BY <1>3, <2>1, <2>2, MovedSound
  <2> QED
    BY <1>3, <2>3 DEF g
<1>4. CASE SlotOf(h, x, k) # NoSlot /\ SlotOf(h, y, k) # NoSlot
  <2>1. g = MergedKey(h, a, x, y, k)
    BY <1>4 DEF ConsumeKey
  <2> HIDE DEF g
  <2>2. Sound(g) /\ Touches(h, g, X, k) /\ SlotOf(g, x, k) = NoSlot /\ SlotOf(g, y, k) = NoSlot
    BY <1>4, <2>1, MergedKeySound
  <2> QED
    BY <2>2 DEF g
<1> QED
  BY <1>1, <1>2, <1>3, <1>4
-------------------------------------------------------------------------------
(* One key after another *)

\* The keys below k are done: nothing has changed for the others, no bitmap but those of X
\* is a different one, and those of E are empty so far.
Walked(h, g, X, E, k) ==
    /\ Sound(g) /\ DOMAIN g.bm = DOMAIN h.bm
    /\ \A z \in DOMAIN h.bm, j \in Keys :
          /\ j >= k => SlotOf(g, z, j) = SlotOf(h, z, j)
          /\ z \notin X =>
                Held(g, z, j) = Held(h, z, j)
                  /\ (SlotOf(g, z, j) = NoSlot <=> SlotOf(h, z, j) = NoSlot)
          /\ z \in E /\ j < k => SlotOf(g, z, j) = NoSlot

\* A step of a walk.
Steps(g, f, X, E, k) ==
    Sound(f) /\ Touches(g, f, X, k) /\ \A e \in E : SlotOf(f, e, k) = NoSlot

LEMMA WalkFirst ==
    ASSUME NEW h, Sound(h), NEW X, NEW E PROVE Walked(h, h, X, E, 0)
  BY DEF Walked, Keys

LEMMA WalkOn ==
    ASSUME NEW h, NEW g, NEW f, NEW X, NEW E, NEW k \in Keys,
           Walked(h, g, X, E, k), Steps(g, f, X, E, k)
    PROVE  Walked(h, f, X, E, k + 1)
<1>1. k \in Nat /\ \A j \in Keys : j \in Nat
  BY LazyAssumption DEF Keys
<1>2. Sound(f) /\ DOMAIN f.bm = DOMAIN h.bm /\ DOMAIN g.bm = DOMAIN h.bm
  BY DEF Walked, Steps, Touches
<1>3. ASSUME NEW z \in DOMAIN h.bm, NEW j \in Keys
      PROVE  /\ j >= k + 1 => SlotOf(f, z, j) = SlotOf(h, z, j)
             /\ z \notin X => Held(f, z, j) = Held(h, z, j)
                              /\ (SlotOf(f, z, j) = NoSlot <=> SlotOf(h, z, j) = NoSlot)
             /\ z \in E /\ j < k + 1 => SlotOf(f, z, j) = NoSlot
  <2>1. j \in Nat
    BY <1>1
  <2>2. CASE j = k
    BY <1>1, <1>2, <2>2 DEF Walked, Steps, Touches
  <2>3. CASE j # k
    <3>1. SlotOf(f, z, j) = SlotOf(g, z, j) /\ Held(f, z, j) = Held(g, z, j)
      BY <1>2, <2>3 DEF Steps, Touches
    <3>2. (j >= k + 1 => j >= k) /\ (j < k + 1 => j < k)
      BY <1>1, <2>1, <2>3
    <3> QED
      BY <3>1, <3>2 DEF Walked
  <2> QED
    BY <2>2, <2>3
<1> QED
  BY <1>2, <1>3 DEF Walked

\* Where a walk is after its last key.
LEMMA WalkLast ==
    ASSUME NEW h, Sound(h), NEW w, NEW X, NEW E,
           \A k \in Keys : LET g == IF k = 0 THEN h ELSE w[k - 1]
                           IN  Walked(h, g, X, E, k) => Steps(g, w[k], X, E, k)
    PROVE  Walked(h, w[MaxKey], X, E, MaxKey + 1)
<1>1. MaxKey \in Nat /\ MaxKey \in Keys
  BY LazyAssumption DEF Keys
<1> DEFINE Bad == {k \in Keys : ~Walked(h, w[k], X, E, k + 1)}
<1>2. SUFFICES ASSUME Bad # {} PROVE FALSE
  BY <1>1
<1>3. PICK k \in Bad : \A j \in Bad : k <= j
  <2>1. Bad \subseteq Nat
    BY <1>1 DEF Keys
  <2> HIDE DEF Bad
  <2> QED
    BY <1>2, <2>1, LeastOfNaturals
<1> DEFINE g == IF k = 0 THEN h ELSE w[k - 1]
<1>4. k \in Keys /\ k \in Nat
  BY <1>1, <1>3 DEF Keys
<1>5. Walked(h, g, X, E, k)
  <2>1. CASE k = 0
    BY <2>1, WalkFirst
  <2>2. CASE k # 0
    <3>1. k - 1 \in Keys /\ ~(k <= k - 1) /\ (k - 1) + 1 = k
      BY <1>1, <1>4, <2>2 DEF Keys
    <3>2. k - 1 \notin Bad
      BY <1>3, <3>1
    <3>3. Walked(h, w[k - 1], X, E, (k - 1) + 1)
      BY <3>1, <3>2
    <3> QED
      BY <2>2, <3>1, <3>3
  <2> QED
    BY <2>1, <2>2
<1>6. Steps(g, w[k], X, E, k)
  BY <1>4, <1>5
<1>7. Walked(h, w[k], X, E, k + 1)
  BY <1>4, <1>5, <1>6, WalkOn
<1> QED
  BY <1>3, <1>7

\* What is done with a key in each of the walks there are.
KeyStep(c, g, k) ==
    CASE c.walk = "copy" -> CopyKey(g, c.a, c.x, k)
      [] c.walk = "combine" -> CombineKey(g, c.a, c.x, c.y, c.op, k)
      [] c.walk = "in_place" -> InPlaceKey(g, c.x, c.y, c.op, k)
      [] c.walk = "repair" -> RepairKey(g, c.x, k)
      [] c.walk = "free" -> FreeKey(g, c.x, k)
      [] c.walk = "consume" -> ConsumeKey(g, c.a, c.x, c.y, k)
      [] c.walk = "load" -> LoadKey(g, c.x, c.made, k)

\* A walk exists.
Prefix(c, h, n, w) ==
    \A k \in 0..n : w[k] = KeyStep(c, IF k = 0 THEN h ELSE w[k - 1], k)
LEMMA WalkUpTo ==
    ASSUME NEW c, NEW h, NEW n \in Nat PROVE \E w : Prefix(c, h, n, w)
<1> DEFINE Bad == {m \in Nat : ~\E w : Prefix(c, h, m, w)}
<1>1. SUFFICES ASSUME Bad # {} PROVE FALSE
  OBVIOUS
<1>2. PICK m \in Bad : \A j \in Bad : m <= j
  <2>1. Bad \subseteq Nat
    OBVIOUS
  <2> HIDE DEF Bad
  <2> QED
    BY <1>1, <2>1, LeastOfNaturals
<1>3. \E w : Prefix(c, h, m, w)
  <2>1. CASE m = 0
    <3> DEFINE w == [k \in {0} |-> KeyStep(c, h, 0)]
    <3>1. w[0] = KeyStep(c, h, 0)
      OBVIOUS
    <3> HIDE DEF w
    <3>2. Prefix(c, h, m, w)
      BY <2>1, <3>1 DEF Prefix
    <3> QED
      BY <3>2
  <2>2. CASE m # 0
    <3>1. m - 1 \in Nat /\ m - 1 \notin Bad
      BY <1>2, <2>2
    <3>2. PICK v : Prefix(c, h, m - 1, v)
      BY <3>1
    <3> DEFINE new == KeyStep(c, v[m - 1], m)
               w == [k \in 0..m |-> IF k = m THEN new ELSE v[k]]
    <3>3. m \in 0..m /\ \A k \in 0..m : k # m => k \in 0..(m - 1)
      BY <3>1
    <3>4. w[m] = new /\ \A k \in 0..(m - 1) : w[k] = v[k]
      BY <3>1
    <3> HIDE DEF w
    <3>5. ASSUME NEW k \in 0..m PROVE w[k] = KeyStep(c, IF k = 0 THEN h ELSE w[k - 1], k)
      <4>1. CASE k = m
        <5>1. k # 0 /\ w[k - 1] = v[m - 1]
          BY <2>2, <3>1, <3>4, <4>1
        <5> QED
          BY <3>4, <4>1, <5>1
      <4>2. CASE k # m
        <5>1. k \in 0..(m - 1) /\ w[k] = v[k]
          BY <3>3, <3>4, <4>2
        <5>2. k # 0 => w[k - 1] = v[k - 1]
          BY <3>1, <3>4, <5>1
        <5> QED
          BY <3>2, <5>1, <5>2 DEF Prefix
      <4> QED
        BY <4>1, <4>2
    <3> QED
      BY <3>5 DEF Prefix
  <2> QED
    BY <2>1, <2>2
<1> QED
  BY <1>2, <1>3

LEMMA WalkExists ==
    ASSUME NEW c, NEW h
    PROVE  \E w : w = [k \in Keys |-> KeyStep(c, IF k = 0 THEN h ELSE w[k - 1], k)]
<1>1. PICK v : Prefix(c, h, MaxKey, v)
  BY LazyAssumption, WalkUpTo
<1> DEFINE w == [k \in Keys |-> v[k]]
<1>2. \A k \in Keys : k # 0 => k - 1 \in Keys
  BY LazyAssumption DEF Keys
<1>3. ASSUME NEW k \in Keys PROVE v[k] = KeyStep(c, IF k = 0 THEN h ELSE w[k - 1], k)
  BY <1>1, <1>2 DEF Prefix, Keys
<1>4. w = [k \in Keys |-> KeyStep(c, IF k = 0 THEN h ELSE w[k - 1], k)]
  BY <1>3
<1> QED
  BY <1>4

\* What each walk is: a heap for each key, the next one made of the one before.
Copying(h, a, x) == ForKeys(h, LAMBDA g, k : CopyKey(g, a, x, k))
Combining(h, a, x, y, op) == ForKeys(h, LAMBDA g, k : CombineKey(g, a, x, y, op, k))
Merging(h, x, y, op) == ForKeys(h, LAMBDA g, k : InPlaceKey(g, x, y, op, k))
Repairing(h, x) == ForKeys(h, LAMBDA g, k : RepairKey(g, x, k))
Freeing(h, x) == ForKeys(h, LAMBDA g, k : FreeKey(g, x, k))
Consuming(h, a, x, y) == ForKeys(h, LAMBDA g, k : ConsumeKey(g, a, x, y, k))
Loading(h, x, made) == ForKeys(h, LAMBDA g, k : LoadKey(g, x, made, k))

LEMMA CopyWalk ==
    ASSUME NEW h, NEW a, NEW x
    PROVE  \E w : /\ Copying(h, a, x) = w[MaxKey]
                  /\ \A k \in Keys : w[k] = CopyKey(IF k = 0 THEN h ELSE w[k - 1], a, x, k)
<1> DEFINE c == [walk |-> "copy", a |-> a, x |-> x]
           w == CHOOSE w : w = [k \in Keys |->
                                   CopyKey(IF k = 0 THEN h ELSE w[k - 1], a, x, k)]
<1>1. \A g, k : KeyStep(c, g, k) = CopyKey(g, a, x, k)
  BY DEF KeyStep
<1> HIDE DEF c
<1>2. \E v : v = [k \in Keys |-> CopyKey(IF k = 0 THEN h ELSE v[k - 1], a, x, k)]
  <2>1. PICK v : v = [k \in Keys |-> KeyStep(c, IF k = 0 THEN h ELSE v[k - 1], k)]
    BY WalkExists
  <2>2. \A k \in Keys : v[k] = CopyKey(IF k = 0 THEN h ELSE v[k - 1], a, x, k)
    BY <1>1, <2>1
  <2> QED
    BY <2>1, <2>2
<1>3. w = [k \in Keys |-> CopyKey(IF k = 0 THEN h ELSE w[k - 1], a, x, k)]
  BY <1>2
<1>4. Copying(h, a, x) = w[MaxKey]
  BY DEF Copying, ForKeys
<1> HIDE DEF w
<1>5. \A k \in Keys : w[k] = CopyKey(IF k = 0 THEN h ELSE w[k - 1], a, x, k)
  BY <1>3
<1> QED
  BY <1>4, <1>5

LEMMA CombineWalk ==
    ASSUME NEW h, NEW a, NEW x, NEW y, NEW op
    PROVE  \E w : /\ Combining(h, a, x, y, op) = w[MaxKey]
                  /\ \A k \in Keys : w[k] = CombineKey(IF k = 0 THEN h ELSE w[k - 1], a, x, y, op, k)
<1> DEFINE c == [walk |-> "combine", a |-> a, x |-> x, y |-> y, op |-> op]
           w == CHOOSE w : w = [k \in Keys |->
                                   CombineKey(IF k = 0 THEN h ELSE w[k - 1], a, x, y, op, k)]
<1>1. \A g, k : KeyStep(c, g, k) = CombineKey(g, a, x, y, op, k)
  BY DEF KeyStep
<1> HIDE DEF c
<1>2. \E v : v = [k \in Keys |-> CombineKey(IF k = 0 THEN h ELSE v[k - 1], a, x, y, op, k)]
  <2>1. PICK v : v = [k \in Keys |-> KeyStep(c, IF k = 0 THEN h ELSE v[k - 1], k)]
    BY WalkExists
  <2>2. \A k \in Keys : v[k] = CombineKey(IF k = 0 THEN h ELSE v[k - 1], a, x, y, op, k)
    BY <1>1, <2>1
  <2> QED
    BY <2>1, <2>2
<1>3. w = [k \in Keys |-> CombineKey(IF k = 0 THEN h ELSE w[k - 1], a, x, y, op, k)]
  BY <1>2
<1>4. Combining(h, a, x, y, op) = w[MaxKey]
  BY DEF Combining, ForKeys
<1> HIDE DEF w
<1>5. \A k \in Keys : w[k] = CombineKey(IF k = 0 THEN h ELSE w[k - 1], a, x, y, op, k)
  BY <1>3
<1> QED
  BY <1>4, <1>5

LEMMA InPlaceWalk ==
    ASSUME NEW h, NEW x, NEW y, NEW op
    PROVE  \E w : /\ Merging(h, x, y, op) = w[MaxKey]
                  /\ \A k \in Keys : w[k] = InPlaceKey(IF k = 0 THEN h ELSE w[k - 1], x, y, op, k)
<1> DEFINE c == [walk |-> "in_place", x |-> x, y |-> y, op |-> op]
           w == CHOOSE w : w = [k \in Keys |->
                                   InPlaceKey(IF k = 0 THEN h ELSE w[k - 1], x, y, op, k)]
<1>1. \A g, k : KeyStep(c, g, k) = InPlaceKey(g, x, y, op, k)
  BY DEF KeyStep
<1> HIDE DEF c
<1>2. \E v : v = [k \in Keys |-> InPlaceKey(IF k = 0 THEN h ELSE v[k - 1], x, y, op, k)]
  <2>1. PICK v : v = [k \in Keys |-> KeyStep(c, IF k = 0 THEN h ELSE v[k - 1], k)]
    BY WalkExists
  <2>2. \A k \in Keys : v[k] = InPlaceKey(IF k = 0 THEN h ELSE v[k - 1], x, y, op, k)
    BY <1>1, <2>1
  <2> QED
    BY <2>1, <2>2
<1>3. w = [k \in Keys |-> InPlaceKey(IF k = 0 THEN h ELSE w[k - 1], x, y, op, k)]
  BY <1>2
<1>4. Merging(h, x, y, op) = w[MaxKey]
  BY DEF Merging, ForKeys
<1> HIDE DEF w
<1>5. \A k \in Keys : w[k] = InPlaceKey(IF k = 0 THEN h ELSE w[k - 1], x, y, op, k)
  BY <1>3
<1> QED
  BY <1>4, <1>5

LEMMA RepairWalk ==
    ASSUME NEW h, NEW x
    PROVE  \E w : /\ Repairing(h, x) = w[MaxKey]
                  /\ \A k \in Keys : w[k] = RepairKey(IF k = 0 THEN h ELSE w[k - 1], x, k)
<1> DEFINE c == [walk |-> "repair", x |-> x]
           w == CHOOSE w : w = [k \in Keys |->
                                   RepairKey(IF k = 0 THEN h ELSE w[k - 1], x, k)]
<1>1. \A g, k : KeyStep(c, g, k) = RepairKey(g, x, k)
  BY DEF KeyStep
<1> HIDE DEF c
<1>2. \E v : v = [k \in Keys |-> RepairKey(IF k = 0 THEN h ELSE v[k - 1], x, k)]
  <2>1. PICK v : v = [k \in Keys |-> KeyStep(c, IF k = 0 THEN h ELSE v[k - 1], k)]
    BY WalkExists
  <2>2. \A k \in Keys : v[k] = RepairKey(IF k = 0 THEN h ELSE v[k - 1], x, k)
    BY <1>1, <2>1
  <2> QED
    BY <2>1, <2>2
<1>3. w = [k \in Keys |-> RepairKey(IF k = 0 THEN h ELSE w[k - 1], x, k)]
  BY <1>2
<1>4. Repairing(h, x) = w[MaxKey]
  BY DEF Repairing, ForKeys
<1> HIDE DEF w
<1>5. \A k \in Keys : w[k] = RepairKey(IF k = 0 THEN h ELSE w[k - 1], x, k)
  BY <1>3
<1> QED
  BY <1>4, <1>5

LEMMA FreeWalk ==
    ASSUME NEW h, NEW x
    PROVE  \E w : /\ Freeing(h, x) = w[MaxKey]
                  /\ \A k \in Keys : w[k] = FreeKey(IF k = 0 THEN h ELSE w[k - 1], x, k)
<1> DEFINE c == [walk |-> "free", x |-> x]
           w == CHOOSE w : w = [k \in Keys |->
                                   FreeKey(IF k = 0 THEN h ELSE w[k - 1], x, k)]
<1>1. \A g, k : KeyStep(c, g, k) = FreeKey(g, x, k)
  BY DEF KeyStep
<1> HIDE DEF c
<1>2. \E v : v = [k \in Keys |-> FreeKey(IF k = 0 THEN h ELSE v[k - 1], x, k)]
  <2>1. PICK v : v = [k \in Keys |-> KeyStep(c, IF k = 0 THEN h ELSE v[k - 1], k)]
    BY WalkExists
  <2>2. \A k \in Keys : v[k] = FreeKey(IF k = 0 THEN h ELSE v[k - 1], x, k)
    BY <1>1, <2>1
  <2> QED
    BY <2>1, <2>2
<1>3. w = [k \in Keys |-> FreeKey(IF k = 0 THEN h ELSE w[k - 1], x, k)]
  BY <1>2
<1>4. Freeing(h, x) = w[MaxKey]
  BY DEF Freeing, ForKeys
<1> HIDE DEF w
<1>5. \A k \in Keys : w[k] = FreeKey(IF k = 0 THEN h ELSE w[k - 1], x, k)
  BY <1>3
<1> QED
  BY <1>4, <1>5

LEMMA ConsumeWalk ==
    ASSUME NEW h, NEW a, NEW x, NEW y
    PROVE  \E w : /\ Consuming(h, a, x, y) = w[MaxKey]
                  /\ \A k \in Keys : w[k] = ConsumeKey(IF k = 0 THEN h ELSE w[k - 1], a, x, y, k)
<1> DEFINE c == [walk |-> "consume", a |-> a, x |-> x, y |-> y]
           w == CHOOSE w : w = [k \in Keys |->
                                   ConsumeKey(IF k = 0 THEN h ELSE w[k - 1], a, x, y, k)]
<1>1. \A g, k : KeyStep(c, g, k) = ConsumeKey(g, a, x, y, k)
  BY DEF KeyStep
<1> HIDE DEF c
<1>2. \E v : v = [k \in Keys |-> ConsumeKey(IF k = 0 THEN h ELSE v[k - 1], a, x, y, k)]
  <2>1. PICK v : v = [k \in Keys |-> KeyStep(c, IF k = 0 THEN h ELSE v[k - 1], k)]
    BY WalkExists
  <2>2. \A k \in Keys : v[k] = ConsumeKey(IF k = 0 THEN h ELSE v[k - 1], a, x, y, k)
    BY <1>1, <2>1
  <2> QED
    BY <2>1, <2>2
<1>3. w = [k \in Keys |-> ConsumeKey(IF k = 0 THEN h ELSE w[k - 1], a, x, y, k)]
  BY <1>2
<1>4. Consuming(h, a, x, y) = w[MaxKey]
  BY DEF Consuming, ForKeys
<1> HIDE DEF w
<1>5. \A k \in Keys : w[k] = ConsumeKey(IF k = 0 THEN h ELSE w[k - 1], a, x, y, k)
  BY <1>3
<1> QED
  BY <1>4, <1>5

LEMMA LoadWalk ==
    ASSUME NEW h, NEW x, NEW made
    PROVE  \E w : /\ Loading(h, x, made) = w[MaxKey]
                  /\ \A k \in Keys : w[k] = LoadKey(IF k = 0 THEN h ELSE w[k - 1], x, made, k)
<1> DEFINE c == [walk |-> "load", x |-> x, made |-> made]
           w == CHOOSE w : w = [k \in Keys |->
                                   LoadKey(IF k = 0 THEN h ELSE w[k - 1], x, made, k)]
<1>1. \A g, k : KeyStep(c, g, k) = LoadKey(g, x, made, k)
  BY DEF KeyStep
<1> HIDE DEF c
<1>2. \E v : v = [k \in Keys |-> LoadKey(IF k = 0 THEN h ELSE v[k - 1], x, made, k)]
  <2>1. PICK v : v = [k \in Keys |-> KeyStep(c, IF k = 0 THEN h ELSE v[k - 1], k)]
    BY WalkExists
  <2>2. \A k \in Keys : v[k] = LoadKey(IF k = 0 THEN h ELSE v[k - 1], x, made, k)
    BY <1>1, <2>1
  <2> QED
    BY <2>1, <2>2
<1>3. w = [k \in Keys |-> LoadKey(IF k = 0 THEN h ELSE w[k - 1], x, made, k)]
  BY <1>2
<1>4. Loading(h, x, made) = w[MaxKey]
  BY DEF Loading, ForKeys
<1> HIDE DEF w
<1>5. \A k \in Keys : w[k] = LoadKey(IF k = 0 THEN h ELSE w[k - 1], x, made, k)
  BY <1>3
<1> QED
  BY <1>4, <1>5
-------------------------------------------------------------------------------
(* Whole bitmaps *)

\* No bitmap but those of X is a different one.
Apart(h, g, X) ==
    \A z \in DOMAIN h.bm \ X :
       /\ z \in DOMAIN g.bm
       /\ \A j \in Keys : Held(g, z, j) = Held(h, z, j)
                          /\ (SlotOf(g, z, j) = NoSlot <=> SlotOf(h, z, j) = NoSlot)
Empty(h, x) == \A k \in Keys : SlotOf(h, x, k) = NoSlot

LEMMA WalkedApart ==
    ASSUME NEW h, NEW g, NEW X, NEW E, NEW k, Walked(h, g, X, E, k)
    PROVE  Sound(g) /\ DOMAIN g.bm = DOMAIN h.bm /\ Apart(h, g, X)
  BY DEF Walked, Apart

LEMMA ApartOn ==
    ASSUME NEW h, NEW f, NEW g, NEW X, Apart(h, f, X), Apart(f, g, X)
    PROVE  Apart(h, g, X)
  BY DEF Apart

LEMMA SizeZero ==
    ASSUME NEW h, NEW x PROVE Size(h, x) = 0 <=> Empty(h, x)
<1> DEFINE S == {k \in Keys : SlotOf(h, x, k) # NoSlot}
<1>1. IsFiniteSet(S)
  BY KeysFinite, FS_Subset
<1>2. Cardinality(S) = 0 <=> S = {}
  BY <1>1, FS_EmptySet
<1> QED
  BY <1>2 DEF Size, Empty

\* To have a bitmap that is empty, or not to have it, is the same to all cells.
LEMMA BitmapsSound ==
    ASSUME NEW h, Sound(h), NEW g, IsHeap(g), g.mem = h.mem,
           \A z \in DOMAIN g.bm : z \notin DOMAIN h.bm => Empty(g, z),
           \A z \in DOMAIN h.bm : z \notin DOMAIN g.bm => Empty(h, z),
           \A z \in DOMAIN h.bm \cap DOMAIN g.bm, j \in Keys : SlotOf(g, z, j) = SlotOf(h, z, j)
    PROVE  /\ Sound(g)
           /\ \A z \in DOMAIN h.bm \cap DOMAIN g.bm, j \in Keys : Held(g, z, j) = Held(h, z, j)
<1>1. ASSUME NEW n \in DOMAIN h.mem PROVE Fits(g, n)
  <2>1. n # 0 /\ Fits(h, n) /\ g.mem[n] = h.mem[n]
    BY DEF Sound, IsHeap
  <2>2. \A z \in DOMAIN g.bm, j \in Keys :
           SlotOf(g, z, j).cell = n => z \in DOMAIN h.bm /\ SlotOf(h, z, j) = SlotOf(g, z, j)
    BY <2>1, NoSlotIs DEF Empty
  <2>3. \A z \in DOMAIN h.bm, j \in Keys :
           SlotOf(h, z, j).cell = n => z \in DOMAIN g.bm /\ SlotOf(h, z, j) = SlotOf(g, z, j)
    BY <2>1, NoSlotIs DEF Empty
  <2>4. Holders(g, n) = Holders(h, n)
    BY <2>2, <2>3 DEF Holders
  <2> QED
    BY <2>1, <2>2, <2>4 DEF Fits
<1>2. \A z \in DOMAIN g.bm, j \in Keys :
         SlotOf(g, z, j) # NoSlot => SlotOf(g, z, j).cell \in DOMAIN g.mem
  BY DEF Sound, Empty
<1>3. Sound(g)
  BY <1>1, <1>2 DEF Sound
<1>4. \A z \in DOMAIN h.bm \cap DOMAIN g.bm, j \in Keys : Held(g, z, j) = Held(h, z, j)
  BY DEF Held, Con
<1> QED
  BY <1>3, <1>4

LEMMA CreateSound ==
    ASSUME NEW h, Sound(h), NEW a, a \in DOMAIN h.bm => Empty(h, a), NEW cow
    PROVE  LET g == Create(h, a, cow)
           IN  /\ Sound(g) /\ DOMAIN g.bm = DOMAIN h.bm \cup {a} /\ Empty(g, a)
               /\ Apart(h, g, {a})
<1> DEFINE b == [at |-> [k \in Keys |-> NoSlot], cow |-> cow]
           m == With(h.bm, a, b)
           g == Create(h, a, cow)
<1>1. IsHeap(h)
  BY DEF Sound
<1>2. DOMAIN m = DOMAIN h.bm \cup {a} /\ m[a] = b /\ \A z \in DOMAIN h.bm : z # a => m[z] = h.bm[z]
  BY DEF With
<1>3. m = [z \in DOMAIN m |-> m[z]]
  BY DEF With
<1>4. g = [h EXCEPT !.bm = m]
  BY DEF Create
<1> HIDE DEF m
<1>5. b.at \in [Keys -> Slots] /\ b = [at |-> b.at, cow |-> b.cow]
        /\ \A k \in Keys : b.at[k] = NoSlot
  BY NoSlotIs
<1> HIDE DEF b, g
<1>6. g.mem = h.mem /\ g.bm = m /\ g = [mem |-> g.mem, bm |-> g.bm]
  BY <1>1, <1>4 DEF IsHeap
<1>7. \A z \in DOMAIN m : m[z] = [at |-> m[z].at, cow |-> m[z].cow] /\ m[z].at \in [Keys -> Slots]
  BY <1>1, <1>2, <1>5 DEF IsHeap
<1>8. IsFiniteSet(DOMAIN m)
  BY <1>1, <1>2, FS_AddElement DEF IsHeap
<1>9. m = [z \in DOMAIN m |-> [at |-> m[z].at, cow |-> m[z].cow]]
  BY <1>3, <1>7
<1>10. IsHeap(g)
  BY <1>1, <1>6, <1>7, <1>8, <1>9 DEF IsHeap
<1>11. Empty(g, a)
  BY <1>2, <1>5, <1>6 DEF Empty, SlotOf
<1>12. \A z \in DOMAIN h.bm, j \in Keys : z # a => SlotOf(g, z, j) = SlotOf(h, z, j)
  BY <1>2, <1>6 DEF SlotOf
<1>13. \A z \in DOMAIN h.bm, j \in Keys : SlotOf(g, z, j) = SlotOf(h, z, j)
  BY <1>11, <1>12 DEF Empty
<1>14. Sound(g) /\ \A z \in DOMAIN h.bm, j \in Keys : Held(g, z, j) = Held(h, z, j)
  BY <1>2, <1>6, <1>10, <1>11, <1>13, BitmapsSound
<1>15. Apart(h, g, {a})
  BY <1>2, <1>6, <1>13, <1>14 DEF Apart
<1> QED
  BY <1>2, <1>6, <1>11, <1>14, <1>15 DEF g

LEMMA DropSound ==
    ASSUME NEW h, Sound(h), NEW x, Empty(h, x)
    PROVE  LET g == [h EXCEPT !.bm = Without(@, x)]
           IN  Sound(g) /\ DOMAIN g.bm = DOMAIN h.bm \ {x} /\ Apart(h, g, {x})
<1> DEFINE m == Without(h.bm, x)
           g == [h EXCEPT !.bm = m]
<1>1. IsHeap(h)
  BY DEF Sound
<1>2. DOMAIN m = DOMAIN h.bm \ {x} /\ \A z \in DOMAIN m : m[z] = h.bm[z]
  BY DEF Without
<1>3. m = [z \in DOMAIN m |-> m[z]]
  BY DEF Without
<1> HIDE DEF m
<1>4. g.mem = h.mem /\ g.bm = m /\ g = [mem |-> g.mem, bm |-> g.bm]
  BY <1>1 DEF IsHeap
<1> HIDE DEF g
<1>5. \A z \in DOMAIN m : m[z] = [at |-> m[z].at, cow |-> m[z].cow] /\ m[z].at \in [Keys -> Slots]
  BY <1>1, <1>2 DEF IsHeap
<1>6. IsFiniteSet(DOMAIN m)
  BY <1>1, <1>2, FS_RemoveElement DEF IsHeap
<1>7. m = [z \in DOMAIN m |-> [at |-> m[z].at, cow |-> m[z].cow]]
  BY <1>3, <1>5
<1>8. IsHeap(g)
  BY <1>1, <1>4, <1>5, <1>6, <1>7 DEF IsHeap
<1>9. \A z \in DOMAIN g.bm, j \in Keys : SlotOf(g, z, j) = SlotOf(h, z, j)
  BY <1>2, <1>4 DEF SlotOf
<1>10. Sound(g) /\ \A z \in DOMAIN g.bm, j \in Keys : Held(g, z, j) = Held(h, z, j)
  BY <1>2, <1>4, <1>8, <1>9, BitmapsSound
<1>11. Apart(h, g, {x})
  BY <1>2, <1>4, <1>9, <1>10 DEF Apart
<1> QED
  BY <1>2, <1>4, <1>10, <1>11 DEF g, m

LEMMA CopySound ==
    ASSUME NEW h, Sound(h), NEW x \in DOMAIN h.bm, NEW a, a # x, a \in DOMAIN h.bm => Empty(h, a)
    PROVE  LET g == Copy(h, a, x)
           IN  Sound(g) /\ DOMAIN g.bm = DOMAIN h.bm \cup {a} /\ Apart(h, g, {a})
<1> DEFINE e == Create(h, a, h.bm[x].cow)
           g == Copy(h, a, x)
<1>1. Sound(e) /\ DOMAIN e.bm = DOMAIN h.bm \cup {a} /\ Empty(e, a) /\ Apart(h, e, {a})
  BY CreateSound
<1>2. g = Copying(e, a, x)
  BY DEF Copy, Copying
<1> HIDE DEF e, g
<1>3. PICK w : /\ Copying(e, a, x) = w[MaxKey]
               /\ \A k \in Keys : w[k] = CopyKey(IF k = 0 THEN e ELSE w[k - 1], a, x, k)
  BY CopyWalk
<1>4. ASSUME NEW k \in Keys, NEW f, f = IF k = 0 THEN e ELSE w[k - 1], Walked(e, f, {a}, {}, k)
      PROVE  Steps(f, w[k], {a}, {}, k)
  <2>1. Sound(f) /\ DOMAIN f.bm = DOMAIN e.bm /\ SlotOf(f, a, k) = NoSlot
    <3>1. k >= k
      BY LazyAssumption DEF Keys
    <3> QED
      BY <1>1, <1>4, <3>1 DEF Walked, Empty
  <2>2. w[k] = CopyKey(f, a, x, k)
    BY <1>3, <1>4
  <2>3. Sound(w[k]) /\ Touches(f, w[k], {a}, k)
    BY <1>1, <2>1, <2>2, CopyKeySound
  <2> QED
    BY <2>3 DEF Steps
<1>5. Walked(e, w[MaxKey], {a}, {}, MaxKey + 1)
  BY <1>1, <1>4, WalkLast
<1>6. Sound(g) /\ DOMAIN g.bm = DOMAIN e.bm /\ Apart(e, g, {a})
  BY <1>2, <1>3, <1>5, WalkedApart
<1> QED
  BY <1>1, <1>6, ApartOn DEF g

LEMMA CombinedSound ==
    ASSUME NEW h, Sound(h), NEW x \in DOMAIN h.bm, NEW y \in DOMAIN h.bm, NEW a,
           a \notin DOMAIN h.bm, NEW op
    PROVE  LET g == Combined(h, a, x, y, op)
           IN  Sound(g) /\ DOMAIN g.bm = DOMAIN h.bm \cup {a} /\ Apart(h, g, {a})
<1> DEFINE cow == h.bm[x].cow \/ h.bm[y].cow
           e == Create(h, a, cow)
           walk == Combining(e, a, x, y, op)
           g == Combined(h, a, x, y, op)
<1>1. g = Copy(h, a, y) \/ g = Copy(h, a, x) \/ g = walk
  BY DEF Combined, Combining
<1>2. Sound(e) /\ DOMAIN e.bm = DOMAIN h.bm \cup {a} /\ Empty(e, a) /\ Apart(h, e, {a})
  <2> HIDE DEF cow
  <2> QED
    BY CreateSound
<1> HIDE DEF e, g
<1>3. PICK w : /\ walk = w[MaxKey]
               /\ \A k \in Keys : w[k] = CombineKey(IF k = 0 THEN e ELSE w[k - 1], a, x, y, op, k)
  BY CombineWalk
<1> HIDE DEF walk
<1>4. ASSUME NEW k \in Keys, NEW f, f = IF k = 0 THEN e ELSE w[k - 1], Walked(e, f, {a}, {}, k)
      PROVE  Steps(f, w[k], {a}, {}, k)
  <2>1. Sound(f) /\ DOMAIN f.bm = DOMAIN e.bm /\ SlotOf(f, a, k) = NoSlot
    <3>1. k >= k
      BY LazyAssumption DEF Keys
    <3> QED
      BY <1>2, <1>4, <3>1 DEF Walked, Empty
  <2>2. w[k] = CombineKey(f, a, x, y, op, k)
    BY <1>3, <1>4
  <2>3. a \in DOMAIN f.bm /\ x \in DOMAIN f.bm /\ y \in DOMAIN f.bm /\ a # x /\ a # y
    BY <1>2, <2>1
  <2>4. Sound(w[k]) /\ Touches(f, w[k], {a}, k)
    BY <2>1, <2>2, <2>3, CombineKeySound
  <2> QED
    BY <2>4 DEF Steps
<1>5. Walked(e, w[MaxKey], {a}, {}, MaxKey + 1)
  BY <1>2, <1>4, WalkLast
<1>6. Sound(walk) /\ DOMAIN walk.bm = DOMAIN h.bm \cup {a} /\ Apart(h, walk, {a})
  <2>1. Sound(walk) /\ DOMAIN walk.bm = DOMAIN e.bm /\ Apart(e, walk, {a})
    BY <1>3, <1>5, WalkedApart
  <2> QED
    BY <1>2, <2>1, ApartOn
<1>7. \A z \in {x, y} : LET c == Copy(h, a, z)
                        IN  Sound(c) /\ DOMAIN c.bm = DOMAIN h.bm \cup {a} /\ Apart(h, c, {a})
  BY CopySound
<1> QED
  BY <1>1, <1>6, <1>7 DEF g

LEMMA InPlaceSound ==
    ASSUME NEW h, Sound(h), NEW x \in DOMAIN h.bm, NEW y \in DOMAIN h.bm, x # y, NEW op
    PROVE  LET g == InPlace(h, x, y, op)
           IN  Sound(g) /\ DOMAIN g.bm = DOMAIN h.bm /\ Apart(h, g, {x})
<1> DEFINE walk == Merging(h, x, y, op)
           g == InPlace(h, x, y, op)
<1>1. g = h \/ (g = Copy(h, x, y) /\ Empty(h, x)) \/ g = walk
  BY SizeZero DEF InPlace, Merging
<1> HIDE DEF g
<1>2. PICK w : /\ walk = w[MaxKey]
               /\ \A k \in Keys : w[k] = InPlaceKey(IF k = 0 THEN h ELSE w[k - 1], x, y, op, k)
  BY InPlaceWalk
<1> HIDE DEF walk
<1>3. ASSUME NEW k \in Keys, NEW f, f = IF k = 0 THEN h ELSE w[k - 1], Walked(h, f, {x}, {}, k)
      PROVE  Steps(f, w[k], {x}, {}, k)
  <2>1. Sound(f) /\ DOMAIN f.bm = DOMAIN h.bm
    BY <1>3 DEF Walked
  <2>2. w[k] = InPlaceKey(f, x, y, op, k)
    BY <1>2, <1>3
  <2>3. Sound(w[k]) /\ Touches(f, w[k], {x}, k)
    BY <2>1, <2>2, InPlaceKeySound
  <2> QED
    BY <2>3 DEF Steps
<1>4. Walked(h, w[MaxKey], {x}, {}, MaxKey + 1)
  BY <1>3, WalkLast
<1>5. Sound(walk) /\ DOMAIN walk.bm = DOMAIN h.bm /\ Apart(h, walk, {x})
  BY <1>2, <1>4, WalkedApart
<1>6. ASSUME g = Copy(h, x, y), Empty(h, x)
      PROVE  Sound(g) /\ DOMAIN g.bm = DOMAIN h.bm /\ Apart(h, g, {x})
  <2>1. DOMAIN h.bm \cup {x} = DOMAIN h.bm
    OBVIOUS
  <2>2. Sound(g) /\ DOMAIN g.bm = DOMAIN h.bm \cup {x} /\ Apart(h, g, {x})
    BY <1>6, CopySound
  <2> QED
    BY <2>1, <2>2
<1>7. Apart(h, h, {x})
  BY DEF Apart
<1> QED
  BY <1>1, <1>5, <1>6, <1>7 DEF g

LEMMA RepairSound ==
    ASSUME NEW h, Sound(h), NEW x \in DOMAIN h.bm
    PROVE  LET g == roaring_bitmap_repair_after_lazy(h, x)
           IN  Sound(g) /\ DOMAIN g.bm = DOMAIN h.bm /\ Apart(h, g, {x})
<1> DEFINE walk == Repairing(h, x)
<1>1. roaring_bitmap_repair_after_lazy(h, x) = walk
  BY DEF roaring_bitmap_repair_after_lazy, Repairing
<1>2. PICK w : /\ walk = w[MaxKey]
               /\ \A k \in Keys : w[k] = RepairKey(IF k = 0 THEN h ELSE w[k - 1], x, k)
  BY RepairWalk
<1> HIDE DEF walk
<1>3. ASSUME NEW k \in Keys, NEW f, f = IF k = 0 THEN h ELSE w[k - 1], Walked(h, f, {x}, {}, k)
      PROVE  Steps(f, w[k], {x}, {}, k)
  <2>1. Sound(f) /\ DOMAIN f.bm = DOMAIN h.bm
    BY <1>3 DEF Walked
  <2>2. w[k] = RepairKey(f, x, k)
    BY <1>2, <1>3
  <2>3. Sound(w[k]) /\ Touches(f, w[k], {x}, k)
    BY <2>1, <2>2, RepairKeySound
  <2> QED
    BY <2>3 DEF Steps
<1>4. Walked(h, w[MaxKey], {x}, {}, MaxKey + 1)
  BY <1>3, WalkLast
<1> QED
  BY <1>1, <1>2, <1>4, WalkedApart

LEMMA FreeSound ==
    ASSUME NEW h, Sound(h), NEW x \in DOMAIN h.bm
    PROVE  LET g == FreeBitmap(h, x)
           IN  Sound(g) /\ DOMAIN g.bm = DOMAIN h.bm \ {x} /\ Apart(h, g, {x})
<1> DEFINE walk == Freeing(h, x)
           g == FreeBitmap(h, x)
<1>1. g = [walk EXCEPT !.bm = Without(@, x)]
  BY DEF FreeBitmap, Freeing
<1> HIDE DEF g
<1>2. PICK w : /\ walk = w[MaxKey]
               /\ \A k \in Keys : w[k] = FreeKey(IF k = 0 THEN h ELSE w[k - 1], x, k)
  BY FreeWalk
<1> HIDE DEF walk
<1>3. ASSUME NEW k \in Keys, NEW f, f = IF k = 0 THEN h ELSE w[k - 1], Walked(h, f, {x}, {x}, k)
      PROVE  Steps(f, w[k], {x}, {x}, k)
  <2>1. Sound(f) /\ DOMAIN f.bm = DOMAIN h.bm
    BY <1>3 DEF Walked
  <2>2. w[k] = FreeKey(f, x, k)
    BY <1>2, <1>3
  <2>3. Sound(w[k]) /\ Touches(f, w[k], {x}, k) /\ SlotOf(w[k], x, k) = NoSlot
    BY <2>1, <2>2, FreeKeySound
  <2> QED
    BY <2>3 DEF Steps
<1>4. Walked(h, walk, {x}, {x}, MaxKey + 1)
  BY <1>2, <1>3, WalkLast
<1>5. Sound(walk) /\ DOMAIN walk.bm = DOMAIN h.bm /\ Apart(h, walk, {x})
  BY <1>4, WalkedApart
<1>6. Empty(walk, x)
  <2>1. \A k \in Keys : k < MaxKey + 1
    BY LazyAssumption DEF Keys
  <2> QED
    BY <1>4, <2>1 DEF Walked, Empty
<1>7. Sound(g) /\ DOMAIN g.bm = DOMAIN walk.bm \ {x} /\ Apart(walk, g, {x})
  BY <1>1, <1>5, <1>6, DropSound
<1> QED
  BY <1>5, <1>7, ApartOn DEF g

\* The two are gone, and the answer is there: as a new bitmap, or as one of the two.
\* One bitmap is left of three, and no other one is a different one.
ConsumedInto(r, h, a, x, y) ==
    /\ Sound(r.heap) /\ Apart(h, r.heap, {a, x, y}) /\ r.new \in {a, x, y}
    /\ DOMAIN r.heap.bm = (DOMAIN h.bm \ {x, y}) \cup {r.new}
LEMMA LazyInputsSound ==
    ASSUME NEW h, Sound(h), NEW x \in DOMAIN h.bm, NEW y \in DOMAIN h.bm, x # y,
           NEW a, a \notin DOMAIN h.bm
    PROVE  ConsumedInto(lazy_or_from_lazy_inputs(h, a, x, y), h, a, x, y)
<1> DEFINE e == Create(h, a, FALSE)
           all == Consuming(e, a, x, y)
           X == {a, x, y}
           f == [all EXCEPT !.bm = Without(@, x)]
           g == [all EXCEPT !.bm = Without(Without(@, x), y)]
           r == lazy_or_from_lazy_inputs(h, a, x, y)
<1>0. x \in DOMAIN h.bm /\ y \in DOMAIN h.bm
  OBVIOUS
<1>1. \/ r = [heap |-> FreeBitmap(h, x), new |-> y]
      \/ r = [heap |-> FreeBitmap(h, y), new |-> x]
      \/ r = [heap |-> g, new |-> a]
  BY DEF lazy_or_from_lazy_inputs, Consuming
<1> HIDE DEF r
<1>2. Sound(e) /\ DOMAIN e.bm = DOMAIN h.bm \cup {a} /\ Empty(e, a) /\ Apart(h, e, {a})
  BY CreateSound
<1> HIDE DEF e
<1>3. PICK w : /\ all = w[MaxKey]
               /\ \A k \in Keys : w[k] = ConsumeKey(IF k = 0 THEN e ELSE w[k - 1], a, x, y, k)
  BY ConsumeWalk
<1>4. ASSUME NEW k \in Keys, NEW v, v = IF k = 0 THEN e ELSE w[k - 1], Walked(e, v, X, {x, y}, k)
      PROVE  Steps(v, w[k], X, {x, y}, k)
  <2>1. Sound(v) /\ DOMAIN v.bm = DOMAIN e.bm /\ SlotOf(v, a, k) = NoSlot
    <3>1. k >= k
      BY LazyAssumption DEF Keys
    <3> QED
      BY <1>2, <1>4, <3>1 DEF Walked, Empty
  <2>2. w[k] = ConsumeKey(v, a, x, y, k)
    BY <1>3, <1>4
  <2>3. a \in DOMAIN v.bm /\ x \in DOMAIN v.bm /\ y \in DOMAIN v.bm /\ a # x /\ a # y
    BY <1>2, <2>1
  <2>4. Sound(w[k]) /\ Touches(v, w[k], X, k)
        /\ SlotOf(w[k], x, k) = NoSlot /\ SlotOf(w[k], y, k) = NoSlot
    BY <2>1, <2>2, <2>3, ConsumeKeySound
  <2> QED
    BY <2>4 DEF Steps
<1> HIDE DEF all
<1>5. Walked(e, all, X, {x, y}, MaxKey + 1)
  <2> HIDE DEF X
  <2> QED
    BY <1>2, <1>3, <1>4, WalkLast
<1>6. Sound(all) /\ DOMAIN all.bm = DOMAIN e.bm /\ Apart(e, all, X)
  BY <1>5, WalkedApart
<1>7. Empty(all, x) /\ Empty(all, y)
  <2>1. \A k \in Keys : k < MaxKey + 1
    BY LazyAssumption DEF Keys
  <2> QED
    BY <1>2, <1>5, <2>1 DEF Walked, Empty
<1>8. Sound(f) /\ DOMAIN f.bm = DOMAIN all.bm \ {x} /\ Apart(all, f, {x})
  BY <1>6, <1>7, DropSound
<1>9. Empty(f, y)
  BY <1>2, <1>6, <1>7, <1>8 DEF Apart, Empty
<1>10. g = [f EXCEPT !.bm = Without(@, y)]
  <2>1. IsHeap(all)
    BY <1>6 DEF Sound
  <2> QED
    BY <2>1 DEF IsHeap
<1> HIDE DEF f, g
<1>11. Sound(g) /\ DOMAIN g.bm = DOMAIN f.bm \ {y} /\ Apart(f, g, {y})
  BY <1>8, <1>9, <1>10, DropSound
<1>12. Sound(g) /\ DOMAIN g.bm = (DOMAIN h.bm \ {x, y}) \cup {a} /\ Apart(h, g, X)
  BY <1>2, <1>6, <1>8, <1>11 DEF Apart
<1>13. ASSUME NEW p \in {x, y}, NEW q \in {x, y}, p # q, r = [heap |-> FreeBitmap(h, p), new |-> q]
       PROVE  Sound(r.heap) /\ Apart(h, r.heap, X) /\ r.new \in X
              /\ DOMAIN r.heap.bm = (DOMAIN h.bm \ {x, y}) \cup {r.new}
  <2>1. r.heap = FreeBitmap(h, p) /\ r.new = q
    BY <1>13
  <2>2. Sound(r.heap) /\ DOMAIN r.heap.bm = DOMAIN h.bm \ {p} /\ Apart(h, r.heap, {p})
    <3>1. p = x \/ p = y
      OBVIOUS
    <3>2. p \in DOMAIN h.bm
      <4> HIDE DEF X, e, all, r
      <4> QED
        BY <1>0, <3>1
    <3> DEFINE left == FreeBitmap(h, p)
    <3>3. Sound(left) /\ DOMAIN left.bm = DOMAIN h.bm \ {p} /\ Apart(h, left, {p})
      BY <3>2, FreeSound
    <3> QED
      BY <2>1, <3>3
  <2> QED
    BY <1>13, <2>1, <2>2 DEF Apart
<1>14. /\ Sound(r.heap) /\ Apart(h, r.heap, {a, x, y}) /\ r.new \in {a, x, y}
       /\ DOMAIN r.heap.bm = (DOMAIN h.bm \ {x, y}) \cup {r.new}
  BY <1>1, <1>12, <1>13
<1> QED
  BY <1>14 DEF ConsumedInto, r

\* What a bitmap is loaded from.
Stored(made) == \A k \in Keys : made.at[k] = Null \/ Typed(made.at[k])

LEMMA LoadSound ==
    ASSUME NEW h, Sound(h), NEW x, x \notin DOMAIN h.bm, NEW made, Stored(made)
    PROVE  LET g == Load(h, x, made) IN Sound(g) /\ DOMAIN g.bm = DOMAIN h.bm \cup {x}
<1> DEFINE e == Create(h, x, made.cow)
           g == Load(h, x, made)
<1>1. Sound(e) /\ DOMAIN e.bm = DOMAIN h.bm \cup {x} /\ Empty(e, x)
  BY CreateSound
<1>2. g = Loading(e, x, made)
  BY DEF Load, Loading
<1> HIDE DEF e, g
<1>3. PICK w : /\ Loading(e, x, made) = w[MaxKey]
               /\ \A k \in Keys : w[k] = LoadKey(IF k = 0 THEN e ELSE w[k - 1], x, made, k)
  BY LoadWalk
<1>4. ASSUME NEW k \in Keys, NEW f, f = IF k = 0 THEN e ELSE w[k - 1], Walked(e, f, {x}, {}, k)
      PROVE  Steps(f, w[k], {x}, {}, k)
  <2>1. Sound(f) /\ DOMAIN f.bm = DOMAIN e.bm /\ SlotOf(f, x, k) = NoSlot
    <3>1. k >= k
      BY LazyAssumption DEF Keys
    <3> QED
      BY <1>1, <1>4, <3>1 DEF Walked, Empty
  <2>2. w[k] = LoadKey(f, x, made, k)
    BY <1>3, <1>4
  <2>3. Sound(w[k]) /\ Touches(f, w[k], {x}, k)
    BY <1>1, <2>1, <2>2, LoadKeySound DEF Stored
  <2> QED
    BY <2>3 DEF Steps
<1>5. Walked(e, w[MaxKey], {x}, {}, MaxKey + 1)
  BY <1>1, <1>4, WalkLast
<1>6. Sound(g) /\ DOMAIN g.bm = DOMAIN e.bm
  BY <1>2, <1>3, <1>5, WalkedApart
<1> QED
  BY <1>1, <1>6 DEF g

\* The bitmaps there are at first.
LEMMA NothingSound ==
    LET g == [mem |-> <<>>, bm |-> <<>>] IN Sound(g) /\ DOMAIN g.bm = 1..0
<1> DEFINE g == [mem |-> <<>>, bm |-> <<>>]
<1>1. g.mem = <<>> /\ g.bm = <<>> /\ g = [mem |-> g.mem, bm |-> g.bm]
  OBVIOUS
<1> HIDE DEF g
<1>2. DOMAIN <<>> = {} /\ 1..0 = {}
  OBVIOUS
<1>3. g.mem = [n \in DOMAIN g.mem |-> [con |-> g.mem[n].con, refs |-> g.mem[n].refs]]
  BY <1>1, <1>2
<1>4. g.bm = [x \in DOMAIN g.bm |-> [at |-> g.bm[x].at, cow |-> g.bm[x].cow]]
  BY <1>1, <1>2
<1>5. IsFiniteSet(DOMAIN g.mem) /\ IsFiniteSet(DOMAIN g.bm) /\ DOMAIN g.mem = {} /\ DOMAIN g.bm = {}
  BY <1>1, <1>2, FS_EmptySet
<1>6. IsHeap(g)
  BY <1>1, <1>3, <1>4, <1>5 DEF IsHeap
<1>7. Sound(g)
  BY <1>5, <1>6 DEF Sound
<1> QED
  BY <1>2, <1>5, <1>7 DEF g

LoadedFrom(w, load, x) ==
    w[x] = IF x = 0 THEN [mem |-> <<>>, bm |-> <<>>] ELSE Load(w[x - 1], x, load[x])
LEMMA LoadsUpTo ==
    ASSUME NEW load, NEW n \in Nat PROVE \E w : \A x \in 0..n : LoadedFrom(w, load, x)
<1> DEFINE Bad == {m \in Nat : ~\E w : \A x \in 0..m : LoadedFrom(w, load, x)}
           none == [mem |-> <<>>, bm |-> <<>>]
<1>1. SUFFICES ASSUME Bad # {} PROVE FALSE
  OBVIOUS
<1>2. PICK m \in Bad : \A j \in Bad : m <= j
  <2>1. Bad \subseteq Nat
    OBVIOUS
  <2> HIDE DEF Bad
  <2> QED
    BY <1>1, <2>1, LeastOfNaturals
<1>3. \E w : \A x \in 0..m : LoadedFrom(w, load, x)
  <2>1. CASE m = 0
    <3> DEFINE w == [x \in {0} |-> none]
    <3>1. w[0] = none
      OBVIOUS
    <3> HIDE DEF w
    <3>2. \A x \in 0..m : LoadedFrom(w, load, x)
      BY <2>1, <3>1 DEF LoadedFrom
    <3> QED
      BY <3>2
  <2>2. CASE m # 0
    <3>1. m - 1 \in Nat /\ m - 1 \notin Bad
      BY <1>2, <2>2
    <3>2. PICK v : \A x \in 0..(m - 1) : LoadedFrom(v, load, x)
      BY <3>1
    <3> DEFINE new == Load(v[m - 1], m, load[m])
               w == [x \in 0..m |-> IF x = m THEN new ELSE v[x]]
    <3>3. m \in 0..m /\ \A x \in 0..m : x # m => x \in 0..(m - 1)
      BY <3>1
    <3>4. w[m] = new /\ \A x \in 0..(m - 1) : w[x] = v[x]
      BY <3>1
    <3> HIDE DEF w
    <3>5. ASSUME NEW x \in 0..m PROVE LoadedFrom(w, load, x)
      <4>1. CASE x = m
        <5>1. x # 0 /\ w[x - 1] = v[m - 1]
          BY <2>2, <3>1, <3>4, <4>1
        <5> QED
          BY <3>4, <4>1, <5>1 DEF LoadedFrom
      <4>2. CASE x # m
        <5>1. x \in 0..(m - 1) /\ w[x] = v[x]
          BY <3>3, <3>4, <4>2
        <5>2. x # 0 => w[x - 1] = v[x - 1]
          BY <3>1, <3>4, <5>1
        <5> QED
          BY <3>2, <5>1, <5>2 DEF LoadedFrom
      <4> QED
        BY <4>1, <4>2
    <3> QED
      BY <3>5
  <2> QED
    BY <2>1, <2>2
<1> QED
  BY <1>2, <1>3

LEMMA LoadedSound ==
    ASSUME NEW load, Len(load) \in Nat, \A x \in 1..Len(load) : Stored(load[x])
    PROVE  Sound(Loaded(load)) /\ DOMAIN Loaded(load).bm = 1..Len(load)
<1> DEFINE n == Len(load)
           none == [mem |-> <<>>, bm |-> <<>>]
           w == CHOOSE w : w = [x \in 0..Len(load) |->
                                   IF x = 0 THEN [mem |-> <<>>, bm |-> <<>>]
                                   ELSE Load(w[x - 1], x, load[x])]
<1>1. \E v : v = [x \in 0..n |-> IF x = 0 THEN none ELSE Load(v[x - 1], x, load[x])]
  <2>1. PICK v : \A x \in 0..n : LoadedFrom(v, load, x)
    BY LoadsUpTo
  <2> DEFINE u == [x \in 0..n |-> v[x]]
  <2>2. \A x \in 0..n : x # 0 => x - 1 \in 0..n
    OBVIOUS
  <2>3. ASSUME NEW x \in 0..n PROVE v[x] = IF x = 0 THEN none ELSE Load(u[x - 1], x, load[x])
    BY <2>1, <2>2 DEF LoadedFrom
  <2>4. u = [x \in 0..n |-> IF x = 0 THEN none ELSE Load(u[x - 1], x, load[x])]
    BY <2>3
  <2> QED
    BY <2>4
<1>2. w = [x \in 0..n |-> IF x = 0 THEN none ELSE Load(w[x - 1], x, load[x])]
  BY <1>1
<1>3. Loaded(load) = w[n]
  BY DEF Loaded
<1> HIDE DEF w
<1>4. \A x \in 0..n : w[x] = IF x = 0 THEN none ELSE Load(w[x - 1], x, load[x])
  BY <1>2
<1> DEFINE Good(x) == Sound(w[x]) /\ DOMAIN w[x].bm = 1..x
           Bad == {x \in 0..n : ~Good(x)}
<1>5. SUFFICES ASSUME Bad # {} PROVE FALSE
  BY <1>3
<1>6. PICK x \in Bad : \A j \in Bad : x <= j
  <2>1. Bad \subseteq Nat
    OBVIOUS
  <2> HIDE DEF Bad
  <2> QED
    BY <1>5, <2>1, LeastOfNaturals
<1>7. CASE x = 0
  BY <1>4, <1>6, <1>7, NothingSound
<1>8. CASE x # 0
  <2>1. x - 1 \in 0..n /\ x - 1 \notin Bad /\ x \in Nat
    BY <1>6, <1>8
  <2>2. Sound(w[x - 1]) /\ DOMAIN w[x - 1].bm = 1..(x - 1)
    BY <2>1
  <2>3. w[x] = Load(w[x - 1], x, load[x])
    BY <1>4, <1>6, <1>8
  <2>4. x \notin 1..(x - 1) /\ 1..(x - 1) \cup {x} = 1..x
    BY <1>8, <2>1
  <2>5. Sound(w[x]) /\ DOMAIN w[x].bm = 1..(x - 1) \cup {x}
    <3>0. Stored(load[x])
      BY <1>6, <1>8
    <3> DEFINE v == w[x - 1]
    <3>1. Sound(v) /\ x \notin DOMAIN v.bm
      BY <2>2, <2>4
    <3> HIDE DEF v
    <3>2. LET g == Load(v, x, load[x]) IN Sound(g) /\ DOMAIN g.bm = DOMAIN v.bm \cup {x}
      BY <3>0, <3>1, LoadSound
    <3> QED
      BY <2>2, <2>3, <3>2 DEF v
  <2> QED
    BY <1>6, <2>4, <2>5
<1> QED
  BY <1>7, <1>8
-------------------------------------------------------------------------------
(* The queue *)

\* p moves the places from 1 to n, and s has what t has where p moves it.
Moves(p, n) ==
    /\ p \in [1..n -> 1..n]
    /\ \A i, j \in 1..n : p[i] = p[j] => i = j
    /\ \A j \in 1..n : \E i \in 1..n : p[i] = j
Rearranged(s, t, p) ==
    Len(s) = Len(t) /\ Moves(p, Len(t)) /\ \A i \in 1..Len(t) : s[i] = t[p[i]]
Same(s, t) == \E p : Rearranged(s, t, p)

LEMMA MovesApart ==
    ASSUME NEW n, NEW p, Moves(p, n), NEW i \in 1..n, NEW j \in 1..n
    PROVE  p[i] \in 1..n /\ (p[i] = p[j] => i = j)
  BY DEF Moves

LEMMA NoMove ==
    ASSUME NEW S, NEW s \in Seq(S)
    PROVE  Rearranged(s, s, [i \in 1..Len(s) |-> i])
<1> DEFINE p == [i \in 1..Len(s) |-> i]
<1>1. p \in [1..Len(s) -> 1..Len(s)] /\ \A i \in 1..Len(s) : p[i] = i
  OBVIOUS
<1> HIDE DEF p
<1>2. Moves(p, Len(s))
  BY <1>1 DEF Moves
<1>3. Rearranged(s, s, p)
  BY <1>1, <1>2 DEF Rearranged
<1> QED
  BY <1>3 DEF p

LEMMA SameOn ==
    ASSUME NEW S, NEW r \in Seq(S), NEW s \in Seq(S), NEW t \in Seq(S), Same(r, s), Same(s, t)
    PROVE  Same(r, t)
<1>1. PICK p : Rearranged(r, s, p)
  BY DEF Same
<1>2. PICK q : Rearranged(s, t, q)
  BY DEF Same
<1> DEFINE n == Len(t)
           o == [i \in 1..n |-> q[p[i]]]
<1>3. Len(r) = n /\ Len(s) = n /\ Moves(p, n) /\ Moves(q, n)
  BY <1>1, <1>2 DEF Rearranged
<1>4. \A i \in 1..n : r[i] = s[p[i]] /\ s[i] = t[q[i]] /\ p[i] \in 1..n /\ q[i] \in 1..n
  BY <1>1, <1>2, <1>3 DEF Rearranged, Moves
<1> HIDE DEF n
<1>5. o \in [1..n -> 1..n] /\ \A i \in 1..n : o[i] = q[p[i]]
  <2>1. ASSUME NEW i \in 1..n PROVE q[p[i]] \in 1..n
    BY <1>4
  <2> QED
    BY <2>1
<1> HIDE DEF o
<1>6. Moves(o, n)
  <2>1. ASSUME NEW i \in 1..n, NEW j \in 1..n, o[i] = o[j] PROVE i = j
    <3>1. q[p[i]] = q[p[j]] /\ p[i] \in 1..n /\ p[j] \in 1..n
      BY <1>4, <1>5, <2>1
    <3>2. p[i] = p[j]
      BY <1>3, <3>1, MovesApart
    <3> QED
      BY <1>3, <3>2, MovesApart
  <2>2. ASSUME NEW j \in 1..n PROVE \E i \in 1..n : o[i] = j
    <3>1. PICK k \in 1..n : q[k] = j
      BY <1>3 DEF Moves
    <3>2. PICK i \in 1..n : p[i] = k
      BY <1>3 DEF Moves
    <3> QED
      BY <1>5, <3>1, <3>2
  <2> QED
    BY <1>5, <2>1, <2>2 DEF Moves
<1>7. ASSUME NEW i \in 1..n PROVE r[i] = t[o[i]]
  <2>1. p[i] \in 1..n /\ r[i] = s[p[i]] /\ o[i] = q[p[i]]
    BY <1>4, <1>5
  <2>2. s[p[i]] = t[q[p[i]]]
    BY <1>4, <2>1
  <2> QED
    BY <2>1, <2>2
<1>8. Rearranged(r, t, o)
  BY <1>3, <1>6, <1>7 DEF n, Rearranged
<1> QED
  BY <1>8 DEF Same

At(q, j, x) == [q EXCEPT ![j] = x]
LEMMA AtIs ==
    ASSUME NEW S, NEW q \in Seq(S), NEW j, NEW x \in S PROVE At(q, j, x) \in Seq(S)
<1>1. q \in [1..Len(q) -> S] /\ Len(q) \in Nat
  OBVIOUS
<1>2. At(q, j, x) \in [1..Len(q) -> S]
  BY <1>1 DEF At
<1> DEFINE n == Len(q)
           t == At(q, j, x)
<1>3. n \in Nat /\ t \in [1..n -> S]
  BY <1>1, <1>2
<1> HIDE DEF n, t
<1>4. t \in Seq(S)
  BY <1>3
<1> QED
  BY <1>4 DEF t

\* What is put at place b of a queue moves on to place j, and what was there to b.
LEMMA MoveOn ==
    ASSUME NEW S, NEW q \in Seq(S), NEW x \in S, NEW j \in 1..Len(q), NEW b \in 1..Len(q), j # b,
           NEW s \in Seq(S), NEW p, Rearranged(s, At(q, b, x), p), p[j] = j
    PROVE  \E r : /\ Rearranged(At(s, j, q[b]), At(q, j, x), r)
                  /\ \A m \in 1..Len(q) : m # j /\ m # b /\ p[m] = m => r[m] = m
<1> DEFINE n == Len(q)
           B == [q EXCEPT ![b] = x]
           T == [q EXCEPT ![j] = x]
           g == [s EXCEPT ![j] = q[b]]
           r == [m \in 1..n |-> IF m = j THEN b ELSE IF p[m] = b THEN j ELSE p[m]]
<1>1. n \in Nat /\ Len(B) = n /\ Len(T) = n
  OBVIOUS
<1>2. Len(s) = n /\ Moves(p, n) /\ \A m \in 1..n : s[m] = B[p[m]]
  BY <1>1 DEF Rearranged, At
<1>3. p \in [1..n -> 1..n]
  BY <1>2 DEF Moves
<1>4. Len(g) = n /\ g[j] = q[b] /\ \A m \in 1..n : m # j => g[m] = s[m]
  <2>1. Len(s) = n /\ j \in 1..Len(s)
    BY <1>2
  <2>2. q[b] \in S
    OBVIOUS
  <2> HIDE DEF n
  <2>3. Len(g) = Len(s)
    BY <2>1, <2>2
  <2>4. g[j] = q[b] /\ \A m \in 1..Len(s) : m # j => g[m] = s[m]
    BY <2>1, <2>2
  <2> QED
    BY <2>1, <2>3, <2>4
<1>5. B[b] = x /\ T[j] = x /\ \A m \in 1..n : (m # b => B[m] = q[m]) /\ (m # j => T[m] = q[m])
  BY <1>1
<1>6. r \in [1..n -> 1..n] /\ r[j] = b
      /\ \A m \in 1..n : m # j => r[m] = IF p[m] = b THEN j ELSE p[m]
  BY <1>3
<1>7. j \in 1..n /\ b \in 1..n
  OBVIOUS
<1> HIDE DEF n, B, T, g, r
<1>8. Moves(r, n)
  <2>1. ASSUME NEW i \in 1..n, NEW k \in 1..n, r[i] = r[k] PROVE i = k
    <3>1. p[i] = p[k] => i = k
      BY <1>2, MovesApart
    <3>2. (p[i] = p[j] => i = j) /\ (p[k] = p[j] => k = j)
      BY <1>2, <1>7, MovesApart
    <3> QED
      BY <1>6, <2>1, <3>1, <3>2
  <2>2. ASSUME NEW k \in 1..n PROVE \E i \in 1..n : r[i] = k
    <3>1. CASE k = b
      BY <1>6, <1>7, <3>1
    <3>2. CASE k = j
      <4>1. PICK i \in 1..n : p[i] = b
        BY <1>2, <1>7 DEF Moves
      <4>2. i # j
        BY <4>1
      <4> QED
        BY <1>6, <3>2, <4>1, <4>2
    <3>3. CASE k # b /\ k # j
      <4>1. PICK i \in 1..n : p[i] = k
        BY <1>2 DEF Moves
      <4>2. i # j
        BY <3>3, <4>1
      <4> QED
        BY <1>6, <3>3, <4>1, <4>2
    <3> QED
      BY <3>1, <3>2, <3>3
  <2> QED
    BY <1>6, <2>1, <2>2 DEF Moves
<1>9. ASSUME NEW m \in 1..n PROVE g[m] = T[r[m]]
  <2>1. CASE m = j
    BY <1>4, <1>5, <1>6, <1>7, <2>1
  <2>2. CASE m # j
    <3>1. p[m] \in 1..n /\ p[m] # j
      BY <1>2, <1>7, <2>2, MovesApart
    <3>2. g[m] = B[p[m]]
      BY <1>2, <1>4, <2>2
    <3>3. CASE p[m] = b
      BY <1>5, <1>6, <2>2, <3>2, <3>3
    <3>4. CASE p[m] # b
      BY <1>5, <1>6, <2>2, <3>1, <3>2, <3>4
    <3> QED
      BY <3>3, <3>4
  <2> QED
    BY <2>1, <2>2
<1>10. Rearranged(g, T, r)
  BY <1>1, <1>4, <1>8, <1>9 DEF Rearranged
<1>11. \A m \in 1..n : m # j /\ m # b /\ p[m] = m => r[m] = m
  BY <1>6
<1> QED
  BY <1>10, <1>11 DEF n, T, g, At

\* An element sinks from place i: the function percolate_down computes, at place j.
Best(q, l) == IF l < Len(q) /\ q[l + 1].size < q[l].size THEN l + 1 ELSE l
Stays(q, i, j) == 2 * j > Len(q) \/ q[Best(q, 2 * j)].size >= q[i].size
Sink(w, q, i, j) ==
    IF Stays(q, i, j) THEN At(q, j, q[i])
    ELSE At(w[Best(q, 2 * j)], j, q[Best(q, 2 * j)])

LEMMA BestIs ==
    ASSUME NEW S, NEW q \in Seq(S), NEW j \in 1..Len(q), 2 * j <= Len(q)
    PROVE  /\ Best(q, 2 * j) \in 1..Len(q) /\ Best(q, 2 * j) > j
           /\ Best(q, 2 * j) = 2 * j \/ Best(q, 2 * j) = 2 * j + 1
  BY DEF Best

LEMMA SinkOn ==
    ASSUME NEW S, NEW q \in Seq(S), NEW i, NEW j \in 1..Len(q), NEW v, NEW w,
           \A k \in 1..Len(q) : k > j => v[k] = w[k]
    PROVE  Sink(v, q, i, j) = Sink(w, q, i, j)
<1>1. CASE Stays(q, i, j)
  BY <1>1 DEF Sink
<1>2. CASE ~Stays(q, i, j)
  <2>1. 2 * j <= Len(q)
    BY <1>2 DEF Stays
  <2>2. v[Best(q, 2 * j)] = w[Best(q, 2 * j)]
    BY <2>1, BestIs
  <2> QED
    BY <1>2, <2>2 DEF Sink
<1> QED
  BY <1>1, <1>2

SunkFrom(w, q, i, d) == \A j \in 1..Len(q) : j > Len(q) - d => w[j] = Sink(w, q, i, j)
LEMMA SinksUpTo ==
    ASSUME NEW S, NEW q \in Seq(S), NEW i, NEW d \in Nat PROVE \E w : SunkFrom(w, q, i, d)
<1> DEFINE Bad == {m \in Nat : ~\E w : SunkFrom(w, q, i, m)}
           n == Len(q)
<1>1. SUFFICES ASSUME Bad # {} PROVE FALSE
  OBVIOUS
<1>2. PICK m \in Bad : \A j \in Bad : m <= j
  <2>1. Bad \subseteq Nat
    OBVIOUS
  <2> HIDE DEF Bad
  <2> QED
    BY <1>1, <2>1, LeastOfNaturals
<1>3. m \in Nat /\ ~\E w : SunkFrom(w, q, i, m)
  OBVIOUS
<1>4. n \in Nat
  OBVIOUS
<1>5. m # 0
  <2>1. ASSUME m = 0 PROVE SunkFrom(q, q, i, m)
    BY <1>4, <2>1 DEF SunkFrom
  <2> QED
    BY <1>3, <2>1
<1>6. m - 1 \in Nat /\ m - 1 \notin Bad
  BY <1>2, <1>3, <1>5
<1>7. PICK v : SunkFrom(v, q, i, m - 1)
  BY <1>6
<1> DEFINE p == n - m + 1
           new == Sink(v, q, i, p)
           w == [j \in 1..n |-> IF j = p THEN new ELSE v[j]]
<1>8. \A j \in 1..n : w[j] = IF j = p THEN new ELSE v[j]
  OBVIOUS
<1> HIDE DEF w, Bad
<1>9. ASSUME NEW j \in 1..n, j > n - m PROVE w[j] = Sink(w, q, i, j)
  <2>1. j >= p
    BY <1>3, <1>4, <1>9
  <2>2. \A k \in 1..Len(q) : k > j => v[k] = w[k]
    BY <1>3, <1>4, <1>8, <2>1
  <2>3. Sink(v, q, i, j) = Sink(w, q, i, j)
    BY <2>2, SinkOn
  <2>4. CASE j = p
    BY <1>8, <2>3, <2>4
  <2>5. CASE j # p
    <3>1. v[j] = Sink(v, q, i, j)
      BY <1>3, <1>4, <1>7, <2>1, <2>5 DEF SunkFrom
    <3> QED
      BY <1>8, <2>3, <2>5, <3>1
  <2> QED
    BY <2>4, <2>5
<1>10. SunkFrom(w, q, i, m)
  BY <1>9 DEF SunkFrom
<1> QED
  BY <1>3, <1>10

LEMMA SinkExists ==
    ASSUME NEW S, NEW q \in Seq(S), NEW i \in 1..Len(q)
    PROVE  \E w : percolate_down(q, i) = w[i] /\ \A j \in 1..Len(q) : w[j] = Sink(w, q, i, j)
<1> DEFINE w == CHOOSE f : f = [j \in 1..Len(q) |-> Sink(f, q, i, j)]
<1>1. \E f : f = [j \in 1..Len(q) |-> Sink(f, q, i, j)]
  <2> DEFINE n == Len(q)
  <2>0. n \in Nat
    OBVIOUS
  <2> HIDE DEF n, w
  <2>1. PICK v : SunkFrom(v, q, i, n)
    BY <2>0, SinksUpTo
  <2>2. \A j \in 1..Len(q) : v[j] = Sink(v, q, i, j)
    BY <2>1, <2>0 DEF SunkFrom, n
  <2> DEFINE f == [j \in 1..Len(q) |-> v[j]]
  <2>3. ASSUME NEW j \in 1..Len(q) PROVE Sink(v, q, i, j) = Sink(f, q, i, j)
    <3>1. \A k \in 1..Len(q) : k > j => v[k] = f[k]
      OBVIOUS
    <3> HIDE DEF f
    <3> QED
      BY <3>1, SinkOn
  <2>4. f = [j \in 1..Len(q) |-> Sink(f, q, i, j)]
    BY <2>2, <2>3
  <2> QED
    BY <2>4
<1>2. w = [j \in 1..Len(q) |-> Sink(w, q, i, j)]
  BY <1>1
<1>3. percolate_down(q, i) = w[i]
  BY DEF percolate_down, Sink, Stays, Best, At
<1> HIDE DEF w
<1>4. \A j \in 1..Len(q) : w[j] = Sink(w, q, i, j)
  BY <1>2
<1> QED
  BY <1>3, <1>4

LEMMA GreatestOf ==
    ASSUME NEW n \in Nat, NEW T \in SUBSET (1..n), T # {}
    PROVE  \E x \in T : \A y \in T : y <= x
<1> DEFINE D == {d \in Nat : n - d \in T}
<1>1. PICK y \in T : TRUE
  OBVIOUS
<1>2. \A z \in T : n - z \in D
  <2>1. \A z \in T : z \in 1..n
    OBVIOUS
  <2> QED
    BY <2>1
<1>3. D # {} /\ D \subseteq Nat /\ \A d \in D : n - d \in T
  BY <1>1, <1>2
<1> HIDE DEF D
<1>4. PICK d \in D : \A e \in D : d <= e
  BY <1>3, LeastOfNaturals
<1>5. ASSUME NEW z \in T PROVE z <= n - d
  <2>1. d <= n - z /\ z \in 1..n /\ d \in Nat
    BY <1>2, <1>3, <1>4
  <2> QED
    BY <2>1
<1> QED
  BY <1>3, <1>4, <1>5

\* The element at place i is at j now, or further down; the places in between moved up.
Sunk(s, q, i, j, p) ==
    /\ Rearranged(s, At(q, j, q[i]), p)
    /\ \A m \in 1..Len(q) : m < 2 * j /\ m # j => p[m] = m
Sinking(S, w, q, i, j) == w[j] \in Seq(S) /\ \E p : Sunk(w[j], q, i, j, p)

LEMMA SinkStays ==
    ASSUME NEW S, NEW q \in Seq(S), NEW i \in 1..Len(q), NEW j \in 1..Len(q)
    PROVE  At(q, j, q[i]) \in Seq(S) /\ \E p : Sunk(At(q, j, q[i]), q, i, j, p)
<1> DEFINE T == At(q, j, q[i])
           p == [m \in 1..Len(T) |-> m]
<1>1. T \in Seq(S) /\ Len(T) = Len(q)
  BY DEF At
<1>2. \A m \in 1..Len(T) : p[m] = m
  OBVIOUS
<1> HIDE DEF T
<1>3. Rearranged(T, T, p)
  BY <1>1, NoMove
<1> HIDE DEF p
<1>4. Rearranged(T, At(q, j, q[i]), p)
  BY <1>3 DEF T
<1>5. Sunk(T, q, i, j, p)
  BY <1>1, <1>2, <1>4 DEF Sunk
<1> QED
  BY <1>1, <1>5 DEF T

LEMMA SinkMoves ==
    ASSUME NEW S, NEW q \in Seq(S), NEW i \in 1..Len(q), NEW j \in 1..Len(q), NEW w,
           w[j] = Sink(w, q, i, j),
           \A k \in 1..Len(q) : k > j => Sinking(S, w, q, i, k)
    PROVE  Sinking(S, w, q, i, j)
<1>1. CASE Stays(q, i, j)
  <2>1. w[j] = At(q, j, q[i])
    BY <1>1 DEF Sink
  <2> QED
    BY <2>1, SinkStays DEF Sinking
<1>2. CASE ~Stays(q, i, j)
  <2> DEFINE b == Best(q, 2 * j)
             x == q[i]
             s == w[b]
  <2>1. b \in 1..Len(q) /\ b > j /\ (b = 2 * j \/ b = 2 * j + 1)
    <3>1. 2 * j <= Len(q)
      BY <1>2 DEF Stays
    <3> HIDE DEF s, x
    <3> QED
      BY <3>1, BestIs
  <2>2. w[j] = At(s, j, q[b])
    BY <1>2 DEF Sink
  <2>3. s \in Seq(S)
    BY <2>1 DEF Sinking
  <2>4. PICK p : Sunk(s, q, i, b, p)
    BY <2>1 DEF Sinking
  <2>5. x \in S
    OBVIOUS
  <2> HIDE DEF b, s
  <2>6. Rearranged(s, At(q, b, x), p) /\ p[j] = j
    <3>1. j < 2 * b /\ j # b
      BY <2>1
    <3> QED
      BY <2>4, <3>1 DEF Sunk
  <2> HIDE DEF x
  <2>11. j # b
    BY <2>1
  <2>7. PICK r : /\ Rearranged(At(s, j, q[b]), At(q, j, x), r)
                 /\ \A m \in 1..Len(q) : m # j /\ m # b /\ p[m] = m => r[m] = m
    BY <2>1, <2>11, <2>3, <2>5, <2>6, MoveOn
  <2>8. ASSUME NEW m \in 1..Len(q), m < 2 * j, m # j PROVE r[m] = m
    <3>1. m # b /\ m < 2 * b
      BY <2>1, <2>8
    <3>2. p[m] = m
      BY <2>4, <3>1 DEF Sunk
    <3> QED
      BY <2>7, <2>8, <3>1, <3>2
  <2>9. Sunk(w[j], q, i, j, r)
    <3>1. Rearranged(w[j], At(q, j, q[i]), r)
      BY <2>2, <2>7 DEF x
    <3> QED
      BY <2>8, <3>1 DEF Sunk
  <2>10. At(s, j, q[b]) \in Seq(S)
    <3>1. q[b] \in S
      BY <2>1
    <3> QED
      BY <2>3, <3>1, AtIs
  <2> QED
    BY <2>2, <2>9, <2>10 DEF Sinking
<1> QED
  BY <1>1, <1>2

LEMMA Sinks ==
    ASSUME NEW S, NEW q \in Seq(S), NEW i \in 1..Len(q), NEW w,
           \A j \in 1..Len(q) : w[j] = Sink(w, q, i, j)
    PROVE  \A j \in 1..Len(q) : Sinking(S, w, q, i, j)
<1> DEFINE Good(j) == Sinking(S, w, q, i, j)
           n == Len(q)
           Bad == {j \in 1..n : ~Good(j)}
<1>1. SUFFICES ASSUME Bad # {} PROVE FALSE
  OBVIOUS
<1>2. PICK j \in Bad : \A k \in Bad : k <= j
  <2>1. n \in Nat
    OBVIOUS
  <2> HIDE DEF Good, n
  <2>2. Bad \in SUBSET (1..n)
    OBVIOUS
  <2> HIDE DEF Bad
  <2> QED
    BY <1>1, <2>1, <2>2, GreatestOf
<1>3. j \in 1..n /\ ~Good(j)
  OBVIOUS
<1>4. ASSUME NEW k \in 1..n, k > j PROVE Good(k)
  <2>1. ~(k <= j)
    BY <1>3, <1>4
  <2> QED
    BY <1>2, <2>1
<1> HIDE DEF Bad
<1>5. Good(j)
  <2>1. w[j] = Sink(w, q, i, j)
    BY <1>3
  <2>2. \A k \in 1..Len(q) : k > j => Sinking(S, w, q, i, k)
    BY <1>4
  <2>3. j \in 1..Len(q)
    BY <1>3
  <2> QED
    BY <2>1, <2>2, <2>3, SinkMoves
<1> QED
  BY <1>3, <1>5

LEMMA PercolateMoves ==
    ASSUME NEW S, NEW q \in Seq(S), NEW i \in 1..Len(q)
    PROVE  percolate_down(q, i) \in Seq(S) /\ Same(percolate_down(q, i), q)
<1>1. PICK w : percolate_down(q, i) = w[i] /\ \A j \in 1..Len(q) : w[j] = Sink(w, q, i, j)
  BY SinkExists
<1>2. w[i] \in Seq(S) /\ \E p : Sunk(w[i], q, i, i, p)
  BY <1>1, Sinks DEF Sinking
<1>3. At(q, i, q[i]) = q
  BY DEF At
<1> QED
  BY <1>1, <1>2, <1>3 DEF Sunk, Same

\* A queue is in order from place i on when no element is greater than the two below it.
Sized(S) == \A e \in S : e.size \in Int
Child(m, c) == c = 2 * m \/ c = 2 * m + 1
Ordered(q, i) ==
    \A m, c \in 1..Len(q) : m >= i /\ Child(m, c) => q[m].size <= q[c].size

SunkInOrder(s, q, i, j) ==
    /\ Len(s) = Len(q)
    /\ Ordered(s, j)
    /\ \A c \in 1..Len(q) : c # j => q[c].size <= s[c].size
    /\ s[j] = q[i] \/ \E c \in 1..Len(q) : Child(j, c) /\ s[j] = q[c]
    /\ \A m \in 1..Len(q) : m < 2 * j /\ m # j => s[m] = q[m]

LEMMA AtOf ==
    ASSUME NEW S, NEW q \in Seq(S), NEW j \in 1..Len(q), NEW x \in S
    PROVE  /\ Len(At(q, j, x)) = Len(q) /\ At(q, j, x)[j] = x
           /\ \A m \in 1..Len(q) : m # j => At(q, j, x)[m] = q[m]
  BY DEF At

LEMMA BestLeast ==
    ASSUME NEW S, Sized(S), NEW q \in Seq(S), NEW j \in 1..Len(q), NEW c \in 1..Len(q), Child(j, c)
    PROVE  q[Best(q, 2 * j)].size <= q[c].size
<1> DEFINE n == Len(q)
<1>1. n \in Nat /\ j \in 1..n /\ c \in 1..n
  OBVIOUS
<1>2. \A m \in 1..n : q[m].size \in Int
  BY DEF Sized
<1> HIDE DEF n
<1>3. 2 * j \in 1..n
  BY <1>1 DEF Child
<1>4. CASE c = 2 * j
  BY <1>2, <1>3, <1>4 DEF Best, n
<1>5. CASE c = 2 * j + 1
  <2>1. 2 * j < Len(q) /\ 2 * j + 1 = c
    BY <1>1, <1>5 DEF n
  <2> QED
    BY <1>1, <1>2, <1>3, <1>5, <2>1 DEF Best
<1> QED
  BY <1>4, <1>5 DEF Child

LEMMA StaysInOrder ==
    ASSUME NEW S, Sized(S), NEW q \in Seq(S), NEW i \in 1..Len(q), Ordered(q, i + 1),
           NEW j \in 1..Len(q), j >= i, Stays(q, i, j)
    PROVE  SunkInOrder(At(q, j, q[i]), q, i, j)
<1> DEFINE n == Len(q)
           x == q[i]
           s == At(q, j, x)
<1>1. n \in Nat /\ i \in 1..n /\ j \in 1..n /\ x \in S
  OBVIOUS
<1>2. Len(s) = n /\ s[j] = x /\ \A m \in 1..n : m # j => s[m] = q[m]
  <2> HIDE DEF x
  <2> QED
    BY <1>1, AtOf
<1>3. \A m \in 1..n : q[m].size \in Int /\ x.size \in Int
  BY DEF Sized
<1>4. ASSUME NEW c \in 1..n, Child(j, c) PROVE x.size <= q[c].size
  <2>1. 2 * j <= n
    BY <1>1, <1>4 DEF Child
  <2>2. q[Best(q, 2 * j)].size >= x.size
    BY <2>1 DEF Stays
  <2>3. Best(q, 2 * j) \in 1..n
    BY <2>1, BestIs
  <2>4. q[Best(q, 2 * j)].size <= q[c].size
    BY <1>1, <1>4, BestLeast
  <2>5. q[Best(q, 2 * j)].size \in Int /\ x.size \in Int /\ q[c].size \in Int
    BY <1>3, <1>4, <2>3
  <2> QED
    BY <2>2, <2>4, <2>5
<1> HIDE DEF s, x
<1>5. ASSUME NEW m \in 1..n, NEW c \in 1..n, m >= j, Child(m, c)
      PROVE  s[m].size <= s[c].size
  <2>1. c # j /\ s[c] = q[c]
    BY <1>1, <1>2, <1>5 DEF Child
  <2>2. CASE m = j
    BY <1>2, <1>4, <1>5, <2>1, <2>2
  <2>3. CASE m # j
    <3>1. m >= i + 1
      BY <1>1, <1>5, <2>3
    <3> QED
      BY <1>2, <1>5, <2>1, <2>3, <3>1 DEF Ordered
  <2> QED
    BY <2>2, <2>3
<1>6. Ordered(s, j)
  BY <1>2, <1>5 DEF Ordered
<1>7. \A c \in 1..n : c # j => q[c].size <= s[c].size
  BY <1>2, <1>3
<1>8. SunkInOrder(s, q, i, j)
  BY <1>2, <1>6, <1>7 DEF SunkInOrder, x
<1> QED
  BY <1>8 DEF s, x

LEMMA SinkInOrder ==
    ASSUME NEW S, Sized(S), NEW q \in Seq(S), NEW i \in 1..Len(q), Ordered(q, i + 1),
           NEW j \in 1..Len(q), j >= i, ~Stays(q, i, j),
           NEW s \in Seq(S), SunkInOrder(s, q, i, Best(q, 2 * j))
    PROVE  SunkInOrder(At(s, j, q[Best(q, 2 * j)]), q, i, j)
<1> DEFINE n == Len(q)
           x == q[i]
           b == Best(q, 2 * j)
           y == q[b]
           g == At(s, j, y)
<1>1. n \in Nat /\ i \in 1..n /\ j \in 1..n /\ x \in S /\ j >= i
  OBVIOUS
<1>2. 2 * j <= n
  BY DEF Stays
<1>3. b \in 1..n /\ b > j /\ Child(j, b)
  BY <1>2, BestIs DEF Child
<1>4. \A m \in 1..n : q[m].size \in Int /\ x.size \in Int
  BY DEF Sized
<1>5. y.size < x.size
  BY <1>3, <1>4 DEF Stays
<1>6. ASSUME NEW c \in 1..n, Child(j, c) PROVE y.size <= q[c].size
  BY <1>6, BestLeast
<1>7. ASSUME NEW c \in 1..n, Child(b, c) PROVE y.size <= q[c].size
  <2>1. b >= i + 1
    BY <1>1, <1>3
  <2> QED
    BY <1>3, <1>7, <2>1 DEF Ordered
<1> DEFINE sunk == SunkInOrder(s, q, i, b)
<1>8. sunk
  OBVIOUS
<1>9. Len(s) = n
  BY <1>8 DEF SunkInOrder
<1>10. Len(g) = n /\ g[j] = y /\ \A m \in 1..n : m # j => g[m] = s[m]
  <2>1. y \in S
    BY <1>3
  <2>2. j \in 1..Len(s)
    BY <1>1, <1>9
  <2> HIDE DEF y, n
  <2>3. /\ Len(g) = Len(s) /\ g[j] = y
        /\ \A m \in 1..Len(s) : m # j => g[m] = s[m]
    BY <2>1, <2>2, AtOf
  <2> QED
    BY <1>9, <2>3
<1>11. /\ \A m, c \in 1..n : m >= b /\ Child(m, c) => s[m].size <= s[c].size
       /\ \A c \in 1..n : c # b => q[c].size <= s[c].size
       /\ s[b] = x \/ \E c \in 1..n : Child(b, c) /\ s[b] = q[c]
       /\ \A m \in 1..n : m < 2 * b /\ m # b => s[m] = q[m]
  BY <1>8, <1>9 DEF SunkInOrder, Ordered
<1>12. y = q[b] /\ x = q[i]
  OBVIOUS
<1>13. \A m \in 1..n : s[m].size \in Int
  <2>1. \A m \in 1..Len(s) : s[m] \in S
    OBVIOUS
  <2> QED
    BY <1>9, <2>1 DEF Sized
<1> HIDE DEF b, y, g, n, x, sunk
<1>14. y.size <= s[b].size
  <2>1. CASE s[b] = x
    BY <1>3, <1>4, <1>5, <1>12, <2>1
  <2>2. ASSUME NEW c \in 1..n, Child(b, c), s[b] = q[c] PROVE y.size <= s[b].size
    BY <1>7, <2>2
  <2> QED
    BY <1>11, <2>1, <2>2
<1>15. \A c \in 1..n : q[c].size <= s[c].size
  BY <1>3, <1>11, <1>12, <1>14
<1>16. ASSUME NEW m \in 1..n, NEW c \in 1..n, m >= j, Child(m, c)
       PROVE  g[m].size <= g[c].size
  <2>1. c > m /\ c # j /\ g[c] = s[c]
    BY <1>1, <1>10, <1>16 DEF Child
  <2>2. CASE m = j
    <3>1. g[m] = y /\ y.size <= q[c].size
      BY <1>6, <1>10, <1>16, <2>2
    <3>2. y.size \in Int /\ q[c].size \in Int /\ s[c].size \in Int
      BY <1>3, <1>4, <1>12, <1>13
    <3>3. q[c].size <= s[c].size
      BY <1>15
    <3>4. y.size <= s[c].size
      BY <3>1, <3>2, <3>3
    <3> QED
      BY <2>1, <3>1, <3>4
  <2>3. CASE m # j
    <3>1. g[m] = s[m]
      BY <1>10, <2>3
    <3>2. CASE m >= b
      BY <1>11, <1>16, <2>1, <3>1, <3>2
    <3>3. CASE m < b
      <4>1. s[m] = q[m] /\ m >= i + 1
        BY <1>1, <1>3, <1>11, <1>16, <2>3, <3>3
      <4>2. q[m].size <= q[c].size
        BY <1>16, <4>1 DEF Ordered, n
      <4>3. g[m].size = q[m].size /\ g[c].size = s[c].size
        BY <2>1, <3>1, <4>1
      <4>4. /\ q[m].size \in Int /\ q[c].size \in Int /\ s[c].size \in Int
            /\ q[c].size <= s[c].size
        BY <1>4, <1>13, <1>15
      <4> QED
        BY <4>2, <4>3, <4>4
    <3> QED
      BY <1>3, <1>1, <3>2, <3>3
  <2> QED
    BY <2>2, <2>3
<1>17. Ordered(g, j)
  BY <1>10, <1>16 DEF Ordered
<1>18. \A c \in 1..n : c # j => q[c].size <= g[c].size
  BY <1>10, <1>15
<1>19. \A m \in 1..n : m < 2 * j /\ m # j => g[m] = q[m]
  <2>1. ASSUME NEW m \in 1..n, m < 2 * j, m # j PROVE g[m] = q[m]
    <3>1. m < 2 * b /\ m # b
      BY <1>1, <1>3, <2>1 DEF Child
    <3> QED
      BY <1>10, <1>11, <2>1, <3>1
  <2> QED
    BY <2>1
<1>20. SunkInOrder(g, q, i, j)
  BY <1>3, <1>10, <1>12, <1>17, <1>18, <1>19 DEF SunkInOrder, n
<1> QED
  BY <1>20 DEF g, y, b

LEMMA SinksInOrder ==
    ASSUME NEW S, Sized(S), NEW q \in Seq(S), NEW i \in 1..Len(q), Ordered(q, i + 1), NEW w,
           \A j \in 1..Len(q) : w[j] = Sink(w, q, i, j)
    PROVE  \A j \in 1..Len(q) : j >= i => SunkInOrder(w[j], q, i, j)
<1> DEFINE Good(j) == j >= i => SunkInOrder(w[j], q, i, j)
           n == Len(q)
           Bad == {j \in 1..n : ~Good(j)}
<1>1. SUFFICES ASSUME Bad # {} PROVE FALSE
  OBVIOUS
<1>2. PICK j \in Bad : \A k \in Bad : k <= j
  <2>1. n \in Nat
    OBVIOUS
  <2> HIDE DEF Good, n
  <2>2. Bad \in SUBSET (1..n)
    OBVIOUS
  <2> HIDE DEF Bad
  <2> QED
    BY <1>1, <2>1, <2>2, GreatestOf
<1>3. j \in 1..n /\ j \in Nat /\ i \in Nat /\ j >= i /\ ~SunkInOrder(w[j], q, i, j)
  OBVIOUS
<1>4. ASSUME NEW k \in 1..n, k > j PROVE SunkInOrder(w[k], q, i, k)
  <2>1. ~(k <= j)
    BY <1>3, <1>4
  <2>2. k >= i
    BY <1>3, <1>4
  <2> QED
    BY <1>2, <2>1, <2>2
<1> HIDE DEF Bad, Good
<1>5. w[j] = Sink(w, q, i, j)
  BY <1>3
<1>6. CASE Stays(q, i, j)
  <2>1. w[j] = At(q, j, q[i])
    BY <1>5, <1>6 DEF Sink
  <2> QED
    BY <1>3, <1>6, <2>1, StaysInOrder
<1>7. CASE ~Stays(q, i, j)
  <2> DEFINE b == Best(q, 2 * j)
             s == w[b]
  <2>1. w[j] = At(s, j, q[b])
    BY <1>5, <1>7 DEF Sink
  <2>2. 2 * j <= Len(q)
    BY <1>3, <1>7 DEF Stays
  <2>3. b \in 1..n /\ b > j
    BY <1>3, <2>2, BestIs
  <2>4. SunkInOrder(s, q, i, b)
    BY <1>4, <2>3
  <2>5. s \in Seq(S)
    <3>1. \A k \in 1..Len(q) : Sinking(S, w, q, i, k)
      BY Sinks
    <3> QED
      BY <2>3, <3>1 DEF Sinking
  <2> HIDE DEF s
  <2>6. SunkInOrder(At(s, j, q[b]), q, i, j)
    BY <1>3, <1>7, <2>4, <2>5, SinkInOrder
  <2> QED
    BY <1>3, <2>1, <2>6
<1> QED
  BY <1>6, <1>7

\* percolate_down puts a queue in order that is in order below the place.
LEMMA PercolateInOrder ==
    ASSUME NEW S, Sized(S), NEW q \in Seq(S), NEW i \in 1..Len(q), Ordered(q, i + 1)
    PROVE  Ordered(percolate_down(q, i), i)
<1>1. PICK w : percolate_down(q, i) = w[i] /\ \A j \in 1..Len(q) : w[j] = Sink(w, q, i, j)
  BY SinkExists
<1>2. \A j \in 1..Len(q) : j >= i => SunkInOrder(w[j], q, i, j)
  BY <1>1, SinksInOrder
<1>3. SunkInOrder(w[i], q, i, i)
  BY <1>2
<1> QED
  BY <1>1, <1>3 DEF SunkInOrder

\* create_pq from the last place to the first.
Place(w, q, i) == IF i > Len(q) THEN q ELSE percolate_down(w[i + 1], i)
PlacedFrom(w, q, d) ==
    \A i \in 1..(Len(q) + 1) : i > Len(q) + 1 - d => w[i] = Place(w, q, i)

LEMMA PlacesUpTo ==
    ASSUME NEW S, NEW q \in Seq(S), NEW d \in Nat PROVE \E w : PlacedFrom(w, q, d)
<1> DEFINE Bad == {m \in Nat : ~\E w : PlacedFrom(w, q, m)}
           n == Len(q)
<1>1. SUFFICES ASSUME Bad # {} PROVE FALSE
  OBVIOUS
<1>2. PICK m \in Bad : \A j \in Bad : m <= j
  <2>1. Bad \subseteq Nat
    OBVIOUS
  <2> HIDE DEF Bad
  <2> QED
    BY <1>1, <2>1, LeastOfNaturals
<1>3. m \in Nat /\ n \in Nat /\ ~\E w : PlacedFrom(w, q, m)
  OBVIOUS
<1>4. m # 0
  <2>1. ASSUME m = 0 PROVE PlacedFrom(q, q, m)
    BY <1>3, <2>1 DEF PlacedFrom
  <2> QED
    BY <1>3, <2>1
<1>5. m - 1 \in Nat /\ m - 1 \notin Bad
  BY <1>2, <1>3, <1>4
<1>6. PICK v : PlacedFrom(v, q, m - 1)
  BY <1>5
<1> DEFINE p == n + 2 - m
           new == Place(v, q, p)
           w == [i \in 1..(n + 1) |-> IF i = p THEN new ELSE v[i]]
<1>7. \A i \in 1..(n + 1) : w[i] = IF i = p THEN new ELSE v[i]
  OBVIOUS
<1> HIDE DEF w, Bad
<1>8. ASSUME NEW i \in 1..(n + 1), i > n + 1 - m PROVE w[i] = Place(w, q, i)
  <2>1. i >= p
    BY <1>3, <1>8
  <2>2. i <= n => i + 1 \in 1..(n + 1) /\ i + 1 # p
    BY <1>3, <2>1
  <2>3. Place(v, q, i) = Place(w, q, i)
    BY <1>3, <1>7, <2>2 DEF Place
  <2>4. CASE i = p
    BY <1>7, <2>3, <2>4
  <2>5. CASE i # p
    <3>1. v[i] = Place(v, q, i)
      BY <1>3, <1>6, <2>1, <2>5 DEF PlacedFrom
    <3> QED
      BY <1>7, <2>3, <2>5, <3>1
  <2> QED
    BY <2>4, <2>5
<1>9. PlacedFrom(w, q, m)
  BY <1>8 DEF PlacedFrom
<1> QED
  BY <1>3, <1>9

Queued(h, list) ==
    [i \in 1..Len(list) |->
        [size |-> PortableSize(h, list[i]), temp |-> FALSE, bitmap |-> list[i]]]
LEMMA PlacesExist ==
    ASSUME NEW h, NEW list, Len(list) \in Nat, NEW S, Queued(h, list) \in Seq(S)
    PROVE  LET q == Queued(h, list)
           IN  \E w : /\ create_pq(h, list) = w[1]
                      /\ \A i \in 1..(Len(q) + 1) : w[i] = Place(w, q, i)
<1> DEFINE q == Queued(h, list)
           n == Len(list)
           w == CHOOSE f : f = [i \in 1..(n + 1) |-> IF i > n THEN q ELSE percolate_down(f[i + 1], i)]
<1>1. Len(q) = n
  BY DEF Queued
<1>2. \E f : f = [i \in 1..(n + 1) |-> IF i > n THEN q ELSE percolate_down(f[i + 1], i)]
  <2> DEFINE m == n + 1
  <2>1. m \in Nat /\ q \in Seq(S)
    OBVIOUS
  <2> HIDE DEF m, q
  <2>2. PICK v : PlacedFrom(v, q, m)
    BY <2>1, PlacesUpTo
  <2> DEFINE f == [i \in 1..(n + 1) |-> v[i]]
  <2>3. ASSUME NEW i \in 1..(n + 1)
        PROVE  v[i] = IF i > n THEN q ELSE percolate_down(f[i + 1], i)
    <3>1. v[i] = Place(v, q, i)
      BY <1>1, <2>2 DEF PlacedFrom, m
    <3>2. i <= n => f[i + 1] = v[i + 1]
      OBVIOUS
    <3> HIDE DEF f
    <3> QED
      BY <1>1, <3>1, <3>2 DEF Place
  <2>4. f = [i \in 1..(n + 1) |-> IF i > n THEN q ELSE percolate_down(f[i + 1], i)]
    BY <2>3
  <2> QED
    BY <2>4
<1>3. w = [i \in 1..(n + 1) |-> IF i > n THEN q ELSE percolate_down(w[i + 1], i)]
  <2> HIDE DEF q
  <2> QED
    BY <1>2
<1>4. create_pq(h, list) = w[1]
  BY DEF create_pq, Queued
<1> HIDE DEF w, q
<1>5. \A i \in 1..(Len(q) + 1) : w[i] = Place(w, q, i)
  BY <1>1, <1>3 DEF Place
<1> QED
  BY <1>4, <1>5 DEF q

LEMMA PlacesMove ==
    ASSUME NEW S, NEW q \in Seq(S), NEW w, \A i \in 1..(Len(q) + 1) : w[i] = Place(w, q, i)
    PROVE  \A i \in 1..(Len(q) + 1) :
              w[i] \in Seq(S) /\ Same(w[i], q) /\ (Sized(S) => Ordered(w[i], i))
<1> DEFINE Good(j) == w[j] \in Seq(S) /\ Same(w[j], q) /\ (Sized(S) => Ordered(w[j], j))
           n == Len(q) + 1
           Bad == {j \in 1..n : ~Good(j)}
<1>1. SUFFICES ASSUME Bad # {} PROVE FALSE
  OBVIOUS
<1>2. PICK j \in Bad : \A k \in Bad : k <= j
  <2>1. n \in Nat
    OBVIOUS
  <2> HIDE DEF Good, n
  <2>2. Bad \in SUBSET (1..n)
    OBVIOUS
  <2> HIDE DEF Bad
  <2> QED
    BY <1>1, <2>1, <2>2, GreatestOf
<1>3. j \in 1..n /\ ~Good(j) /\ j \in Nat /\ Len(q) \in Nat
  OBVIOUS
<1>4. ASSUME NEW k \in 1..n, k > j PROVE Good(k)
  <2>1. ~(k <= j)
    BY <1>3, <1>4
  <2> QED
    BY <1>2, <2>1
<1> HIDE DEF Bad
<1>5. w[j] = Place(w, q, j)
  BY <1>3
<1>6. CASE j > Len(q)
  <2>1. w[j] = q
    BY <1>5, <1>6 DEF Place
  <2>2. Same(q, q)
    BY NoMove DEF Same
  <2>3. Ordered(q, j)
    BY <1>3, <1>6 DEF Ordered
  <2> QED
    BY <1>3, <2>1, <2>2, <2>3
<1>7. CASE ~(j > Len(q))
  <2> DEFINE v == w[j + 1]
  <2>1. w[j] = percolate_down(v, j)
    BY <1>5, <1>7 DEF Place
  <2>2. v \in Seq(S) /\ Same(v, q) /\ (Sized(S) => Ordered(v, j + 1))
    BY <1>3, <1>4, <1>7
  <2>3. Len(v) = Len(q)
    BY <2>2 DEF Same, Rearranged
  <2>4. j \in 1..Len(v)
    BY <1>3, <1>7, <2>3
  <2> HIDE DEF v
  <2>5. w[j] \in Seq(S) /\ Same(w[j], v)
    BY <2>1, <2>2, <2>4, PercolateMoves
  <2>6. Same(w[j], q)
    BY <2>2, <2>5, SameOn
  <2>7. Sized(S) => Ordered(w[j], j)
    BY <2>1, <2>2, <2>4, PercolateInOrder
  <2> QED
    BY <1>3, <2>5, <2>6, <2>7
<1> QED
  BY <1>6, <1>7

LEMMA CreateQueue ==
    ASSUME NEW h, NEW list, Len(list) \in Nat, NEW S, Queued(h, list) \in Seq(S)
    PROVE  LET q == create_pq(h, list)
           IN  q \in Seq(S) /\ Same(q, Queued(h, list)) /\ (Sized(S) => Ordered(q, 1))
<1> DEFINE t == Queued(h, list)
<1>1. t \in Seq(S) /\ Len(t) \in Nat
  OBVIOUS
<1>2. PICK w : /\ create_pq(h, list) = w[1]
               /\ \A i \in 1..(Len(t) + 1) : w[i] = Place(w, t, i)
  BY PlacesExist
<1> HIDE DEF t
<1>3. \A i \in 1..(Len(t) + 1) : w[i] \in Seq(S) /\ Same(w[i], t) /\ (Sized(S) => Ordered(w[i], i))
  BY <1>1, <1>2, PlacesMove
<1>4. 1 \in 1..(Len(t) + 1)
  BY <1>1
<1> QED
  BY <1>2, <1>3, <1>4 DEF t

\* An element rises from the last place: the function pq_add computes, at place i.
Half(i) == i \div 2
Tops(q, t, i) == i = 1 \/ t.size >= q[Half(i)].size
Rise(w, q, t, i) ==
    IF Tops(q, t, i) THEN At(q, i, t) ELSE At(w[Half(i)], i, q[Half(i)])

LEMMA HalfIs ==
    ASSUME NEW i \in Nat, i > 1
    PROVE  Half(i) \in Nat /\ Half(i) >= 1 /\ Half(i) < i /\ Child(Half(i), i)
  BY DEF Half, Child

RisenTo(w, q, t, d) == \A i \in 1..Len(q) : i <= d => w[i] = Rise(w, q, t, i)
LEMMA RisesUpTo ==
    ASSUME NEW S, NEW q \in Seq(S), NEW t, NEW d \in Nat PROVE \E w : RisenTo(w, q, t, d)
<1> DEFINE Bad == {m \in Nat : ~\E w : RisenTo(w, q, t, m)}
           n == Len(q)
<1>1. SUFFICES ASSUME Bad # {} PROVE FALSE
  OBVIOUS
<1>2. PICK m \in Bad : \A j \in Bad : m <= j
  <2>1. Bad \subseteq Nat
    OBVIOUS
  <2> HIDE DEF Bad
  <2> QED
    BY <1>1, <2>1, LeastOfNaturals
<1>3. m \in Nat /\ n \in Nat /\ ~\E w : RisenTo(w, q, t, m)
  OBVIOUS
<1>4. m # 0
  <2>1. ASSUME m = 0 PROVE RisenTo(q, q, t, m)
    BY <1>3, <2>1 DEF RisenTo
  <2> QED
    BY <1>3, <2>1
<1>5. m - 1 \in Nat /\ m - 1 \notin Bad
  BY <1>2, <1>3, <1>4
<1>6. PICK v : RisenTo(v, q, t, m - 1)
  BY <1>5
<1> DEFINE new == Rise(v, q, t, m)
           w == [i \in 1..n |-> IF i = m THEN new ELSE v[i]]
<1>7. \A i \in 1..n : w[i] = IF i = m THEN new ELSE v[i]
  OBVIOUS
<1> HIDE DEF w, Bad
<1>8. ASSUME NEW i \in 1..n, i <= m PROVE w[i] = Rise(w, q, t, i)
  <2>1. i # 1 => Half(i) \in 1..n /\ Half(i) # m
    <3>1. ASSUME i # 1 PROVE Half(i) \in 1..n /\ Half(i) # m
      <4>1. i \in Nat /\ i > 1
        BY <3>1
      <4>2. Half(i) \in Nat /\ Half(i) >= 1 /\ Half(i) < i
        BY <4>1, HalfIs
      <4> QED
        BY <1>3, <1>8, <4>2
    <3> QED
      BY <3>1
  <2>2. Rise(v, q, t, i) = Rise(w, q, t, i)
    BY <1>7, <2>1 DEF Rise, Tops
  <2>3. CASE i = m
    BY <1>7, <2>2, <2>3
  <2>4. CASE i # m
    <3>1. v[i] = Rise(v, q, t, i)
      BY <1>3, <1>6, <1>8, <2>4 DEF RisenTo
    <3> QED
      BY <1>7, <2>2, <2>4, <3>1
  <2> QED
    BY <2>3, <2>4
<1>9. RisenTo(w, q, t, m)
  BY <1>8 DEF RisenTo
<1> QED
  BY <1>3, <1>9

LEMMA RiseExists ==
    ASSUME NEW S, NEW pq \in Seq(S), NEW t \in S
    PROVE  LET q == Append(pq, t)
           IN  \E w : /\ pq_add(pq, t) = w[Len(q)]
                      /\ \A i \in 1..Len(q) : w[i] = Rise(w, q, t, i)
<1> DEFINE q == Append(pq, t)
           n == Len(pq) + 1
           Turn(f, i) == IF i = 1 \/ t.size >= q[i \div 2].size THEN [q EXCEPT ![i] = t]
                         ELSE [f[i \div 2] EXCEPT ![i] = pq[i \div 2]]
           w == CHOOSE f : f = [i \in 1..n |-> Turn(f, i)]
<1>1. q \in Seq(S) /\ Len(q) = n /\ n \in Nat /\ \A i \in 1..(n - 1) : pq[i] = q[i]
  OBVIOUS
<1> HIDE DEF q
<1>2. ASSUME NEW f, NEW i \in 1..n PROVE Turn(f, i) = Rise(f, q, t, i)
  <2>1. CASE Tops(q, t, i)
    BY <2>1 DEF Rise, Tops, Half, At
  <2>2. CASE ~Tops(q, t, i)
    <3>1. i \in Nat /\ i > 1
      BY <2>2 DEF Tops
    <3>2. Half(i) \in 1..(n - 1)
      <4>1. Half(i) \in Nat /\ Half(i) >= 1 /\ Half(i) < i
        BY <3>1, HalfIs
      <4> QED
        BY <1>1, <4>1
    <3>3. pq[Half(i)] = q[Half(i)]
      BY <1>1, <3>2
    <3> QED
      BY <2>2, <3>3 DEF Rise, Tops, Half, At
  <2> QED
    BY <2>1, <2>2
<1> HIDE DEF n
<1>3. \E f : f = [i \in 1..n |-> Turn(f, i)]
  <2>1. PICK v : RisenTo(v, q, t, n)
    BY <1>1, RisesUpTo
  <2> DEFINE f == [i \in 1..n |-> v[i]]
  <2>2. ASSUME NEW i \in 1..n PROVE v[i] = Turn(f, i)
    <3>1. v[i] = Rise(v, q, t, i)
      BY <1>1, <2>1 DEF RisenTo
    <3>2. ~Tops(q, t, i) => f[Half(i)] = v[Half(i)]
      <4>1. ASSUME ~Tops(q, t, i) PROVE Half(i) \in 1..n
        <5>1. i \in Nat /\ i > 1
          BY <1>1, <4>1 DEF Tops
        <5>2. Half(i) \in Nat /\ Half(i) >= 1 /\ Half(i) < i
          BY <5>1, HalfIs
        <5> QED
          BY <1>1, <5>2
      <4> QED
        BY <4>1
    <3> HIDE DEF f
    <3>3. Rise(f, q, t, i) = Rise(v, q, t, i)
      BY <3>2 DEF Rise
    <3>4. Turn(f, i) = Rise(f, q, t, i)
      BY <1>2
    <3> QED
      BY <3>1, <3>3, <3>4
  <2> HIDE DEF Turn
  <2>3. f = [i \in 1..n |-> Turn(f, i)]
    BY <2>2
  <2> QED
    BY <2>3
<1>4. w = [i \in 1..n |-> Turn(w, i)]
  <2> HIDE DEF Turn
  <2> QED
    BY <1>3
<1>5. pq_add(pq, t) = w[n]
  BY DEF pq_add, q, n
<1> HIDE DEF w
<1>6. \A i \in 1..n : w[i] = Rise(w, q, t, i)
  <2>1. ASSUME NEW i \in 1..n PROVE w[i] = Turn(w, i)
    <3> HIDE DEF Turn
    <3> QED
      BY <1>4
  <2> HIDE DEF Turn
  <2> QED
    BY <1>2, <2>1
<1> QED
  BY <1>1, <1>5, <1>6 DEF q

\* The new element is at place i now, or further up; the places in between moved down.
Risen(s, q, t, i, p) ==
    /\ Rearranged(s, At(q, i, t), p)
    /\ \A m \in 1..Len(q) : m > i => p[m] = m
Rising(S, w, q, t, i) == w[i] \in Seq(S) /\ \E p : Risen(w[i], q, t, i, p)

LEMMA RiseMoves ==
    ASSUME NEW S, NEW q \in Seq(S), NEW t \in S, NEW i \in 1..Len(q), NEW w,
           w[i] = Rise(w, q, t, i),
           \A k \in 1..Len(q) : k < i => Rising(S, w, q, t, k)
    PROVE  Rising(S, w, q, t, i)
<1>1. CASE Tops(q, t, i)
  <2> DEFINE T == At(q, i, t)
             p == [m \in 1..Len(T) |-> m]
  <2>1. w[i] = T
    BY <1>1 DEF Rise
  <2>2. T \in Seq(S) /\ Len(T) = Len(q)
    BY AtIs, AtOf
  <2>3. \A m \in 1..Len(T) : p[m] = m
    OBVIOUS
  <2> HIDE DEF T
  <2>4. Rearranged(T, T, p)
    BY <2>2, NoMove
  <2> HIDE DEF p
  <2>5. Risen(T, q, t, i, p)
    BY <2>2, <2>3, <2>4 DEF Risen, T
  <2> QED
    BY <2>1, <2>2, <2>5 DEF Rising
<1>2. CASE ~Tops(q, t, i)
  <2> DEFINE b == Half(i)
             s == w[b]
  <2>1. b \in 1..Len(q) /\ b < i /\ b # i
    <3>1. i \in Nat /\ i > 1
      BY <1>2 DEF Tops
    <3>2. b \in Nat /\ b >= 1 /\ b < i
      BY <3>1, HalfIs
    <3> QED
      BY <3>1, <3>2
  <2>2. w[i] = At(s, i, q[b])
    BY <1>2 DEF Rise
  <2>3. s \in Seq(S)
    BY <2>1 DEF Rising
  <2>4. PICK p : Risen(s, q, t, b, p)
    BY <2>1 DEF Rising
  <2> HIDE DEF b, s
  <2>5. Rearranged(s, At(q, b, t), p) /\ p[i] = i
    BY <2>1, <2>4 DEF Risen
  <2>6. i # b
    BY <2>1
  <2>7. PICK r : /\ Rearranged(At(s, i, q[b]), At(q, i, t), r)
                 /\ \A m \in 1..Len(q) : m # i /\ m # b /\ p[m] = m => r[m] = m
    BY <2>1, <2>3, <2>5, <2>6, MoveOn
  <2>8. ASSUME NEW m \in 1..Len(q), m > i PROVE r[m] = m
    <3>1. m # i /\ m # b /\ m > b
      BY <2>1, <2>8
    <3>2. p[m] = m
      BY <2>4, <3>1 DEF Risen
    <3> QED
      BY <2>7, <3>1, <3>2
  <2>9. Risen(w[i], q, t, i, r)
    BY <2>2, <2>7, <2>8 DEF Risen
  <2>10. At(s, i, q[b]) \in Seq(S)
    <3>1. q[b] \in S
      BY <2>1
    <3> QED
      BY <2>3, <3>1, AtIs
  <2> QED
    BY <2>2, <2>9, <2>10 DEF Rising
<1> QED
  BY <1>1, <1>2

LEMMA Rises ==
    ASSUME NEW S, NEW q \in Seq(S), NEW t \in S, NEW w,
           \A i \in 1..Len(q) : w[i] = Rise(w, q, t, i)
    PROVE  \A i \in 1..Len(q) : Rising(S, w, q, t, i)
<1> DEFINE Good(i) == Rising(S, w, q, t, i)
           n == Len(q)
           Bad == {i \in 1..n : ~Good(i)}
<1>1. SUFFICES ASSUME Bad # {} PROVE FALSE
  OBVIOUS
<1>2. PICK i \in Bad : \A k \in Bad : i <= k
  <2> HIDE DEF Good
  <2>1. Bad \in SUBSET Nat
    OBVIOUS
  <2> HIDE DEF Bad
  <2> QED
    BY <1>1, <2>1, LeastOfNaturals
<1>3. i \in 1..Len(q) /\ ~Good(i)
  OBVIOUS
<1>4. ASSUME NEW k \in 1..n, k < i PROVE Good(k)
  <2>1. ~(i <= k)
    BY <1>3, <1>4
  <2> QED
    BY <1>2, <2>1
<1> HIDE DEF Bad
<1>5. w[i] = Rise(w, q, t, i)
  BY <1>3
<1>6. \A k \in 1..Len(q) : k < i => Rising(S, w, q, t, k)
  BY <1>4
<1> QED
  BY <1>3, <1>5, <1>6, RiseMoves

RisenInOrder(s, q, t, i) ==
    /\ Len(s) = Len(q)
    /\ \A m, c \in 1..Len(q) : c <= i /\ Child(m, c) => s[m].size <= s[c].size
    /\ \A m \in 1..Len(q) : m # i => s[m].size <= q[m].size
    /\ s[i] = t \/ \E m \in 1..Len(q) : Child(m, i) /\ s[i] = q[m]
    /\ \A m \in 1..Len(q) : m > i => s[m] = q[m]
OrderedButLast(q) ==
    \A m, c \in 1..Len(q) : c < Len(q) /\ Child(m, c) => q[m].size <= q[c].size

LEMMA ParentIs ==
    ASSUME NEW i \in Nat, NEW m \in Nat, Child(m, i), m >= 1 PROVE m = Half(i) /\ m < i /\ i > 1
  BY DEF Child, Half

LEMMA TopsInOrder ==
    ASSUME NEW S, Sized(S), NEW q \in Seq(S), NEW t \in S, OrderedButLast(q),
           NEW i \in 1..Len(q), Tops(q, t, i)
    PROVE  RisenInOrder(At(q, i, t), q, t, i)
<1> DEFINE n == Len(q)
           s == At(q, i, t)
<1>1. n \in Nat /\ i \in 1..n
  OBVIOUS
<1>2. Len(s) = n /\ s[i] = t /\ \A m \in 1..n : m # i => s[m] = q[m]
  BY AtOf
<1>3. \A m \in 1..n : q[m].size \in Int /\ t.size \in Int
  BY DEF Sized
<1> HIDE DEF s
<1>4. ASSUME NEW m \in 1..n, NEW c \in 1..n, c <= i, Child(m, c)
      PROVE  s[m].size <= s[c].size
  <2>1. m = Half(c) /\ m < c /\ c > 1
    BY <1>1, <1>4, ParentIs
  <2>2. s[m] = q[m]
    BY <1>1, <1>2, <1>4, <2>1
  <2>3. CASE c = i
    BY <1>2, <1>3, <2>1, <2>2, <2>3 DEF Tops
  <2>4. CASE c # i
    <3>1. c < n
      BY <1>1, <1>4, <2>4
    <3> QED
      BY <1>2, <1>4, <2>2, <2>4, <3>1 DEF OrderedButLast
  <2> QED
    BY <2>3, <2>4
<1>5. \A m \in 1..n : m > i => s[m] = q[m]
  BY <1>1, <1>2
<1>6. \A m \in 1..n : m # i => s[m].size <= q[m].size
  BY <1>2, <1>3
<1>7. RisenInOrder(s, q, t, i)
  BY <1>2, <1>4, <1>5, <1>6 DEF RisenInOrder
<1> QED
  BY <1>7 DEF s

LEMMA RiseInOrder ==
    ASSUME NEW S, Sized(S), NEW q \in Seq(S), NEW t \in S, OrderedButLast(q),
           NEW i \in 1..Len(q), ~Tops(q, t, i),
           NEW s \in Seq(S), RisenInOrder(s, q, t, Half(i))
    PROVE  RisenInOrder(At(s, i, q[Half(i)]), q, t, i)
<1> DEFINE n == Len(q)
           b == Half(i)
           y == q[b]
           g == At(s, i, y)
<1>1. n \in Nat /\ i \in 1..n
  OBVIOUS
<1>2. b \in 1..n /\ b < i /\ Child(b, i)
  <2>1. i \in Nat /\ i > 1
    BY DEF Tops
  <2>2. b \in Nat /\ b >= 1 /\ b < i /\ Child(b, i)
    BY <2>1, HalfIs
  <2> QED
    BY <2>1, <2>2
<1>3. \A m \in 1..n : q[m].size \in Int /\ t.size \in Int
  BY DEF Sized
<1>4. t.size < y.size
  BY <1>2, <1>3 DEF Tops
<1>5. /\ Len(s) = n
      /\ \A m, c \in 1..n : c <= b /\ Child(m, c) => s[m].size <= s[c].size
      /\ \A m \in 1..n : m # b => s[m].size <= q[m].size
      /\ s[b] = t \/ \E m \in 1..n : Child(m, b) /\ s[b] = q[m]
      /\ \A m \in 1..n : m > b => s[m] = q[m]
  BY DEF RisenInOrder
<1>6. \A m \in 1..n : s[m].size \in Int
  <2>1. \A m \in 1..Len(s) : s[m] \in S
    OBVIOUS
  <2> QED
    BY <1>5, <2>1 DEF Sized
<1>7. Len(g) = n /\ g[i] = y /\ \A m \in 1..n : m # i => g[m] = s[m]
  <2>1. y \in S /\ i \in 1..Len(s)
    BY <1>1, <1>2, <1>5
  <2> HIDE DEF y, n
  <2>2. /\ Len(g) = Len(s) /\ g[i] = y
        /\ \A m \in 1..Len(s) : m # i => g[m] = s[m]
    BY <2>1 DEF At
  <2> QED
    BY <1>5, <2>2
<1>8. y = q[b] /\ i <= n
  OBVIOUS
<1>9. \A m, c \in 1..n : c < n /\ Child(m, c) => q[m].size <= q[c].size
  BY DEF OrderedButLast
<1>10. \A m, c \in 1..n : Child(m, c) => m = Half(c) /\ m < c
  BY <1>1, ParentIs
<1>11. b = Half(i)
  OBVIOUS
<1> HIDE DEF n, b, y, g
<1>12. s[b].size <= y.size
  <2>1. CASE s[b] = t
    BY <1>3, <1>4, <1>8, <1>2, <2>1
  <2>2. CASE \E m \in 1..n : Child(m, b) /\ s[b] = q[m]
    <3>1. b < n
      BY <1>1, <1>2
    <3> QED
      BY <1>2, <1>8, <1>9, <2>2, <3>1
  <2> QED
    BY <1>5, <2>1, <2>2
<1>13. \A m \in 1..n : s[m].size <= q[m].size
  BY <1>5, <1>8, <1>12
<1>14. ASSUME NEW m \in 1..n, NEW c \in 1..n, c <= i, Child(m, c)
       PROVE  g[m].size <= g[c].size
  <2>1. m = Half(c) /\ m < c
    BY <1>10, <1>14
  <2>2. m # i /\ g[m] = s[m]
    BY <1>1, <1>7, <1>14, <2>1
  <2>3. CASE c = i
    BY <1>7, <1>11, <1>12, <2>1, <2>2, <2>3
  <2>4. CASE c # i
    <3>1. g[c] = s[c] /\ c < n
      BY <1>1, <1>7, <1>14, <2>4
    <3>2. CASE c <= b
      BY <1>5, <1>14, <2>2, <3>1, <3>2
    <3>3. CASE c > b
      <4>1. s[c] = q[c] /\ q[m].size <= q[c].size /\ s[m].size <= q[m].size
        BY <1>5, <1>9, <1>13, <1>14, <3>1, <3>3
      <4>2. g[m].size = s[m].size /\ g[c].size = q[c].size
        BY <2>2, <3>1, <4>1
      <4>3. s[m].size \in Int /\ q[m].size \in Int /\ q[c].size \in Int
        BY <1>3, <1>6
      <4> QED
        BY <4>1, <4>2, <4>3
    <3> QED
      BY <1>1, <1>2, <3>2, <3>3
  <2> QED
    BY <2>3, <2>4
<1>15. \A m \in 1..n : m # i => g[m].size <= q[m].size
  BY <1>7, <1>13
<1>16. ASSUME NEW m \in 1..n, m > i PROVE g[m] = q[m]
  BY <1>1, <1>2, <1>5, <1>7, <1>16
<1>17. RisenInOrder(g, q, t, i)
  BY <1>2, <1>7, <1>8, <1>14, <1>15, <1>16 DEF RisenInOrder, n
<1> QED
  BY <1>17 DEF g, y, b

LEMMA RisesInOrder ==
    ASSUME NEW S, Sized(S), NEW q \in Seq(S), NEW t \in S, OrderedButLast(q), NEW w,
           \A i \in 1..Len(q) : w[i] = Rise(w, q, t, i)
    PROVE  \A i \in 1..Len(q) : RisenInOrder(w[i], q, t, i)
<1> DEFINE Good(i) == RisenInOrder(w[i], q, t, i)
           n == Len(q)
           Bad == {i \in 1..n : ~Good(i)}
<1>1. SUFFICES ASSUME Bad # {} PROVE FALSE
  OBVIOUS
<1>2. PICK i \in Bad : \A k \in Bad : i <= k
  <2> HIDE DEF Good
  <2>1. Bad \in SUBSET Nat
    OBVIOUS
  <2> HIDE DEF Bad
  <2> QED
    BY <1>1, <2>1, LeastOfNaturals
<1>3. i \in 1..Len(q) /\ ~Good(i)
  OBVIOUS
<1>4. ASSUME NEW k \in 1..n, k < i PROVE Good(k)
  <2>1. ~(i <= k)
    BY <1>3, <1>4
  <2> QED
    BY <1>2, <2>1
<1> HIDE DEF Bad
<1>5. w[i] = Rise(w, q, t, i)
  BY <1>3
<1>6. CASE Tops(q, t, i)
  <2>1. w[i] = At(q, i, t)
    BY <1>5, <1>6 DEF Rise
  <2> QED
    BY <1>3, <1>6, <2>1, TopsInOrder
<1>7. CASE ~Tops(q, t, i)
  <2> DEFINE b == Half(i)
             s == w[b]
  <2>1. w[i] = At(s, i, q[b])
    BY <1>5, <1>7 DEF Rise
  <2>2. b \in 1..n /\ b < i
    <3>1. i \in Nat /\ i > 1
      BY <1>3, <1>7 DEF Tops
    <3>2. b \in Nat /\ b >= 1 /\ b < i
      BY <3>1, HalfIs
    <3> QED
      BY <1>3, <3>2
  <2>3. RisenInOrder(s, q, t, b)
    BY <1>4, <2>2
  <2>4. s \in Seq(S)
    <3>1. \A k \in 1..Len(q) : Rising(S, w, q, t, k)
      BY Rises
    <3> QED
      BY <2>2, <3>1 DEF Rising
  <2> HIDE DEF s
  <2>5. RisenInOrder(At(s, i, q[b]), q, t, i)
    BY <1>3, <1>7, <2>3, <2>4, RiseInOrder
  <2> QED
    BY <1>3, <2>1, <2>5
<1> QED
  BY <1>6, <1>7

LEMMA AddedToQueue ==
    ASSUME NEW S, NEW pq \in Seq(S), NEW t \in S
    PROVE  /\ pq_add(pq, t) \in Seq(S) /\ Same(pq_add(pq, t), Append(pq, t))
           /\ Sized(S) /\ Ordered(pq, 1) => Ordered(pq_add(pq, t), 1)
<1> DEFINE q == Append(pq, t)
           n == Len(q)
<1>1. PICK w : pq_add(pq, t) = w[Len(q)] /\ \A i \in 1..Len(q) : w[i] = Rise(w, q, t, i)
  BY RiseExists
<1>2. /\ q \in Seq(S) /\ n \in Nat /\ n \in 1..n /\ q[n] = t /\ n = Len(pq) + 1
      /\ \A i \in 1..Len(pq) : q[i] = pq[i]
  OBVIOUS
<1> HIDE DEF q
<1>3. At(q, n, t) = q
  BY <1>2 DEF At
<1>4. Rising(S, w, q, t, n)
  <2>1. \A i \in 1..Len(q) : Rising(S, w, q, t, i)
    BY <1>1, <1>2, Rises
  <2> QED
    BY <1>2, <2>1
<1>5. w[n] \in Seq(S) /\ Same(w[n], q)
  BY <1>3, <1>4 DEF Rising, Risen, Same
<1>6. ASSUME Sized(S), Ordered(pq, 1) PROVE Ordered(w[n], 1)
  <2>1. ASSUME NEW m \in 1..n, NEW c \in 1..n, c < n, Child(m, c)
        PROVE  q[m].size <= q[c].size
    <3>1. m < c
      BY <1>2, <2>1, ParentIs
    <3>2. m \in 1..Len(pq) /\ c \in 1..Len(pq)
      BY <1>2, <2>1, <3>1
    <3>3. pq[m].size <= pq[c].size
      BY <1>6, <2>1, <3>2 DEF Ordered
    <3> QED
      BY <1>2, <3>2, <3>3
  <2>2. OrderedButLast(q)
    BY <2>1 DEF OrderedButLast
  <2>3. \A i \in 1..Len(q) : RisenInOrder(w[i], q, t, i)
    BY <1>1, <1>2, <1>6, <2>2, RisesInOrder
  <2>4. RisenInOrder(w[n], q, t, n)
    BY <1>2, <2>3
  <2> QED
    BY <1>2, <2>4 DEF RisenInOrder, Ordered
<1> QED
  BY <1>1, <1>5, <1>6 DEF q

LEMMA SameAppended ==
    ASSUME NEW S, NEW s \in Seq(S), NEW t \in Seq(S), NEW x \in S, Same(s, t)
    PROVE  Same(Append(s, x), Append(t, x))
<1> DEFINE n == Len(t)
           g == Append(s, x)
           h == Append(t, x)
<1>1. PICK p : Rearranged(s, t, p)
  BY DEF Same
<1>2. Len(s) = n /\ Moves(p, n) /\ n \in Nat /\ \A i \in 1..n : s[i] = t[p[i]]
  BY <1>1 DEF Rearranged
<1>3. /\ Len(g) = n + 1 /\ g[n + 1] = x /\ \A i \in 1..n : g[i] = s[i]
      /\ Len(h) = n + 1 /\ h[n + 1] = x /\ \A i \in 1..n : h[i] = t[i]
  <2>1. Len(s) = n
    BY <1>2
  <2> QED
    BY <2>1
<1> DEFINE r == [i \in 1..(n + 1) |-> IF i = n + 1 THEN i ELSE p[i]]
<1> HIDE DEF n, g, h
<1>4. \A i \in 1..n : p[i] \in 1..n
  BY <1>2, MovesApart
<1>5. r \in [1..(n + 1) -> 1..(n + 1)] /\ r[n + 1] = n + 1 /\ \A i \in 1..n : r[i] = p[i]
  <2>1. ASSUME NEW i \in 1..(n + 1), i # n + 1 PROVE i \in 1..n
    BY <1>2, <2>1
  <2>2. \A i \in 1..n : i \in 1..(n + 1) /\ i # n + 1
    BY <1>2
  <2>3. n + 1 \in 1..(n + 1)
    BY <1>2
  <2> QED
    BY <1>4, <2>1, <2>2, <2>3
<1> HIDE DEF r
<1>6. Moves(r, n + 1)
  <2>1. ASSUME NEW i \in 1..(n + 1), NEW j \in 1..(n + 1), r[i] = r[j] PROVE i = j
    <3>1. CASE i \in 1..n /\ j \in 1..n
      <4>1. p[i] = p[j]
        BY <1>5, <2>1, <3>1
      <4> QED
        BY <1>2, <3>1, <4>1, MovesApart
    <3>2. CASE i \in 1..n /\ j = n + 1
      BY <1>2, <1>4, <1>5, <2>1, <3>2
    <3>3. CASE i = n + 1 /\ j \in 1..n
      BY <1>2, <1>4, <1>5, <2>1, <3>3
    <3> QED
      BY <1>2, <2>1, <3>1, <3>2, <3>3
  <2>2. ASSUME NEW j \in 1..(n + 1) PROVE \E i \in 1..(n + 1) : r[i] = j
    <3>1. CASE j = n + 1
      BY <1>5, <3>1
    <3>2. CASE j \in 1..n
      <4>1. PICK i \in 1..n : p[i] = j
        BY <1>2, <3>2 DEF Moves
      <4>2. r[i] = j
        BY <1>5, <4>1
      <4>3. i \in 1..(n + 1)
        BY <1>2
      <4> QED
        BY <4>2, <4>3
    <3> QED
      BY <1>2, <3>1, <3>2
  <2> QED
    BY <1>5, <2>1, <2>2 DEF Moves
<1>7. ASSUME NEW i \in 1..(n + 1) PROVE g[i] = h[r[i]]
  <2>1. CASE i = n + 1
    BY <1>3, <1>5, <2>1
  <2>2. CASE i \in 1..n
    BY <1>2, <1>3, <1>4, <1>5, <2>2
  <2> QED
    BY <1>2, <2>1, <2>2
<1>8. Rearranged(g, h, r)
  BY <1>3, <1>6, <1>7 DEF Rearranged
<1> QED
  BY <1>8 DEF Same, g, h

\* The last element goes to the first place.
Refilled(q) == Front([q EXCEPT ![1] = Last(q)])
LEMMA RefilledIs ==
    ASSUME NEW S, NEW q \in Seq(S), Len(q) > 1
    PROVE  /\ Refilled(q) \in Seq(S) /\ Len(Refilled(q)) = Len(q) - 1
           /\ Refilled(q)[1] = q[Len(q)]
           /\ \A i \in 1..(Len(q) - 1) : i # 1 => Refilled(q)[i] = q[i]
<1> DEFINE x == q[Len(q)]
           r == [q EXCEPT ![1] = x]
           f == SubSeq(r, 1, Len(r) - 1)
<1>1. Refilled(q) = f
  BY DEF Refilled, Front, Last
<1>2. r \in Seq(S) /\ Len(r) = Len(q) /\ r[1] = x /\ \A i \in 1..Len(q) : i # 1 => r[i] = q[i]
  OBVIOUS
<1> HIDE DEF r
<1>3. /\ f \in Seq(S) /\ Len(f) = Len(q) - 1
      /\ \A i \in 1..(Len(q) - 1) : f[i] = r[i]
  BY <1>2
<1> HIDE DEF f
<1>4. Len(q) \in Nat /\ 1 \in 1..(Len(q) - 1) /\ \A i \in 1..(Len(q) - 1) : i \in 1..Len(q)
  OBVIOUS
<1> QED
  BY <1>1, <1>2, <1>3, <1>4

LEMMA RefilledSame ==
    ASSUME NEW S, NEW q \in Seq(S), Len(q) > 1
    PROVE  Same(Append(Refilled(q), q[1]), q)
<1> DEFINE f == Refilled(q)
           n == Len(q)
           g == Append(f, q[1])
           p == [i \in 1..n |-> IF i = 1 THEN n ELSE IF i = n THEN 1 ELSE i]
<1>1. /\ f \in Seq(S) /\ Len(f) = n - 1 /\ f[1] = q[n]
      /\ \A i \in 1..(n - 1) : i # 1 => f[i] = q[i]
  BY RefilledIs
<1>2. n \in Nat /\ n > 1 /\ q[1] \in S
  OBVIOUS
<1> HIDE DEF f
<1>3. Len(g) = n /\ g[n] = q[1] /\ \A i \in 1..(n - 1) : g[i] = f[i]
  BY <1>1, <1>2
<1> HIDE DEF g, n
<1>4. 1 \in 1..n /\ n \in 1..n /\ 1 \in 1..(n - 1)
  BY <1>2
<1>5. /\ p \in [1..n -> 1..n] /\ p[1] = n /\ p[n] = 1
      /\ \A i \in 1..n : i # 1 /\ i # n => p[i] = i
  BY <1>2, <1>4
<1> HIDE DEF p
<1>6. Moves(p, n)
  <2>1. \A i, j \in 1..n : p[i] = p[j] => i = j
    BY <1>2, <1>5
  <2>2. \A j \in 1..n : \E i \in 1..n : p[i] = j
    BY <1>2, <1>4, <1>5
  <2> QED
    BY <1>5, <2>1, <2>2 DEF Moves
<1>7. ASSUME NEW i \in 1..n PROVE g[i] = q[p[i]]
  <2>1. CASE i = n
    BY <1>3, <1>5, <2>1
  <2>2. CASE i = 1
    BY <1>1, <1>2, <1>3, <1>4, <1>5, <2>2
  <2>3. CASE i # 1 /\ i # n
    <3>1. i \in 1..(n - 1)
      BY <1>2, <2>3
    <3> QED
      BY <1>1, <1>3, <1>5, <2>3, <3>1
  <2> QED
    BY <2>1, <2>2, <2>3
<1>8. Rearranged(g, q, p)
  BY <1>3, <1>6, <1>7 DEF Rearranged, n
<1> QED
  BY <1>8 DEF Same, g, f

LEMMA PolledQueue ==
    ASSUME NEW S, NEW q \in Seq(S), Len(q) >= 1
    PROVE  /\ pq_poll(q) \in Seq(S) /\ Len(pq_poll(q)) = Len(q) - 1
           /\ Same(Append(pq_poll(q), q[1]), q)
           /\ Sized(S) /\ Ordered(q, 1) => Ordered(pq_poll(q), 1)
<1>1. CASE Len(q) = 1
  <2>1. pq_poll(q) = <<>>
    BY <1>1 DEF pq_poll
  <2>2. Append(<<>>, q[1]) = q
    BY <1>1
  <2>3. Same(q, q)
    BY NoMove DEF Same
  <2>4. <<>> \in Seq(S) /\ Len(<<>>) = 0
    OBVIOUS
  <2>5. Ordered(<<>>, 1)
    BY <2>4 DEF Ordered
  <2> QED
    BY <1>1, <2>1, <2>2, <2>3, <2>4, <2>5
<1>2. CASE Len(q) # 1
  <2> DEFINE f == Refilled(q)
             n == Len(q)
             x == q[1]
             g == percolate_down(f, 1)
  <2>1. n \in Nat /\ n > 1
    BY <1>2
  <2>2. pq_poll(q) = g
    BY <1>2 DEF pq_poll, Refilled
  <2>3. /\ f \in Seq(S) /\ Len(f) = n - 1
        /\ \A i \in 1..(n - 1) : i # 1 => f[i] = q[i]
    BY <2>1, RefilledIs
  <2>4. x \in S
    BY <2>1
  <2>5. Same(Append(f, x), q)
    BY <2>1, RefilledSame
  <2> HIDE DEF f
  <2>6. 1 \in 1..Len(f)
    BY <2>1, <2>3
  <2>7. g \in Seq(S) /\ Same(g, f)
    BY <2>3, <2>6, PercolateMoves
  <2> HIDE DEF x
  <2>8. Same(Append(g, x), Append(f, x))
    <3> HIDE DEF g
    <3> QED
      BY <2>3, <2>4, <2>7, SameAppended
  <2>9. Append(g, x) \in Seq(S) /\ Append(f, x) \in Seq(S)
    <3> HIDE DEF g
    <3> QED
      BY <2>3, <2>4, <2>7
  <2>10. Same(Append(g, x), q)
    <3> DEFINE r == Append(g, x)
               s == Append(f, x)
    <3> HIDE DEF r, s, g
    <3>1. r \in Seq(S) /\ s \in Seq(S) /\ Same(r, s) /\ Same(s, q)
      BY <2>5, <2>8, <2>9 DEF r, s
    <3>2. Same(r, q)
      BY <3>1, SameOn
    <3> QED
      BY <3>2 DEF r
  <2>11. Len(g) = n - 1
    BY <2>3, <2>7 DEF Same, Rearranged
  <2>12. ASSUME Sized(S), Ordered(q, 1) PROVE Ordered(g, 1)
    <3>1. ASSUME NEW m \in 1..(n - 1), NEW c \in 1..(n - 1), m >= 2, Child(m, c)
          PROVE  f[m].size <= f[c].size
      <4>1. c > m
        BY <2>1, <3>1, ParentIs
      <4>2. m \in 1..n /\ c \in 1..n /\ m # 1 /\ c # 1 /\ m >= 1
        BY <2>1, <3>1, <4>1
      <4>3. q[m].size <= q[c].size
        BY <2>12, <3>1, <4>2 DEF Ordered
      <4> QED
        BY <2>3, <4>2, <4>3
    <3>2. Ordered(f, 1 + 1)
      BY <2>3, <3>1 DEF Ordered
    <3> QED
      BY <2>3, <2>6, <2>12, <3>2, PercolateInOrder
  <2> QED
    BY <2>2, <2>7, <2>10, <2>11, <2>12 DEF x
<1> QED
  BY <1>1, <1>2
-------------------------------------------------------------------------------
(* Calls *)

\* What the queue has for the bitmaps there are, of which the caller owns those given.
Elements(h, given) ==
    {[size |-> PortableSize(h, x), temp |-> x \notin given, bitmap |-> x] : x \in DOMAIN h.bm}
InQueue(q) == {q[i].bitmap : i \in DOMAIN q}
TempsApart(q) == \A i, j \in DOMAIN q : i # j /\ q[i].temp => q[i].bitmap # q[j].bitmap

Answers(c) == IF c.answer = 0 THEN {} ELSE {c.answer}
ListsGiven(c) == c.list \in Seq(DOMAIN c.given)
Keeps(h, c) == \A x \in DOMAIN c.given : ValuesAt(h, x) = c.given[x]
Owns(h, c) ==
    0 \notin DOMAIN h.bm /\ DOMAIN h.bm = DOMAIN c.given \cup Answers(c) \cup InQueue(c.queue)
Begins(c) == c.answer = 0 /\ c.queue = <<>>
Goes(c) == c.answer \notin DOMAIN c.given /\ c.answer # 0 /\ c.queue = <<>> /\ c.next \in Nat \ {0}
Ends(c) == c.answer \notin DOMAIN c.given /\ c.answer # 0 /\ c.queue = <<>>
Queues(h, c) ==
    /\ c.answer = 0 /\ c.queue \in Seq(Elements(h, DOMAIN c.given)) /\ TempsApart(c.queue)
    /\ Len(c.queue) >= 1 /\ (Len(c.queue) = 1 => c.queue[1].temp) /\ Ordered(c.queue, 1)
IsCall(c) ==
    c = [op |-> c.op, list |-> c.list, given |-> c.given, phase |-> c.phase,
         answer |-> c.answer, next |-> c.next, queue |-> c.queue]
Right(h, c) ==
    /\ IsCall(c) /\ ListsGiven(c) /\ Sound(h) /\ Keeps(h, c) /\ Owns(h, c)
    /\ \/ c.phase = "begin" /\ Begins(c)
       \/ c.phase = "rest" /\ Goes(c)
       \/ c.phase = "heap" /\ Queues(h, c)
       \/ c.phase = "done" /\ Ends(c)

LEMMA ElementIs ==
    ASSUME NEW h, NEW given, NEW e \in Elements(h, given)
    PROVE  /\ e.bitmap \in DOMAIN h.bm /\ e.size = PortableSize(h, e.bitmap)
           /\ e.temp <=> e.bitmap \notin given
<1>1. PICK x \in DOMAIN h.bm :
          e = [size |-> PortableSize(h, x), temp |-> x \notin given, bitmap |-> x]
  BY DEF Elements
<1>2. e.bitmap = x /\ e.size = PortableSize(h, x)
  BY <1>1
<1>3. e.temp = (x \notin given)
  BY <1>1
<1> QED
  BY <1>2, <1>3

LEMMA InQueueSame ==
    ASSUME NEW S, NEW s \in Seq(S), NEW t \in Seq(S), Same(s, t)
    PROVE  InQueue(s) = InQueue(t)
<1>1. PICK p : Rearranged(s, t, p)
  BY DEF Same
<1> DEFINE n == Len(t)
<1>2. Len(s) = n /\ Moves(p, n) /\ \A i \in 1..n : s[i] = t[p[i]] /\ p[i] \in 1..n
  BY <1>1, MovesApart DEF Rearranged
<1>3. DOMAIN s = 1..n /\ DOMAIN t = 1..n
  BY <1>2
<1> HIDE DEF n
<1>4. ASSUME NEW i \in DOMAIN s PROVE s[i].bitmap \in InQueue(t)
  BY <1>2, <1>3 DEF InQueue
<1>5. ASSUME NEW j \in DOMAIN t PROVE t[j].bitmap \in InQueue(s)
  <2>1. PICK i \in 1..n : p[i] = j
    BY <1>2, <1>3 DEF Moves
  <2>2. t[j] = s[i]
    BY <1>2, <2>1
  <2> QED
    BY <1>3, <2>2 DEF InQueue
<1> QED
  BY <1>4, <1>5 DEF InQueue

LEMMA InQueueAppended ==
    ASSUME NEW S, NEW s \in Seq(S), NEW x
    PROVE  InQueue(Append(s, x)) = InQueue(s) \cup {x.bitmap}
<1> DEFINE g == Append(s, x)
           n == Len(s)
<1>1. DOMAIN g = 1..(n + 1) /\ DOMAIN s = 1..n /\ g[n + 1] = x /\ \A i \in 1..n : g[i] = s[i]
  OBVIOUS
<1>2. n \in Nat
  OBVIOUS
<1> HIDE DEF g, n
<1>3. \A i \in 1..(n + 1) : i \in 1..n \/ i = n + 1
  BY <1>2
<1>4. n + 1 \in 1..(n + 1) /\ \A i \in 1..n : i \in 1..(n + 1)
  BY <1>2
<1>5. ASSUME NEW i \in DOMAIN g PROVE g[i].bitmap \in InQueue(s) \cup {x.bitmap}
  BY <1>1, <1>3 DEF InQueue
<1>6. ASSUME NEW i \in DOMAIN s PROVE s[i].bitmap \in InQueue(g)
  BY <1>1, <1>4 DEF InQueue
<1>7. x.bitmap \in InQueue(g)
  BY <1>1, <1>4 DEF InQueue
<1>8. InQueue(g) = InQueue(s) \cup {x.bitmap}
  BY <1>5, <1>6, <1>7 DEF InQueue
<1> QED
  BY <1>8 DEF g

LEMMA TempsApartSame ==
    ASSUME NEW S, NEW s \in Seq(S), NEW t \in Seq(S), Same(s, t), TempsApart(t)
    PROVE  TempsApart(s)
<1>1. PICK p : Rearranged(s, t, p)
  BY DEF Same
<1> DEFINE n == Len(t)
<1>2. Len(s) = n /\ Moves(p, n) /\ \A i \in 1..n : s[i] = t[p[i]] /\ p[i] \in 1..n
  BY <1>1, MovesApart DEF Rearranged
<1>3. DOMAIN s = 1..n /\ DOMAIN t = 1..n
  BY <1>2
<1> HIDE DEF n
<1>4. ASSUME NEW i \in 1..n, NEW j \in 1..n, i # j, s[i].temp PROVE s[i].bitmap # s[j].bitmap
  <2>1. p[i] # p[j]
    BY <1>2, <1>4, MovesApart
  <2>2. p[i] \in DOMAIN t /\ p[j] \in DOMAIN t /\ s[i] = t[p[i]] /\ s[j] = t[p[j]]
    BY <1>2, <1>3
  <2>3. t[p[i]].temp
    BY <1>4, <2>2
  <2> QED
    BY <2>1, <2>2, <2>3 DEF TempsApart
<1> QED
  BY <1>3, <1>4 DEF TempsApart

\* An element that is one of a kind may be added, and it was when it is in a queue.
LEMMA TempsApartAppended ==
    ASSUME NEW S, NEW s \in Seq(S), NEW x, TempsApart(s), x.bitmap \notin InQueue(s)
    PROVE  TempsApart(Append(s, x))
<1> DEFINE g == Append(s, x)
           n == Len(s)
<1>1. DOMAIN g = 1..(n + 1) /\ DOMAIN s = 1..n /\ g[n + 1] = x /\ \A i \in 1..n : g[i] = s[i]
  OBVIOUS
<1>2. n \in Nat
  OBVIOUS
<1> HIDE DEF g, n
<1>3. \A i \in 1..(n + 1) : i \in 1..n \/ i = n + 1
  BY <1>2
<1>4. \A i \in 1..n : g[i].bitmap # x.bitmap
  BY <1>1 DEF InQueue
<1>5. ASSUME NEW i \in 1..(n + 1), NEW j \in 1..(n + 1), i # j, g[i].temp
      PROVE  g[i].bitmap # g[j].bitmap
  <2>1. CASE i \in 1..n /\ j \in 1..n
    <3>1. s[i].temp /\ g[i] = s[i] /\ g[j] = s[j]
      BY <1>1, <1>5, <2>1
    <3> QED
      BY <1>1, <1>5, <2>1, <3>1 DEF TempsApart
  <2>2. CASE i \in 1..n /\ j = n + 1
    BY <1>1, <1>4, <2>2
  <2>3. CASE i = n + 1 /\ j \in 1..n
    BY <1>1, <1>4, <2>3
  <2> QED
    BY <1>3, <1>5, <2>1, <2>2, <2>3
<1>6. TempsApart(g)
  BY <1>1, <1>5 DEF TempsApart
<1> QED
  BY <1>6 DEF g

LEMMA TempsApartWithout ==
    ASSUME NEW S, NEW s \in Seq(S), NEW x, TempsApart(Append(s, x))
    PROVE  /\ TempsApart(s)
           /\ x.temp => x.bitmap \notin InQueue(s)
           /\ \A i \in DOMAIN s : s[i].temp => s[i].bitmap # x.bitmap
<1> DEFINE g == Append(s, x)
           n == Len(s)
<1>1. DOMAIN g = 1..(n + 1) /\ DOMAIN s = 1..n /\ g[n + 1] = x /\ \A i \in 1..n : g[i] = s[i]
  OBVIOUS
<1>2. n \in Nat
  OBVIOUS
<1>3. TempsApart(g)
  OBVIOUS
<1> HIDE DEF g, n
<1>4. n + 1 \in 1..(n + 1) /\ \A i \in 1..n : i \in 1..(n + 1) /\ i # n + 1
  BY <1>2
<1>5. ASSUME NEW i \in 1..n, NEW j \in 1..n, i # j, s[i].temp PROVE s[i].bitmap # s[j].bitmap
  <2>1. g[i].temp /\ g[i] = s[i] /\ g[j] = s[j]
    BY <1>1, <1>5
  <2> QED
    BY <1>1, <1>3, <1>4, <1>5, <2>1 DEF TempsApart
<1>6. ASSUME NEW i \in 1..n, x.temp PROVE s[i].bitmap # x.bitmap
  <2>1. g[n + 1].temp
    BY <1>1, <1>6
  <2>2. g[n + 1].bitmap # g[i].bitmap
    BY <1>1, <1>3, <1>4, <2>1 DEF TempsApart
  <2> QED
    BY <1>1, <2>2
<1>7. ASSUME NEW i \in 1..n, s[i].temp PROVE s[i].bitmap # x.bitmap
  <2>1. g[i].temp
    BY <1>1, <1>7
  <2>2. g[i].bitmap # g[n + 1].bitmap
    BY <1>1, <1>3, <1>4, <2>1 DEF TempsApart
  <2> QED
    BY <1>1, <2>2
<1> QED
  BY <1>1, <1>5, <1>6, <1>7 DEF TempsApart, InQueue

\* No bitmap that is not of X is in another place of the queue for what changes.
LEMMA ElementsKept ==
    ASSUME NEW h, NEW g, NEW X, Apart(h, g, X), NEW given, NEW q \in Seq(Elements(h, given)),
           \A i \in DOMAIN q : q[i].bitmap \notin X
    PROVE  q \in Seq(Elements(g, given))
<1>1. ASSUME NEW z \in DOMAIN h.bm \ X
      PROVE  z \in DOMAIN g.bm /\ PortableSize(g, z) = PortableSize(h, z)
  <2>1. z \in DOMAIN g.bm /\ \A k \in Keys : Held(g, z, k) = Held(h, z, k)
    BY DEF Apart
  <2>2. HeldBy(g, z) = HeldBy(h, z)
    BY <2>1 DEF HeldBy
  <2> QED
    BY <2>1, <2>2 DEF PortableSize
<1>2. ASSUME NEW i \in 1..Len(q) PROVE q[i] \in Elements(g, given)
  <2>1. q[i] \in Elements(h, given) /\ i \in DOMAIN q
    OBVIOUS
  <2>2. PICK x \in DOMAIN h.bm :
            q[i] = [size |-> PortableSize(h, x), temp |-> x \notin given, bitmap |-> x]
    BY <2>1 DEF Elements
  <2>3. x \notin X
    BY <2>1, <2>2
  <2>4. x \in DOMAIN g.bm /\ PortableSize(g, x) = PortableSize(h, x)
    BY <1>1, <2>3
  <2>5. q[i] = [size |-> PortableSize(g, x), temp |-> x \notin given, bitmap |-> x]
    BY <2>2, <2>4
  <2> QED
    BY <2>4, <2>5 DEF Elements
<1>3. q = [i \in 1..Len(q) |-> q[i]] /\ Len(q) \in Nat
  OBVIOUS
<1> DEFINE E == Elements(g, given)
           n == Len(q)
<1>4. q = [i \in 1..n |-> q[i]] /\ n \in Nat /\ \A i \in 1..n : q[i] \in E
  BY <1>2, <1>3
<1> HIDE DEF E, n
<1>5. q \in [1..n -> E]
  BY <1>4
<1>6. q \in Seq(E)
  BY <1>4, <1>5
<1> QED
  BY <1>6 DEF E

LEMMA NoBitmapNow ==
    ASSUME NEW h, Sound(h)
    PROVE  Fresh(h.bm) \in Nat \ {0} /\ Fresh(h.bm) \notin DOMAIN h.bm
  BY FreshIs DEF Sound, IsHeap

\* The union of two bitmaps of the queue: the temporary ones are used up, or one is the union.
Used(x1, x2, given) == {x1.bitmap, x2.bitmap} \ given
UnionIs(u, x1, x2, given) ==
    LET a == Fresh(bm)
        used == Used(x1, x2, given)
    IN  /\ Sound(u.heap) /\ Apart(H, u.heap, used \cup {a}) /\ u.new \in used \cup {a}
        /\ DOMAIN u.heap.bm = (DOMAIN bm \ used) \cup {u.new}

LEMMA UnionSound ==
    ASSUME Sound(H), NEW given, NEW x1 \in Elements(H, given), NEW x2 \in Elements(H, given),
           x1.temp \/ x2.temp => x1.bitmap # x2.bitmap, given \subseteq DOMAIN bm
    PROVE  UnionIs(UnionOf(x1, x2), x1, x2, given)
<1> DEFINE a == Fresh(bm)
           x == x1.bitmap
           y == x2.bitmap
           used == {x, y} \ given
           u == UnionOf(x1, x2)
<1>1. H.bm = bm
  BY DEF H
<1>2. a \notin DOMAIN bm
  BY <1>1, NoBitmapNow
<1>3. x \in DOMAIN H.bm /\ y \in DOMAIN H.bm /\ (x1.temp <=> x \notin given)
        /\ (x2.temp <=> y \notin given)
  BY ElementIs
<1>4. x1.temp \/ x2.temp => x # y
  OBVIOUS
<1> HIDE DEF a, x, y
<1> SUFFICES /\ Sound(u.heap) /\ Apart(H, u.heap, used \cup {a}) /\ u.new \in used \cup {a}
             /\ DOMAIN u.heap.bm = (DOMAIN bm \ used) \cup {u.new}
  BY DEF UnionIs, Used, a, x, y
<1>5. CASE x1.temp /\ x2.temp
  <2>1. u = lazy_or_from_lazy_inputs(H, a, x, y)
    BY <1>5 DEF UnionOf, a, x, y
  <2>2. used = {x, y}
    BY <1>3, <1>5
  <2> HIDE DEF u, used
  <2>3. ConsumedInto(u, H, a, x, y)
    <3>1. x \in DOMAIN H.bm /\ y \in DOMAIN H.bm /\ x # y /\ a \notin DOMAIN H.bm
      BY <1>1, <1>2, <1>3, <1>4, <1>5
    <3>2. ConsumedInto(lazy_or_from_lazy_inputs(H, a, x, y), H, a, x, y)
      BY <3>1, LazyInputsSound
    <3> QED
      BY <2>1, <3>2
  <2>4. {x, y} \cup {a} = {a, x, y}
    OBVIOUS
  <2> QED
    BY <1>1, <2>2, <2>3, <2>4 DEF ConsumedInto
<1>6. CASE x2.temp /\ ~x1.temp
  <2> DEFINE g == InPlace(H, y, x, "or")
  <2>1. u = [heap |-> g, new |-> y]
    BY <1>6 DEF UnionOf, roaring_bitmap_lazy_or_inplace, x, y
  <2>2. used = {y}
    BY <1>3, <1>6
  <2> HIDE DEF u, used
  <2>3. Sound(g) /\ DOMAIN g.bm = DOMAIN H.bm /\ Apart(H, g, {y})
    BY <1>3, <1>4, <1>6, InPlaceSound
  <2> HIDE DEF g
  <2>4. u.heap = g /\ u.new = y
    BY <2>1
  <2>5. Apart(H, g, used \cup {a})
    BY <2>2, <2>3 DEF Apart
  <2>6. DOMAIN g.bm = (DOMAIN bm \ {y}) \cup {y}
    BY <1>1, <1>3, <2>3
  <2> QED
    BY <2>2, <2>3, <2>4, <2>5, <2>6
<1>7. CASE x1.temp /\ ~x2.temp
  <2> DEFINE g == InPlace(H, x, y, "or")
  <2>1. u = [heap |-> g, new |-> x]
    BY <1>7 DEF UnionOf, roaring_bitmap_lazy_or_inplace, x, y
  <2>2. used = {x}
    BY <1>3, <1>7
  <2> HIDE DEF u, used
  <2>3. Sound(g) /\ DOMAIN g.bm = DOMAIN H.bm /\ Apart(H, g, {x})
    BY <1>3, <1>4, <1>7, InPlaceSound
  <2> HIDE DEF g
  <2>4. u.heap = g /\ u.new = x
    BY <2>1
  <2>5. Apart(H, g, used \cup {a})
    BY <2>2, <2>3 DEF Apart
  <2>6. DOMAIN g.bm = (DOMAIN bm \ {x}) \cup {x}
    BY <1>1, <1>3, <2>3
  <2> QED
    BY <2>2, <2>3, <2>4, <2>5, <2>6
<1>8. CASE ~x1.temp /\ ~x2.temp
  <2> DEFINE g == Combined(H, a, x, y, "or")
  <2>1. u = [heap |-> g, new |-> a]
    BY <1>8 DEF UnionOf, roaring_bitmap_lazy_or, a, x, y
  <2>2. used = {}
    BY <1>3, <1>8
  <2> HIDE DEF u, used
  <2>3. Sound(g) /\ DOMAIN g.bm = DOMAIN H.bm \cup {a} /\ Apart(H, g, {a})
    BY <1>1, <1>2, <1>3, CombinedSound
  <2> HIDE DEF g
  <2>4. u.heap = g /\ u.new = a
    BY <2>1
  <2>5. used \cup {a} = {a} /\ DOMAIN bm \ used = DOMAIN bm
    BY <2>2
  <2> QED
    BY <1>1, <2>3, <2>4, <2>5
<1> QED
  BY <1>3, <1>5, <1>6, <1>7, <1>8

LEMMA TwoPolled ==
    ASSUME NEW S, NEW q \in Seq(S), Len(q) > 1, TempsApart(q)
    PROVE  LET x1 == q[1]
               x2 == pq_poll(q)[1]
               rest == pq_poll(pq_poll(q))
           IN  /\ x1 \in S /\ x2 \in S /\ rest \in Seq(S) /\ Len(rest) = Len(q) - 2
               /\ InQueue(q) = InQueue(rest) \cup {x1.bitmap, x2.bitmap} /\ TempsApart(rest)
               /\ x1.temp => x1.bitmap \notin InQueue(rest)
               /\ x2.temp => x2.bitmap \notin InQueue(rest)
               /\ x1.temp \/ x2.temp => x1.bitmap # x2.bitmap
               /\ Sized(S) /\ Ordered(q, 1) => Ordered(rest, 1)
<1> DEFINE q1 == pq_poll(q)
           x1 == q[1]
           x2 == q1[1]
           rest == pq_poll(q1)
           both == Append(rest, x2)
           all == Append(q1, x1)
           full == Append(both, x1)
<1>1. Len(q) \in Nat /\ Len(q) >= 1 /\ x1 \in S
  OBVIOUS
<1>2. /\ q1 \in Seq(S) /\ Len(q1) = Len(q) - 1 /\ Same(all, q)
      /\ Sized(S) /\ Ordered(q, 1) => Ordered(q1, 1)
  BY <1>1, PolledQueue
<1> HIDE DEF q1, x1
<1>3. Len(q1) >= 1 /\ x2 \in S
  BY <1>1, <1>2
<1>4. /\ rest \in Seq(S) /\ Len(rest) = Len(q1) - 1 /\ Same(both, q1)
      /\ Sized(S) /\ Ordered(q1, 1) => Ordered(rest, 1)
  BY <1>2, <1>3, PolledQueue
<1> HIDE DEF rest, x2
<1>5. both \in Seq(S) /\ Len(both) = Len(rest) + 1 /\ both[Len(rest) + 1] = x2
  BY <1>3, <1>4
<1>6. all \in Seq(S)
  BY <1>1, <1>2
<1> HIDE DEF both
<1>7. full \in Seq(S)
  BY <1>1, <1>5
<1>8. Same(full, all)
  BY <1>1, <1>2, <1>4, <1>5, SameAppended
<1> HIDE DEF full, all
<1>9. Same(full, q)
  BY <1>2, <1>6, <1>7, <1>8, SameOn
<1>10. TempsApart(full)
  BY <1>7, <1>9, TempsApartSame
<1>11. TempsApart(both) /\ (x1.temp => x1.bitmap \notin InQueue(both))
       /\ \A i \in DOMAIN both : both[i].temp => both[i].bitmap # x1.bitmap
  BY <1>5, <1>10, TempsApartWithout DEF full
<1>12. TempsApart(rest) /\ (x2.temp => x2.bitmap \notin InQueue(rest))
  BY <1>4, <1>11, TempsApartWithout DEF both
<1>13. InQueue(both) = InQueue(rest) \cup {x2.bitmap}
  BY <1>4, InQueueAppended DEF both
<1>14. InQueue(full) = InQueue(both) \cup {x1.bitmap}
  BY <1>5, InQueueAppended DEF full
<1>15. InQueue(full) = InQueue(q)
  BY <1>7, <1>9, InQueueSame
<1>16. x2.temp => x2.bitmap # x1.bitmap
  <2>1. Len(rest) + 1 \in DOMAIN both
    BY <1>4, <1>5
  <2> QED
    BY <1>5, <1>11, <2>1
<1>17. Len(rest) = Len(q) - 2
  BY <1>1, <1>2, <1>4
<1>18. InQueue(q) = InQueue(rest) \cup {x1.bitmap, x2.bitmap}
  BY <1>13, <1>14, <1>15
<1>19. (x1.temp => x1.bitmap \notin InQueue(rest)) /\ (x1.temp => x1.bitmap # x2.bitmap)
  BY <1>11, <1>13
<1>20. Sized(S) /\ Ordered(q, 1) => Ordered(rest, 1)
  BY <1>2, <1>4
<1>21. /\ x1 \in S /\ x2 \in S /\ rest \in Seq(S) /\ Len(rest) = Len(q) - 2
       /\ InQueue(q) = InQueue(rest) \cup {x1.bitmap, x2.bitmap} /\ TempsApart(rest)
       /\ x1.temp => x1.bitmap \notin InQueue(rest)
       /\ x2.temp => x2.bitmap \notin InQueue(rest)
       /\ x1.temp \/ x2.temp => x1.bitmap # x2.bitmap
       /\ Sized(S) /\ Ordered(q, 1) => Ordered(rest, 1)
  BY <1>1, <1>3, <1>4, <1>12, <1>16, <1>17, <1>18, <1>19, <1>20
<1> QED
  BY <1>21 DEF rest, x1, x2, q1

LEMMA NowIs ==
    ASSUME NEW g, Sound(g), Become(g) PROVE H' = g
  BY DEF Become, H, Sound, IsHeap

LEMMA KeptApart ==
    ASSUME NEW h, NEW g, NEW X, Apart(h, g, X), NEW c, Keeps(h, c),
           DOMAIN c.given \subseteq DOMAIN h.bm, DOMAIN c.given \cap X = {}
    PROVE  Keeps(g, c)
<1>1. ASSUME NEW x \in DOMAIN c.given PROVE ValuesAt(g, x) = ValuesAt(h, x)
  <2>1. \A k \in Keys : Held(g, x, k) = Held(h, x, k)
    BY DEF Apart
  <2> QED
    BY <2>1 DEF ValuesAt
<1> QED
  BY <1>1 DEF Keeps

\* What MergeTwo makes of the heap and the queue.
Merging2(h, c, g, nq) ==
    /\ Sound(g) /\ Keeps(g, c) /\ 0 \notin DOMAIN g.bm
    /\ DOMAIN g.bm = DOMAIN c.given \cup InQueue(nq)
    /\ nq \in Seq(Elements(g, DOMAIN c.given)) /\ TempsApart(nq)
    /\ Len(nq) >= 1 /\ (Len(nq) = 1 => nq[1].temp)
    /\ Sized(Elements(h, DOMAIN c.given)) /\ Sized(Elements(g, DOMAIN c.given))
       /\ Ordered(c.queue, 1) => Ordered(nq, 1)

Merged2(c) ==
    LET u == UnionOf(c.queue[1], pq_poll(c.queue)[1])
    IN  [heap  |-> u.heap,
         queue |-> pq_add(pq_poll(pq_poll(c.queue)),
                          [size |-> PortableSize(u.heap, u.new), temp |-> TRUE, bitmap |-> u.new])]

LEMMA MergeTwoMakes ==
    ASSUME Right(H, call), call.phase = "heap", Len(call.queue) > 1
    PROVE  Merging2(H, call, Merged2(call).heap, Merged2(call).queue)
<1> DEFINE given == DOMAIN call.given
           E == Elements(H, given)
           q == call.queue
           x1 == q[1]
           x2 == pq_poll(q)[1]
           rest == pq_poll(pq_poll(q))
           u == UnionOf(x1, x2)
           g == u.heap
           e == [size |-> PortableSize(g, u.new), temp |-> TRUE, bitmap |-> u.new]
           nq == pq_add(rest, e)
           F == Elements(g, given)
           a == Fresh(bm)
           used == Used(x1, x2, given)
<1>1. Queues(H, call) /\ Sound(H) /\ Keeps(H, call) /\ Owns(H, call)
  BY DEF Right
<1>2. call.answer = 0 /\ q \in Seq(E) /\ TempsApart(q) /\ Len(q) > 1
  BY <1>1 DEF Queues
<1>3. H.bm = bm
  BY DEF H
<1>4. 0 \notin DOMAIN bm /\ DOMAIN bm = given \cup InQueue(q)
  BY <1>1, <1>2, <1>3 DEF Owns, Answers
<1> HIDE DEF given, E, q
<1>5. /\ x1 \in E /\ x2 \in E /\ rest \in Seq(E) /\ Len(rest) = Len(q) - 2
      /\ InQueue(q) = InQueue(rest) \cup {x1.bitmap, x2.bitmap} /\ TempsApart(rest)
      /\ x1.temp => x1.bitmap \notin InQueue(rest)
      /\ x2.temp => x2.bitmap \notin InQueue(rest)
      /\ x1.temp \/ x2.temp => x1.bitmap # x2.bitmap
      /\ Sized(E) /\ Ordered(q, 1) => Ordered(rest, 1)
  BY <1>2, TwoPolled
<1> HIDE DEF x1, x2, rest
<1>6. UnionIs(u, x1, x2, given)
  <2>1. given \subseteq DOMAIN bm
    BY <1>4
  <2> QED
    BY <1>1, <1>5, <2>1, UnionSound DEF E
<1> HIDE DEF u
<1>7. /\ Sound(g) /\ Apart(H, g, used \cup {a}) /\ u.new \in used \cup {a}
      /\ DOMAIN g.bm = (DOMAIN bm \ used) \cup {u.new}
  BY <1>6 DEF UnionIs
<1>8. a \notin DOMAIN bm /\ a # 0
  BY <1>1, <1>3, NoBitmapNow
<1>9. /\ x1.bitmap \in DOMAIN bm /\ (x1.temp <=> x1.bitmap \notin given)
      /\ x2.bitmap \in DOMAIN bm /\ (x2.temp <=> x2.bitmap \notin given)
  BY <1>3, <1>5, ElementIs DEF E
<1>10. used = {x1.bitmap, x2.bitmap} \ given
  BY DEF Used
<1> HIDE DEF g, a, used
<1>11. used \cap InQueue(rest) = {} /\ used \cap given = {} /\ used \subseteq DOMAIN bm
  BY <1>5, <1>9, <1>10
<1>12. InQueue(rest) \subseteq DOMAIN bm /\ given \subseteq DOMAIN bm
  BY <1>4, <1>5
<1>13. u.new \notin given /\ u.new \notin InQueue(rest) /\ u.new # 0
  BY <1>4, <1>7, <1>8, <1>11, <1>12
<1>14. DOMAIN g.bm = given \cup InQueue(rest) \cup {u.new}
  BY <1>4, <1>5, <1>7, <1>10, <1>11, <1>12
<1>15. Keeps(g, call)
  <2>1. given \cap (used \cup {a}) = {}
    BY <1>8, <1>11, <1>12
  <2> QED
    BY <1>1, <1>3, <1>7, <1>12, <2>1, KeptApart DEF given
<1>16. rest \in Seq(F)
  <2>1. \A i \in DOMAIN rest : rest[i].bitmap \in InQueue(rest)
    BY DEF InQueue
  <2>2. \A i \in DOMAIN rest : rest[i].bitmap \notin used \cup {a}
    BY <1>8, <1>11, <1>12, <2>1
  <2> QED
    BY <1>5, <1>7, <2>2, ElementsKept DEF E
<1>17. e \in F /\ e.bitmap = u.new /\ e.temp
  <2>1. u.new \in DOMAIN g.bm
    BY <1>14
  <2>2. e = [size |-> PortableSize(g, u.new), temp |-> u.new \notin given, bitmap |-> u.new]
    BY <1>13
  <2>3. e \in F
    BY <2>1, <2>2 DEF Elements
  <2> QED
    BY <2>3
<1> HIDE DEF e, F
<1>18. /\ nq \in Seq(F) /\ Same(nq, Append(rest, e))
       /\ Sized(F) /\ Ordered(rest, 1) => Ordered(nq, 1)
  BY <1>16, <1>17, AddedToQueue
<1> DEFINE more == Append(rest, e)
<1>19. more \in Seq(F) /\ Len(more) = Len(rest) + 1 /\ more[Len(rest) + 1] = e /\ Len(rest) \in Nat
  BY <1>16, <1>17
<1>20. TempsApart(more) /\ InQueue(more) = InQueue(rest) \cup {u.new}
  BY <1>5, <1>13, <1>16, <1>17, TempsApartAppended, InQueueAppended
<1> HIDE DEF more, nq
<1>21. TempsApart(nq) /\ InQueue(nq) = InQueue(rest) \cup {u.new}
  BY <1>18, <1>19, <1>20, TempsApartSame, InQueueSame DEF more
<1>22. Len(nq) >= 1 /\ (Len(nq) = 1 => nq[1].temp)
  <2>1. PICK p : Rearranged(nq, more, p)
    BY <1>18 DEF Same, more
  <2>2. Len(nq) = Len(more) /\ Moves(p, Len(more)) /\ \A i \in 1..Len(more) : nq[i] = more[p[i]]
    BY <2>1 DEF Rearranged
  <2>3. ASSUME Len(nq) = 1 PROVE nq[1].temp
    <3>0. Len(more) = 1
      BY <2>2, <2>3
    <3>1. Len(rest) = 0 /\ Len(more) = 1 /\ 1 \in 1..Len(more)
      <4> DEFINE n == Len(rest)
                 m == Len(more)
      <4>1. n \in Nat /\ m = n + 1 /\ m = 1
        BY <1>19, <3>0
      <4> HIDE DEF n, m
      <4>2. n = 0 /\ 1 \in 1..m
        BY <4>1
      <4> QED
        BY <4>1, <4>2 DEF n, m
    <3>2. p[1] \in 1..Len(more)
      BY <2>2, <3>1, MovesApart
    <3>3. p[1] = 1
      BY <3>1, <3>2
    <3>4. more[1] = e
      BY <1>19, <3>1
    <3> QED
      BY <1>17, <2>2, <3>1, <3>3, <3>4
  <2> QED
    BY <1>19, <2>2, <2>3
<1>23. Sized(E) /\ Sized(F) /\ Ordered(q, 1) => Ordered(nq, 1)
  BY <1>5, <1>18
<1>24. 0 \notin DOMAIN g.bm /\ DOMAIN g.bm = given \cup InQueue(nq)
  BY <1>4, <1>12, <1>13, <1>14, <1>21
<1>25. Merging2(H, call, g, nq)
  BY <1>7, <1>15, <1>18, <1>21, <1>22, <1>23, <1>24 DEF Merging2, E, F, given, q
<1>26. Merged2(call) = [heap |-> g, queue |-> nq]
  BY DEF Merged2, g, nq, e, u, rest, x1, x2, q
<1> HIDE DEF g, nq
<1> QED
  BY <1>25, <1>26

\* The size of a bitmap is a number, whatever is in it.
LEMMA SizesAre == ASSUME NEW h, Sound(h), NEW given PROVE Sized(Elements(h, given))
<1>1. ASSUME NEW x \in DOMAIN h.bm PROVE PortableSize(h, x) \in Int
  <2> DEFINE held == HeldBy(h, x)
  <2>1. ASSUME NEW k \in Keys PROVE held[k] = Null \/ Typed(held[k])
    <3>1. held[k] = Held(h, x, k)
      BY DEF HeldBy
    <3> QED
      BY <3>1, ConTyped DEF Held
  <2>2. PortableSize(h, x) = PortableBytes(held)
    BY DEF PortableSize
  <2> HIDE DEF held
  <2> QED
    BY <2>1, <2>2, BytesAre
<1> QED
  BY <1>1 DEF Sized, Elements

LEMMA MergeTwoRight == ASSUME Right(H, call), MergeTwo PROVE Right(H', call')
<1> DEFINE g == Merged2(call).heap
           nq == Merged2(call).queue
<1>1. call.phase = "heap" /\ Len(call.queue) > 1
  BY DEF MergeTwo
<1>2. Merging2(H, call, g, nq)
  BY <1>1, MergeTwoMakes
<1>3. Become(g) /\ call' = [call EXCEPT !.queue = nq]
  BY DEF MergeTwo, Merged2
<1> HIDE DEF g, nq
<1>4. Sound(g) /\ H' = g
  BY <1>2, <1>3, NowIs DEF Merging2
<1>5. IsCall(call) /\ ListsGiven(call) /\ Queues(H, call)
  BY <1>1 DEF Right
<1> DEFINE c == call'
<1>6. /\ c.list = call.list /\ c.given = call.given /\ c.phase = "heap"
      /\ c.answer = call.answer /\ c.queue = nq /\ IsCall(c)
  BY <1>1, <1>3, <1>5 DEF IsCall
<1>7. call.answer = 0
  BY <1>5 DEF Queues
<1> HIDE DEF c
<1>8. ListsGiven(c) /\ Keeps(g, c)
  BY <1>2, <1>5, <1>6 DEF ListsGiven, Keeps, Merging2
<1>a. Ordered(nq, 1)
  <2>1. Sound(H) /\ Ordered(call.queue, 1)
    BY <1>5 DEF Right, Queues
  <2> QED
    BY <1>2, <1>4, <2>1, SizesAre DEF Merging2
<1>9. Owns(g, c) /\ Queues(g, c)
  BY <1>2, <1>6, <1>7, <1>a DEF Owns, Queues, Merging2, Answers
<1>10. Right(g, c)
  BY <1>4, <1>6, <1>8, <1>9 DEF Right
<1> QED
  BY <1>4, <1>10 DEF c

LEMMA QueuedIs ==
    ASSUME NEW h, NEW given, given \subseteq DOMAIN h.bm, NEW list \in Seq(given)
    PROVE  LET q == Queued(h, list)
           IN  /\ q \in Seq(Elements(h, given)) /\ Len(q) = Len(list)
               /\ InQueue(q) \subseteq given /\ TempsApart(q)
<1> DEFINE q == Queued(h, list)
           n == Len(list)
           Made(x) == [size |-> PortableSize(h, x), temp |-> FALSE, bitmap |-> x]
           E == Elements(h, given)
<1>1. n \in Nat /\ \A i \in 1..n : list[i] \in given
  OBVIOUS
<1>2. q = [i \in 1..n |-> Made(list[i])]
  BY DEF Queued
<1>3. ASSUME NEW x \in given PROVE Made(x) \in E /\ Made(x).bitmap = x /\ ~Made(x).temp
  <2>1. Made(x) = [size |-> PortableSize(h, x), temp |-> x \notin given, bitmap |-> x]
    OBVIOUS
  <2>2. x \in DOMAIN h.bm
    OBVIOUS
  <2> QED
    BY <2>1, <2>2 DEF Elements
<1> HIDE DEF n, Made, E, q
<1>4. q \in [1..n -> E] /\ DOMAIN q = 1..n
  BY <1>1, <1>2, <1>3
<1>5. q \in Seq(E) /\ Len(q) = n
  BY <1>1, <1>4
<1>6. \A i \in 1..n : q[i].bitmap \in given /\ ~q[i].temp
  BY <1>1, <1>2, <1>3
<1>7. InQueue(q) \subseteq given /\ TempsApart(q)
  BY <1>4, <1>6 DEF InQueue, TempsApart
<1> QED
  BY <1>5, <1>7 DEF q, n, E

LEMMA BeginHeapMakes ==
    ASSUME Right(H, call), BeginHeap
    PROVE  LET q == create_pq(H, call.list)
               E == Elements(H, DOMAIN call.given)
           IN  /\ q \in Seq(E) /\ Len(q) > 1
               /\ InQueue(q) \subseteq DOMAIN call.given /\ TempsApart(q)
               /\ Sized(E) => Ordered(q, 1)
<1> DEFINE given == DOMAIN call.given
           list == call.list
           E == Elements(H, given)
           t == Queued(H, list)
           q == create_pq(H, list)
<1>1. call.phase = "begin" /\ Len(list) > 1
  BY DEF BeginHeap
<1>2. Owns(H, call) /\ ListsGiven(call)
  BY <1>1 DEF Right
<1>3. given \subseteq DOMAIN H.bm /\ list \in Seq(given)
  BY <1>2 DEF Owns, ListsGiven
<1>4. Len(list) \in Nat
  BY <1>3
<1> HIDE DEF given, list
<1>5. /\ t \in Seq(E) /\ Len(t) = Len(list)
      /\ InQueue(t) \subseteq given /\ TempsApart(t)
  BY <1>3, QueuedIs
<1> HIDE DEF E
<1>6. q \in Seq(E) /\ Same(q, t) /\ (Sized(E) => Ordered(q, 1))
  BY <1>4, <1>5, CreateQueue
<1> HIDE DEF t, q
<1>7. Len(q) = Len(t)
  BY <1>6 DEF Same, Rearranged
<1>8. InQueue(q) = InQueue(t) /\ TempsApart(q)
  BY <1>5, <1>6, InQueueSame, TempsApartSame
<1>9. Len(q) > 1
  BY <1>1, <1>5, <1>7
<1> QED
  BY <1>5, <1>6, <1>8, <1>9 DEF q, E, given, list

LEMMA BeginHeapRight == ASSUME Right(H, call), BeginHeap PROVE Right(H', call')
<1> DEFINE q == create_pq(H, call.list)
           c == call'
<1>1. call.phase = "begin" /\ call' = [call EXCEPT !.phase = "heap", !.queue = q] /\ H' = H
  BY DEF BeginHeap, H
<1>2. IsCall(call) /\ ListsGiven(call) /\ Sound(H) /\ Keeps(H, call) /\ Owns(H, call)
        /\ Begins(call)
  BY <1>1 DEF Right
<1>3. /\ q \in Seq(Elements(H, DOMAIN call.given)) /\ Len(q) > 1
      /\ InQueue(q) \subseteq DOMAIN call.given /\ TempsApart(q) /\ Ordered(q, 1)
  <2> DEFINE E == Elements(H, DOMAIN call.given)
  <2>1. Sized(E)
    BY <1>2, SizesAre
  <2>2. /\ q \in Seq(E) /\ Len(q) > 1 /\ InQueue(q) \subseteq DOMAIN call.given /\ TempsApart(q)
        /\ Sized(E) => Ordered(q, 1)
    BY BeginHeapMakes
  <2> HIDE DEF q, E
  <2>3. Ordered(q, 1)
    BY <2>1, <2>2
  <2> QED
    BY <2>2, <2>3 DEF E
<1> HIDE DEF q
<1>4. /\ c.list = call.list /\ c.given = call.given /\ c.phase = "heap"
      /\ c.answer = call.answer /\ c.queue = q /\ IsCall(c)
  BY <1>1, <1>2 DEF IsCall
<1>5. call.answer = 0 /\ InQueue(call.queue) = {}
  BY <1>2 DEF Begins, InQueue
<1> HIDE DEF c
<1>6. ListsGiven(c) /\ Keeps(H, c)
  BY <1>2, <1>4 DEF ListsGiven, Keeps
<1>7. Owns(H, c)
  BY <1>2, <1>3, <1>4, <1>5 DEF Owns, Answers
<1>8. Len(q) >= 1 /\ Len(q) # 1
  <2> DEFINE n == Len(q)
  <2>1. n \in Nat /\ n > 1
    BY <1>3
  <2> HIDE DEF n
  <2>2. n >= 1 /\ n # 1
    BY <2>1
  <2> QED
    BY <2>2 DEF n
<1>9. Queues(H, c)
  BY <1>3, <1>4, <1>5, <1>8 DEF Queues
<1>10. Right(H, c)
  BY <1>2, <1>4, <1>6, <1>7, <1>9 DEF Right
<1> QED
  BY <1>1, <1>10 DEF c

\* The other steps change no bitmap but the answer, which is a new one or already was.
Answered(h, g, c, a) ==
    /\ Sound(g) /\ Apart(h, g, {a}) /\ a \notin DOMAIN c.given /\ a # 0
    /\ DOMAIN g.bm = DOMAIN c.given \cup {a}

LEMMA AnswerRight ==
    ASSUME Right(H, call), NEW g, NEW a, NEW next, NEW phase, Answered(H, g, call, a), Become(g),
           call' = [call EXCEPT !.phase = phase, !.next = next, !.answer = a], call.queue = <<>>,
           phase = "done" \/ (phase = "rest" /\ next \in Nat \ {0})
    PROVE  Right(H', call')
<1> DEFINE c == call'
<1>1. IsCall(call) /\ ListsGiven(call) /\ Keeps(H, call) /\ Owns(H, call)
  BY DEF Right
<1>2. Sound(g) /\ H' = g
  BY NowIs DEF Answered
<1>3. /\ c.list = call.list /\ c.given = call.given /\ c.phase = phase /\ c.next = next
      /\ c.answer = a /\ c.queue = <<>> /\ IsCall(c)
  BY <1>1 DEF IsCall
<1>4. InQueue(<<>>) = {}
  BY DEF InQueue
<1> HIDE DEF c
<1>5. Keeps(g, call)
  <2>1. DOMAIN call.given \subseteq DOMAIN H.bm
    BY <1>1 DEF Owns
  <2>2. DOMAIN call.given \cap {a} = {}
    BY DEF Answered
  <2> QED
    BY <1>1, <2>1, <2>2, KeptApart DEF Answered
<1>6. ListsGiven(c) /\ Keeps(g, c)
  BY <1>1, <1>3, <1>5 DEF ListsGiven, Keeps
<1>7. Owns(g, c)
  <2>1. 0 \notin DOMAIN call.given
    BY <1>1 DEF Owns
  <2> QED
    BY <1>3, <1>4, <2>1 DEF Owns, Answers, Answered
<1>8. (c.phase = "rest" /\ Goes(c)) \/ (c.phase = "done" /\ Ends(c))
  BY <1>3 DEF Goes, Ends, Answered
<1>9. Right(g, c)
  BY <1>2, <1>3, <1>6, <1>7, <1>8 DEF Right
<1> QED
  BY <1>2, <1>9 DEF c

\* A call begins with the bitmaps given, and its answer is a new one.
LEMMA BeginsWith ==
    ASSUME Right(H, call), call.phase = "begin"
    PROVE  /\ Sound(H) /\ DOMAIN H.bm = DOMAIN call.given /\ call.queue = <<>> /\ call.answer = 0
           /\ H.bm = bm /\ Fresh(bm) \notin DOMAIN H.bm /\ Fresh(bm) # 0
           /\ call.list \in Seq(DOMAIN H.bm)
<1>1. Sound(H) /\ Owns(H, call) /\ Begins(call) /\ ListsGiven(call)
  BY DEF Right
<1>2. call.answer = 0 /\ call.queue = <<>>
  BY <1>1 DEF Begins
<1>3. DOMAIN H.bm = DOMAIN call.given
  BY <1>1, <1>2 DEF Owns, Answers, InQueue
<1>4. H.bm = bm
  BY DEF H
<1>5. call.list \in Seq(DOMAIN H.bm)
  BY <1>1, <1>3 DEF ListsGiven
<1> QED
  BY <1>1, <1>2, <1>3, <1>4, <1>5, NoBitmapNow

\* It has the answer after that, and nothing in the queue.
LEMMA GoesOnWith ==
    ASSUME Right(H, call), call.phase = "rest"
    PROVE  /\ Sound(H) /\ DOMAIN H.bm = DOMAIN call.given \cup {call.answer} /\ call.queue = <<>>
           /\ call.answer \notin DOMAIN call.given /\ call.answer # 0 /\ call.next \in Nat \ {0}
           /\ call.list \in Seq(DOMAIN call.given)
<1>1. Sound(H) /\ Owns(H, call) /\ Goes(call) /\ ListsGiven(call)
  BY DEF Right
<1>2. /\ call.answer \notin DOMAIN call.given /\ call.answer # 0 /\ call.queue = <<>>
      /\ call.next \in Nat \ {0}
  BY <1>1 DEF Goes
<1>3. DOMAIN H.bm = DOMAIN call.given \cup {call.answer}
  BY <1>1, <1>2 DEF Owns, Answers, InQueue
<1> QED
  BY <1>1, <1>2, <1>3 DEF ListsGiven

LEMMA BeginFewRight == ASSUME Right(H, call), BeginFew PROVE Right(H', call')
<1> DEFINE a == Fresh(bm)
           g == IF call.list = <<>> THEN Create(H, a, FALSE) ELSE Copy(H, a, call.list[1])
<1>1. call.phase = "begin" /\ Len(call.list) <= 1 /\ Become(g)
      /\ call' = [call EXCEPT !.phase = "done", !.next = 0, !.answer = a]
  BY DEF BeginFew, Enter
<1>2. /\ Sound(H) /\ DOMAIN H.bm = DOMAIN call.given /\ call.queue = <<>> /\ call.answer = 0
      /\ a \notin DOMAIN H.bm /\ a # 0 /\ call.list \in Seq(DOMAIN H.bm)
  BY <1>1, BeginsWith
<1> HIDE DEF a
<1>3. Sound(g) /\ DOMAIN g.bm = DOMAIN H.bm \cup {a} /\ Apart(H, g, {a})
  <2>1. CASE call.list = <<>>
    <3>1. g = Create(H, a, FALSE)
      BY <2>1
    <3> HIDE DEF g
    <3> QED
      BY <1>2, <3>1, CreateSound
  <2>2. CASE call.list # <<>>
    <3> DEFINE x == call.list[1]
               f == Copy(H, a, x)
    <3>1. x \in DOMAIN H.bm
      BY <1>2, <2>2
    <3>2. x # a /\ g = f
      BY <1>2, <2>2, <3>1
    <3> HIDE DEF g, x
    <3>3. Sound(f) /\ DOMAIN f.bm = DOMAIN H.bm \cup {a} /\ Apart(H, f, {a})
      BY <1>2, <3>1, <3>2, CopySound
    <3> QED
      BY <3>2, <3>3
  <2> QED
    BY <2>1, <2>2
<1> HIDE DEF g
<1>4. Answered(H, g, call, a)
  BY <1>2, <1>3 DEF Answered
<1> DEFINE phase == "done"
           next == 0
<1>5. call' = [call EXCEPT !.phase = phase, !.next = next, !.answer = a]
  BY <1>1
<1>6. phase = "done" \/ (phase = "rest" /\ next \in Nat \ {0})
  OBVIOUS
<1> HIDE DEF phase, next
<1> QED
  BY <1>1, <1>2, <1>4, <1>5, <1>6, AnswerRight

LEMMA BeginManyRight == ASSUME Right(H, call), BeginMany PROVE Right(H', call')
<1> DEFINE a == Fresh(bm)
           x == call.list[1]
           y == call.list[2]
           op == IF call.op = "xor_many" THEN "xor" ELSE IF Conversion THEN "convert" ELSE "or"
           g == Combined(H, a, x, y, op)
<1>1. call.phase = "begin" /\ Len(call.list) > 1 /\ Become(g)
      /\ call' = [call EXCEPT !.phase = "rest", !.next = 3, !.answer = a]
  BY DEF BeginMany, Enter, roaring_bitmap_lazy_or, roaring_bitmap_lazy_xor
<1>2. /\ Sound(H) /\ DOMAIN H.bm = DOMAIN call.given /\ call.queue = <<>> /\ call.answer = 0
      /\ a \notin DOMAIN H.bm /\ a # 0 /\ call.list \in Seq(DOMAIN H.bm)
  BY <1>1, BeginsWith
<1>3. x \in DOMAIN H.bm /\ y \in DOMAIN H.bm
  BY <1>1, <1>2
<1> HIDE DEF a, x, y, op
<1>4. Sound(g) /\ DOMAIN g.bm = DOMAIN H.bm \cup {a} /\ Apart(H, g, {a})
  BY <1>2, <1>3, CombinedSound
<1> HIDE DEF g
<1>5. Answered(H, g, call, a)
  BY <1>2, <1>4 DEF Answered
<1>6. 3 \in Nat \ {0}
  OBVIOUS
<1> QED
  BY <1>1, <1>2, <1>5, <1>6, AnswerRight

LEMMA NextOfManyRight == ASSUME Right(H, call), NextOfMany PROVE Right(H', call')
<1> DEFINE a == call.answer
           n == call.next
           x == call.list[n]
           op == IF call.op = "xor_many" THEN "xor" ELSE IF Conversion THEN "convert" ELSE "or"
           g == InPlace(H, a, x, op)
<1>1. call.phase = "rest" /\ n <= Len(call.list) /\ Become(g)
      /\ call' = [call EXCEPT !.phase = "rest", !.next = n + 1, !.answer = a]
  BY DEF NextOfMany, Enter, roaring_bitmap_lazy_or_inplace, roaring_bitmap_lazy_xor_inplace
<1>2. /\ Sound(H) /\ DOMAIN H.bm = DOMAIN call.given \cup {a} /\ call.queue = <<>>
      /\ a \notin DOMAIN call.given /\ a # 0 /\ n \in Nat \ {0}
      /\ call.list \in Seq(DOMAIN call.given)
  BY <1>1, GoesOnWith
<1>3. x \in DOMAIN call.given
  BY <1>1, <1>2
<1>4. x # a /\ x \in DOMAIN H.bm /\ a \in DOMAIN H.bm
  BY <1>2, <1>3
<1>5. n + 1 \in Nat \ {0}
  BY <1>2
<1> HIDE DEF a, x, op, n
<1>6. Sound(g) /\ DOMAIN g.bm = DOMAIN H.bm /\ Apart(H, g, {a})
  BY <1>2, <1>4, InPlaceSound
<1> HIDE DEF g
<1>7. Answered(H, g, call, a)
  BY <1>2, <1>6 DEF Answered
<1> DEFINE next == n + 1
<1>8. /\ call' = [call EXCEPT !.phase = "rest", !.next = next, !.answer = a]
      /\ next \in Nat \ {0}
  BY <1>1, <1>5
<1> HIDE DEF next
<1> QED
  BY <1>1, <1>2, <1>7, <1>8, AnswerRight

LEMMA RepairManyRight == ASSUME Right(H, call), RepairMany PROVE Right(H', call')
<1> DEFINE a == call.answer
           g == roaring_bitmap_repair_after_lazy(H, a)
<1>1. call.phase = "rest" /\ Become(g)
      /\ call' = [call EXCEPT !.phase = "done", !.next = 0, !.answer = a]
  BY DEF RepairMany, Enter
<1>2. /\ Sound(H) /\ DOMAIN H.bm = DOMAIN call.given \cup {a} /\ call.queue = <<>>
      /\ a \notin DOMAIN call.given /\ a # 0
  BY <1>1, GoesOnWith
<1>3. a \in DOMAIN H.bm
  BY <1>2
<1> HIDE DEF a
<1>4. Sound(g) /\ DOMAIN g.bm = DOMAIN H.bm /\ Apart(H, g, {a})
  BY <1>2, <1>3, RepairSound
<1> HIDE DEF g
<1>5. Answered(H, g, call, a)
  BY <1>2, <1>4 DEF Answered
<1> DEFINE phase == "done"
           next == 0
<1>6. call' = [call EXCEPT !.phase = phase, !.next = next, !.answer = a]
  BY <1>1
<1>7. phase = "done" \/ (phase = "rest" /\ next \in Nat \ {0})
  OBVIOUS
<1> HIDE DEF phase, next
<1> QED
  BY <1>1, <1>2, <1>5, <1>6, <1>7, AnswerRight

\* The last one of the queue is a temporary bitmap.
LEMMA RepairLastRight == ASSUME Right(H, call), RepairLast PROVE Right(H', call')
<1> DEFINE a == call.queue[1].bitmap
           g == roaring_bitmap_repair_after_lazy(H, a)
           q == call.queue
           given == DOMAIN call.given
           E == Elements(H, given)
           c == call'
<1>1. call.phase = "heap" /\ Len(q) = 1 /\ Become(g)
      /\ c = [call EXCEPT !.phase = "done", !.answer = a, !.queue = <<>>]
  BY DEF RepairLast
<1>2. IsCall(call) /\ ListsGiven(call) /\ Sound(H) /\ Keeps(H, call) /\ Owns(H, call)
        /\ Queues(H, call)
  BY <1>1 DEF Right
<1>3. q \in Seq(E) /\ q[1].temp /\ call.answer = 0
  BY <1>1, <1>2 DEF Queues
<1>4. q[1] \in E /\ DOMAIN q = {1}
  BY <1>1, <1>3
<1>5. a \in DOMAIN H.bm /\ a \notin given
  BY <1>3, <1>4, ElementIs
<1>6. InQueue(q) = {a}
  BY <1>4 DEF InQueue
<1>7. 0 \notin DOMAIN H.bm /\ DOMAIN H.bm = given \cup {a}
  BY <1>2, <1>3, <1>6 DEF Owns, Answers
<1>8. /\ c.list = call.list /\ c.given = call.given /\ c.phase = "done"
      /\ c.answer = a /\ c.queue = <<>> /\ IsCall(c)
  BY <1>1, <1>2 DEF IsCall
<1> HIDE DEF a, q, c, E
<1>9. Sound(g) /\ DOMAIN g.bm = DOMAIN H.bm /\ Apart(H, g, {a})
  BY <1>2, <1>5, RepairSound
<1> HIDE DEF g
<1>10. H' = g
  BY <1>1, <1>9, NowIs
<1>11. Keeps(g, call)
  <2>1. given \subseteq DOMAIN H.bm /\ given \cap {a} = {}
    BY <1>5, <1>7
  <2> QED
    BY <1>2, <1>9, <2>1, KeptApart
<1>12. ListsGiven(c) /\ Keeps(g, c)
  BY <1>2, <1>8, <1>11 DEF ListsGiven, Keeps
<1>13. a # 0 /\ InQueue(<<>>) = {}
  BY <1>5, <1>7 DEF InQueue
<1>14. Owns(g, c) /\ Ends(c)
  BY <1>5, <1>7, <1>8, <1>9, <1>13 DEF Owns, Answers, Ends
<1>15. Right(g, c)
  BY <1>8, <1>9, <1>12, <1>14 DEF Right
<1> QED
  BY <1>10, <1>15 DEF c

\* The bitmaps there are at first are those loaded, and maybe a copy of the first one.
LEMMA RightAtFirst == ASSUME Init PROVE Right(H, call)
<1>1. PICK load \in Loads, list \in Lists,
           op \in {"or_many", "lazy_or", "xor_many", "or_many_heap"} :
      \E n \in {Len(load), Len(load) + 1} :
        LET h == IF n > Len(load) THEN Copy(Loaded(load), n, 1) ELSE Loaded(load)
        IN  /\ n > Len(load) => load # <<>>
            /\ n \in Range(list) \cup {0} /\ Range(list) \subseteq 1..n
            /\ mem = h.mem /\ bm = h.bm
            /\ call = [op |-> op, list |-> list, given |-> [x \in 1..n |-> ValuesAt(h, x)],
                       phase |-> "begin", answer |-> 0, next |-> 0, queue |-> <<>>]
  BY DEF Init
<1>2. PICK n \in {Len(load), Len(load) + 1} :
        LET h == IF n > Len(load) THEN Copy(Loaded(load), n, 1) ELSE Loaded(load)
        IN  /\ n > Len(load) => load # <<>>
            /\ n \in Range(list) \cup {0} /\ Range(list) \subseteq 1..n
            /\ mem = h.mem /\ bm = h.bm
            /\ call = [op |-> op, list |-> list, given |-> [x \in 1..n |-> ValuesAt(h, x)],
                       phase |-> "begin", answer |-> 0, next |-> 0, queue |-> <<>>]
  BY <1>1
<1> DEFINE first == Loaded(load)
           h == IF n > Len(load) THEN Copy(first, n, 1) ELSE first
           given == [x \in 1..n |-> ValuesAt(h, x)]
           c == call
           l == Len(load)
<1>3. /\ n > l => load # <<>>
      /\ Range(list) \subseteq 1..n /\ mem = h.mem /\ bm = h.bm
      /\ c = [op |-> op, list |-> list, given |-> given,
              phase |-> "begin", answer |-> 0, next |-> 0, queue |-> <<>>]
  BY <1>2
<1>4. load \in Seq([at : [Keys -> Operands \cup {Null}], cow : BOOLEAN]) /\ list \in Seq(Nat \ {0})
  BY LazyAssumption
<1>5. l \in Nat /\ (load # <<>> => l # 0)
  BY <1>4
<1>6. Sound(first) /\ DOMAIN first.bm = 1..l
  <2>1. ASSUME NEW x \in 1..l PROVE Stored(load[x])
    <3> DEFINE Bitmaps == [at : [Keys -> Operands \cup {Null}], cow : BOOLEAN]
    <3>0. load \in Seq(Bitmaps)
      BY <1>4
    <3> HIDE DEF Bitmaps
    <3>1. load[x] \in Bitmaps
      BY <3>0
    <3>2. load[x].at \in [Keys -> Operands \cup {Null}]
      BY <3>1 DEF Bitmaps
    <3> DEFINE made == load[x]
    <3> HIDE DEF l, made
    <3>3. \A k \in Keys : made.at[k] = Null \/ Typed(made.at[k])
      BY <3>2, OperandsTyped DEF made
    <3> QED
      BY <3>3 DEF Stored, made
  <2> QED
    BY <1>5, <2>1, LoadedSound
<1>7. n = l \/ n = l + 1
  BY <1>2
<1> HIDE DEF first, l, c, given
<1>8. Sound(h) /\ DOMAIN h.bm = 1..n
  <2>1. CASE n = l
    <3>1. h = first
      BY <1>5, <2>1 DEF l, first
    <3> QED
      BY <1>6, <2>1, <3>1
  <2>2. CASE n = l + 1
    <3> DEFINE f == Copy(first, n, 1)
    <3>1. h = f /\ l # 0
      BY <1>3, <1>5, <2>2 DEF l, first
    <3>2. 1 \in 1..l /\ n # 1 /\ n \notin 1..l /\ 1..l \cup {n} = 1..n
      BY <1>5, <2>2, <3>1
    <3> HIDE DEF f, h
    <3>3. Sound(f) /\ DOMAIN f.bm = DOMAIN first.bm \cup {n}
      BY <1>6, <3>2, CopySound DEF f
    <3> QED
      BY <1>6, <3>1, <3>2, <3>3
  <2> QED
    BY <1>7, <2>1, <2>2
<1> HIDE DEF h
<1>9. H = h
  BY <1>3, <1>8 DEF H, Sound, IsHeap
<1>10. /\ c.list = list /\ c.given = given /\ c.phase = "begin" /\ c.answer = 0
       /\ c.queue = <<>> /\ IsCall(c)
  BY <1>3 DEF IsCall
<1>11. DOMAIN given = 1..n
  BY DEF given
<1>12. list \in Seq(1..n)
  <2>1. \A i \in 1..Len(list) : list[i] \in 1..n
    BY <1>3, <1>4 DEF Range
  <2> QED
    BY <1>4, <2>1
<1>13. Keeps(h, c)
  BY <1>10 DEF Keeps, given
<1>14. n \in Nat /\ 0 \notin 1..n
  BY <1>5, <1>7
<1>15. Owns(h, c) /\ Begins(c) /\ ListsGiven(c)
  BY <1>8, <1>10, <1>11, <1>12, <1>14 DEF Owns, Begins, ListsGiven, Answers, InQueue
<1>16. Right(h, c)
  BY <1>8, <1>10, <1>13, <1>15 DEF Right
<1> QED
  BY <1>9, <1>16 DEF c

LEMMA RightOn == ASSUME Right(H, call), [Next]_vars PROVE Right(H', call')
<1>1. CASE UNCHANGED vars
  <2>1. H' = H /\ call' = call
    BY <1>1 DEF vars, H
  <2> QED
    BY <2>1
<1>2. CASE BeginFew
  BY <1>2, BeginFewRight
<1>3. CASE BeginMany
  BY <1>3, BeginManyRight
<1>4. CASE NextOfMany
  BY <1>4, NextOfManyRight
<1>5. CASE RepairMany
  BY <1>5, RepairManyRight
<1>6. CASE BeginHeap
  BY <1>6, BeginHeapRight
<1>7. CASE MergeTwo
  BY <1>7, MergeTwoRight
<1>8. CASE RepairLast
  BY <1>8, RepairLastRight
<1> QED
  BY <1>1, <1>2, <1>3, <1>4, <1>5, <1>6, <1>7, <1>8 DEF Next
-------------------------------------------------------------------------------
\* At every step of a call all cells are counted right, and the bitmaps there are are those
\* given, the answer and those in the queue.
THEOREM AlwaysRight == Spec => []Right(H, call)
<1>1. Init => Right(H, call)
  BY RightAtFirst
<1>2. Right(H, call) /\ [Next]_vars => Right(H, call)'
  <2>1. ASSUME Right(H, call), [Next]_vars PROVE Right(H', call')
    BY <2>1, RightOn
  <2> QED
    BY <2>1
<1> QED
  BY <1>1, <1>2, PTL DEF Spec

LEMMA RightMemory == ASSUME Right(H, call) PROVE MemoryExact
<1>1. Sound(H) /\ Owns(H, call) /\ H.mem = mem /\ H.bm = bm
  BY DEF Right, H
<1>2. \A x, k : SlotOf(H, x, k) = bm[x].at[k]
  BY <1>1 DEF SlotOf
<1>3. \A x \in DOMAIN bm, k \in Keys : bm[x].at[k] # NoSlot => bm[x].at[k].cell \in DOMAIN mem
  BY <1>1, <1>2 DEF Sound
<1>4. ASSUME NEW n \in DOMAIN mem
      PROVE  LET held == {p \in (DOMAIN bm) \X Keys : bm[p[1]].at[p[2]].cell = n}
             IN  \/ /\ mem[n].refs = 0 /\ Cardinality(held) = 1
                    /\ \A p \in held : ~bm[p[1]].at[p[2]].shared
                 \/ /\ mem[n].refs > 0 /\ Cardinality(held) = mem[n].refs
                    /\ \A p \in held : bm[p[1]].at[p[2]].shared
  <2> DEFINE held == {p \in (DOMAIN bm) \X Keys : bm[p[1]].at[p[2]].cell = n}
             r == mem[n].refs
  <2>1. held = Holders(H, n)
    BY <1>1, <1>2 DEF Holders
  <2>2. Fits(H, n) /\ r \in Nat
    BY <1>1, <1>4 DEF Sound, IsHeap
  <2>3. Cardinality(held) = IF r = 0 THEN 1 ELSE r
    BY <1>1, <2>1, <2>2 DEF Fits
  <2>4. ASSUME NEW p \in held PROVE bm[p[1]].at[p[2]].shared <=> r # 0
    <3>1. p[1] \in DOMAIN H.bm /\ p[2] \in Keys /\ SlotOf(H, p[1], p[2]).cell = n
      BY <1>1, <1>2
    <3>2. SlotOf(H, p[1], p[2]).shared <=> H.mem[n].refs # 0
      BY <2>2, <3>1 DEF Fits
    <3> QED
      BY <1>1, <1>2, <3>2
  <2> HIDE DEF held, r
  <2>5. CASE r = 0
    <3>1. Cardinality(held) = 1 /\ \A p \in held : ~bm[p[1]].at[p[2]].shared
      BY <2>3, <2>4, <2>5
    <3> QED
      BY <2>5, <3>1 DEF held, r
  <2>6. CASE r # 0
    <3>1. r > 0 /\ Cardinality(held) = r /\ \A p \in held : bm[p[1]].at[p[2]].shared
      BY <2>2, <2>3, <2>4, <2>6
    <3> QED
      BY <3>1 DEF held, r
  <2> QED
    BY <2>5, <2>6
<1>5. DOMAIN bm = DOMAIN call.given
          \cup (IF call.answer = 0 THEN {} ELSE {call.answer})
          \cup {call.queue[i].bitmap : i \in DOMAIN call.queue}
  BY <1>1 DEF Owns, Answers, InQueue
<1> QED
  BY <1>3, <1>4, <1>5 DEF MemoryExact

\* No container leaks or is freed too early, and none is in two slots without a wrapper
\* that counts them (roaring.c 675-709 and 2301-2652, roaring_priority_queue.c).
THEOREM MemoryExactAlways == Spec => []MemoryExact
<1>1. Right(H, call) => MemoryExact
  BY RightMemory
<1> QED
  BY <1>1, AlwaysRight, PTL

\* The bitmaps that are combined have the numbers they were given with, whatever of theirs
\* is shared with the answer, written in place or consumed (roaring.h 203-262 and 703-761).
THEOREM GivenKept == Spec => [](\A x \in DOMAIN call.given : ValuesAt(H, x) = call.given[x])
<1>1. Right(H, call) => \A x \in DOMAIN call.given : ValuesAt(H, x) = call.given[x]
  BY DEF Right, Keeps
<1> QED
  BY <1>1, AlwaysRight, PTL

LEMMA RightQueue == ASSUME Right(H, call) PROVE QueueInOrder
<1> DEFINE q == call.queue
           given == DOMAIN call.given
           E == Elements(H, given)
<1>1. SUFFICES ASSUME call.phase = "heap"
               PROVE  /\ \A i \in DOMAIN q :
                            /\ i > 1 => q[i \div 2].size <= q[i].size
                            /\ q[i].size = PortableSize(H, q[i].bitmap)
                            /\ q[i].temp = (q[i].bitmap \notin given)
                      /\ \A i, j \in DOMAIN q : i # j /\ q[i].temp => q[i].bitmap # q[j].bitmap
  BY DEF QueueInOrder
<1>2. q \in Seq(E) /\ TempsApart(q) /\ Ordered(q, 1)
  BY <1>1 DEF Right, Queues
<1> HIDE DEF q
<1>3. ASSUME NEW e \in E
      PROVE  e.size = PortableSize(H, e.bitmap) /\ e.temp = (e.bitmap \notin given)
  BY DEF Elements
<1> HIDE DEF E, given
<1>4. Len(q) \in Nat /\ DOMAIN q = 1..Len(q) /\ \A i \in DOMAIN q : q[i] \in E
  BY <1>2
<1>5. ASSUME NEW i \in DOMAIN q, i > 1 PROVE q[i \div 2].size <= q[i].size
  <2> DEFINE m == Half(i)
             n == Len(q)
  <2>1. i \in Nat /\ n \in Nat /\ i <= n /\ i \in 1..n
    BY <1>4
  <2>2. m \in Nat /\ m >= 1 /\ m < i /\ Child(m, i)
    BY <1>5, <2>1, HalfIs
  <2>3. i \div 2 = m
    BY DEF Half
  <2> HIDE DEF m, n
  <2>4. m \in 1..n
    BY <2>1, <2>2
  <2>5. q[m].size <= q[i].size
    BY <1>2, <2>1, <2>2, <2>4 DEF Ordered, n
  <2> QED
    BY <2>3, <2>5
<1>6. \A i, j \in DOMAIN q : i # j /\ q[i].temp => q[i].bitmap # q[j].bitmap
  BY <1>2 DEF TempsApart
<1> QED
  BY <1>3, <1>4, <1>5, <1>6

\* In every heap of roaring_bitmap_or_many_heap the smallest bitmap is on top, by the
\* sizes that the bitmaps have while the heap is used, and a bitmap is marked temporary
\* exactly if it is not the caller's (roaring_priority_queue.c).
THEOREM QueueInOrderAlways == Spec => []QueueInOrder
<1>1. Right(H, call) => QueueInOrder
  BY RightQueue
<1> QED
  BY <1>1, AlwaysRight, PTL
===============================================================================
