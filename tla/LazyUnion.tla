------------------------------- MODULE LazyUnion -------------------------------
(* Unions and differences of many bitmaps (roaring.c 675-709 and 2301-2652,     *)
(* roaring_priority_queue.c).  They put off counting the numbers of bitsets and *)
(* choosing the kinds of containers until roaring_bitmap_repair_after_lazy.     *)
(*                                                                              *)
(* Memory is explicit.  A bitmap has a slot for each of its keys: the cell of a *)
(* container, and whether the slot holds it by way of a wrapper it shares with  *)
(* other slots.  A cell counts the slots that share it, as the wrapper does.    *)
EXTENDS ContainerKinds

CONSTANTS
    MaxKey,         \* the greatest key
    LazyLowerBound, \* ARRAY_LAZY_LOWERBOUND
    Loads,          \* the bitmaps there are at first: sequences of [at, cow]
    Lists           \* what is combined: sequences of numbers of bitmaps

Keys == 0..MaxKey

ASSUME LazyAssumption ==
    /\ MaxKey \in Nat
    /\ LazyLowerBound \in 0..MaxArray
    /\ \A load \in Loads : load \in Seq([at : [Keys -> Operands \cup {Null}], cow : BOOLEAN])
    /\ Lists \subseteq Seq(Nat \ {0})

VARIABLES
    mem,    \* cell -> [con, refs]; refs is 0 for a container no wrapper holds
    bm,     \* bitmap -> [at, cow]; at is a slot for each key, or NoSlot
    call    \* the call: op and list, the numbers given, phase, answer, next, queue
vars == <<mem, bm, call>>

Own(n) == [cell |-> n, shared |-> FALSE]
NoSlot == Own(0)
Unknown == -1
Dirty(vals) == BitsetOf(vals, Unknown)
-------------------------------------------------------------------------------
(* Containers *)

\* array_array_container_lazy_union and its in-place form, and ..._lazy_xor.
LazyArrays(S, T, vals) ==
    IF Cardinality(S) + Cardinality(T) <= LazyLowerBound THEN ArrayOf(vals) ELSE Dirty(vals)

\* container_lazy_or.  The union of runs and numbers stays runs however many.
LazyOr(d, e) ==
    LET run == OfKind(d, e, "run")
        arr == OfKind(d, e, "array")
        all == ValuesOf(d) \cup ValuesOf(e)
    IN  CASE Kinds(d, e) = {"run"} -> Efficient(UnionRuns(d.runs, e.runs))
          [] Kinds(d, e) = {"run", "array"} -> RunsAs(UnionRuns(run.runs, Singles(arr.vals)))
          [] Kinds(d, e) = {"array"} -> LazyArrays(d.vals, e.vals, all)
          [] "bitset" \in Kinds(d, e) ->
                IF "run" \in Kinds(d, e) /\ IsFullRun(run.runs) THEN run ELSE Dirty(all)

\* container_lazy_ior.  Two bitsets are counted (LAZY_OR_BITSET_CONVERSION_TO_FULL).
LazyIor(d, e) ==
    LET all == ValuesOf(d) \cup ValuesOf(e)
    IN  IF Kinds(d, e) = {"bitset"}
        THEN IF all = Numbers THEN RunsAs(FullRun) ELSE BitsetOf(all, Cardinality(all))
        ELSE LazyOr(d, e)

\* container_lazy_xor.
LazyXor(d, e) ==
    LET run == OfKind(d, e, "run")
        arr == OfKind(d, e, "array")
        one == SymDiff(ValuesOf(d), ValuesOf(e))
    IN  CASE Kinds(d, e) = {"run"} -> Efficient(XorRuns(d.runs, e.runs))
          [] Kinds(d, e) = {"run", "array"} -> RunsAs(XorRuns(run.runs, Singles(arr.vals)))
          [] Kinds(d, e) = {"array"} -> LazyArrays(d.vals, e.vals, one)
          [] "bitset" \in Kinds(d, e) -> Dirty(one)

Counted(d) == IF d.kind = "bitset" /\ d.card = Unknown
              THEN BitsetOf(d.vals, Cardinality(d.vals)) ELSE d

\* container_lazy_ixor.  All but two bitsets are left to container_ixor, which needs
\* the cardinality of the bitset.
\* Variant: whether it is known or not.
LazyIxorUncounted(d, e) ==
    IF Kinds(d, e) = {"bitset"} THEN Dirty(SymDiff(d.vals, e.vals)) ELSE Xor(d, e)
LazyIxor(d, e) ==
    IF Kinds(d, e) = {"bitset"} THEN Dirty(SymDiff(d.vals, e.vals)) ELSE Xor(Counted(d), e)

\* container_to_bitset, and container_nonzero_cardinality, which looks at the words of
\* a bitset that is not counted.
ToBitset(d) == BitsetOf(ValuesOf(d), CardOf(d))
Nonzero(d) == IF d.kind = "bitset" /\ d.card = Unknown THEN d.vals # {} ELSE CardOf(d) # 0

\* container_repair_after_lazy, of a container that is not shared.
Repaired(d) ==
    CASE d.kind = "bitset" -> ByCard(d.vals, Cardinality(d.vals))
      [] d.kind = "array" -> d
      [] d.kind = "run" -> Efficient(d.runs)
-------------------------------------------------------------------------------
(* Memory.  h is [mem, bm], and these give a new h and maybe a slot. *)

Con(h, slot) == h.mem[slot.cell].con
SlotOf(h, x, k) == h.bm[x].at[k]
Held(h, x, k) == IF SlotOf(h, x, k) = NoSlot THEN Null ELSE Con(h, SlotOf(h, x, k))
HeldBy(h, x) == [k \in Keys |-> Held(h, x, k)]
Fresh(m) == CHOOSE n \in 1..(Cardinality(DOMAIN m) + 1) : n \notin DOMAIN m
Without(f, n) == [m \in DOMAIN f \ {n} |-> f[m]]
With(f, n, v) == [m \in DOMAIN f \cup {n} |-> IF m = n THEN v ELSE f[m]]

Put(h, x, k, slot) == [h EXCEPT !.bm[x].at[k] = slot]
Write(h, slot, d) == [h EXCEPT !.mem[slot.cell].con = d]

\* A new container, in the slot for key k of bitmap x.
PutNew(h, x, k, d) ==
    LET n == Fresh(h.mem)
    IN  Put([h EXCEPT !.mem = With(@, n, [con |-> d, refs |-> 0])], x, k, Own(n))

\* container_free of what a slot holds; of a wrapper, the last one frees the container.
Freed(h, x, k) ==
    LET slot == SlotOf(h, x, k)
    IN  IF slot.shared /\ h.mem[slot.cell].refs > 1
        THEN Put([h EXCEPT !.mem[slot.cell].refs = @ - 1], x, k, NoSlot)
        ELSE Put([h EXCEPT !.mem = Without(@, slot.cell)], x, k, NoSlot)

\* get_writable_copy_if_shared: the last one has the container to itself.
Unshared(h, x, k) ==
    LET slot == SlotOf(h, x, k)
    IN  IF ~slot.shared THEN h
        ELSE IF h.mem[slot.cell].refs = 1
        THEN Put([h EXCEPT !.mem[slot.cell].refs = 0], x, k, Own(slot.cell))
        ELSE PutNew(Freed(h, x, k), x, k, Con(h, slot))

\* get_copy_of_container of key k of y into x: under copy-on-write y's slot is shared
\* as well from now on.
CopyKey(h, x, y, k) ==
    LET slot == SlotOf(h, y, k)
        wrapped == [cell |-> slot.cell, shared |-> TRUE]
    IN  IF slot = NoSlot THEN h
        ELSE IF h.bm[y].cow
        THEN Put(Put([h EXCEPT !.mem[slot.cell].refs = IF slot.shared THEN @ + 1 ELSE 2],
                     x, k, wrapped), y, k, wrapped)
        ELSE PutNew(h, x, k, Con(h, slot))

\* The keys in order, one after another.
ForKeys(h, Do(_, _)) ==
    LET done[k \in Keys] == Do(IF k = 0 THEN h ELSE done[k - 1], k)
    IN  done[MaxKey]
Size(h, x) == Cardinality({k \in Keys : SlotOf(h, x, k) # NoSlot})
-------------------------------------------------------------------------------
(* Bitmaps x and y; a is a new bitmap for the answer *)

Create(h, a, cow) ==
    [h EXCEPT !.bm = With(@, a, [at |-> [k \in Keys |-> NoSlot], cow |-> cow])]

\* roaring_bitmap_copy, and roaring_bitmap_overwrite of an empty bitmap.
Copy(h, a, x) == ForKeys(Create(h, a, h.bm[x].cow), LAMBDA g, k : CopyKey(g, a, x, k))

\* The container for a key of both bitmaps; with "convert", a bitset whatever they are.
Joined(op, d, e) ==
    IF op = "xor" THEN LazyXor(d, e)
    ELSE IF op = "convert" /\ "bitset" \notin Kinds(d, e) THEN LazyIor(ToBitset(d), e)
    ELSE LazyOr(d, e)

\* What lazy_or and lazy_xor do, which walk the keys in the same way.
CombineKey(h, a, x, y, op, k) ==
    IF SlotOf(h, x, k) # NoSlot /\ SlotOf(h, y, k) # NoSlot
    THEN LET d == Joined(op, Con(h, SlotOf(h, x, k)), Con(h, SlotOf(h, y, k)))
         IN  IF Nonzero(d) THEN PutNew(h, a, k, d) ELSE h
    ELSE IF SlotOf(h, x, k) # NoSlot THEN CopyKey(h, a, x, k)
    ELSE CopyKey(h, a, y, k)
Combined(h, a, x, y, op) ==
    IF Size(h, x) = 0 THEN Copy(h, a, y)
    ELSE IF Size(h, y) = 0 THEN Copy(h, a, x)
    ELSE ForKeys(Create(h, a, h.bm[x].cow \/ h.bm[y].cow),
                 LAMBDA g, k : CombineKey(g, a, x, y, op, k))

roaring_bitmap_lazy_or(h, a, x, y, bitsetconversion) ==
    Combined(h, a, x, y, IF bitsetconversion THEN "convert" ELSE "or")
roaring_bitmap_lazy_xor(h, a, x, y) == Combined(h, a, x, y, "xor")

\* A key of both, in place. A container that is not written in place is freed, and so takes
\* the cell of the old one here.
OrKey(h, x, y, k, bitsetconversion) ==
    LET slot == SlotOf(h, x, k)
        d == Con(h, slot)
        Into(g) == Write(g, SlotOf(g, x, k), LazyIor(Con(g, SlotOf(g, x, k)), Con(g, SlotOf(g, y, k))))
    IN  IF CardOf(d) = U THEN h
        ELSE IF bitsetconversion /\ d.kind # "bitset" THEN Into(PutNew(Freed(h, x, k), x, k, ToBitset(d)))
        ELSE Into(Unshared(h, x, k))

XorKey(h, x, y, k) ==
    LET slot == SlotOf(h, x, k)
        e == Con(h, SlotOf(h, y, k))
        new == IF slot.shared THEN PutNew(Freed(h, x, k), x, k, LazyXor(Con(h, slot), e))
               ELSE Write(h, slot, LazyIxor(Con(h, slot), e))
    IN  IF Nonzero(Con(new, SlotOf(new, x, k))) THEN new
        ELSE Freed(new, x, k)

\* What lazy_or_inplace and lazy_xor_inplace do, which walk the keys in the same way.
InPlaceKey(h, x, y, op, k) ==
    IF SlotOf(h, y, k) = NoSlot THEN h
    ELSE IF SlotOf(h, x, k) = NoSlot THEN CopyKey(h, x, y, k)
    ELSE IF op = "xor" THEN XorKey(h, x, y, k)
    ELSE OrKey(h, x, y, k, op = "convert")
InPlace(h, x, y, op) ==
    IF Size(h, y) = 0 THEN h
    ELSE IF Size(h, x) = 0 THEN Copy(h, x, y)
    ELSE ForKeys(h, LAMBDA g, k : InPlaceKey(g, x, y, op, k))

roaring_bitmap_lazy_or_inplace(h, x, y, bitsetconversion) ==
    InPlace(h, x, y, IF bitsetconversion THEN "convert" ELSE "or")
roaring_bitmap_lazy_xor_inplace(h, x, y) == InPlace(h, x, y, "xor")

RepairKey(h, x, k) ==
    LET u == Unshared(h, x, k)
    IN  IF SlotOf(h, x, k) = NoSlot THEN h
        ELSE Write(u, SlotOf(u, x, k), Repaired(Con(u, SlotOf(u, x, k))))
roaring_bitmap_repair_after_lazy(h, x) == ForKeys(h, LAMBDA g, k : RepairKey(g, x, k))

\* roaring_bitmap_free: all slots are given back.
FreeKey(h, x, k) == IF SlotOf(h, x, k) = NoSlot THEN h ELSE Freed(h, x, k)
FreeBitmap(h, x) ==
    [ForKeys(h, LAMBDA g, k : FreeKey(g, x, k)) EXCEPT !.bm = Without(@, x)]
-------------------------------------------------------------------------------
(* lazy_or_from_lazy_inputs: both x and y are consumed. A slot of theirs is moved to the
   answer, or used up; nothing of them is left. *)

Moved(h, a, x, k) == Put(Put(h, a, k, SlotOf(h, x, k)), x, k, NoSlot)

\* The union is made in the bitset, if one of the two is, and the other one is freed.
\* Variant: the other one is kept.
MergedKeyKept(h, a, x, y, k) ==
    LET u == Unshared(Unshared(h, x, k), y, k)
        d == Con(u, SlotOf(u, x, k))
        e == Con(u, SlotOf(u, y, k))
        into == IF e.kind = "bitset" /\ d.kind # "bitset" THEN y ELSE x
        from == IF into = x THEN y ELSE x
        done == Write(u, SlotOf(u, into, k), IF into = x THEN LazyIor(d, e) ELSE LazyIor(e, d))
    IN  Moved(Put(done, from, k, NoSlot), a, into, k)
MergedKey(h, a, x, y, k) ==
    LET u == Unshared(Unshared(h, x, k), y, k)
        d == Con(u, SlotOf(u, x, k))
        e == Con(u, SlotOf(u, y, k))
        into == IF e.kind = "bitset" /\ d.kind # "bitset" THEN y ELSE x
        from == IF into = x THEN y ELSE x
        done == Write(u, SlotOf(u, into, k), IF into = x THEN LazyIor(d, e) ELSE LazyIor(e, d))
    IN  Moved(Freed(done, from, k), a, into, k)

ConsumeKey(h, a, x, y, k) ==
    IF SlotOf(h, x, k) = NoSlot /\ SlotOf(h, y, k) = NoSlot THEN h
    ELSE IF SlotOf(h, y, k) = NoSlot THEN Moved(h, a, x, k)
    ELSE IF SlotOf(h, x, k) = NoSlot THEN Moved(h, a, y, k)
    ELSE MergedKey(h, a, x, y, k)

\* The answer and what is left of the bitmaps; in degenerate cases it is one of the two.
lazy_or_from_lazy_inputs(h, a, x, y) ==
    LET all == ForKeys(Create(h, a, FALSE), LAMBDA g, k : ConsumeKey(g, a, x, y, k))
    IN  IF Size(h, x) = 0 THEN [heap |-> FreeBitmap(h, x), new |-> y]
        ELSE IF Size(h, y) = 0 THEN [heap |-> FreeBitmap(h, y), new |-> x]
        ELSE [heap |-> [all EXCEPT !.bm = Without(Without(@, x), y)], new |-> a]
-------------------------------------------------------------------------------
(* The priority queue: elements [size, temp, bitmap], counted from 1 *)

\* roaring_bitmap_portable_size_in_bytes; few containers with runs need no offsets.
NO_OFFSET_THRESHOLD == 4
PortableBytes(held) ==
    LET cons == {k \in Keys : held[k] # Null}
        Bytes(d) == CASE d.kind = "array" -> 2 * Cardinality(d.vals)
                      [] d.kind = "bitset" -> BitsetBytes
                      [] d.kind = "run" -> RunBytes(Len(d.runs))
        hasrun == \E k \in cons : held[k].kind = "run"
        n == Cardinality(cons)
    IN  (IF hasrun THEN 4 + (n + 7) \div 8 + (IF n < NO_OFFSET_THRESHOLD THEN 4 * n ELSE 8 * n)
         ELSE 8 + 8 * n)
        + MapThenSumSet(LAMBDA k : Bytes(held[k]), cons)
PortableSize(h, x) == PortableBytes(HeldBy(h, x))

pq_add(pq, t) ==
    LET up[i \in 1..(Len(pq) + 1)] ==
            IF i = 1 \/ t.size >= Append(pq, t)[i \div 2].size
            THEN [Append(pq, t) EXCEPT ![i] = t]
            ELSE [up[i \div 2] EXCEPT ![i] = pq[i \div 2]]
    IN  up[Len(pq) + 1]

percolate_down(pq, i) ==
    LET size == Len(pq)
        Best(l) == IF l < size /\ pq[l + 1].size < pq[l].size THEN l + 1 ELSE l
        down[j \in 1..size] ==
            IF 2 * j > size \/ pq[Best(2 * j)].size >= pq[i].size
            THEN [pq EXCEPT ![j] = pq[i]]
            ELSE [down[Best(2 * j)] EXCEPT ![j] = pq[Best(2 * j)]]
    IN  down[i]

\* The greatest place first; those in the lower half have no children.
create_pq(h, list) ==
    LET n == Len(list)
        elements == [i \in 1..n |->
                        [size |-> PortableSize(h, list[i]), temp |-> FALSE, bitmap |-> list[i]]]
        placed[i \in 1..(n + 1)] == IF i > n THEN elements ELSE percolate_down(placed[i + 1], i)
    IN  placed[1]

\* What is left of the queue without its first element.
pq_poll(pq) ==
    IF Len(pq) = 1 THEN <<>> ELSE percolate_down(Front([pq EXCEPT ![1] = Last(pq)]), 1)
-------------------------------------------------------------------------------
(* Calls *)

H == [mem |-> mem, bm |-> bm]
Become(h) == mem' = h.mem /\ bm' = h.bm
ValuesAt(h, x) == [k \in Keys |-> ValuesOf(Held(h, x, k))]

LoadKey(h, x, made, k) == IF made.at[k] = Null THEN h ELSE PutNew(h, x, k, made.at[k])
Load(h, x, made) == ForKeys(Create(h, x, made.cow), LAMBDA g, k : LoadKey(g, x, made, k))
Loaded(load) ==
    LET loaded[x \in 0..Len(load)] ==
            IF x = 0 THEN [mem |-> <<>>, bm |-> <<>>] ELSE Load(loaded[x - 1], x, load[x])
    IN  loaded[Len(load)]

\* The last bitmap of the list, which has one to n of them, may be a copy of the first one.
Init ==
    \E load \in Loads, list \in Lists, op \in {"or_many", "lazy_or", "xor_many", "or_many_heap"} :
    \E n \in {Len(load), Len(load) + 1} :
        LET h == IF n > Len(load) THEN Copy(Loaded(load), n, 1) ELSE Loaded(load)
        IN  /\ n > Len(load) => load # <<>>
            /\ n \in Range(list) \cup {0} /\ Range(list) \subseteq 1..n
            /\ mem = h.mem /\ bm = h.bm
            /\ call = [op |-> op, list |-> list, given |-> [x \in 1..n |-> ValuesAt(h, x)],
                       phase |-> "begin", answer |-> 0, next |-> 0, queue |-> <<>>]

Conversion == call.op = "or_many"   \* LAZY_OR_BITSET_CONVERSION
Enter(phase, next, answer) ==
    call' = [call EXCEPT !.phase = phase, !.next = next, !.answer = answer]

\* Nothing, or one bitmap: all three.
BeginFew ==
    /\ call.phase = "begin" /\ Len(call.list) <= 1
    /\ LET a == Fresh(bm)
       IN  /\ Become(IF call.list = <<>> THEN Create(H, a, FALSE) ELSE Copy(H, a, call.list[1]))
           /\ Enter("done", 0, a)

\* roaring_bitmap_or_many and roaring_bitmap_xor_many; without bitset conversion, lazy
\* unions as the caller may make them by himself.
BeginMany ==
    /\ call.phase = "begin" /\ Len(call.list) > 1 /\ call.op # "or_many_heap"
    /\ LET a == Fresh(bm)
           x == call.list[1]
           y == call.list[2]
       IN  /\ Become(IF call.op = "xor_many" THEN roaring_bitmap_lazy_xor(H, a, x, y)
                     ELSE roaring_bitmap_lazy_or(H, a, x, y, Conversion))
           /\ Enter("rest", 3, a)
NextOfMany ==
    /\ call.phase = "rest" /\ call.next <= Len(call.list)
    /\ LET x == call.list[call.next]
       IN  Become(IF call.op = "xor_many" THEN roaring_bitmap_lazy_xor_inplace(H, call.answer, x)
                  ELSE roaring_bitmap_lazy_or_inplace(H, call.answer, x, Conversion))
    /\ Enter("rest", call.next + 1, call.answer)
RepairMany ==
    /\ call.phase = "rest" /\ call.next > Len(call.list)
    /\ Become(roaring_bitmap_repair_after_lazy(H, call.answer))
    /\ Enter("done", 0, call.answer)

\* roaring_bitmap_or_many_heap.
BeginHeap ==
    /\ call.phase = "begin" /\ Len(call.list) > 1 /\ call.op = "or_many_heap"
    /\ call' = [call EXCEPT !.phase = "heap", !.queue = create_pq(H, call.list)]
    /\ UNCHANGED <<mem, bm>>

\* The union of the two smallest ones: the heap it makes, and the bitmap it is in.
UnionOf(x1, x2) ==
    LET a == Fresh(bm)
        x == x1.bitmap
        y == x2.bitmap
    IN  CASE x1.temp /\ x2.temp -> lazy_or_from_lazy_inputs(H, a, x, y)
          [] x2.temp /\ ~x1.temp ->
                [heap |-> roaring_bitmap_lazy_or_inplace(H, y, x, FALSE), new |-> y]
          [] x1.temp /\ ~x2.temp ->
                [heap |-> roaring_bitmap_lazy_or_inplace(H, x, y, FALSE), new |-> x]
          [] ~x1.temp /\ ~x2.temp ->
                [heap |-> roaring_bitmap_lazy_or(H, a, x, y, FALSE), new |-> a]

\* Variant: a temporary bitmap goes back with the size it had.
MergeTwoStale ==
    /\ call.phase = "heap" /\ Len(call.queue) > 1
    /\ LET x1 == call.queue[1]
           x2 == pq_poll(call.queue)[1]
           rest == pq_poll(pq_poll(call.queue))
           union == UnionOf(x1, x2)
           element == [size |-> IF x2.temp THEN x2.size ELSE PortableSize(union.heap, union.new),
                       temp |-> TRUE, bitmap |-> union.new]
       IN  /\ Become(union.heap)
           /\ call' = [call EXCEPT !.queue = pq_add(rest, element)]
MergeTwo ==
    /\ call.phase = "heap" /\ Len(call.queue) > 1
    /\ LET x1 == call.queue[1]
           x2 == pq_poll(call.queue)[1]
           rest == pq_poll(pq_poll(call.queue))
           union == UnionOf(x1, x2)
           element == [size |-> PortableSize(union.heap, union.new),
                       temp |-> TRUE, bitmap |-> union.new]
       IN  /\ Become(union.heap)
           /\ call' = [call EXCEPT !.queue = pq_add(rest, element)]
RepairLast ==
    /\ call.phase = "heap" /\ Len(call.queue) = 1
    /\ LET a == call.queue[1].bitmap
       IN  /\ Become(roaring_bitmap_repair_after_lazy(H, a))
           /\ call' = [call EXCEPT !.phase = "done", !.answer = a, !.queue = <<>>]

Next == BeginFew \/ BeginMany \/ NextOfMany \/ RepairMany \/ BeginHeap \/ MergeTwo \/ RepairLast

Spec == Init /\ [][Next]_vars
-------------------------------------------------------------------------------
\* The numbers of key k that the list asks for: those of an odd number of its bitmaps, or
\* of any of them.
Asked(k) ==
    LET Holders(v) == {i \in DOMAIN call.list : v \in call.given[call.list[i]][k]}
    IN  {v \in Numbers : IF call.op = "xor_many" THEN Cardinality(Holders(v)) % 2 = 1
                         ELSE Holders(v) # {}}

\* When a call returns, its answer has exactly the numbers asked for, every container of a
\* kind the library makes with an exact cardinality, and the bitmaps that were combined
\* have the numbers they had (roaring.h:203-262 and 703-761).
ManyExact ==
    /\ \A x \in DOMAIN call.given : ValuesAt(H, x) = call.given[x]
    /\ call.phase = "done" =>
        \A k \in Keys : LET slot == SlotOf(H, call.answer, k)
                        IN  /\ ValuesAt(H, call.answer)[k] = Asked(k)
                            /\ slot # NoSlot => Con(H, slot) \in Operands

\* No container leaks or is freed too early, and none is in two slots without a wrapper
\* that counts them, while temporary bitmaps are made, moved into one another and freed.
MemoryExact ==
    LET Holders(n) == {p \in (DOMAIN bm) \X Keys : bm[p[1]].at[p[2]].cell = n}
    IN  /\ \A x \in DOMAIN bm, k \in Keys :
            bm[x].at[k] # NoSlot => bm[x].at[k].cell \in DOMAIN mem
        /\ \A n \in DOMAIN mem :
            \/ /\ mem[n].refs = 0 /\ Cardinality(Holders(n)) = 1
               /\ \A p \in Holders(n) : ~bm[p[1]].at[p[2]].shared
            \/ /\ mem[n].refs > 0 /\ Cardinality(Holders(n)) = mem[n].refs
               /\ \A p \in Holders(n) : bm[p[1]].at[p[2]].shared
        /\ DOMAIN bm = DOMAIN call.given
            \cup (IF call.answer = 0 THEN {} ELSE {call.answer})
            \cup {call.queue[i].bitmap : i \in DOMAIN call.queue}

\* The queue is a heap by the sizes that the bitmaps in it have, and every bitmap that is
\* in it is there once for each time it is in the list and still to be combined; those
\* that the caller owns are never taken for temporary ones.
QueueInOrder ==
    call.phase = "heap" =>
        /\ \A i \in DOMAIN call.queue :
            /\ i > 1 => call.queue[i \div 2].size <= call.queue[i].size
            /\ call.queue[i].size = PortableSize(H, call.queue[i].bitmap)
            /\ call.queue[i].temp = (call.queue[i].bitmap \notin DOMAIN call.given)
        /\ \A i, j \in DOMAIN call.queue :
            i # j /\ call.queue[i].temp => call.queue[i].bitmap # call.queue[j].bitmap
===============================================================================
