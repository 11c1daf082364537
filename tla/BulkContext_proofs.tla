-------------------------- MODULE BulkContext_proofs ---------------------------
(* The bulk operations beside all others, for any number of bitmaps, keys and   *)
(* values: for a caller who keeps the three rules of CarefulCaller a context is *)
(* never stale, and the heap stays as consistent as CowBitmaps_proofs shows it  *)
(* to be without them.  The rules are a hypothesis of the theorems: the run      *)
(* BulkDocumented shows the caller who does not keep them.                       *)
EXTENDS BulkContext, CowBitmaps_proofs, FiniteSetTheorems

\* A context that is not empty is the bitmap's container for its key, and no operation
\* is under way on the bitmap: an operation of several steps would change the slots
\* after the step that threw the context away.
ContextInv ==
    /\ ctx \in [Bitmaps -> Contexts \cup {Null}]
    /\ ContextAtSlot
    /\ \A b \in Bitmaps : ctx[b] # Null => Available(b)

\* While a remove_many is under way the thread is in nothing else, and the bitmap has no
\* context and shares nothing.
ManyInv ==
    /\ many \in Removals \cup {Null}
    /\ many # Null => /\ \A t \in Threads : Idle(t)
                      /\ many.b \in live /\ ctx[many.b] = Null
    /\ PositionInside
    /\ RemovesUnshared

BulkInv == IInv /\ ContextInv /\ ManyInv /\ usedFreed = FALSE

\* The bitmaps a step of thread t changes: under copy-on-write a const source is rewritten.
Touched(t) == Written(t) \cup {b \in Bitmaps : job'[t] # Null /\ b \in {job'[t].x, job'[t].y}}

\* The heap is sound, nothing shared was written, and no slot but s has changed.
OneSlot(s) == HeapInv' /\ FrozenStep /\ \A d \in Slots \ {s} : slot'[d] = slot[d]
-------------------------------------------------------------------------------
\* containerptr_roaring_bitmap_add leaves a container in the slot.
LEMMA AddToSlotHeap ==
    ASSUME HeapInv, NEW s \in Slots, NEW v \in Vals, AddToSlot(s, v)
    PROVE  OneSlot(s) /\ slot'[s] \in Refs
<1> USE NullAssumption, DisjointAssumption DEF Refs
<1> DEFINE new == ValuesOf(slot[s]) \cup {v}
<1>1. /\ {v} \in SUBSET Vals /\ new \in SUBSET Vals
      /\ slot[s] \in Refs \cup {Null}
  BY SlotValues DEF HeapInv, HeapType
<1>2. CASE slot[s] = Null /\ Allocate(s, {v})
  <2>1. HeapInv' /\ FrozenStep
    BY <1>1, <1>2, AllocateHeap
  <2> QED
    BY <1>2, <2>1 DEF OneSlot, Allocate, HeapInv, HeapType
<1>3. CASE slot[s] # Null /\ Replace(s, new)
  <2>1. HeapInv' /\ FrozenStep
    BY <1>1, <1>3, ReplaceHeap
  <2> QED
    BY <1>3, <2>1 DEF OneSlot, Replace, HeapInv, HeapType
<1>4. CASE slot[s] \in Containers /\ Overwrite(s, new)
  <2>1. HeapInv' /\ FrozenStep
    BY <1>1, <1>4, OverwriteHeap
  <2> QED
    BY <1>4, <2>1 DEF OneSlot, Overwrite
<1> QED
  BY <1>2, <1>3, <1>4 DEF AddToSlot

\* The short cut of add_bulk_impl: what it writes is the container of the slot.
LEMMA AtHandHeap ==
    ASSUME HeapInv, ContextInv, NEW b \in Bitmaps, NEW k \in Keys, NEW v \in Vals,
           AddBulkAtHand(b, k, v)
    PROVE  /\ OneSlot(<<b, k>>)
           /\ \/ ctx' = ctx /\ slot' = slot
              \/ \E c \in Containers : /\ slot'[<<b, k>>] = c
                                       /\ ctx' = [ctx EXCEPT ![b].r = c]
<1> USE NullAssumption, DisjointAssumption DEF Refs
<1> DEFINE s == <<b, k>>
           old == slot[s]
           new == cont[old] \cup {v}
<1>1. s \in Slots
  BY DEF Slots
<1>2. ctx[b] # Null /\ ctx[b].k = k /\ ctx[b].r = old /\ old \in Containers
  BY DEF AddBulkAtHand, AtHand, ContextInv, ContextAtSlot
<1>3. new \in SUBSET Vals
  <2>1. ValuesOf(old) \in SUBSET Vals
    BY <1>1, SlotValues
  <2> QED
    BY <1>2, <2>1 DEF ValuesOf
<1>4. CASE Overwrite(s, new) /\ ctx' = ctx
  <2>1. HeapInv' /\ FrozenStep
    BY <1>1, <1>2, <1>3, <1>4, OverwriteHeap
  <2> QED
    BY <1>4, <2>1 DEF OneSlot, Overwrite
<1>5. ASSUME NEW c \in Containers, Fresh(c), wrapper' = wrapper,
             cont' = [cont EXCEPT ![old] = Null, ![c] = new],
             slot' = [slot EXCEPT ![s] = c], ctx' = [ctx EXCEPT ![b].r = c]
      PROVE  OneSlot(s) /\ slot'[s] = c
  <2>1. ContReleased(old) = [cont EXCEPT ![old] = Null] /\ WrapperReleased(old) = wrapper
    BY <1>2 DEF ContReleased, WrapperReleased
  <2>2. Replace(s, new)
    BY <1>5, <2>1 DEF Replace
  <2>3. HeapInv' /\ FrozenStep
    BY <1>1, <1>2, <1>3, <2>2, ReplaceHeap
  <2> QED
    BY <1>1, <1>5, <2>3 DEF OneSlot, HeapInv, HeapType
<1>6. \/ Overwrite(s, new) /\ ctx' = ctx
      \/ \E c \in Containers :
            /\ Fresh(c) /\ wrapper' = wrapper
            /\ cont' = [cont EXCEPT ![old] = Null, ![c] = new]
            /\ slot' = [slot EXCEPT ![s] = c] /\ ctx' = [ctx EXCEPT ![b].r = c]
  BY <1>2 DEF AddBulkAtHand, Overwrite
<1> QED
  BY <1>4, <1>5, <1>6 DEF Overwrite

\* roaring_bitmap_remove_many on a container that is not shared.
LEMMA RemovePrivateHeap ==
    ASSUME HeapInv, NEW s \in Slots, NEW v \in Vals, RemovePrivate(s, ValuesOf(slot[s]) \ {v})
    PROVE  OneSlot(s)
<1> USE NullAssumption, DisjointAssumption DEF Refs
<1> DEFINE new == ValuesOf(slot[s]) \ {v}
<1>1. slot[s] \in Containers
  BY DEF RemovePrivate
<1>2. new \in SUBSET Vals
  BY <1>1, SlotValues
<1>3. CASE Release(s)
  <2>1. HeapInv' /\ FrozenStep
    BY <1>1, <1>3, ReleaseHeap
  <2> QED
    BY <1>3, <2>1 DEF OneSlot, Release, HeapInv, HeapType
<1>4. CASE Overwrite(s, new)
  <2>1. HeapInv' /\ FrozenStep
    BY <1>1, <1>2, <1>4, OverwriteHeap
  <2> QED
    BY <1>4, <2>1 DEF OneSlot, Overwrite
<1>5. CASE Replace(s, new)
  <2>1. HeapInv' /\ FrozenStep
    BY <1>1, <1>2, <1>5, ReplaceHeap
  <2> QED
    BY <1>5, <2>1 DEF OneSlot, Replace, HeapInv, HeapType
<1> QED
  BY <1>3, <1>4, <1>5 DEF RemovePrivate

\* A bulk operation on a bitmap nobody uses keeps the invariant of CowBitmaps.
LEMMA BulkFrame ==
    ASSUME IInv, NEW t \in Threads, NEW b \in Bitmaps, NEW k \in Keys, Quiet(t, b),
           OneSlot(<<b, k>>)
    PROVE  IInv'
<1>1. TaskType'
  BY DEF IInv, ThreadInv, TaskType, Quiet
<1>2. Uses(t) = {} /\ Uses(t)' = {}
  BY DEF Quiet, Idle, Uses
<1>3. Apart(t, {b})
  BY DEF Quiet, Available, Apart
<1>4. Outside({b})
  BY DEF Outside, OneSlot, Quiet, Slots
<1>5. EditOK(t)' /\ JobOK(t)' /\ DeadOK(b)'
  BY DEF Quiet, Idle, EditOK, JobOK, DeadOK
<1>6. ThreadInv'
  BY <1>1, <1>2, <1>3, <1>4, <1>5, Frame DEF IInv
<1> QED
  BY <1>6 DEF IInv, OneSlot
-------------------------------------------------------------------------------
\* A bulk operation keeps the contexts of the other bitmaps, and leaves in its own the
\* container of its slot or nothing.
LEMMA ContextKept ==
    ASSUME ContextInv, NEW t \in Threads, NEW b \in Bitmaps, NEW k \in Keys, Quiet(t, b),
           \A d \in Slots \ {<<b, k>>} : slot'[d] = slot[d],
           NEW new \in Contexts \cup {Null}, ctx' = [ctx EXCEPT ![b] = new],
           new # Null => slot'[<<b, new.k>>] = new.r
    PROVE  ContextInv'
<1>1. ctx' \in [Bitmaps -> Contexts \cup {Null}] /\ ctx'[b] = new
  BY DEF ContextInv
<1>2. \A c \in Bitmaps : Available(c)' <=> Available(c)
  BY DEF Quiet, Available, Uses
<1>3. ASSUME NEW c \in Bitmaps \ {b}, ctx'[c] # Null
      PROVE  slot'[<<c, ctx'[c].k>>] = ctx'[c].r /\ Available(c)'
  <2>1. ctx'[c] = ctx[c] /\ ctx[c] \in Contexts
    BY <1>3 DEF ContextInv
  <2>2. <<c, ctx[c].k>> \in Slots \ {<<b, k>>}
    BY <2>1 DEF Contexts, Slots
  <2> QED
    BY <1>2, <1>3, <2>1, <2>2 DEF ContextInv, ContextAtSlot
<1> QED
  BY <1>1, <1>2, <1>3 DEF ContextInv, ContextAtSlot, Quiet

LEMMA ContextsAway ==
    ASSUME ContextInv, NEW t \in Threads, NEW b \in Bitmaps, NEW k \in Keys, Quiet(t, b),
           \A d \in Slots \ {<<b, k>>} : slot'[d] = slot[d], ctx[b] = Null, ctx' = ctx
    PROVE  ContextInv'
<1>1. ctx' = [ctx EXCEPT ![b] = Null]
  BY DEF ContextInv
<1> QED
  BY <1>1, ContextKept

LEMMA AddBulkInv ==
    ASSUME BulkInv, NEW t \in Threads, NEW b \in Bitmaps, NEW k \in Keys, NEW v \in Vals,
           AddBulk(t, b, k, v), AddsUnshared
    PROVE  BulkInv' /\ FrozenStep
<1>1. /\ Quiet(t, b) /\ <<b, k>> \in Slots /\ HeapInv /\ many = Null /\ many' = Null
      /\ ~AddBulkShared(b, k, v)
  BY DEF AddBulk, Bulk, AddsUnshared, Slots, BulkInv, IInv
<1>0. ManyInv' /\ usedFreed' = FALSE
  <2>1. ManyInv'
    BY <1>1 DEF ManyInv, PositionInside, RemovesUnshared
  <2> QED
    BY <1>1, <2>1 DEF AddBulk, AddBulkSeek, AddBulkAtHand, BulkInv
<1>2. CASE AddBulkSeek(b, k, v)
  <2> DEFINE new == [k |-> k, r |-> slot'[<<b, k>>]]
  <2>1. OneSlot(<<b, k>>) /\ slot'[<<b, k>>] \in Refs
    BY <1>1, <1>2, AddToSlotHeap DEF AddBulkSeek
  <2>2. ctx' = [ctx EXCEPT ![b] = new] /\ new \in Contexts /\ slot'[<<b, new.k>>] = new.r
    BY <1>2, <2>1 DEF AddBulkSeek, Contexts
  <2>3. ContextInv'
    BY <1>1, <2>1, <2>2, ContextKept DEF BulkInv, OneSlot
  <2> QED
    BY <1>0, <1>1, <2>1, <2>3, BulkFrame DEF BulkInv, OneSlot
<1>3. CASE AddBulkAtHand(b, k, v)
  <2>1. OneSlot(<<b, k>>)
    BY <1>1, <1>3, AtHandHeap DEF BulkInv
  <2>2. ctx[b] \in Contexts /\ ctx[b].k = k /\ slot[<<b, k>>] = ctx[b].r
    BY <1>3 DEF AddBulkAtHand, AtHand, BulkInv, ContextInv, ContextAtSlot
  <2>3. CASE ctx' = ctx /\ slot' = slot
    <3>1. ctx' = [ctx EXCEPT ![b] = ctx[b]]
      BY <2>3 DEF BulkInv, ContextInv
    <3> QED
      BY <1>0, <1>1, <2>1, <2>2, <2>3, <3>1, ContextKept, BulkFrame DEF BulkInv, OneSlot
  <2>4. ASSUME NEW c \in Containers, slot'[<<b, k>>] = c, ctx' = [ctx EXCEPT ![b].r = c]
        PROVE  BulkInv' /\ FrozenStep
    <3> DEFINE new == [k |-> k, r |-> c]
    <3>1. [ctx[b] EXCEPT !.r = c] = new /\ new \in Contexts
      BY <2>2 DEF Contexts, Refs
    <3>2. ctx' = [ctx EXCEPT ![b] = new]
      BY <2>4, <3>1
    <3>3. slot'[<<b, new.k>>] = new.r
      BY <2>4
    <3>4. ContextInv'
      BY <1>1, <2>1, <3>1, <3>2, <3>3, ContextKept DEF BulkInv, OneSlot
    <3> QED
      BY <1>0, <1>1, <2>1, <3>4, BulkFrame DEF BulkInv, OneSlot
  <2> QED
    BY <1>1, <1>3, <2>3, <2>4, AtHandHeap DEF BulkInv
<1> QED
  BY <1>1, <1>2, <1>3 DEF AddBulk

\* A step that leaves the bitmaps and their contexts alone.
LEMMA RestInv ==
    ASSUME BulkInv, UNCHANGED <<vars, ctx>>, ManyInv', usedFreed' = FALSE
    PROVE  BulkInv' /\ FrozenStep
<1>1. IInv' /\ FrozenStep
  BY StutterStep DEF BulkInv
<1>2. ContextInv'
  BY DEF vars, BulkInv, ContextInv, ContextAtSlot, Available, Uses
<1> QED
  BY <1>1, <1>2 DEF BulkInv

LEMMA ContainsBulkInv ==
    ASSUME BulkInv, NEW t \in Threads, NEW b \in Bitmaps, NEW k \in Keys, Bulk(t, b),
           ContainsBulk(b, k), UNCHANGED many
    PROVE  BulkInv' /\ FrozenStep
<1>1. Quiet(t, b) /\ many = Null /\ HeapInv /\ <<b, k>> \in Slots
  BY DEF Bulk, BulkInv, IInv, Slots
<1>2. PICK f \in Keys : /\ slot[<<b, f>>] # Null
                        /\ ctx' = [ctx EXCEPT ![b] = [k |-> f, r |-> slot[<<b, f>>]]]
  BY DEF ContainsBulk
<1> DEFINE new == [k |-> f, r |-> slot[<<b, f>>]]
<1>3. OneSlot(<<b, k>>)
  BY <1>1, SameHeap DEF OneSlot, ContainsBulk
<1>4. new \in Contexts /\ slot'[<<b, new.k>>] = new.r
  BY <1>1, <1>2 DEF Contexts, HeapInv, HeapType, Slots, ContainsBulk
<1>5. ContextInv'
  BY <1>1, <1>2, <1>3, <1>4, ContextKept DEF BulkInv, OneSlot
<1>6. ManyInv' /\ usedFreed' = FALSE
  BY <1>1 DEF ManyInv, PositionInside, RemovesUnshared, ContainsBulk, BulkInv
<1> QED
  BY <1>1, <1>3, <1>5, <1>6, BulkFrame DEF BulkInv, OneSlot

LEMMA ForgetInv ==
    ASSUME BulkInv, NEW t \in Threads, NEW b \in Bitmaps,
           Forget(t, b) \/ BeginRemoveMany(t, b), RemovesUnshared'
    PROVE  BulkInv' /\ FrozenStep
<1>1. /\ Quiet(t, b) /\ many = Null /\ UNCHANGED <<slot, cont, wrapper, usedFreed>>
      /\ Invalidate({b})
      /\ many' = Null \/ many' = [b |-> b, pos |-> -1]
  BY DEF Forget, BeginRemoveMany, Bulk
<1>2. UNCHANGED vars
  BY <1>1 DEF Quiet, vars
<1>3. IInv' /\ FrozenStep
  BY <1>2, StutterStep DEF BulkInv
<1>4. ContextInv'
  BY <1>1, <1>2 DEF vars, Invalidate, BulkInv, ContextInv, ContextAtSlot, Available, Uses
<1>5. ManyInv'
  <2>1. CASE many' = Null
    BY <2>1 DEF ManyInv, PositionInside, RemovesUnshared
  <2>2. CASE many' = [b |-> b, pos |-> -1]
    <3>1. many' \in Removals /\ many'.b = b /\ many'.pos = -1
      BY <2>2 DEF Removals
    <3>2. \A u \in Threads : Idle(u)'
      BY <1>1, <1>2, OneThreadAssumption DEF Quiet, vars, Idle
    <3>3. b \in live' /\ ctx'[b] = Null
      BY <1>1 DEF Quiet, Invalidate
    <3> QED
      BY <3>1, <3>2, <3>3 DEF ManyInv, PositionInside, RemovesUnshared
  <2> QED
    BY <1>1, <2>1, <2>2
<1> QED
  BY <1>1, <1>3, <1>4, <1>5 DEF BulkInv

\* The place of a key is a number, and -1 is no place.
LEMMA PositionType ==
    ASSUME NEW b \in Bitmaps, NEW k \in Keys
    PROVE  /\ Position(b, k) \in Nat
           /\ Position(b, k) >= 0
<1>1. IsFiniteSet({j \in Keys : j < k /\ slot[<<b, j>>] # Null})
  BY FiniteAssumption, FS_Subset
<1> QED
  BY <1>1, FS_CardinalityType DEF Position

LEMMA RemoveValueInv ==
    ASSUME BulkInv, NEW k \in Keys, NEW v \in Vals, NEW t \in Threads, RemoveValue(k, v),
           RemovesUnshared'
    PROVE  BulkInv' /\ FrozenStep
<1> DEFINE b == many.b
           s == <<b, k>>
           i == IF many.pos >= 0 /\ KeyIsAt(b, many.pos, k) THEN many.pos ELSE GetIndex(b, k)
           new == ValuesOf(slot[s]) \ {v}
<1>1. /\ many # Null /\ many \in Removals /\ b \in Bitmaps /\ many.pos \in Int
      /\ s \in Slots /\ HeapInv /\ ContextInv
      /\ \A u \in Threads : Idle(u)
      /\ b \in live /\ ctx[b] = Null /\ RemovesUnshared
  BY DEF RemoveValue, BulkInv, ManyInv, Removals, IInv, Slots
<1>2. /\ i \in Int /\ (i < 0 => i = -1)
      /\ i >= 0 => slot[s] # Null /\ i = Position(b, k)
  BY <1>1, PositionType DEF KeyIsAt, GetIndex
<1>3. Quiet(t, b) /\ ctx' = ctx
  BY <1>1 DEF RemoveValue, Quiet, Available, Idle, Uses
<1>4. /\ \A u \in Threads : Idle(u)'
      /\ b \in live' /\ ctx'[b] = Null
  BY <1>1, <1>3 DEF Quiet, Idle
<1>5. CASE i < 0 /\ many' = [many EXCEPT !.pos = i] /\ UNCHANGED <<slot, cont, wrapper, usedFreed>>
  <2>1. many' \in Removals /\ many'.b = b /\ many'.pos = -1
    BY <1>1, <1>2, <1>5 DEF Removals
  <2>2. ManyInv'
    BY <1>4, <2>1 DEF ManyInv, PositionInside
  <2>3. UNCHANGED vars
    BY <1>3, <1>5 DEF Quiet, vars
  <2> QED
    BY <1>3, <1>5, <2>2, <2>3, RestInv DEF BulkInv
<1>6. CASE /\ i >= 0
           /\ RemovePrivate(s, new) \/ RemoveShared(s, new)
           /\ many' = [many EXCEPT !.pos = PositionAfter(i, new)]
  <2>1. RemovePrivate(s, new)
    BY <1>1, <1>6 DEF RemovesUnshared, RemoveShared
  <2>2. OneSlot(s)
    BY <1>1, <2>1, RemovePrivateHeap
  <2>4. ContextInv'
    BY <1>1, <1>3, <2>2, ContextsAway DEF OneSlot
  <2>5. many' \in Removals /\ many'.b = b /\ many'.pos = PositionAfter(i, new)
    BY <1>1, <1>2, <1>6 DEF Removals, PositionAfter
  <2>6. PositionInside'
    <3>1. CASE new = {}
      BY <2>5, <3>1 DEF PositionInside, PositionAfter
    <3>2. CASE new # {}
      <4>1. slot'[s] # Null
        <5>1. Overwrite(s, new) \/ Replace(s, new)
          BY <2>1, <3>2 DEF RemovePrivate
        <5> QED
          BY <1>1, <1>2, <1>6, <5>1, NullAssumption DEF Overwrite, Replace, Refs, HeapInv,
             HeapType
      <4>2. \A j \in Keys : j < k => slot'[<<b, j>>] = slot[<<b, j>>]
        <5> SUFFICES ASSUME NEW j \in Keys, j < k PROVE slot'[<<b, j>>] = slot[<<b, j>>]
          OBVIOUS
        <5>1. j # k
          BY KeysAssumption
        <5> QED
          BY <1>1, <2>2, <5>1 DEF OneSlot, Slots
      <4>3. Position(b, k)' = Position(b, k)
        BY <2>5, <4>2 DEF Position
      <4>4. many'.pos = i
        BY <2>5, <3>2 DEF PositionAfter
      <4> QED
        BY <1>2, <1>6, <2>5, <4>1, <4>3, <4>4 DEF PositionInside, KeyIsAt
    <3> QED
      BY <3>1, <3>2
  <2>7. ManyInv'
    BY <1>4, <2>5, <2>6 DEF ManyInv
  <2>8. usedFreed' = FALSE
    BY <2>1 DEF RemovePrivate, BulkInv
  <2>9. IInv'
    BY <1>1, <1>3, <2>2, BulkFrame DEF BulkInv
  <2> QED
    BY <2>2, <2>4, <2>7, <2>8, <2>9 DEF BulkInv, OneSlot
<1> QED
  BY <1>5, <1>6 DEF RemoveValue

LEMMA BulkStepInv ==
    ASSUME BulkInv, NEW t \in Threads, BulkStep(t), CarefulCaller
    PROVE  BulkInv' /\ FrozenStep
<1>1. CASE EndRemoveMany
  <2>1. ManyInv'
    BY <1>1 DEF EndRemoveMany, ManyInv, PositionInside, RemovesUnshared
  <2> QED
    BY <1>1, <2>1, RestInv DEF EndRemoveMany, BulkInv
<1>2. AddsUnshared /\ RemovesUnshared'
  BY DEF CarefulCaller
<1> QED
  BY <1>1, <1>2, AddBulkInv, ContainsBulkInv, ForgetInv, RemoveValueInv DEF BulkStep
-------------------------------------------------------------------------------
\* A step of another operation changes only what its own thread is in, and the slots
\* of bitmaps that it uses or, being one step long, writes.
LEMMA StepElsewhere ==
    ASSUME IInv, NEW t \in Threads, Step(t), NEW b \in Bitmaps,
           b \notin Uses(t), b \notin Touched(t)
    PROVE  /\ \A k \in Keys : slot'[<<b, k>>] = slot[<<b, k>>]
           /\ Available(b) => Available(b)'
<1>1. \A u \in Threads \ {t} : edit'[u] = edit[u] /\ job'[u] = job[u]
  <2>1. \E x : edit' = [edit EXCEPT ![t] = x]
    <3>1. edit = [edit EXCEPT ![t] = edit[t]]
      BY DEF IInv, ThreadInv, TaskType
    <3>2. CASE edit' = edit
      BY <3>1, <3>2
    <3>3. CASE \E c \in Bitmaps, f \in Keys, e \in Edits : BeginEdit(t, c, f, e)
      BY <3>3 DEF BeginEdit, UnsharePrivate, UnshareLast, UnshareDrop
    <3>4. CASE Clone(t)
      BY <3>4 DEF Clone
    <3>5. CASE Store(t)
      BY <3>5 DEF Store
    <3> QED
      BY <3>2, <3>3, <3>4, <3>5 DEF Step, Create, BeginFree, BeginClear, AddNewKey,
         BeginOverwrite, BeginCopy, BeginInPlace, BeginOutOfPlace, JobKey, JobDone
  <2>2. \E x : job' = [job EXCEPT ![t] = x]
    <3>1. job = [job EXCEPT ![t] = job[t]]
      BY DEF IInv, ThreadInv, TaskType
    <3>2. CASE job' = job
      BY <3>1, <3>2
    <3>3. CASE JobKey(t)
      BY <3>3 DEF JobKey
    <3>4. CASE JobDone(t)
      BY <3>4 DEF JobDone
    <3>5. CASE \E c \in Bitmaps : BeginFree(t, c) \/ BeginClear(t, c)
      BY <3>5 DEF BeginFree, BeginClear
    <3>6. CASE \E c, x \in Bitmaps : BeginOverwrite(t, c, x) \/ BeginCopy(t, c, x)
      BY <3>6 DEF BeginOverwrite, BeginCopy
    <3>7. CASE \E op \in InPlace, c, x \in Bitmaps : BeginInPlace(t, op, c, x)
      BY <3>7 DEF BeginInPlace
    <3>8. CASE \E op \in OutOfPlace, c, x, y \in Bitmaps : BeginOutOfPlace(t, op, c, x, y)
      BY <3>8 DEF BeginOutOfPlace
    <3> QED
      BY <3>2, <3>3, <3>4, <3>5, <3>6, <3>7, <3>8 DEF Step, Create, AddNewKey, BeginEdit,
         Clone, Store
  <2> QED
    BY <2>1, <2>2 DEF IInv, ThreadInv, TaskType
<1>2. b \notin Uses(t)'
  BY DEF Touched, Written, Uses
<1>3. Available(b) => Available(b)'
  BY <1>1, <1>2 DEF Available, Uses
<1>4. ASSUME NEW k \in Keys PROVE slot'[<<b, k>>] = slot[<<b, k>>]
  <2>1. CASE Idle(t) /\ Idle(t)'
    BY <1>4, <2>1 DEF Touched, Written
  <2>2. CASE slot' = slot
    BY <2>2
  <2>3. ASSUME NEW c \in Bitmaps, NEW f \in Keys, NEW e \in Edits, BeginEdit(t, c, f, e)
        PROVE  slot'[<<b, k>>] = slot[<<b, k>>]
    <3>1. \E w \in Wrappers \cup {Null} :
             edit' = [edit EXCEPT ![t] = [b |-> c, k |-> f, e |-> e, w |-> w]]
      <4>1. <<c, f>> \in Slots
        BY DEF Slots
      <4> QED
        BY <2>3, <4>1 DEF BeginEdit, UnsharePrivate, UnshareLast, UnshareDrop
    <3>2. PICK w \in Wrappers \cup {Null} :
             edit'[t] = [b |-> c, k |-> f, e |-> e, w |-> w]
      BY <3>1 DEF IInv, ThreadInv, TaskType
    <3>3. edit'[t] # Null
      BY <3>2, NullAssumption DEF EditStates
    <3>4. b # c
      BY <3>2, <3>3 DEF Touched, Written
    <3>5. <<b, k>> # <<c, f>> /\ <<b, k>> \in Slots
      BY <1>4, <3>4 DEF Slots
    <3> QED
      BY <2>3, <3>5 DEF BeginEdit, UnsharePrivate, UnshareLast, UnshareDrop, IInv, HeapInv,
                        HeapType
  <2>4. CASE Clone(t) \/ Store(t)
    <3>1. edit[t] # Null /\ b # edit[t].b
      BY <2>4 DEF Clone, Store, Uses
    <3>2. <<b, k>> # <<edit[t].b, edit[t].k>> /\ <<b, k>> \in Slots
      BY <1>4, <3>1 DEF Slots
    <3> QED
      BY <2>4, <3>2 DEF Clone, Store, Allocate, Release, Overwrite, Replace, IInv, HeapInv,
                        HeapType
  <2>5. CASE JobKey(t)
    <3>1. PICK j \in JobStates : job[t] = j /\ j # Null
      BY <2>5 DEF JobKey, IInv, ThreadInv, TaskType
    <3>2. b \notin {j.b, j.x, j.y} /\ \A f \in Keys : <<j.b, f>> \in Slots /\ <<j.x, f>> \in Slots
      BY <3>1 DEF Uses, JobStates, Slots
    <3>3. <<b, k>> \in Slots /\ \A f \in Keys : <<b, k>> \notin {<<j.b, f>>, <<j.x, f>>, <<j.y, f>>}
      BY <1>4, <3>2 DEF Slots
    <3>4. PICK f \in j.todo :
             \/ ReleaseKey(j.b, f)
             \/ ShareKey(j.b, f, j.x)
             \/ InPlaceKey(j.op, j.b, f, j.x)
             \/ OutOfPlaceKey(j.op, j.b, f, j.x, j.y)
      BY <2>5, <3>1 DEF JobKey
    <3>5. f \in Keys
      BY <3>1, <3>4 DEF JobStates
    <3> QED
      BY <3>3, <3>4, <3>5 DEF ReleaseKey, ShareKey, InPlaceKey, OutOfPlaceKey, Skip, Release,
            Share, Replace, Overwrite, Allocate, IInv, HeapInv, HeapType
  <2>6. \/ Idle(t) /\ Idle(t)'
        \/ slot' = slot
        \/ \E c \in Bitmaps, f \in Keys, e \in Edits : BeginEdit(t, c, f, e)
        \/ Clone(t) \/ Store(t) \/ JobKey(t)
    BY DEF Step, Create, BeginFree, BeginClear, AddNewKey, BeginOverwrite, BeginCopy,
           BeginInPlace, BeginOutOfPlace, JobDone, Idle
  <2> QED
    BY <2>1, <2>2, <2>3, <2>4, <2>5, <2>6
<1> QED
  BY <1>3, <1>4

\* With the contexts of const sources forgotten, the other operations leave none stale.
LEMMA StepInv ==
    ASSUME BulkInv, NEW t \in Threads, Other(t), SourcesForgotten'
    PROVE  BulkInv' /\ FrozenStep
<1>1. Step(t) /\ Invalidate(Written(t)) /\ many = Null /\ UNCHANGED <<many, usedFreed>>
  BY DEF Other
<1>2. IInv' /\ FrozenStep
  BY <1>1, NextStep DEF BulkInv, Next
<1>3. ctx' \in [Bitmaps -> Contexts \cup {Null}]
  BY <1>1 DEF Invalidate, BulkInv, ContextInv
<1>4. ASSUME NEW b \in Bitmaps, ctx'[b] # Null
      PROVE  slot'[<<b, ctx'[b].k>>] = ctx'[b].r /\ Available(b)'
  <2>1. b \notin Written(t) /\ ctx'[b] = ctx[b] /\ ctx[b] \in Contexts
    BY <1>1, <1>3, <1>4 DEF Invalidate
  <2>2. b \notin Touched(t)
    BY <1>4, <2>1 DEF Touched, SourcesForgotten
  <2>3. Available(b) /\ slot[<<b, ctx[b].k>>] = ctx[b].r /\ ctx[b].k \in Keys
    BY <1>4, <2>1 DEF BulkInv, ContextInv, ContextAtSlot, Contexts
  <2>4. b \notin Uses(t)
    BY <2>3 DEF Available
  <2> QED
    BY <1>1, <2>1, <2>2, <2>3, <2>4, StepElsewhere DEF BulkInv
<1>5. ManyInv'
  BY <1>1 DEF ManyInv, PositionInside, RemovesUnshared
<1> QED
  BY <1>1, <1>2, <1>3, <1>4, <1>5 DEF BulkInv, ContextInv, ContextAtSlot

LEMMA BulkNextInv ==
    ASSUME BulkInv, [BulkNext]_bulkVars, [CarefulCaller]_bulkVars
    PROVE  BulkInv' /\ FrozenStep
<1>1. CASE UNCHANGED bulkVars
  <2>1. UNCHANGED <<vars, ctx>> /\ many' = many /\ usedFreed' = usedFreed
    BY <1>1 DEF bulkVars
  <2>2. ManyInv'
    BY <2>1 DEF vars, BulkInv, ManyInv, Idle, PositionInside, KeyIsAt, Position,
       RemovesUnshared
  <2> QED
    BY <2>1, <2>2, RestInv DEF BulkInv
<1>2. CASE BulkNext /\ CarefulCaller
  BY <1>2, BulkStepInv, StepInv DEF BulkNext, CarefulCaller
<1> QED
  BY <1>1, <1>2

LEMMA BulkInitInv == BulkInit => BulkInv
<1> SUFFICES ASSUME BulkInit PROVE BulkInv
  OBVIOUS
<1>1. IInv
  BY InitInv DEF BulkInit
<1>2. ContextInv
  BY DEF BulkInit, ContextInv, ContextAtSlot
<1>3. ManyInv /\ usedFreed = FALSE
  BY DEF BulkInit, ManyInv, PositionInside, RemovesUnshared
<1> QED
  BY <1>1, <1>2, <1>3 DEF BulkInv
-------------------------------------------------------------------------------
\* For a caller who keeps the three rules of CarefulCaller (remove_many gets no bitmap
\* with shared containers, add_bulk no context in which contains_bulk has left one, and
\* the const source of a copy has no context any more), the invariants of the heap, of
\* the contexts and of remove_many's pos hold in every state.
THEOREM BulkInvariance ==
    BulkSpec /\ [][CarefulCaller]_bulkVars => []BulkInv
<1>1. BulkInv /\ [BulkNext]_bulkVars /\ [CarefulCaller]_bulkVars => BulkInv'
  BY BulkNextInv
<1> QED
  BY BulkInitInv, <1>1, PTL DEF BulkSpec

\* For a caller who keeps the three rules, roaring_bitmap_add_bulk never writes a
\* container that its bitmap does not have for the key of the context, and remove_many
\* never goes on with a pos behind the end of the arrays.
THEOREM ShortCutsRight ==
    BulkSpec /\ [][CarefulCaller]_bulkVars => []ShortCutsExact
<1>1. BulkInv => ShortCutsExact
  BY DEF BulkInv, ContextInv, ManyInv, ShortCutsExact
<1> QED
  BY BulkInvariance, <1>1, PTL

\* For a caller who keeps the three rules, add_bulk and remove_many, which replace and
\* free containers without a search, use no freed memory and leave nothing dangling.
THEOREM BulkNoUseAfterFree ==
    BulkSpec /\ [][CarefulCaller]_bulkVars => []MemorySafe
<1>1. BulkInv => MemorySafe
  BY DEF BulkInv, IInv, HeapInv, MemorySafe
<1> QED
  BY BulkInvariance, <1>1, PTL
-------------------------------------------------------------------------------
(* For the same caller the bulk operations beside all others implement           *)
(* BitmapValues: add_bulk, which writes the container of its context without a   *)
(* search, and remove_many, which does not unshare, do to a bitmap what they do  *)
(* to a set, and to the other bitmaps nothing.                                   *)

\* containerptr_roaring_bitmap_add adds the value.
LEMMA AddToSlotValues ==
    ASSUME HeapInv, NEW s \in Slots, NEW v \in Vals, AddToSlot(s, v)
    PROVE  HoldsNow(s, ValuesOf(slot[s]) \cup {v})
<1> USE NullAssumption DEF Refs
<1> DEFINE new == ValuesOf(slot[s]) \cup {v}
<1>1. {v} \in SUBSET Vals /\ new \in SUBSET Vals
  BY SlotValues
<1>2. CASE slot[s] = Null /\ Allocate(s, {v})
  <2>1. new = {v}
    BY <1>2, SlotContents
  <2>2. HoldsNow(s, {v})
    BY <1>1, <1>2, AllocateValues
  <2> QED
    BY <2>1, <2>2
<1>3. CASE slot[s] # Null /\ Replace(s, new)
  BY <1>1, <1>3, ReplaceValues
<1>4. CASE slot[s] \in Containers /\ Overwrite(s, new)
  BY <1>1, <1>4, OverwriteValues
<1> QED
  BY <1>2, <1>3, <1>4 DEF AddToSlot

\* So does the short cut of add_bulk_impl, as its context is never stale.
LEMMA AtHandValues ==
    ASSUME HeapInv, ContextInv, NEW b \in Bitmaps, NEW k \in Keys, NEW v \in Vals,
           AddBulkAtHand(b, k, v)
    PROVE  HoldsNow(<<b, k>>, Held(b, k) \cup {v})
<1> USE NullAssumption, DisjointAssumption DEF Refs
<1> DEFINE s == <<b, k>>
           old == slot[s]
           new == cont[old] \cup {v}
<1>1. s \in Slots
  BY DEF Slots
<1>2. ctx[b] # Null /\ ctx[b].k = k /\ ctx[b].r = old /\ old \in Containers
  BY DEF AddBulkAtHand, AtHand, ContextInv, ContextAtSlot
<1>3. new = Held(b, k) \cup {v} /\ new \in SUBSET Vals
  <2>1. ValuesOf(old) \in SUBSET Vals
    BY <1>1, SlotValues
  <2> QED
    BY <1>2, <2>1 DEF ValuesOf, Held
<1>4. CASE Overwrite(s, new)
  BY <1>1, <1>2, <1>3, <1>4, OverwriteValues
<1>5. ASSUME NEW c \in Containers, Fresh(c), wrapper' = wrapper,
             cont' = [cont EXCEPT ![old] = Null, ![c] = new],
             slot' = [slot EXCEPT ![s] = c]
      PROVE  HoldsNow(s, new)
  <2>1. ContReleased(old) = [cont EXCEPT ![old] = Null] /\ WrapperReleased(old) = wrapper
    BY <1>2 DEF ContReleased, WrapperReleased
  <2>2. Replace(s, new)
    BY <1>5, <2>1 DEF Replace
  <2> QED
    BY <1>1, <1>2, <1>3, <2>2, ReplaceValues
<1>6. \/ Overwrite(s, new)
      \/ \E c \in Containers :
            /\ Fresh(c) /\ wrapper' = wrapper
            /\ cont' = [cont EXCEPT ![old] = Null, ![c] = new]
            /\ slot' = [slot EXCEPT ![s] = c]
  BY <1>2 DEF AddBulkAtHand, Overwrite
<1> QED
  BY <1>3, <1>4, <1>5, <1>6

\* roaring_bitmap_remove_many removes the value.
LEMMA RemovePrivateValues ==
    ASSUME HeapInv, NEW b \in Bitmaps, NEW k \in Keys, NEW v \in Vals,
           RemovePrivate(<<b, k>>, ValuesOf(slot[<<b, k>>]) \ {v})
    PROVE  HoldsNow(<<b, k>>, Held(b, k) \ {v})
<1> USE NullAssumption DEF Refs
<1> DEFINE s == <<b, k>>
           new == Held(b, k) \ {v}
<1>1. s \in Slots /\ slot[s] \in Containers /\ new \in SUBSET Vals
  BY HeldType DEF Slots, RemovePrivate
<1>2. \/ new = {} /\ Release(s)
      \/ Overwrite(s, new)
      \/ Replace(s, new)
  BY DEF RemovePrivate, Held
<1>3. slot[s] # Null
  BY <1>1
<1> QED
  BY <1>1, <1>2, <1>3, ReleaseValues, OverwriteValues, ReplaceValues
-------------------------------------------------------------------------------
\* What a bulk operation makes of a slot, it makes of the set.
LEMMA BulkSets ==
    ASSUME IInv, IInv', FrozenStep, Cloneable,
           NEW t \in Threads, NEW b \in Bitmaps, NEW k \in Keys, Quiet(t, b),
           NEW vals, HoldsNow(<<b, k>>, vals)
    PROVE  /\ Values!AtOnce(t) /\ Sets[b] # Null /\ Sets[b][k] = Held(b, k)
           /\ Sets' = [Sets EXCEPT ![b] = [Sets[b] EXCEPT ![k] = vals]]
<1>1. Idle(t) /\ Available(b) /\ b \in live /\ UNCHANGED <<live, edit, job>>
  BY DEF Quiet
<1>2. Sets[b] = [c \in Keys |-> Held(b, c)] /\ Sets[b] # Null
  BY <1>1, RestingBitmap
<1>3. /\ Held(b, k)' = vals
      /\ \A c \in Keys \ {k} : Held(b, c)' = Held(b, c)
      /\ \A z \in Bitmaps \ {b}, c \in Keys : Held(z, c)' = Held(z, c)
  BY HoldsNowHeld
<1>4. OnlyAt(t, b)
  BY <1>1, <1>3 DEF OnlyAt, Idle, Available
<1>5. \A c \in Keys : Outcome(b, c)' = Held(b, c)'
  <2>1. Idle(t)'
    BY <1>1 DEF Idle
  <2> QED
    BY <1>4, <2>1, OutcomeAfter
<1>6. Contents(b)' = [Sets[b] EXCEPT ![k] = vals]
  <2>1. b \in live'
    BY <1>1
  <2>2. \A c \in Keys : Outcome(b, c)' = IF c = k THEN vals ELSE Held(b, c)
    BY <1>3, <1>5
  <2> QED
    BY <1>2, <2>1, <2>2 DEF Contents
<1>7. Sets' = [Sets EXCEPT ![b] = [Sets[b] EXCEPT ![k] = vals]]
  BY <1>1, <1>4, <1>6, SetsStep
<1>8. Values!AtOnce(t)
  BY <1>1, MapAtOnce
<1> QED
  BY <1>2, <1>7, <1>8

LEMMA MapAddBulk ==
    ASSUME BulkInv, IInv', FrozenStep, Cloneable,
           NEW t \in Threads, NEW b \in Bitmaps, NEW k \in Keys, NEW v \in Vals,
           AddBulk(t, b, k, v), AddsUnshared
    PROVE  Mapped
<1>1. Quiet(t, b) /\ ~AddBulkShared(b, k, v) /\ IInv /\ HeapInv /\ ContextInv /\ <<b, k>> \in Slots
  BY DEF AddBulk, Bulk, AddsUnshared, BulkInv, IInv, Slots
<1>2. HoldsNow(<<b, k>>, Held(b, k) \cup {v})
  BY <1>1, AddToSlotValues, AtHandValues DEF AddBulk, AddBulkSeek, Held
<1>3. /\ Values!AtOnce(t) /\ Sets[b] # Null /\ Sets[b][k] = Held(b, k)
      /\ Sets' = [Sets EXCEPT ![b] = [Sets[b] EXCEPT ![k] = Held(b, k) \cup {v}]]
  BY <1>1, <1>2, BulkSets
<1>4. Values!Add(t, b, k, v)
  BY <1>3 DEF Values!Add, Values!Exists, Values!Becomes
<1> QED
  BY <1>4 DEF Mapped, Values!Next

LEMMA MapRemovePrivate ==
    ASSUME IInv, IInv', FrozenStep, Cloneable,
           NEW t \in Threads, NEW b \in Bitmaps, NEW k \in Keys, NEW v \in Vals, Quiet(t, b),
           RemovePrivate(<<b, k>>, ValuesOf(slot[<<b, k>>]) \ {v})
    PROVE  Mapped
<1>1. HoldsNow(<<b, k>>, Held(b, k) \ {v})
  BY RemovePrivateValues DEF IInv
<1>2. /\ Values!AtOnce(t) /\ Sets[b] # Null /\ Sets[b][k] = Held(b, k)
      /\ Sets' = [Sets EXCEPT ![b] = [Sets[b] EXCEPT ![k] = Held(b, k) \ {v}]]
  BY <1>1, BulkSets
<1>3. Values!Remove(t, b, k, v)
  BY <1>2 DEF Values!Remove, Values!Exists, Values!Becomes
<1> QED
  BY <1>3 DEF Mapped, Values!Next

LEMMA MapRemoveValue ==
    ASSUME BulkInv, IInv', FrozenStep, Cloneable,
           NEW t \in Threads, NEW k \in Keys, NEW v \in Vals, RemoveValue(k, v)
    PROVE  UNCHANGED vars \/ Mapped
<1> DEFINE b == many.b
           s == <<b, k>>
<1>1. /\ b \in Bitmaps /\ IInv
      /\ Idle(t) /\ (\A u \in Threads : Idle(u)) /\ b \in live /\ RemovesUnshared
      /\ UNCHANGED <<live, edit, job>>
  BY DEF RemoveValue, BulkInv, ManyInv, Removals
<1>2. Quiet(t, b)
  BY <1>1 DEF Quiet, Available, Idle, Uses
<1>3. CASE UNCHANGED <<slot, cont, wrapper>>
  BY <1>1, <1>3 DEF vars
<1>4. CASE RemovePrivate(s, ValuesOf(slot[s]) \ {v})
  BY <1>1, <1>2, <1>4, MapRemovePrivate
<1>5. ~RemoveShared(s, ValuesOf(slot[s]) \ {v})
  BY <1>1 DEF RemovesUnshared, RemoveShared, RemoveValue
<1> QED
  BY <1>3, <1>4, <1>5 DEF RemoveValue

\* Each step, bulk or not, is a step of the sets or changes none of them.
LEMMA MapBulkStep ==
    ASSUME BulkInv, BulkInv', Cloneable, [BulkNext]_bulkVars, [CarefulCaller]_bulkVars
    PROVE  Mapped
<1>1. IInv /\ IInv' /\ FrozenStep
  BY BulkNextInv DEF BulkInv
<1>2. ASSUME UNCHANGED vars PROVE Mapped
  BY <1>1, <1>2, MapStep
<1>3. ASSUME NEW t \in Threads, Other(t) PROVE Mapped
  BY <1>1, <1>3, MapStep DEF Next, Other
<1>4. ASSUME NEW t \in Threads, NEW b \in Bitmaps,
             \/ \E k \in Keys : Bulk(t, b) /\ ContainsBulk(b, k)
             \/ Forget(t, b) \/ BeginRemoveMany(t, b)
      PROVE  Mapped
  <2>1. UNCHANGED vars
    BY <1>4 DEF Bulk, Quiet, ContainsBulk, Forget, BeginRemoveMany, vars
  <2> QED
    BY <1>2, <2>1
<1>5. CASE EndRemoveMany
  BY <1>2, <1>5 DEF EndRemoveMany
<1>6. ASSUME NEW t \in Threads, NEW k \in Keys, NEW v \in Vals, RemoveValue(k, v)
      PROVE  Mapped
  BY <1>1, <1>2, <1>6, MapRemoveValue
<1>7. ASSUME NEW t \in Threads, NEW b \in Bitmaps, NEW k \in Keys, NEW v \in Vals,
             AddBulk(t, b, k, v), AddsUnshared
      PROVE  Mapped
  BY <1>1, <1>7, MapAddBulk
<1>8. ASSUME NEW t \in Threads, BulkStep(t), AddsUnshared PROVE Mapped
  BY <1>4, <1>5, <1>6, <1>7, <1>8 DEF BulkStep
<1> QED
  BY <1>2, <1>3, <1>8 DEF BulkNext, bulkVars, CarefulCaller
-------------------------------------------------------------------------------
\* A bulk operation of the only thread leaves nobody about to clone.
LEMMA BulkCloneSource ==
    ASSUME BulkInv, BulkInv', CloneSourceLive, [BulkNext]_bulkVars
    PROVE  CloneSourceLive'
<1>1. CASE [Next]_vars
  <2>1. OneThread
    BY OneThreadAssumption DEF OneThread
  <2> QED
    BY <1>1, <2>1, CloneSourceStep DEF BulkInv
<1>2. ASSUME NEW t \in Threads, BulkStep(t) PROVE CloneSourceLive'
  <2>1. CASE UNCHANGED vars
    BY <1>1, <2>1
  <2>2. CASE edit'[t] = Null
    BY <2>2, OneThreadAssumption DEF CloneSourceLive
  <2>3. UNCHANGED vars \/ edit'[t] = Null
    <3>1. EndRemoveMany => UNCHANGED vars
      BY DEF EndRemoveMany
    <3>2. ASSUME NEW k \in Keys, NEW v \in Vals, RemoveValue(k, v) PROVE edit'[t] = Null
      BY <3>2 DEF RemoveValue, BulkInv, ManyInv, Idle
    <3>3. ASSUME NEW b \in Bitmaps, Quiet(t, b) PROVE edit'[t] = Null
      BY <3>3 DEF Quiet, Idle
    <3> QED
      BY <1>2, <3>1, <3>2, <3>3 DEF BulkStep, AddBulk, Bulk, Forget, BeginRemoveMany
  <2> QED
    BY <2>1, <2>2, <2>3
<1> QED
  BY <1>1, <1>2 DEF BulkNext, Next, Other, bulkVars

\* The caller of add_bulk, contains_bulk and remove_many who keeps the three rules of
\* CarefulCaller sees separate sets of integers: what a bulk operation does to one bitmap
\* no other bitmap shows.  BulkContext has one thread, so nobody frees the container that
\* is being cloned.
THEOREM BulkUnseenByOne ==
    BulkSpec /\ [][CarefulCaller]_bulkVars => IsBitmapValues
<1>1. BulkInit => CloneSourceLive
  BY NullAssumption DEF BulkInit, Init, CloneSourceLive
<1>2. BulkInv /\ BulkInv' /\ CloneSourceLive /\ [BulkNext]_bulkVars => CloneSourceLive'
  BY BulkCloneSource
<1>3. BulkInit => Values!Init
  BY MapInit DEF BulkInit
<1>4. BulkInv /\ BulkInv' /\ CloneSourceLive /\ CloneSourceLive'
        /\ [BulkNext]_bulkVars /\ [CarefulCaller]_bulkVars
        => [Values!Next]_(Values!vars)
  BY MapBulkStep DEF Cloneable, Mapped
<1>5. BulkSpec /\ [][CarefulCaller]_bulkVars => []CloneSourceLive
  BY BulkInvariance, <1>1, <1>2, PTL DEF BulkSpec
<1> QED
  BY BulkInvariance, <1>3, <1>4, <1>5, PTL DEF BulkSpec, IsBitmapValues, Values!Spec
===============================================================================
