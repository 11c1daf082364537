--------------------------- MODULE CowBitmaps_proofs ---------------------------
(* Proofs about CowBitmaps: in every interleaving of any number of threads, and *)
(* for any number of bitmaps, keys and values, the counters count the           *)
(* references, no reference dangles, no container leaks, and a container behind *)
(* a wrapper is never written.                                                  *)
(*                                                                              *)
(* The heap part comes first: the invariant HeapInv of slots, containers and    *)
(* wrappers, and one lemma for each way the operations change the heap.  Then   *)
(* the actions: each changes the heap in one of those ways, and keeps the       *)
(* bookkeeping of the operations under way, ThreadInv.                          *)
(*                                                                              *)
(* Last, CowBitmaps implements BitmapValues, for any number of threads and      *)
(* bitmaps: as long as no thread clones a container that was freed under it, a  *)
(* call changes the bitmap it is made on as the function says and no other,     *)
(* however the bitmaps share their containers and however the steps interleave. *)
(* That part says what each change of the heap does to the values the slots     *)
(* hold, reads the outcome of a bitmap off the operation under way on it, and   *)
(* maps each action to a step of BitmapValues.                                  *)
EXTENDS CowBitmaps, FiniteSetTheorems, TLAPS

HeapType ==
    /\ slot \in [Slots -> Refs \cup {Null}]
    /\ cont \in [Containers -> {Null} \cup SUBSET Vals]
    /\ wrapper \in [Wrappers -> SharedContainers \cup {Null}]

HeapInv == HeapType /\ Counted /\ NoDangling /\ OneOwner

\* What SharedContentFrozen says of one step.
FrozenStep ==
    \A w \in Wrappers :
       wrapper[w] # Null /\ wrapper'[w] # Null
          => /\ wrapper'[w].container = wrapper[w].container
             /\ cont'[wrapper[w].container] = cont[wrapper[w].container]
-------------------------------------------------------------------------------
\* The references to a wrapper can be counted.
LEMMA HoldersFinite ==
    ASSUME NEW w \in Wrappers
    PROVE  IsFiniteSet(Holders(w)) /\ Cardinality(Holders(w)) \in Nat
<1>1. IsFiniteSet(Slots)
  BY FiniteAssumption, FS_Product DEF Slots
<1>2. Holders(w) \in SUBSET Slots
  BY DEF Holders
<1> QED
  BY <1>1, <1>2, FS_Subset, FS_CardinalityType

\* A step that makes slot d point to w, and changes no other reference to w,
\* adds one to its references.
LEMMA HoldersAdd ==
    ASSUME HeapType, HeapType', NEW w \in Wrappers, NEW d \in Slots,
           slot[d] # w, slot'[d] = w,
           \A s \in Slots \ {d} : slot'[s] = w <=> slot[s] = w
    PROVE  Cardinality(Holders(w))' = Cardinality(Holders(w)) + 1
<1>1. Holders(w)' = Holders(w) \cup {d}
  BY DEF Holders
<1>2. d \notin Holders(w)
  BY DEF Holders
<1>3. IsFiniteSet(Holders(w)) /\ Cardinality(Holders(w)) \in Nat
  BY HoldersFinite
<1>4. Cardinality(Holders(w) \cup {d}) = Cardinality(Holders(w)) + 1
  BY <1>2, <1>3, FS_AddElement
<1> QED
  BY <1>1, <1>4

\* A step that takes slot d away from w, and changes no other reference to w,
\* takes one from its references.
LEMMA HoldersRemove ==
    ASSUME HeapType, HeapType', NEW w \in Wrappers, NEW d \in Slots,
           slot[d] = w, slot'[d] # w,
           \A s \in Slots \ {d} : slot'[s] = w <=> slot[s] = w
    PROVE  Cardinality(Holders(w))' = Cardinality(Holders(w)) - 1
<1>1. Holders(w)' = Holders(w) \ {d}
  BY DEF Holders
<1>2. d \in Holders(w)
  BY DEF Holders
<1>3. IsFiniteSet(Holders(w)) /\ Cardinality(Holders(w)) \in Nat
  BY HoldersFinite
<1>4. Cardinality(Holders(w) \ {d}) = Cardinality(Holders(w)) - 1
  BY <1>2, <1>3, FS_RemoveElement
<1> QED
  BY <1>1, <1>4

\* A step that changes no reference to w leaves their number as it is.
LEMMA HoldersSame ==
    ASSUME HeapType, HeapType', NEW w \in Wrappers,
           \A s \in Slots : slot'[s] = w <=> slot[s] = w
    PROVE  Cardinality(Holders(w))' = Cardinality(Holders(w))
<1>1. Holders(w)' = Holders(w)
  BY DEF Holders
<1> QED
  BY <1>1

\* A wrapper whose counter is one has one reference.
LEMMA LastHolder ==
    ASSUME HeapInv, NEW w \in Wrappers, wrapper[w] # Null, wrapper[w].counter = 1,
           NEW s1 \in Slots, NEW s2 \in Slots, slot[s1] = w, slot[s2] = w
    PROVE  s1 = s2
<1>1. Cardinality(Holders(w)) = 1
  BY DEF HeapInv, Counted
<1>2. PICK x : Holders(w) = {x}
  BY <1>1, HoldersFinite, FS_Singleton
<1> QED
  BY <1>2 DEF Holders
-------------------------------------------------------------------------------
\* Writing a private container in place.
LEMMA OverwriteHeap ==
    ASSUME HeapInv, NEW s \in Slots, NEW vals \in SUBSET Vals,
           slot[s] \in Containers, Overwrite(s, vals)
    PROVE  HeapInv' /\ FrozenStep
<1> USE DisjointAssumption, NullAssumption DEF SharedContainers, Refs
<1>1. HeapType'
  BY DEF HeapInv, HeapType, Overwrite
<1>2. Counted'
  BY <1>1, HoldersSame DEF HeapInv, HeapType, Counted, Overwrite
<1>3. NoDangling'
  BY DEF HeapInv, HeapType, NoDangling, Overwrite, Refs
<1>4. OneOwner'
  BY DEF HeapInv, HeapType, OneOwner, Overwrite, Encloses, NoDangling, Refs
<1>5. FrozenStep
  BY DEF HeapInv, HeapType, OneOwner, Overwrite, Encloses, FrozenStep
<1> QED
  BY <1>1, <1>2, <1>3, <1>4, <1>5 DEF HeapInv

\* A new container in an empty slot.
LEMMA AllocateHeap ==
    ASSUME HeapInv, NEW s \in Slots, NEW vals \in SUBSET Vals,
           slot[s] = Null, Allocate(s, vals)
    PROVE  HeapInv' /\ FrozenStep
<1> USE DisjointAssumption, NullAssumption DEF SharedContainers, Refs
<1>1. PICK c \in Containers : /\ cont[c] = Null
                              /\ cont' = [cont EXCEPT ![c] = vals]
                              /\ slot' = [slot EXCEPT ![s] = c]
                              /\ wrapper' = wrapper
  BY DEF Allocate, Fresh
<1>2. HeapType'
  BY <1>1 DEF HeapInv, HeapType, Refs
<1>3. Counted'
  BY <1>1, <1>2, HoldersSame DEF HeapInv, HeapType, Counted
<1>4. NoDangling'
  BY <1>1 DEF HeapInv, HeapType, NoDangling, Refs
<1>5. OneOwner'
  BY <1>1 DEF HeapInv, HeapType, OneOwner, Encloses, NoDangling, Refs
<1>6. FrozenStep
  BY <1>1 DEF HeapInv, HeapType, FrozenStep, NoDangling
<1> QED
  BY <1>2, <1>3, <1>4, <1>5, <1>6 DEF HeapInv

\* The wrappers with n as the counter of w.
Recounted(w, n) == [wrapper EXCEPT ![w] = [container |-> wrapper[w].container,
                                           counter |-> n]]

LEMMA RecountedType ==
    ASSUME HeapInv, NEW w \in Wrappers, wrapper[w] # Null
    PROVE  /\ wrapper[w].counter \in Nat \ {0}
           /\ \A n \in Nat : Recounted(w, n)
                \in [Wrappers -> SharedContainers \cup {Null}]
           /\ [wrapper EXCEPT ![w].counter = @ + 1]
                 = Recounted(w, wrapper[w].counter + 1)
           /\ [wrapper EXCEPT ![w].counter = @ - 1]
                 = Recounted(w, wrapper[w].counter - 1)
<1>1. wrapper[w] \in SharedContainers
  BY DEF HeapInv, HeapType, SharedContainers
<1>2. \A n : [wrapper[w] EXCEPT !.counter = n]
               = [container |-> wrapper[w].container, counter |-> n]
  BY <1>1 DEF SharedContainers
<1>3. \A n \in Nat : Recounted(w, n)
         \in [Wrappers -> SharedContainers \cup {Null}]
  BY <1>1 DEF HeapInv, HeapType, Recounted, SharedContainers
<1> QED
  BY <1>1, <1>2, <1>3 DEF HeapInv, HeapType, Counted, Recounted, SharedContainers

\* Giving up one of several references to a wrapper: its counter drops.
LEMMA DropHeap ==
    ASSUME HeapInv, NEW s \in Slots, NEW w \in Wrappers,
           slot[s] = w, ~IsLast(w),
           cont' = cont,
           wrapper' = Recounted(w, wrapper[w].counter - 1),
           slot' = [slot EXCEPT ![s] = Null]
    PROVE  HeapInv' /\ FrozenStep
<1> USE DisjointAssumption, NullAssumption DEF SharedContainers, Refs
<1>1. /\ wrapper[w] # Null
      /\ wrapper[w] \in SharedContainers
      /\ wrapper[w].counter \in Nat \ {0, 1}
  BY DEF HeapInv, HeapType, NoDangling, Counted, IsLast
<1>2. /\ wrapper'[w] = [container |-> wrapper[w].container,
                        counter |-> wrapper[w].counter - 1]
      /\ \A x \in Wrappers \ {w} : wrapper'[x] = wrapper[x]
  BY <1>1 DEF HeapInv, HeapType, Recounted
<1>3. HeapType'
  BY <1>1 DEF HeapInv, HeapType, Recounted
<1>4. Cardinality(Holders(w))' = Cardinality(Holders(w)) - 1
  BY <1>1, <1>3, HoldersRemove DEF HeapInv, HeapType
<1>5. \A x \in Wrappers \ {w} : Cardinality(Holders(x))' = Cardinality(Holders(x))
  BY <1>3, HoldersSame DEF HeapInv, HeapType
<1>6. Counted'
  BY <1>1, <1>2, <1>4, <1>5 DEF HeapInv, Counted
<1>7. NoDangling'
  <2>1. wrapper'[w].container = wrapper[w].container /\ wrapper'[w] # Null
    BY <1>1, <1>2
  <2> QED
    BY <1>1, <1>2, <2>1 DEF HeapInv, HeapType, NoDangling
<1>8. \A x \in Wrappers, c \in Containers : Encloses(x, c)' <=> Encloses(x, c)
  BY <1>1, <1>2 DEF Encloses
<1>9. OneOwner'
  BY <1>1, <1>8 DEF HeapInv, HeapType, OneOwner
<1>10. FrozenStep
  BY <1>1, <1>2 DEF HeapInv, HeapType, FrozenStep
<1> QED
  BY <1>3, <1>6, <1>7, <1>9, <1>10 DEF HeapInv

\* Releasing the reference of a slot: container_free.
LEMMA ReleaseHeap ==
    ASSUME HeapInv, NEW s \in Slots, slot[s] # Null, Release(s)
    PROVE  HeapInv' /\ FrozenStep
<1> USE DisjointAssumption, NullAssumption DEF SharedContainers, Refs
<1>1. CASE slot[s] \in Containers
  <2>1. /\ cont' = [cont EXCEPT ![slot[s]] = Null]
        /\ wrapper' = wrapper
        /\ slot' = [slot EXCEPT ![s] = Null]
    BY <1>1 DEF Release, ContReleased, WrapperReleased
  <2>2. HeapType'
    BY <2>1 DEF HeapInv, HeapType
  <2>3. Counted'
    BY <1>1, <2>1, <2>2, HoldersSame DEF HeapInv, HeapType, Counted
  <2>4. NoDangling'
    BY <1>1, <2>1 DEF HeapInv, HeapType, NoDangling, OneOwner, Encloses, Refs
  <2>5. OneOwner'
    BY <1>1, <2>1 DEF HeapInv, HeapType, OneOwner, Encloses, NoDangling, Refs
  <2>6. FrozenStep
    BY <1>1, <2>1 DEF HeapInv, HeapType, OneOwner, Encloses, FrozenStep
  <2> QED
    BY <2>2, <2>3, <2>4, <2>5, <2>6 DEF HeapInv
<1>2. CASE slot[s] \in Wrappers /\ IsLast(slot[s])
  <2>0. PICK w \in Wrappers, c \in Containers :
           /\ slot[s] = w /\ wrapper[w] # Null /\ wrapper[w].counter = 1
           /\ wrapper[w].container = c
    BY <1>2 DEF HeapInv, HeapType, NoDangling, IsLast
  <2>1. /\ cont' = [cont EXCEPT ![c] = Null]
        /\ wrapper' = [wrapper EXCEPT ![w] = Null]
        /\ slot' = [slot EXCEPT ![s] = Null]
    BY <1>2, <2>0 DEF Release, ContReleased, WrapperReleased
  <2>2. HeapType'
    BY <2>0, <2>1 DEF HeapInv, HeapType
  <2>3. \A d \in Slots : slot[d] = w => d = s
    BY <2>0, <2>1, LastHolder
  <2>4. Counted'
    BY <2>0, <2>1, <2>2, HoldersSame DEF HeapInv, HeapType, Counted
  <2>5. NoDangling'
    BY <2>0, <2>1, <2>3 DEF HeapInv, HeapType, NoDangling, OneOwner, Encloses, Refs
  <2>6. OneOwner'
    BY <2>0, <2>1, <2>3 DEF HeapInv, HeapType, OneOwner, Encloses, NoDangling, Refs
  <2>7. FrozenStep
    BY <2>0, <2>1 DEF HeapInv, HeapType, OneOwner, Encloses, FrozenStep
  <2> QED
    BY <2>2, <2>4, <2>5, <2>6, <2>7 DEF HeapInv
<1>3. CASE slot[s] \in Wrappers /\ ~IsLast(slot[s])
  <2>1. PICK w \in Wrappers : slot[s] = w
    BY <1>3
  <2>2. wrapper[w] # Null
    BY <2>1 DEF HeapInv, NoDangling
  <2>3. /\ cont' = cont
        /\ wrapper' = Recounted(w, wrapper[w].counter - 1)
        /\ slot' = [slot EXCEPT ![s] = Null]
    BY <1>3, <2>1, <2>2, RecountedType DEF Release, ContReleased, WrapperReleased
  <2> QED
    BY <1>3, <2>1, <2>3, DropHeap
<1> QED
  BY <1>1, <1>2, <1>3 DEF HeapInv, HeapType, Refs

\* A new container takes the place of the reference a slot holds.
LEMMA ReplaceHeap ==
    ASSUME HeapInv, NEW s \in Slots, NEW vals \in SUBSET Vals,
           slot[s] # Null, Replace(s, vals)
    PROVE  HeapInv' /\ FrozenStep
<1> USE DisjointAssumption, NullAssumption DEF SharedContainers, Refs
<1>1. PICK n \in Containers : /\ cont[n] = Null
                              /\ cont' = [ContReleased(slot[s]) EXCEPT ![n] = vals]
                              /\ wrapper' = WrapperReleased(slot[s])
                              /\ slot' = [slot EXCEPT ![s] = n]
  BY DEF Replace, Fresh
<1>2. /\ \A d \in Slots : slot[d] # n
      /\ \A x \in Wrappers : ~Encloses(x, n)
  BY <1>1 DEF HeapInv, HeapType, NoDangling, Encloses, Refs
<1>3. CASE slot[s] \in Containers
  <2>1. /\ cont' = [cont EXCEPT ![slot[s]] = Null, ![n] = vals]
        /\ wrapper' = wrapper
    BY <1>1, <1>3 DEF ContReleased, WrapperReleased
  <2>2. HeapType'
    BY <1>1, <2>1 DEF HeapInv, HeapType, Refs
  <2>3. Counted'
    BY <1>1, <1>3, <2>1, <2>2, HoldersSame DEF HeapInv, HeapType, Counted
  <2>4. NoDangling'
    BY <1>1, <1>2, <1>3, <2>1 DEF HeapInv, HeapType, NoDangling, OneOwner, Encloses, Refs
  <2>5. OneOwner'
    BY <1>1, <1>2, <1>3, <2>1 DEF HeapInv, HeapType, OneOwner, Encloses, NoDangling, Refs
  <2>6. FrozenStep
    BY <1>1, <1>2, <1>3, <2>1 DEF HeapInv, HeapType, OneOwner, Encloses, FrozenStep
  <2> QED
    BY <2>2, <2>3, <2>4, <2>5, <2>6 DEF HeapInv
<1>4. CASE slot[s] \in Wrappers /\ IsLast(slot[s])
  <2>1. PICK w \in Wrappers, c \in Containers :
           /\ slot[s] = w /\ wrapper[w] # Null /\ wrapper[w].counter = 1
           /\ wrapper[w].container = c
    BY <1>4 DEF HeapInv, HeapType, NoDangling, IsLast
  <2>2. /\ cont' = [cont EXCEPT ![c] = Null, ![n] = vals]
        /\ wrapper' = [wrapper EXCEPT ![w] = Null]
    BY <1>1, <1>4, <2>1 DEF ContReleased, WrapperReleased
  <2>3. HeapType'
    <3>1. slot' \in [Slots -> Refs \cup {Null}]
      BY <1>1 DEF HeapInv, HeapType, Refs
    <3>2. cont' \in [Containers -> {Null} \cup SUBSET Vals]
      BY <2>2 DEF HeapInv, HeapType
    <3>3. wrapper' \in [Wrappers -> SharedContainers \cup {Null}]
      BY <2>2 DEF HeapInv, HeapType
    <3> QED
      BY <3>1, <3>2, <3>3 DEF HeapType
  <2>4. \A d \in Slots : slot[d] = w => d = s
    BY <2>1, LastHolder
  <2>5. Counted'
    BY <1>1, <2>1, <2>2, <2>3, HoldersSame DEF HeapInv, HeapType, Counted
  <2>6. NoDangling'
    BY <1>1, <1>2, <2>1, <2>2, <2>4
       DEF HeapInv, HeapType, NoDangling, OneOwner, Encloses, Refs
  <2>7. OneOwner'
    BY <1>1, <1>2, <2>1, <2>2, <2>4
       DEF HeapInv, HeapType, OneOwner, Encloses, NoDangling, Refs
  <2>8. FrozenStep
    BY <1>1, <1>2, <2>1, <2>2 DEF HeapInv, HeapType, OneOwner, Encloses, FrozenStep
  <2> QED
    BY <2>3, <2>5, <2>6, <2>7, <2>8 DEF HeapInv
<1>5. CASE slot[s] \in Wrappers /\ ~IsLast(slot[s])
  <2>1. PICK w \in Wrappers : slot[s] = w /\ wrapper[w] # Null
    BY <1>5 DEF HeapInv, NoDangling
  <2>2. /\ cont' = [cont EXCEPT ![n] = vals]
        /\ wrapper' = Recounted(w, wrapper[w].counter - 1)
    BY <1>1, <1>5, <2>1, RecountedType DEF ContReleased, WrapperReleased
  <2>3. /\ wrapper[w] \in SharedContainers
        /\ wrapper[w].counter \in Nat \ {0, 1}
    BY <1>5, <2>1 DEF HeapInv, HeapType, Counted, IsLast
  <2>4. /\ wrapper'[w] = [container |-> wrapper[w].container,
                          counter |-> wrapper[w].counter - 1]
        /\ \A x \in Wrappers \ {w} : wrapper'[x] = wrapper[x]
    BY <2>2 DEF HeapInv, HeapType, Recounted
  <2>5. HeapType'
    <3>1. slot' \in [Slots -> Refs \cup {Null}]
      BY <1>1 DEF HeapInv, HeapType, Refs
    <3>2. cont' \in [Containers -> {Null} \cup SUBSET Vals]
      BY <2>2 DEF HeapInv, HeapType
    <3>3. wrapper' \in [Wrappers -> SharedContainers \cup {Null}]
      <4>1. wrapper[w].counter - 1 \in Nat
        BY <2>3
      <4> QED
        BY <2>1, <2>2, <4>1, RecountedType
    <3> QED
      BY <3>1, <3>2, <3>3 DEF HeapType
  <2>6. Cardinality(Holders(w))' = Cardinality(Holders(w)) - 1
    BY <1>1, <2>1, <2>5, HoldersRemove DEF HeapInv, HeapType
  <2>7. \A x \in Wrappers \ {w} : Cardinality(Holders(x))' = Cardinality(Holders(x))
    BY <1>1, <2>1, <2>5, HoldersSame DEF HeapInv, HeapType
  <2>8. Counted'
    BY <2>1, <2>3, <2>4, <2>6, <2>7 DEF HeapInv, Counted
  <2>9. NoDangling'
    <3>1. wrapper'[w].container = wrapper[w].container /\ wrapper'[w] # Null
      BY <2>3, <2>4
    <3> QED
      BY <1>1, <1>2, <2>1, <2>2, <2>4, <3>1 DEF HeapInv, HeapType, NoDangling
  <2>10. \A x \in Wrappers, c \in Containers : Encloses(x, c)' <=> Encloses(x, c)
    BY <2>1, <2>3, <2>4 DEF Encloses
  <2>11. OneOwner'
    BY <1>1, <1>2, <2>1, <2>2, <2>10 DEF HeapInv, HeapType, OneOwner
  <2>12. FrozenStep
    BY <1>1, <1>2, <2>1, <2>2, <2>3, <2>4 DEF HeapInv, HeapType, FrozenStep, Encloses
  <2> QED
    BY <2>5, <2>8, <2>9, <2>11, <2>12 DEF HeapInv
<1> QED
  BY <1>3, <1>4, <1>5 DEF HeapInv, HeapType, Refs

\* One more slot for a container: get_copy_of_container.
LEMMA ShareHeap ==
    ASSUME HeapInv, NEW s \in Slots, NEW d \in Slots, s # d,
           slot[s] # Null, slot[d] = Null, Share(s, d)
    PROVE  HeapInv' /\ FrozenStep
<1> USE DisjointAssumption, NullAssumption DEF SharedContainers, Refs
<1>1. CASE slot[s] \in Wrappers
  <2>1. PICK w \in Wrappers : slot[s] = w /\ wrapper[w] # Null
    BY <1>1 DEF HeapInv, NoDangling
  <2>2. /\ cont' = cont
        /\ wrapper' = Recounted(w, wrapper[w].counter + 1)
        /\ slot' = [slot EXCEPT ![d] = w]
    BY <1>1, <2>1, RecountedType DEF Share
  <2>3. /\ wrapper[w] \in SharedContainers
        /\ wrapper[w].counter \in Nat \ {0}
    BY <2>1 DEF HeapInv, HeapType, Counted
  <2>4. /\ wrapper'[w] = [container |-> wrapper[w].container,
                          counter |-> wrapper[w].counter + 1]
        /\ \A x \in Wrappers \ {w} : wrapper'[x] = wrapper[x]
    BY <2>2 DEF HeapInv, HeapType, Recounted
  <2>5. HeapType'
    <3>1. slot' \in [Slots -> Refs \cup {Null}]
      BY <2>2 DEF HeapInv, HeapType, Refs
    <3>2. cont' \in [Containers -> {Null} \cup SUBSET Vals]
      BY <2>2 DEF HeapInv, HeapType
    <3>3. wrapper' \in [Wrappers -> SharedContainers \cup {Null}]
      <4>1. wrapper[w].counter + 1 \in Nat
        BY <2>3
      <4> QED
        BY <2>1, <2>2, <4>1, RecountedType
    <3> QED
      BY <3>1, <3>2, <3>3 DEF HeapType
  <2>6. Cardinality(Holders(w))' = Cardinality(Holders(w)) + 1
    BY <2>1, <2>2, <2>5, HoldersAdd DEF HeapInv, HeapType
  <2>7. \A x \in Wrappers \ {w} : Cardinality(Holders(x))' = Cardinality(Holders(x))
    BY <2>2, <2>5, HoldersSame DEF HeapInv, HeapType
  <2>8. Counted'
    BY <2>1, <2>3, <2>4, <2>6, <2>7, HoldersFinite DEF HeapInv, Counted
  <2>9. NoDangling'
    BY <2>1, <2>2, <2>3, <2>4 DEF HeapInv, HeapType, NoDangling, Refs
  <2>10. \A x \in Wrappers, c \in Containers : Encloses(x, c)' <=> Encloses(x, c)
    BY <2>1, <2>3, <2>4 DEF Encloses
  <2>11. OneOwner'
    BY <2>1, <2>2, <2>10 DEF HeapInv, HeapType, OneOwner
  <2>12. FrozenStep
    BY <2>1, <2>2, <2>3, <2>4 DEF HeapInv, HeapType, FrozenStep
  <2> QED
    BY <2>5, <2>8, <2>9, <2>11, <2>12 DEF HeapInv
<1>2. CASE slot[s] \in Containers
  <2>1. PICK w \in Wrappers, c \in Containers :
           /\ slot[s] = c /\ wrapper[w] = Null
           /\ wrapper' = [wrapper EXCEPT ![w] = [container |-> c, counter |-> 2]]
           /\ slot' = [slot EXCEPT ![s] = w, ![d] = w]
           /\ cont' = cont
    BY <1>2 DEF Share
  <2>2. HeapType'
    BY <2>1 DEF HeapInv, HeapType, Refs
  <2>3. /\ \A x \in Slots : slot[x] # w
        /\ Holders(w)' = {s} \cup {d}
    BY <2>1 DEF HeapInv, HeapType, NoDangling, Holders
  <2>4. Cardinality(Holders(w))' = 2
    <3>1. IsFiniteSet({s}) /\ Cardinality({s}) = 1
      BY FS_Singleton
    <3>2. Cardinality({s} \cup {d}) = 1 + 1
      BY <3>1, FS_AddElement
    <3> QED
      BY <2>3, <3>2
  <2>5. \A x \in Wrappers \ {w} : Cardinality(Holders(x))' = Cardinality(Holders(x))
    BY <2>1, <2>2, HoldersSame DEF HeapInv, HeapType
  <2>6. Counted'
    BY <2>1, <2>4, <2>5 DEF HeapInv, HeapType, Counted
  <2>7. NoDangling'
    BY <2>1 DEF HeapInv, HeapType, NoDangling, Refs
  <2>8. \A x \in Wrappers, y \in Containers :
           Encloses(x, y)' <=> Encloses(x, y) \/ (x = w /\ y = c)
    BY <2>1 DEF HeapInv, HeapType, Encloses
  <2>9. OneOwner'
    BY <2>1, <2>8 DEF HeapInv, HeapType, OneOwner
  <2>10. FrozenStep
    BY <2>1 DEF HeapInv, HeapType, FrozenStep
  <2> QED
    BY <2>2, <2>6, <2>7, <2>9, <2>10 DEF HeapInv
<1> QED
  BY <1>1, <1>2 DEF HeapInv, HeapType, Refs

\* The container of a wrapper moves to the slot that had the last reference.
LEMMA StealHeap ==
    ASSUME HeapInv, NEW s \in Slots, IsLast(slot[s]),
           slot' = [slot EXCEPT ![s] = wrapper[slot[s]].container],
           wrapper' = [wrapper EXCEPT ![slot[s]] = Null],
           cont' = cont
    PROVE  HeapInv' /\ FrozenStep /\ slot'[s] \in Containers
<1> USE DisjointAssumption, NullAssumption DEF SharedContainers, Refs
<1>1. PICK w \in Wrappers, c \in Containers :
         /\ slot[s] = w /\ wrapper[w] # Null /\ wrapper[w].counter = 1
         /\ wrapper[w].container = c
  BY DEF HeapInv, HeapType, NoDangling, IsLast
<1>2. \A d \in Slots : slot[d] = w => d = s
  BY <1>1, LastHolder
<1>3. /\ slot' = [slot EXCEPT ![s] = c]
      /\ wrapper' = [wrapper EXCEPT ![w] = Null]
  BY <1>1
<1>4. HeapType'
  BY <1>1, <1>3 DEF HeapInv, HeapType, Refs
<1>5. Counted'
  BY <1>1, <1>3, <1>4, HoldersSame DEF HeapInv, HeapType, Counted
<1>6. NoDangling'
  BY <1>1, <1>2, <1>3 DEF HeapInv, HeapType, NoDangling, Refs
<1>7. \A x \in Wrappers, y \in Containers :
         Encloses(x, y)' <=> Encloses(x, y) /\ x # w
  BY <1>1, <1>3 DEF HeapInv, HeapType, Encloses
<1>8. OneOwner'
  BY <1>1, <1>2, <1>3, <1>7 DEF HeapInv, HeapType, OneOwner, Encloses
<1>9. FrozenStep
  BY <1>1, <1>3 DEF HeapInv, HeapType, FrozenStep
<1>10. slot'[s] \in Containers
  BY <1>3 DEF HeapInv, HeapType
<1> QED
  BY <1>4, <1>5, <1>6, <1>8, <1>9, <1>10 DEF HeapInv
-------------------------------------------------------------------------------
TaskType ==
    /\ live \subseteq Bitmaps
    /\ edit \in [Threads -> EditStates \cup {Null}]
    /\ job \in [Threads -> JobStates \cup {Null}]

\* A thread changing a value has a private container in its slot, or is about to
\* clone one into it.
EditOK(t) ==
    edit[t] # Null =>
       /\ job[t] = Null
       /\ edit[t].b \in live
       /\ edit[t].w = Null => slot[<<edit[t].b, edit[t].k>>] \in Containers
       /\ edit[t].w # Null => slot[<<edit[t].b, edit[t].k>>] = Null

\* The destination of an operation under way is no source of it; it is still
\* empty where it is yet to be filled, and already empty where it was emptied.
\* An in-place operation has one source besides its destination.
JobOK(t) ==
    job[t] # Null =>
       /\ job[t].op # "free" => {job[t].b, job[t].x, job[t].y} \subseteq live
       /\ job[t].op \notin {"free", "clear"} => job[t].b # job[t].x /\ job[t].b # job[t].y
       /\ job[t].op \in InPlace => job[t].y = job[t].x
       /\ job[t].op \in OutOfPlace \cup {"copy"} =>
             \A k \in job[t].todo : slot[<<job[t].b, k>>] = Null
       /\ job[t].op \in Emptying =>
             \A k \in Keys \ job[t].todo : slot[<<job[t].b, k>>] = Null

\* A bitmap that does not exist holds nothing, or is being freed.
DeadOK(b) == \/ b \in live
             \/ \A k \in Keys : slot[<<b, k>>] = Null
             \/ \E t \in Threads : job[t] # Null /\ job[t].op = "free" /\ job[t].b = b

ThreadInv ==
    /\ TaskType
    /\ \A t, u \in Threads : t # u => Uses(t) \cap Uses(u) = {}
    /\ \A t \in Threads : EditOK(t) /\ JobOK(t)
    /\ \A b \in Bitmaps : DeadOK(b)

IInv == HeapInv /\ ThreadInv

\* The step is one of thread t's on bitmaps no other thread uses.
Apart(t, X) == \A u \in Threads \ {t} : /\ X \cap Uses(u) = {}
                                       /\ edit'[u] = edit[u]
                                       /\ job'[u] = job[u]

\* The step leaves the bitmaps outside X as they are.
Outside(X) == \A b \in Bitmaps \ X :
                 /\ b \in live' <=> b \in live
                 /\ \A k \in Keys : slot'[<<b, k>>] = slot[<<b, k>>]

\* A step of thread t that touches only bitmaps X, none of which another thread
\* uses, keeps what the invariant says of the other threads and bitmaps.
LEMMA Frame ==
    ASSUME ThreadInv, TaskType', NEW t \in Threads, NEW X \in SUBSET Bitmaps,
           Uses(t) \subseteq X, Uses(t)' \subseteq X, Apart(t, X), Outside(X),
           EditOK(t)', JobOK(t)', \A b \in X : DeadOK(b)'
    PROVE  ThreadInv'
<1> USE DEF Apart, Outside
<1>1. \A u \in Threads \ {t} : Uses(u)' = Uses(u)
  BY DEF Uses
<1>2. \A u, v \in Threads : u # v => (Uses(u) \cap Uses(v) = {})'
  BY <1>1 DEF ThreadInv
<1>3. ASSUME NEW u \in Threads \ {t} PROVE EditOK(u)'
  <2>1. EditOK(u) /\ edit'[u] = edit[u] /\ job'[u] = job[u] /\ X \cap Uses(u) = {}
    BY <1>3 DEF ThreadInv
  <2>2. CASE edit[u] # Null
    <3>1. edit[u].b \in Bitmaps /\ edit[u].k \in Keys
      BY <2>2 DEF ThreadInv, TaskType, EditStates, JobStates
    <3>2. edit[u].b \notin X
      BY <2>1, <2>2 DEF Uses
    <3> QED
      BY <2>1, <3>1, <3>2 DEF EditOK
  <2> QED
    BY <2>1, <2>2 DEF EditOK
<1>4. ASSUME NEW u \in Threads \ {t} PROVE JobOK(u)'
  <2>1. JobOK(u) /\ job'[u] = job[u] /\ X \cap Uses(u) = {}
    BY <1>4 DEF ThreadInv
  <2>2. CASE job[u] # Null
    <3>1. /\ {job[u].b, job[u].x, job[u].y} \subseteq Bitmaps
          /\ job[u].todo \subseteq Keys
      BY <2>2 DEF ThreadInv, TaskType, EditStates, JobStates
    <3>2. {job[u].b, job[u].x, job[u].y} \cap X = {}
      BY <2>1, <2>2 DEF Uses
    <3>3. \A b \in {job[u].b, job[u].x, job[u].y} :
             /\ b \in live' <=> b \in live
             /\ \A k \in Keys : slot'[<<b, k>>] = slot[<<b, k>>]
      BY <3>1, <3>2
    <3> QED
      BY <2>1, <3>1, <3>3 DEF JobOK
  <2> QED
    BY <2>1, <2>2 DEF JobOK
<1>5. ASSUME NEW b \in Bitmaps \ X PROVE DeadOK(b)'
  <2>1. DeadOK(b)
    BY DEF ThreadInv
  <2>2. \A u \in Threads : job[u] # Null /\ job[u].b = b => job'[u] = job[u]
    BY DEF Uses
  <2> QED
    BY <2>1, <2>2 DEF DeadOK
<1> QED
  BY <1>2, <1>3, <1>4, <1>5 DEF ThreadInv

\* A step that leaves the heap alone.
LEMMA SameHeap ==
    ASSUME HeapInv, UNCHANGED <<slot, cont, wrapper>>
    PROVE  HeapInv' /\ FrozenStep
<1>1. HeapType'
  BY DEF HeapInv, HeapType
<1>2. Counted' /\ NoDangling' /\ OneOwner'
  BY DEF HeapInv, Counted, NoDangling, OneOwner, Holders, Encloses
<1> QED
  BY <1>1, <1>2 DEF HeapInv, FrozenStep

LEMMA CreateStep ==
    ASSUME IInv, NEW t \in Threads, NEW b \in Bitmaps, Create(t, b)
    PROVE  IInv' /\ FrozenStep
<1>1. HeapInv' /\ FrozenStep
  BY SameHeap DEF IInv, Create
<1>2. ThreadInv'
  <2>1. TaskType'
    BY DEF IInv, ThreadInv, TaskType, Create
  <2>2. Uses(t) = {} /\ Uses(t)' = {}
    BY DEF Create, Idle, Uses
  <2>3. Apart(t, {b}) /\ Outside({b})
    BY DEF Create, Available, Apart, Outside
  <2>4. EditOK(t)' /\ JobOK(t)' /\ DeadOK(b)'
    BY DEF Create, Idle, EditOK, JobOK, DeadOK
  <2> QED
    BY <2>1, <2>2, <2>3, <2>4, Frame DEF IInv
<1> QED
  BY <1>1, <1>2 DEF IInv

LEMMA AddNewKeyStep ==
    ASSUME IInv, NEW t \in Threads, NEW b \in Bitmaps, NEW k \in Keys, NEW v \in Vals,
           AddNewKey(t, b, k, v)
    PROVE  IInv' /\ FrozenStep
<1>1. <<b, k>> \in Slots /\ {v} \in SUBSET Vals
  BY DEF Slots
<1>2. HeapInv' /\ FrozenStep
  BY <1>1, AllocateHeap DEF IInv, AddNewKey
<1>3. PICK c \in Containers : slot' = [slot EXCEPT ![<<b, k>>] = c]
  BY DEF AddNewKey, Allocate
<1>4. ThreadInv'
  <2>1. TaskType'
    BY DEF IInv, ThreadInv, TaskType, AddNewKey
  <2>2. Uses(t) = {} /\ Uses(t)' = {}
    BY DEF AddNewKey, Idle, Uses
  <2>3. Apart(t, {b})
    BY DEF AddNewKey, Available, Apart
  <2>4. Outside({b})
    BY <1>3 DEF AddNewKey, Outside, IInv, HeapInv, HeapType, Slots
  <2>5. EditOK(t)' /\ JobOK(t)' /\ DeadOK(b)'
    BY DEF AddNewKey, Idle, EditOK, JobOK, DeadOK
  <2> QED
    BY <2>1, <2>2, <2>3, <2>4, <2>5, Frame DEF IInv
<1> QED
  BY <1>2, <1>4 DEF IInv

LEMMA BeginEditStep ==
    ASSUME IInv, NEW t \in Threads, NEW b \in Bitmaps, NEW k \in Keys, NEW e \in Edits,
           BeginEdit(t, b, k, e)
    PROVE  IInv' /\ FrozenStep
<1> USE NullAssumption, DisjointAssumption DEF Refs
<1> DEFINE s == <<b, k>>
<1>1. s \in Slots /\ slot[s] \in Refs \cup {Null}
  BY DEF Slots, IInv, HeapInv, HeapType
<1>2. PICK w \in Wrappers \cup {Null} :
         edit' = [edit EXCEPT ![t] = [b |-> b, k |-> k, e |-> e, w |-> w]]
  BY DEF BeginEdit, UnsharePrivate, UnshareLast, UnshareDrop
<1>3. /\ HeapInv' /\ FrozenStep
      /\ w = Null => slot'[s] \in Containers
      /\ w # Null => slot'[s] = Null
      /\ \A x \in Slots \ {s} : slot'[x] = slot[x]
  <2>1. CASE UnsharePrivate(t, b, k, e)
    <3>1. w = Null
      BY <1>2, <2>1 DEF UnsharePrivate, IInv, ThreadInv, TaskType
    <3> QED
      BY <2>1, <3>1, SameHeap DEF UnsharePrivate, IInv
  <2>2. CASE UnshareLast(t, b, k, e)
    <3>1. w = Null
      BY <1>2, <2>2 DEF UnshareLast, IInv, ThreadInv, TaskType
    <3>2. HeapInv' /\ FrozenStep /\ slot'[s] \in Containers
      BY <1>1, <2>2, StealHeap DEF UnshareLast, IInv
    <3> QED
      BY <2>2, <3>1, <3>2 DEF UnshareLast, IInv, HeapInv, HeapType
  <2>3. CASE UnshareDrop(t, b, k, e)
    <3>1. PICK z \in Wrappers : slot[s] = z /\ wrapper[z] # Null
      BY <1>1, <2>3 DEF UnshareDrop, IInv, HeapInv, NoDangling
    <3>2. w # Null
      BY <1>2, <2>3 DEF UnshareDrop, IInv, ThreadInv, TaskType
    <3>3. wrapper' = Recounted(z, wrapper[z].counter - 1)
      BY <2>3, <3>1, RecountedType DEF UnshareDrop, IInv
    <3>4. HeapInv' /\ FrozenStep
      BY <1>1, <2>3, <3>1, <3>3, DropHeap DEF UnshareDrop, IInv
    <3> QED
      BY <1>1, <2>3, <3>2, <3>4 DEF UnshareDrop, IInv, HeapInv, HeapType
  <2> QED
    BY <2>1, <2>2, <2>3 DEF BeginEdit
<1>4. ThreadInv'
  <2>1. /\ edit'[t] = [b |-> b, k |-> k, e |-> e, w |-> w]
        /\ \A u \in Threads \ {t} : edit'[u] = edit[u]
        /\ UNCHANGED <<live, job>> /\ job[t] = Null /\ edit[t] = Null /\ b \in live
    BY <1>2 DEF BeginEdit, Idle, IInv, ThreadInv, TaskType
  <2>2. TaskType'
    BY <1>2, <2>1 DEF IInv, ThreadInv, TaskType, EditStates
  <2>3. edit'[t] # Null
    BY <2>1 DEF EditStates
  <2>4. Uses(t) = {} /\ Uses(t)' = {b}
    BY <2>1, <2>3 DEF Uses
  <2>5. Apart(t, {b})
    BY <2>1 DEF BeginEdit, Available, Apart
  <2>6. Outside({b})
    BY <1>3, <2>1 DEF Outside, Slots
  <2>7. EditOK(t)' /\ JobOK(t)' /\ DeadOK(b)'
    BY <1>3, <2>1 DEF EditOK, JobOK, DeadOK
  <2> QED
    BY <2>2, <2>4, <2>5, <2>6, <2>7, Frame DEF IInv
<1> QED
  BY <1>3, <1>4 DEF IInv

\* The values a slot holds are values.
LEMMA ValuesType ==
    ASSUME HeapInv, NEW r \in Refs \cup {Null},
           r \in Wrappers => wrapper[r] # Null,
           r \in Containers => cont[r] # Null
    PROVE  ValuesOf(r) \in SUBSET Vals
<1>1. CASE r = Null
  BY <1>1, NullAssumption DEF ValuesOf
<1>2. CASE r \in Wrappers
  <2>1. wrapper[r].container \in Containers /\ cont[wrapper[r].container] # Null
    BY <1>2 DEF HeapInv, HeapType, NoDangling, SharedContainers
  <2> QED
    BY <1>2, <2>1, NullAssumption DEF ValuesOf, HeapInv, HeapType, Refs
<1>3. CASE r \in Containers
  BY <1>3, NullAssumption, DisjointAssumption DEF ValuesOf, HeapInv, HeapType, Refs
<1> QED
  BY <1>1, <1>2, <1>3 DEF Refs

LEMMA SlotValues ==
    ASSUME HeapInv, NEW s \in Slots
    PROVE  slot[s] \in Refs \cup {Null} /\ ValuesOf(slot[s]) \in SUBSET Vals
<1>1. slot[s] \in Refs \cup {Null}
  BY DEF HeapInv, HeapType
<1> QED
  BY <1>1, ValuesType, NullAssumption, DisjointAssumption
     DEF HeapInv, NoDangling, Refs

LEMMA EditedType ==
    ASSUME NEW e \in Edits, NEW vals \in SUBSET Vals
    PROVE  Edited(e, vals) \in SUBSET Vals
<1>1. e.op = "add" => e.v \in Vals
  BY DEF Edits
<1> QED
  BY <1>1 DEF Edited

LEMMA CombinedType ==
    ASSUME NEW op \in InPlace \cup OutOfPlace,
           NEW v1 \in SUBSET Vals, NEW v2 \in SUBSET Vals
    PROVE  Combined(op, v1, v2) \in SUBSET Vals
BY DEF Combined, InPlace, OutOfPlace

LEMMA CloneStep ==
    ASSUME IInv, NEW t \in Threads, Clone(t)
    PROVE  IInv' /\ FrozenStep
<1> USE NullAssumption, DisjointAssumption DEF Refs
<1>1. PICK d \in EditStates : edit[t] = d /\ d.w # Null
  BY DEF Clone, IInv, ThreadInv, TaskType
<1> DEFINE s == <<d.b, d.k>>
<1>2. d.b \in Bitmaps /\ d.k \in Keys /\ d.w \in Wrappers /\ d.e \in Edits
  BY <1>1 DEF EditStates
<1>3. s \in Slots /\ slot[s] = Null /\ d.b \in live /\ job[t] = Null
  BY <1>1, <1>2 DEF Slots, IInv, ThreadInv, EditOK
<1>4. PICK vals \in SUBSET Vals : Allocate(s, vals)
  <2>1. wrapper[d.w] # Null => ValuesOf(d.w) \in SUBSET Vals
    BY <1>2, ValuesType DEF IInv
  <2> QED
    BY <1>1, <2>1 DEF Clone
<1>5. HeapInv' /\ FrozenStep
  BY <1>3, <1>4, AllocateHeap DEF IInv
<1>6. PICK c \in Containers : slot' = [slot EXCEPT ![s] = c]
  BY <1>4 DEF Allocate
<1>7. edit' = [edit EXCEPT ![t] = [b |-> d.b, k |-> d.k, e |-> d.e, w |-> Null]]
  <2>1. [d EXCEPT !.w = Null] = [b |-> d.b, k |-> d.k, e |-> d.e, w |-> Null]
    BY DEF EditStates
  <2> QED
    BY <1>1, <2>1 DEF Clone, IInv, ThreadInv, TaskType
<1>8. ThreadInv'
  <2>1. TaskType'
    BY <1>2, <1>7 DEF Clone, IInv, ThreadInv, TaskType, EditStates
  <2>2. edit'[t] = [b |-> d.b, k |-> d.k, e |-> d.e, w |-> Null]
    BY <1>7 DEF IInv, ThreadInv, TaskType
  <2>3. edit'[t] # Null
    BY <1>2, <2>2 DEF EditStates
  <2>4. Uses(t) = {d.b} /\ Uses(t)' = {d.b}
    BY <1>1, <1>3, <2>2, <2>3 DEF Uses, Clone
  <2>5. Apart(t, {d.b})
    BY <1>7, <2>4 DEF Apart, IInv, ThreadInv, TaskType, Clone
  <2>6. Outside({d.b})
    BY <1>6 DEF Outside, Clone, IInv, HeapInv, HeapType, Slots
  <2>7. slot'[s] = c
    BY <1>3, <1>6 DEF IInv, HeapInv, HeapType
  <2>8. EditOK(t)' /\ JobOK(t)' /\ DeadOK(d.b)'
    BY <1>3, <2>2, <2>7 DEF EditOK, JobOK, DeadOK, Clone
  <2> QED
    BY <1>2, <2>1, <2>4, <2>5, <2>6, <2>8, Frame DEF IInv
<1> QED
  BY <1>5, <1>8 DEF IInv

LEMMA StoreStep ==
    ASSUME IInv, NEW t \in Threads, Store(t)
    PROVE  IInv' /\ FrozenStep
<1> USE NullAssumption, DisjointAssumption DEF Refs
<1>1. PICK d \in EditStates : edit[t] = d /\ d.w = Null
  BY DEF Store, IInv, ThreadInv, TaskType
<1> DEFINE s == <<d.b, d.k>>
           new == Edited(d.e, cont[slot[s]])
<1>2. d.b \in Bitmaps /\ d.k \in Keys /\ d.e \in Edits
  BY <1>1 DEF EditStates
<1>3. s \in Slots /\ slot[s] \in Containers /\ d.b \in live /\ job[t] = Null
  BY <1>1, <1>2 DEF Slots, IInv, ThreadInv, EditOK
<1>4. new \in SUBSET Vals
  <2>1. cont[slot[s]] \in SUBSET Vals
    BY <1>3 DEF IInv, HeapInv, HeapType, NoDangling
  <2> QED
    BY <1>2, <2>1, EditedType
<1>5. Release(s) \/ Overwrite(s, new) \/ Replace(s, new)
  BY <1>1 DEF Store
<1>6. HeapInv' /\ FrozenStep
  BY <1>3, <1>4, <1>5, ReleaseHeap, OverwriteHeap, ReplaceHeap DEF IInv
<1>7. \A x \in Slots \ {s} : slot'[x] = slot[x]
  BY <1>5 DEF Release, Overwrite, Replace, IInv, HeapInv, HeapType
<1>8. ThreadInv'
  <2>1. TaskType'
    BY DEF Store, IInv, ThreadInv, TaskType
  <2>2. edit'[t] = Null /\ job'[t] = Null
    BY <1>3 DEF Store, IInv, ThreadInv, TaskType
  <2>3. Uses(t) = {d.b} /\ Uses(t)' = {}
    BY <1>1, <1>3, <2>2 DEF Uses
  <2>4. Apart(t, {d.b})
    BY <2>3 DEF Apart, IInv, ThreadInv, TaskType, Store
  <2>5. Outside({d.b})
    BY <1>7 DEF Outside, Store, Slots
  <2>6. EditOK(t)' /\ JobOK(t)' /\ DeadOK(d.b)'
    BY <1>3, <2>2 DEF EditOK, JobOK, DeadOK, Store
  <2> QED
    BY <1>2, <2>1, <2>3, <2>4, <2>5, <2>6, Frame DEF IInv
<1> QED
  BY <1>6, <1>8 DEF IInv

Operations == InPlace \cup OutOfPlace \cup Emptying \cup {"copy"}

\* A bitmap that does not exist, and is not being freed, holds nothing.
LEMMA DeadIsEmpty ==
    ASSUME IInv, NEW b \in Bitmaps, b \notin live, Available(b)
    PROVE  \A k \in Keys : slot[<<b, k>>] = Null
<1>1. \A t \in Threads : job[t] # Null => job[t].b # b
  BY DEF Available, Uses
<1> QED
  BY <1>1 DEF IInv, ThreadInv, DeadOK

\* The start of an operation on whole bitmaps.
LEMMA BeginJob ==
    ASSUME IInv, NEW t \in Threads, NEW op \in Operations,
           NEW b \in Bitmaps, NEW x \in Bitmaps, NEW y \in Bitmaps,
           Idle(t), Available(b), Available(x), Available(y),
           UNCHANGED <<slot, cont, wrapper, edit>>,
           job' = [job EXCEPT ![t] = Job(op, b, x, y)],
           live' = IF op = "free" THEN live \ {b} ELSE live \cup {b},
           op = "free" => x = b /\ y = b,
           op # "free" => {x, y} \subseteq live \cup {b},
           op \notin {"free", "clear"} => b # x /\ b # y,
           op \in InPlace => y = x,
           op \in OutOfPlace \cup {"copy"} => b \notin live
    PROVE  IInv' /\ FrozenStep
<1> USE NullAssumption
<1> DEFINE X == {b, x, y}
<1>1. HeapInv' /\ FrozenStep
  BY SameHeap DEF IInv
<1>2. Job(op, b, x, y) \in JobStates
  BY DEF Job, JobStates, Operations
<1>3. TaskType'
  BY <1>2 DEF IInv, ThreadInv, TaskType
<1>4. /\ job'[t] = [op |-> op, b |-> b, x |-> x, y |-> y, todo |-> Keys]
      /\ job'[t] # Null
      /\ \A u \in Threads \ {t} : job'[u] = job[u]
  BY <1>2 DEF Job, IInv, ThreadInv, TaskType
<1>5. Uses(t) = {} /\ Uses(t)' = X
  BY <1>4 DEF Uses, Idle
<1>6. Apart(t, X)
  BY <1>4 DEF Apart, Available
<1>7. Outside(X)
  BY DEF Outside
<1>8. EditOK(t)'
  BY DEF EditOK, Idle
<1>9. JobOK(t)'
  <2>1. op \in OutOfPlace \cup {"copy"} => \A k \in Keys : slot'[<<b, k>>] = Null
    BY DeadIsEmpty
  <2> QED
    BY <1>4, <2>1 DEF JobOK
<1>10. \A z \in X : DeadOK(z)'
  <2>1. CASE op = "free"
    BY <1>4, <2>1 DEF DeadOK
  <2>2. CASE op # "free"
    BY <2>2 DEF DeadOK
  <2> QED
    BY <2>1, <2>2
<1>11. ThreadInv'
  BY <1>3, <1>5, <1>6, <1>7, <1>8, <1>9, <1>10, Frame DEF IInv
<1> QED
  BY <1>1, <1>11 DEF IInv

LEMMA BeginStep ==
    ASSUME IInv, NEW t \in Threads,
           \/ \E b \in Bitmaps : BeginFree(t, b) \/ BeginClear(t, b)
           \/ \E b, x \in Bitmaps : BeginOverwrite(t, b, x) \/ BeginCopy(t, b, x)
           \/ \E op \in InPlace, b, x \in Bitmaps : BeginInPlace(t, op, b, x)
           \/ \E op \in OutOfPlace, b, x, y \in Bitmaps :
                 BeginOutOfPlace(t, op, b, x, y)
    PROVE  IInv' /\ FrozenStep
<1> USE DEF Operations, InPlace, OutOfPlace, Emptying
<1>1. ASSUME NEW b \in Bitmaps, BeginFree(t, b) PROVE IInv' /\ FrozenStep
  BY <1>1, BeginJob, "free" \in Operations DEF BeginFree
<1>2. ASSUME NEW b \in Bitmaps, BeginClear(t, b) PROVE IInv' /\ FrozenStep
  <2>1. live' = live \cup {b}
    BY <1>2 DEF BeginClear
  <2> QED
    BY <1>2, <2>1, BeginJob, "clear" \in Operations DEF BeginClear
<1>3. ASSUME NEW b \in Bitmaps, NEW x \in Bitmaps, BeginOverwrite(t, b, x)
      PROVE  IInv' /\ FrozenStep
  <2>1. live' = live \cup {b}
    BY <1>3 DEF BeginOverwrite
  <2>2. /\ "overwrite" \in Operations /\ "overwrite" # "free"
        /\ "overwrite" \notin OutOfPlace \cup {"copy"}
    OBVIOUS
  <2>3. /\ b # x /\ {b, x} \subseteq live /\ Idle(t) /\ Available(b) /\ Available(x)
        /\ job' = [job EXCEPT ![t] = Job("overwrite", b, x, x)]
        /\ UNCHANGED <<slot, cont, wrapper, edit>>
    BY <1>3 DEF BeginOverwrite
  <2> QED
    BY <2>1, <2>2, <2>3, BeginJob
<1>4. ASSUME NEW b \in Bitmaps, NEW x \in Bitmaps, BeginCopy(t, b, x)
      PROVE  IInv' /\ FrozenStep
  BY <1>4, BeginJob, "copy" \in Operations DEF BeginCopy
<1>5. ASSUME NEW op \in InPlace, NEW b \in Bitmaps, NEW x \in Bitmaps,
             BeginInPlace(t, op, b, x)
      PROVE  IInv' /\ FrozenStep
  <2>1. live' = live \cup {b}
    BY <1>5 DEF BeginInPlace
  <2>2. op \in Operations /\ op # "free" /\ op \notin OutOfPlace \cup {"copy"}
    OBVIOUS
  <2>3. /\ b # x /\ {b, x} \subseteq live /\ Idle(t) /\ Available(b) /\ Available(x)
        /\ job' = [job EXCEPT ![t] = Job(op, b, x, x)]
        /\ UNCHANGED <<slot, cont, wrapper, edit>>
    BY <1>5 DEF BeginInPlace
  <2> QED
    BY <2>1, <2>2, <2>3, BeginJob
<1>6. ASSUME NEW op \in OutOfPlace, NEW b \in Bitmaps, NEW x \in Bitmaps,
             NEW y \in Bitmaps, BeginOutOfPlace(t, op, b, x, y)
      PROVE  IInv' /\ FrozenStep
  <2>1. op \in Operations /\ op # "free"
    OBVIOUS
  <2>2. /\ b \notin live /\ {x, y} \subseteq live
        /\ Idle(t) /\ Available(b) /\ Available(x) /\ Available(y)
        /\ live' = live \cup {b}
        /\ job' = [job EXCEPT ![t] = Job(op, b, x, y)]
        /\ UNCHANGED <<slot, cont, wrapper, edit>>
    BY <1>6 DEF BeginOutOfPlace
  <2>3. b # x /\ b # y
    BY <2>2
  <2> QED
    BY <2>1, <2>2, <2>3, BeginJob
<1> QED
  BY <1>1, <1>2, <1>3, <1>4, <1>5, <1>6

LEMMA JobDoneStep ==
    ASSUME IInv, NEW t \in Threads, JobDone(t)
    PROVE  IInv' /\ FrozenStep
<1> USE NullAssumption
<1>1. HeapInv' /\ FrozenStep
  BY SameHeap DEF IInv, JobDone
<1>2. PICK j \in JobStates : job[t] = j /\ j.todo = {}
  BY DEF JobDone, IInv, ThreadInv, TaskType
<1>3. /\ j.op \in Operations /\ j.b \in Bitmaps /\ j.x \in Bitmaps /\ j.y \in Bitmaps
  BY DEF JobStates, Operations
<1> DEFINE X == {j.b, j.x, j.y}
<1>4. /\ edit[t] = Null /\ JobOK(t)
      /\ \A k \in Keys : j.op \in Emptying => slot[<<j.b, k>>] = Null
  BY <1>2 DEF IInv, ThreadInv, EditOK, JobOK
<1>5. Job("copy", j.b, j.x, j.x) \in JobStates
  BY <1>3 DEF Job, JobStates
<1>6. CASE j.op = "overwrite"
  <2>1. /\ job' = [job EXCEPT ![t] = Job("copy", j.b, j.x, j.x)]
        /\ UNCHANGED <<live, slot, edit>>
    BY <1>2, <1>6 DEF JobDone
  <2>2. TaskType'
    BY <1>5, <2>1 DEF IInv, ThreadInv, TaskType
  <2>3. /\ job'[t] = [op |-> "copy", b |-> j.b, x |-> j.x, y |-> j.x, todo |-> Keys]
        /\ job'[t] # Null
        /\ \A u \in Threads \ {t} : job'[u] = job[u]
    BY <1>5, <2>1 DEF Job, IInv, ThreadInv, TaskType
  <2>4. Uses(t) = X /\ Uses(t)' \subseteq X
    BY <1>2, <1>4, <2>1, <2>3 DEF Uses
  <2>5. Apart(t, X) /\ Outside(X)
    BY <2>1, <2>3, <2>4 DEF Apart, Outside, IInv, ThreadInv
  <2>6. EditOK(t)'
    BY <1>4, <2>1 DEF EditOK
  <2>7. JobOK(t)'
    BY <1>2, <1>4, <1>6, <2>1, <2>3 DEF JobOK, Emptying, OutOfPlace
  <2>8. \A z \in X : DeadOK(z)'
    BY <1>2, <1>4, <1>6, <2>1 DEF JobOK, DeadOK
  <2> QED
    BY <1>1, <1>3, <2>2, <2>4, <2>5, <2>6, <2>7, <2>8, Frame DEF IInv
<1>7. CASE j.op # "overwrite"
  <2>1. /\ job' = [job EXCEPT ![t] = Null]
        /\ UNCHANGED <<live, slot, edit>>
    BY <1>2, <1>7 DEF JobDone
  <2>2. TaskType'
    BY <2>1 DEF IInv, ThreadInv, TaskType
  <2>3. job'[t] = Null /\ \A u \in Threads \ {t} : job'[u] = job[u]
    BY <2>1 DEF IInv, ThreadInv, TaskType
  <2>4. Uses(t) = X /\ Uses(t)' = {}
    BY <1>2, <1>4, <2>1, <2>3 DEF Uses
  <2>5. Apart(t, X) /\ Outside(X)
    BY <2>1, <2>3, <2>4 DEF Apart, Outside, IInv, ThreadInv
  <2>6. EditOK(t)' /\ JobOK(t)'
    BY <1>4, <2>1, <2>3 DEF EditOK, JobOK
  <2>7. \A z \in X : DeadOK(z)'
    <3>1. \A z \in X : z \in live \/ j.op = "free"
      BY <1>2, <1>4 DEF JobOK
    <3>2. j.op = "free" => \A k \in Keys : slot[<<j.b, k>>] = Null
      BY <1>4 DEF Emptying
    <3>3. \A z \in X : DeadOK(z)
      BY <1>3 DEF IInv, ThreadInv
    <3>4. ASSUME NEW z \in X, z # j.b PROVE DeadOK(z)'
      <4>1. \A u \in Threads : job[u] # Null /\ job[u].b = z => job'[u] = job[u]
        BY <1>2, <2>3, <3>4
      <4> QED
        BY <2>1, <3>3, <4>1 DEF DeadOK
    <3> QED
      BY <2>1, <3>1, <3>2, <3>4 DEF DeadOK
  <2> QED
    BY <1>1, <1>3, <2>2, <2>4, <2>5, <2>6, <2>7, Frame DEF IInv
<1> QED
  BY <1>6, <1>7

\* What one key of an operation may do to the slots: nothing but the slots of
\* that key in the operation's bitmaps change, and an operation that empties its
\* destination leaves the slot empty.
KeyEffect(op, b, x, y, k) ==
    /\ \A s \in Slots \ {<<b, k>>, <<x, k>>, <<y, k>>} : slot'[s] = slot[s]
    /\ op \in Emptying => /\ slot'[<<b, k>>] = Null
                          /\ \A s \in Slots \ {<<b, k>>} : slot'[s] = slot[s]

LEMMA ReleaseKeyEffect ==
    ASSUME HeapInv, NEW op, NEW b \in Bitmaps, NEW x \in Bitmaps, NEW y \in Bitmaps,
           NEW k \in Keys, ReleaseKey(b, k)
    PROVE  HeapInv' /\ FrozenStep /\ KeyEffect(op, b, x, y, k)
<1>1. <<b, k>> \in Slots
  BY DEF Slots
<1>2. CASE slot[<<b, k>>] = Null
  <2>1. UNCHANGED <<slot, cont, wrapper>>
    BY <1>2 DEF ReleaseKey, Skip
  <2> QED
    BY <1>2, <2>1, SameHeap DEF KeyEffect
<1>3. CASE slot[<<b, k>>] # Null
  <2>1. Release(<<b, k>>)
    BY <1>3 DEF ReleaseKey
  <2>2. slot' = [slot EXCEPT ![<<b, k>>] = Null]
    BY <2>1 DEF Release
  <2>3. KeyEffect(op, b, x, y, k)
    BY <1>1, <2>2 DEF KeyEffect, HeapInv, HeapType
  <2> QED
    BY <1>1, <1>3, <2>1, <2>3, ReleaseHeap
<1> QED
  BY <1>2, <1>3

LEMMA ShareKeyEffect ==
    ASSUME HeapInv, NEW op, NEW b \in Bitmaps, NEW x \in Bitmaps, NEW y \in Bitmaps,
           NEW z \in {x, y}, NEW k \in Keys, op \notin Emptying,
           b # z, slot[<<b, k>>] = Null, ShareKey(b, k, z)
    PROVE  HeapInv' /\ FrozenStep /\ KeyEffect(op, b, x, y, k)
<1>1. <<b, k>> \in Slots /\ <<z, k>> \in Slots /\ <<z, k>> # <<b, k>>
  BY DEF Slots
<1>2. CASE slot[<<z, k>>] = Null
  <2>1. UNCHANGED <<slot, cont, wrapper>>
    BY <1>2 DEF ShareKey, Skip
  <2> QED
    BY <1>2, <2>1, SameHeap DEF KeyEffect
<1>3. CASE slot[<<z, k>>] # Null
  <2>1. Share(<<z, k>>, <<b, k>>)
    BY <1>3 DEF ShareKey
  <2>2. HeapInv' /\ FrozenStep
    BY <1>1, <1>3, <2>1, ShareHeap
  <2>3. \A s \in Slots \ {<<z, k>>, <<b, k>>} : slot'[s] = slot[s]
    BY <2>1 DEF Share, HeapInv, HeapType
  <2> QED
    BY <2>2, <2>3 DEF KeyEffect
<1> QED
  BY <1>2, <1>3

LEMMA InPlaceKeyEffect ==
    ASSUME HeapInv, NEW op \in InPlace, NEW b \in Bitmaps, NEW x \in Bitmaps,
           NEW k \in Keys, b # x, InPlaceKey(op, b, k, x)
    PROVE  HeapInv' /\ FrozenStep /\ KeyEffect(op, b, x, x, k)
<1> DEFINE s == <<b, k>>
           vals == Combined(op, ValuesOf(slot[s]), ValuesOf(slot[<<x, k>>]))
<1>1. s \in Slots /\ <<x, k>> \in Slots
  BY DEF Slots
<1>2. op \notin Emptying
  BY DEF InPlace, Emptying
<1>3. vals \in SUBSET Vals
  BY <1>1, SlotValues, CombinedType
<1>4. CASE slot[s] = Null /\ KeepsRight(op)
  BY <1>2, <1>4, ShareKeyEffect DEF InPlaceKey
<1>5. CASE UNCHANGED <<slot, cont, wrapper>>
  BY <1>2, <1>5, SameHeap DEF KeyEffect
<1>6. CASE slot[s] # Null /\ (Release(s) \/ Replace(s, vals))
  <2>1. HeapInv' /\ FrozenStep
    BY <1>1, <1>3, <1>6, ReleaseHeap, ReplaceHeap
  <2>2. \A d \in Slots \ {s} : slot'[d] = slot[d]
    BY <1>1, <1>6 DEF Release, Replace, HeapInv, HeapType
  <2> QED
    BY <1>2, <2>1, <2>2 DEF KeyEffect
<1>7. CASE slot[s] \in Containers /\ Overwrite(s, vals)
  <2>1. slot' = slot
    BY <1>7 DEF Overwrite
  <2> QED
    BY <1>1, <1>2, <1>3, <1>7, <2>1, OverwriteHeap DEF KeyEffect
<1> QED
  BY <1>4, <1>5, <1>6, <1>7 DEF InPlaceKey, Skip

LEMMA OutOfPlaceKeyEffect ==
    ASSUME HeapInv, NEW op \in OutOfPlace, NEW b \in Bitmaps, NEW x \in Bitmaps,
           NEW y \in Bitmaps, NEW k \in Keys, b # x, b # y, slot[<<b, k>>] = Null,
           OutOfPlaceKey(op, b, k, x, y)
    PROVE  HeapInv' /\ FrozenStep /\ KeyEffect(op, b, x, y, k)
<1> DEFINE s == <<b, k>>
           vals == Combined(op, ValuesOf(slot[<<x, k>>]), ValuesOf(slot[<<y, k>>]))
<1>1. s \in Slots /\ <<x, k>> \in Slots /\ <<y, k>> \in Slots
  BY DEF Slots
<1>2. op \notin Emptying
  BY DEF OutOfPlace, Emptying
<1>3. vals \in SUBSET Vals
  BY <1>1, SlotValues, CombinedType
<1>4. CASE ShareKey(b, k, x) \/ ShareKey(b, k, y)
  BY <1>2, <1>4, ShareKeyEffect
<1>5. CASE UNCHANGED <<slot, cont, wrapper>>
  BY <1>2, <1>5, SameHeap DEF KeyEffect
<1>6. CASE Allocate(s, vals)
  <2>1. HeapInv' /\ FrozenStep
    BY <1>1, <1>3, <1>6, AllocateHeap
  <2>2. \A d \in Slots \ {s} : slot'[d] = slot[d]
    BY <1>1, <1>6 DEF Allocate, HeapInv, HeapType
  <2> QED
    BY <1>2, <2>1, <2>2 DEF KeyEffect
<1> QED
  BY <1>4, <1>5, <1>6 DEF OutOfPlaceKey, Skip

LEMMA JobKeyStep ==
    ASSUME IInv, NEW t \in Threads, JobKey(t)
    PROVE  IInv' /\ FrozenStep
<1> USE NullAssumption
<1>1. PICK j \in JobStates : job[t] = j
  BY DEF JobKey, IInv, ThreadInv, TaskType
<1>2. /\ j.op \in Operations /\ j.b \in Bitmaps /\ j.x \in Bitmaps /\ j.y \in Bitmaps
      /\ j.todo \subseteq Keys /\ j # Null
  BY DEF JobStates, Operations
<1>3. PICK k \in j.todo :
         /\ \/ j.op \in Emptying /\ ReleaseKey(j.b, k)
            \/ j.op = "copy" /\ ShareKey(j.b, k, j.x)
            \/ j.op \in InPlace /\ InPlaceKey(j.op, j.b, k, j.x)
            \/ j.op \in OutOfPlace /\ OutOfPlaceKey(j.op, j.b, k, j.x, j.y)
         /\ job' = [job EXCEPT ![t].todo = @ \ {k}]
  BY <1>1 DEF JobKey
<1>4. /\ edit[t] = Null
      /\ j.op \notin {"free", "clear"} => j.b # j.x /\ j.b # j.y
      /\ j.op # "free" => {j.b, j.x, j.y} \subseteq live
      /\ j.op \in InPlace => j.y = j.x
      /\ j.op \in OutOfPlace \cup {"copy"} => \A c \in j.todo : slot[<<j.b, c>>] = Null
      /\ j.op \in Emptying => \A c \in Keys \ j.todo : slot[<<j.b, c>>] = Null
  BY <1>1, <1>2 DEF IInv, ThreadInv, EditOK, JobOK
<1>5. HeapInv' /\ FrozenStep /\ KeyEffect(j.op, j.b, j.x, j.y, k)
  <2>1. CASE j.op \in Emptying /\ ReleaseKey(j.b, k)
    BY <1>2, <2>1, ReleaseKeyEffect DEF IInv
  <2>2. CASE j.op = "copy" /\ ShareKey(j.b, k, j.x)
    <3>1. j.op \notin Emptying /\ j.b # j.x /\ slot[<<j.b, k>>] = Null
      BY <1>4, <2>2 DEF Emptying
    <3> QED
      BY <1>2, <2>2, <3>1, ShareKeyEffect DEF IInv
  <2>3. CASE j.op \in InPlace /\ InPlaceKey(j.op, j.b, k, j.x)
    <3>1. j.b # j.x
      BY <1>4, <2>3 DEF InPlace
    <3>2. HeapInv' /\ FrozenStep /\ KeyEffect(j.op, j.b, j.x, j.x, k)
      BY <1>2, <2>3, <3>1, InPlaceKeyEffect DEF IInv
    <3> QED
      BY <2>3, <3>2 DEF KeyEffect
  <2>4. CASE j.op \in OutOfPlace /\ OutOfPlaceKey(j.op, j.b, k, j.x, j.y)
    <3>1. j.b # j.x /\ j.b # j.y /\ slot[<<j.b, k>>] = Null
      BY <1>4, <2>4 DEF OutOfPlace
    <3> QED
      BY <1>2, <2>4, <3>1, OutOfPlaceKeyEffect DEF IInv
  <2> QED
    BY <1>3, <2>1, <2>2, <2>3, <2>4
<1>6. job' = [job EXCEPT ![t] = [op |-> j.op, b |-> j.b, x |-> j.x, y |-> j.y,
                                 todo |-> j.todo \ {k}]]
  <2>1. [j EXCEPT !.todo = @ \ {k}] = [op |-> j.op, b |-> j.b, x |-> j.x, y |-> j.y,
                                       todo |-> j.todo \ {k}]
    BY DEF JobStates
  <2> QED
    BY <1>1, <1>3, <2>1 DEF IInv, ThreadInv, TaskType
<1> DEFINE X == {j.b, j.x, j.y}
<1>7. TaskType'
  <2>1. [op |-> j.op, b |-> j.b, x |-> j.x, y |-> j.y, todo |-> j.todo \ {k}]
           \in JobStates
    BY <1>2 DEF JobStates, Operations
  <2> QED
    BY <1>6, <2>1 DEF IInv, ThreadInv, TaskType, JobKey
<1>8. /\ job'[t] = [op |-> j.op, b |-> j.b, x |-> j.x, y |-> j.y,
                    todo |-> j.todo \ {k}]
      /\ \A u \in Threads \ {t} : job'[u] = job[u]
      /\ UNCHANGED <<live, edit>>
  BY <1>6 DEF IInv, ThreadInv, TaskType, JobKey
<1>9. job'[t] # Null
  BY <1>7, <1>8 DEF TaskType, JobStates
<1>10. Uses(t) = X /\ Uses(t)' = X
  BY <1>1, <1>2, <1>4, <1>8, <1>9 DEF Uses
<1>11. Apart(t, X)
  BY <1>8, <1>10 DEF Apart, IInv, ThreadInv
<1>12. Outside(X)
  BY <1>5, <1>8 DEF Outside, KeyEffect, Slots
<1>13. EditOK(t)'
  BY <1>4, <1>8 DEF EditOK
<1>14. JobOK(t)'
  <2>1. \A c \in j.todo \ {k} : slot'[<<j.b, c>>] = slot[<<j.b, c>>]
    BY <1>2, <1>5 DEF KeyEffect, Slots
  <2>2. j.op \in Emptying => \A c \in Keys \ (j.todo \ {k}) : slot'[<<j.b, c>>] = Null
    BY <1>2, <1>4, <1>5 DEF KeyEffect, Slots
  <2> QED
    BY <1>4, <1>8, <2>1, <2>2 DEF JobOK
<1>15. \A z \in X : DeadOK(z)'
  <2>1. CASE j.op # "free"
    BY <1>4, <1>8, <2>1 DEF DeadOK
  <2>2. CASE j.op = "free"
    <3> SUFFICES ASSUME NEW z \in X PROVE DeadOK(z)'
      OBVIOUS
    <3>1. z \in Bitmaps /\ DeadOK(z)
      BY <1>2 DEF IInv, ThreadInv
    <3>2. \A s \in Slots : slot[s] = Null => slot'[s] = Null
      BY <1>5, <2>2 DEF KeyEffect, Emptying
    <3>3. \A u \in Threads : job[u] # Null /\ job[u].op = "free" /\ job[u].b = z
                                => job'[u] # Null /\ job'[u].op = "free" /\ job'[u].b = z
      BY <1>1, <1>8, <1>9
    <3> QED
      BY <1>8, <3>1, <3>2, <3>3 DEF DeadOK, Slots
  <2> QED
    BY <2>1, <2>2
<1>16. ThreadInv'
  BY <1>2, <1>7, <1>10, <1>11, <1>12, <1>13, <1>14, <1>15, Frame DEF IInv
<1> QED
  BY <1>5, <1>16 DEF IInv
-------------------------------------------------------------------------------
LEMMA InitInv == Init => IInv
<1> SUFFICES ASSUME Init PROVE IInv
  OBVIOUS
<1> USE NullAssumption DEF Init
<1>1. HeapType /\ TaskType
  BY DEF HeapType, TaskType
<1>2. Counted /\ NoDangling /\ OneOwner
  <2>1. /\ \A s \in Slots : slot[s] = Null
        /\ \A c \in Containers : cont[c] = Null /\ c # Null
        /\ \A w \in Wrappers : wrapper[w] = Null
    BY DEF Refs
  <2>2. Counted
    BY <2>1 DEF Counted
  <2>3. NoDangling
    BY <2>1 DEF NoDangling
  <2>4. OneOwner
    BY <2>1 DEF OneOwner, Encloses
  <2> QED
    BY <2>2, <2>3, <2>4
<1>3. \A t \in Threads : Uses(t) = {} /\ EditOK(t) /\ JobOK(t)
  BY DEF Uses, EditOK, JobOK
<1>4. \A b \in Bitmaps : DeadOK(b)
  BY DEF DeadOK, Slots
<1> QED
  BY <1>1, <1>2, <1>3, <1>4 DEF IInv, HeapInv, ThreadInv

LEMMA StutterStep ==
    ASSUME IInv, UNCHANGED vars
    PROVE  IInv' /\ FrozenStep
<1> USE DEF vars
<1>1. HeapInv' /\ FrozenStep
  BY SameHeap DEF IInv
<1>2. TaskType'
  BY DEF IInv, ThreadInv, TaskType
<1>3. \A t \in Threads : Uses(t)' = Uses(t) /\ EditOK(t)' /\ JobOK(t)'
  BY DEF IInv, ThreadInv, Uses, EditOK, JobOK
<1>4. \A b \in Bitmaps : DeadOK(b)'
  BY DEF IInv, ThreadInv, DeadOK
<1>5. ThreadInv'
  BY <1>2, <1>3, <1>4 DEF IInv, ThreadInv
<1> QED
  BY <1>1, <1>5 DEF IInv

LEMMA NextStep ==
    ASSUME IInv, [Next]_vars
    PROVE  IInv' /\ FrozenStep
<1>1. CASE UNCHANGED vars
  BY <1>1, StutterStep
<1>2. ASSUME NEW t \in Threads, Step(t) PROVE IInv' /\ FrozenStep
  BY <1>2, CreateStep, AddNewKeyStep, BeginEditStep, CloneStep, StoreStep,
     BeginStep, JobKeyStep, JobDoneStep DEF Step
<1> QED
  BY <1>1, <1>2 DEF Next

\* The inductive invariant holds in every behaviour.
THEOREM Invariance == Spec => []IInv
<1>1. IInv /\ [Next]_vars => IInv'
  BY NextStep
<1> QED
  BY InitInv, <1>1, PTL DEF Spec

\* Every variable holds what the code can store in it.
THEOREM TypeCorrect == Spec => []TypeOK
<1>1. IInv => TypeOK
  BY DEF IInv, HeapInv, HeapType, ThreadInv, TaskType, TypeOK
<1> QED
  BY Invariance, <1>1, PTL

\* The counter of a shared container (croaring_refcount_inc and _dec) counts the
\* bitmaps that point to it.
THEOREM CountersExact == Spec => []Counted
<1>1. IInv => Counted
  BY DEF IInv, HeapInv
<1> QED
  BY Invariance, <1>1, PTL

\* No bitmap points to freed memory: container_free and shared_container_free
\* free a container only when nothing refers to it any more.
THEOREM NoUseAfterFree == Spec => []NoDangling
<1>1. IInv => NoDangling
  BY DEF IInv, HeapInv
<1> QED
  BY Invariance, <1>1, PTL

\* Every allocated container has one owner: none leaks, none is freed twice.
THEOREM SingleOwner == Spec => []OneOwner
<1>1. IInv => OneOwner
  BY DEF IInv, HeapInv
<1> QED
  BY Invariance, <1>1, PTL

\* No step writes a container that stays behind a wrapper: what the bitmaps that
\* share it see does not change under them.
THEOREM CopyOnWrite == Spec => SharedContentFrozen
<1>1. IInv /\ [Next]_vars => [FrozenStep]_vars
  BY NextStep
<1> QED
  BY Invariance, <1>1, PTL DEF Spec, SharedContentFrozen, FrozenStep
-------------------------------------------------------------------------------
(* The values of the bitmaps *)

\* The values the slot of bitmap b at key k holds.
Held(b, k) == ValuesOf(slot[<<b, k>>])

\* The step leaves vals in slot s and what every other slot held as it was.
HoldsNow(s, vals) == /\ ValuesOf(slot[s])' = vals
                     /\ \A d \in Slots \ {s} : ValuesOf(slot[d])' = ValuesOf(slot[d])
-------------------------------------------------------------------------------
\* A wrapper that is there before and after a step has the same values behind it.
LEMMA WrappedKept ==
    ASSUME FrozenStep, NEW w \in Wrappers, wrapper[w] # Null, wrapper'[w] # Null
    PROVE  ValuesOf(w)' = ValuesOf(w)
<1>1. w # Null
  BY NullAssumption DEF Refs
<1> QED
  BY <1>1 DEF FrozenStep, ValuesOf

\* A slot that keeps its reference, and whose container is not written when it is
\* private, holds what it held.
LEMMA ReferenceKept ==
    ASSUME HeapInv, HeapInv', FrozenStep, NEW d \in Slots, slot'[d] = slot[d],
           slot[d] \in Containers => cont'[slot[d]] = cont[slot[d]]
    PROVE  ValuesOf(slot[d])' = ValuesOf(slot[d])
<1>1. CASE slot[d] = Null
  BY <1>1 DEF ValuesOf
<1>2. CASE slot[d] \in Wrappers
  <2>1. PICK w \in Wrappers : slot[d] = w
    BY <1>2
  <2>2. wrapper[w] # Null /\ wrapper'[w] # Null /\ w # Null
    BY <2>1, NullAssumption DEF HeapInv, NoDangling, Refs
  <2> QED
    BY <2>1, <2>2, WrappedKept DEF ValuesOf
<1>3. CASE slot[d] \in Containers
  BY <1>3, DisjointAssumption DEF ValuesOf
<1> QED
  BY <1>1, <1>2, <1>3 DEF HeapInv, HeapType, Refs

\* What a slot that is not empty holds.
LEMMA SlotContents ==
    ASSUME NEW s \in Slots
    PROVE  /\ slot[s] = Null => ValuesOf(slot[s]) = {}
           /\ slot[s] \in Containers => ValuesOf(slot[s]) = cont[slot[s]]
           /\ slot[s] \in Wrappers =>
                 ValuesOf(slot[s]) = cont[wrapper[slot[s]].container]
BY NullAssumption, DisjointAssumption DEF ValuesOf, Refs

LEMMA OverwriteValues ==
    ASSUME HeapInv, NEW s \in Slots, NEW vals \in SUBSET Vals,
           slot[s] \in Containers, Overwrite(s, vals)
    PROVE  HoldsNow(s, vals)
<1>1. HeapInv' /\ FrozenStep
  BY OverwriteHeap
<1>2. /\ cont' = [cont EXCEPT ![slot[s]] = vals] /\ slot' = slot
      /\ cont \in [Containers -> {Null} \cup SUBSET Vals]
  BY DEF Overwrite, HeapInv, HeapType
<1>3. ValuesOf(slot[s])' = vals
  <2>1. slot'[s] \in Containers /\ cont'[slot'[s]] = vals
    BY <1>2
  <2> QED
    BY <2>1, NullAssumption, DisjointAssumption DEF ValuesOf, Refs
<1>4. ASSUME NEW d \in Slots \ {s} PROVE ValuesOf(slot[d])' = ValuesOf(slot[d])
  <2>1. slot[d] \in Containers => slot[d] # slot[s]
    BY DEF HeapInv, OneOwner
  <2> QED
    BY <1>1, <1>2, <2>1, ReferenceKept
<1> QED
  BY <1>3, <1>4 DEF HoldsNow

LEMMA AllocateValues ==
    ASSUME HeapInv, NEW s \in Slots, NEW vals \in SUBSET Vals,
           slot[s] = Null, Allocate(s, vals)
    PROVE  HoldsNow(s, vals)
<1>1. HeapInv' /\ FrozenStep
  BY AllocateHeap
<1>2. PICK c \in Containers : /\ cont[c] = Null
                              /\ cont' = [cont EXCEPT ![c] = vals]
                              /\ slot' = [slot EXCEPT ![s] = c]
  BY DEF Allocate, Fresh
<1>3. ValuesOf(slot[s])' = vals
  <2>1. slot'[s] = c /\ cont'[c] = vals
    BY <1>2 DEF HeapInv, HeapType
  <2> QED
    BY <2>1, NullAssumption, DisjointAssumption DEF ValuesOf, Refs
<1>4. ASSUME NEW d \in Slots \ {s} PROVE ValuesOf(slot[d])' = ValuesOf(slot[d])
  <2>1. slot'[d] = slot[d]
    BY <1>2 DEF HeapInv, HeapType
  <2>2. slot[d] \in Containers => slot[d] # c
    BY <1>2, NullAssumption, DisjointAssumption DEF HeapInv, NoDangling, Refs
  <2>3. slot[d] \in Containers => cont'[slot[d]] = cont[slot[d]]
    BY <1>2, <2>2 DEF HeapInv, HeapType
  <2> QED
    BY <1>1, <2>1, <2>3, ReferenceKept
<1> QED
  BY <1>3, <1>4 DEF HoldsNow

\* Releasing the reference of slot s writes no container another slot refers to.
LEMMA ReleasedKept ==
    ASSUME HeapInv, NEW s \in Slots, slot[s] # Null,
           NEW d \in Slots \ {s}, slot[d] \in Containers
    PROVE  ContReleased(slot[s])[slot[d]] = cont[slot[d]]
<1>1. CASE slot[s] \in Containers
  <2>1. slot[d] # slot[s]
    BY <1>1 DEF HeapInv, OneOwner
  <2> QED
    BY <1>1, <2>1 DEF ContReleased, HeapInv, HeapType
<1>2. CASE slot[s] \in Wrappers
  <2>1. PICK w \in Wrappers : slot[s] = w /\ wrapper[w] # Null
    BY <1>2 DEF HeapInv, NoDangling
  <2>2. ~Encloses(w, slot[d])
    BY DEF HeapInv, OneOwner
  <2>3. wrapper[w].container # slot[d]
    BY <2>1, <2>2 DEF Encloses
  <2> QED
    BY <2>1, <2>3, DisjointAssumption DEF ContReleased, HeapInv, HeapType
<1> QED
  BY <1>1, <1>2 DEF HeapInv, HeapType, Refs

LEMMA ReleaseValues ==
    ASSUME HeapInv, NEW s \in Slots, slot[s] # Null, Release(s)
    PROVE  HoldsNow(s, {})
<1>1. HeapInv' /\ FrozenStep
  BY ReleaseHeap
<1>2. cont' = ContReleased(slot[s]) /\ slot' = [slot EXCEPT ![s] = Null]
  BY DEF Release
<1>3. ValuesOf(slot[s])' = {}
  BY <1>2 DEF ValuesOf, HeapInv, HeapType
<1>4. ASSUME NEW d \in Slots \ {s} PROVE ValuesOf(slot[d])' = ValuesOf(slot[d])
  <2>1. slot'[d] = slot[d]
    BY <1>2 DEF HeapInv, HeapType
  <2>2. slot[d] \in Containers => cont'[slot[d]] = cont[slot[d]]
    BY <1>2, ReleasedKept
  <2> QED
    BY <1>1, <2>1, <2>2, ReferenceKept
<1> QED
  BY <1>3, <1>4 DEF HoldsNow

LEMMA ReplaceValues ==
    ASSUME HeapInv, NEW s \in Slots, NEW vals \in SUBSET Vals,
           slot[s] # Null, Replace(s, vals)
    PROVE  HoldsNow(s, vals)
<1>1. HeapInv' /\ FrozenStep
  BY ReplaceHeap
<1>2. PICK n \in Containers : /\ cont[n] = Null
                              /\ cont' = [ContReleased(slot[s]) EXCEPT ![n] = vals]
                              /\ slot' = [slot EXCEPT ![s] = n]
  BY DEF Replace, Fresh
<1>3. ContReleased(slot[s]) \in [Containers -> {Null} \cup SUBSET Vals]
  BY DEF ContReleased, HeapInv, HeapType
<1>4. ValuesOf(slot[s])' = vals
  <2>1. slot'[s] = n /\ cont'[n] = vals
    BY <1>2, <1>3 DEF HeapInv, HeapType
  <2> QED
    BY <2>1, NullAssumption, DisjointAssumption DEF ValuesOf, Refs
<1>5. ASSUME NEW d \in Slots \ {s} PROVE ValuesOf(slot[d])' = ValuesOf(slot[d])
  <2>1. slot'[d] = slot[d]
    BY <1>2 DEF HeapInv, HeapType
  <2>2. slot[d] \in Containers => slot[d] # n
    BY <1>2, NullAssumption, DisjointAssumption DEF HeapInv, NoDangling, Refs
  <2>3. slot[d] \in Containers => cont'[slot[d]] = cont[slot[d]]
    BY <1>2, <1>3, <2>2, ReleasedKept
  <2> QED
    BY <1>1, <2>1, <2>3, ReferenceKept
<1> QED
  BY <1>4, <1>5 DEF HoldsNow

\* Giving up one of several references to a wrapper changes nothing behind it.
LEMMA DropValues ==
    ASSUME HeapInv, HeapInv', FrozenStep, NEW s \in Slots,
           cont' = cont, slot' = [slot EXCEPT ![s] = Null]
    PROVE  HoldsNow(s, {})
<1>1. slot'[s] = Null /\ \A d \in Slots \ {s} : slot'[d] = slot[d]
  BY DEF HeapInv, HeapType
<1>2. ValuesOf(slot[s])' = {}
  BY <1>1 DEF ValuesOf
<1>3. \A d \in Slots \ {s} : ValuesOf(slot[d])' = ValuesOf(slot[d])
  BY <1>1, ReferenceKept
<1> QED
  BY <1>2, <1>3 DEF HoldsNow

\* Moving a container out of its wrapper changes nothing in it.
LEMMA StealValues ==
    ASSUME HeapInv, HeapInv', FrozenStep, NEW s \in Slots, slot[s] \in Wrappers,
           slot' = [slot EXCEPT ![s] = wrapper[slot[s]].container],
           cont' = cont, slot'[s] \in Containers
    PROVE  HoldsNow(s, ValuesOf(slot[s]))
<1>1. /\ slot'[s] = wrapper[slot[s]].container
      /\ \A d \in Slots \ {s} : slot'[d] = slot[d]
  BY DEF HeapInv, HeapType
<1>2. ValuesOf(slot[s])' = cont[wrapper[slot[s]].container]
  <2>1. slot'[s] # Null /\ slot'[s] \notin Wrappers
    BY NullAssumption, DisjointAssumption DEF Refs
  <2> QED
    BY <1>1, <2>1 DEF ValuesOf
<1>3. \A d \in Slots \ {s} : ValuesOf(slot[d])' = ValuesOf(slot[d])
  BY <1>1, ReferenceKept
<1> QED
  BY <1>2, <1>3, SlotContents DEF HoldsNow

\* Sharing the container of slot s with slot d gives d what s holds.
LEMMA ShareValues ==
    ASSUME HeapInv, NEW s \in Slots, NEW d \in Slots, s # d,
           slot[s] # Null, slot[d] = Null, Share(s, d)
    PROVE  HoldsNow(d, ValuesOf(slot[s]))
<1>1. HeapInv' /\ FrozenStep
  BY ShareHeap
<1>2. cont' = cont
  BY DEF Share
<1>3. PICK w \in Wrappers : /\ slot'[s] = w /\ slot'[d] = w
                            /\ \A x \in Slots \ {s, d} : slot'[x] = slot[x]
                            /\ ValuesOf(w)' = ValuesOf(slot[s])
  <2>1. CASE slot[s] \in Wrappers
    <3>1. PICK w \in Wrappers : slot[s] = w /\ wrapper[w] # Null
      BY <2>1 DEF HeapInv, NoDangling
    <3>2. slot'[s] = w /\ slot'[d] = w /\ \A x \in Slots \ {s, d} : slot'[x] = slot[x]
      BY <2>1, <3>1, DisjointAssumption DEF Share, HeapInv, HeapType
    <3>3. wrapper'[w] # Null
      BY <1>1, <3>2, NullAssumption DEF HeapInv, NoDangling, Refs
    <3> QED
      BY <1>1, <3>1, <3>2, <3>3, WrappedKept
  <2>2. CASE slot[s] \in Containers
    <3>1. PICK w \in Wrappers :
             /\ wrapper' = [wrapper EXCEPT ![w] = [container |-> slot[s],
                                                   counter |-> 2]]
             /\ slot' = [slot EXCEPT ![s] = w, ![d] = w]
      BY <2>2, DisjointAssumption DEF Share
    <3>2. slot'[s] = w /\ slot'[d] = w /\ \A x \in Slots \ {s, d} : slot'[x] = slot[x]
      BY <3>1 DEF HeapInv, HeapType
    <3>3. wrapper'[w].container = slot[s] /\ w # Null
      BY <3>1, NullAssumption DEF HeapInv, HeapType, Refs
    <3>4. ValuesOf(w)' = cont[slot[s]]
      BY <1>2, <3>3 DEF ValuesOf
    <3> QED
      BY <2>2, <3>2, <3>4, SlotContents
  <2> QED
    BY <2>1, <2>2 DEF HeapInv, HeapType, Refs
<1>4. ValuesOf(slot[d])' = ValuesOf(slot[s]) /\ ValuesOf(slot[s])' = ValuesOf(slot[s])
  BY <1>3
<1>5. \A x \in Slots \ {s, d} : ValuesOf(slot[x])' = ValuesOf(slot[x])
  BY <1>1, <1>2, <1>3, ReferenceKept
<1> QED
  BY <1>4, <1>5 DEF HoldsNow
-------------------------------------------------------------------------------
\* The threads changing a value of bitmap b at key k, and those in an operation
\* whose result goes to b.
Editors(b, k) == {t \in Threads : edit[t] # Null /\ edit[t].b = b /\ edit[t].k = k}
Workers(b) == {t \in Threads : job[t] # Null /\ job[t].b = b}

\* What a slot will hold once edit d of it has ended, and once job j has.
EditOutcome(d) == Edited(d.e, IF d.w = Null THEN Held(d.b, d.k) ELSE ValuesOf(d.w))

JobOutcome(j, k) ==
    IF j.op = "overwrite" THEN Held(j.x, k)
    ELSE IF k \notin j.todo THEN Held(j.b, k)
    ELSE IF j.op \in Emptying THEN {}
    ELSE IF j.op = "copy" THEN Held(j.x, k)
    ELSE IF j.op \in InPlace THEN Combined(j.op, Held(j.b, k), Held(j.y, k))
    ELSE Combined(j.op, Held(j.x, k), Held(j.y, k))

LEMMA OutcomeCases ==
    ASSUME NEW b, NEW k
    PROVE  Outcome(b, k) =
              IF Editors(b, k) # {} THEN EditOutcome(edit[CHOOSE t \in Editors(b, k) : TRUE])
              ELSE IF Workers(b) # {} THEN JobOutcome(job[CHOOSE t \in Workers(b) : TRUE], k)
              ELSE Held(b, k)
<1>1. ASSUME Editors(b, k) # {}
      PROVE  LET t == CHOOSE t \in Editors(b, k) : TRUE
             IN  edit[t].b = b /\ edit[t].k = k
  BY <1>1 DEF Editors
<1>2. ASSUME Workers(b) # {}
      PROVE  LET t == CHOOSE t \in Workers(b) : TRUE
             IN  job[t].b = b
  BY <1>2 DEF Workers
<1> QED
  BY <1>1, <1>2 DEF Outcome, EditOutcome, JobOutcome, Held, Editors, Workers

\* The outcome of a bitmap no operation is under way on is what it holds.
LEMMA OutcomeIdle ==
    ASSUME NEW b, NEW k, Editors(b, k) = {}, Workers(b) = {}
    PROVE  Outcome(b, k) = Held(b, k)
BY OutcomeCases

\* A bitmap has one thread working on it, whose operation decides its outcome.
LEMMA OutcomeEditing ==
    ASSUME IInv, NEW t \in Threads, edit[t] # Null
    PROVE  /\ Outcome(edit[t].b, edit[t].k) = EditOutcome(edit[t])
           /\ \A k \in Keys \ {edit[t].k} : Outcome(edit[t].b, k) = Held(edit[t].b, k)
<1>1. \A u \in Threads : u # t => edit[t].b \notin Uses(u)
  BY DEF IInv, ThreadInv, Uses
<1>2. Editors(edit[t].b, edit[t].k) = {t}
  BY <1>1 DEF Editors, Uses
<1>3. \A k \in Keys \ {edit[t].k} : Editors(edit[t].b, k) = {}
  BY <1>1 DEF Editors, Uses
<1>4. Workers(edit[t].b) = {}
  BY <1>1 DEF Workers, Uses, IInv, ThreadInv, EditOK
<1>5. (CHOOSE u \in {t} : TRUE) = t
  OBVIOUS
<1>6. Outcome(edit[t].b, edit[t].k) = EditOutcome(edit[t])
  BY <1>2, <1>5, OutcomeCases
<1>7. \A k \in Keys \ {edit[t].k} : Outcome(edit[t].b, k) = Held(edit[t].b, k)
  BY <1>3, <1>4, OutcomeIdle
<1> QED
  BY <1>6, <1>7

LEMMA OutcomeWorking ==
    ASSUME IInv, NEW t \in Threads, job[t] # Null, NEW k \in Keys
    PROVE  Outcome(job[t].b, k) = JobOutcome(job[t], k)
<1>1. \A u \in Threads : u # t => job[t].b \notin Uses(u)
  BY DEF IInv, ThreadInv, Uses
<1>2. edit[t] = Null
  BY DEF IInv, ThreadInv, EditOK
<1>3. Editors(job[t].b, k) = {} /\ Workers(job[t].b) = {t}
  BY <1>1, <1>2 DEF Editors, Workers, Uses
<1>4. (CHOOSE u \in {t} : TRUE) = t
  OBVIOUS
<1> QED
  BY <1>3, <1>4, OutcomeCases

\* The outcome of a bitmap nobody uses, or that is only read, is what it holds.
LEMMA OutcomeUnused ==
    ASSUME NEW b, NEW k,
           \A t \in Threads : /\ edit[t] # Null => edit[t].b # b
                              /\ job[t] # Null => job[t].b # b
    PROVE  Outcome(b, k) = Held(b, k)
<1>1. Editors(b, k) = {} /\ Workers(b) = {}
  BY DEF Editors, Workers
<1> QED
  BY <1>1, OutcomeIdle

OutcomeRule ==
    /\ \A t \in Threads : edit[t] # Null =>
          /\ Outcome(edit[t].b, edit[t].k) = EditOutcome(edit[t])
          /\ \A k \in Keys \ {edit[t].k} : Outcome(edit[t].b, k) = Held(edit[t].b, k)
    /\ \A t \in Threads, k \in Keys : job[t] # Null =>
          Outcome(job[t].b, k) = JobOutcome(job[t], k)
    /\ \A b \in Bitmaps, k \in Keys :
          (\A t \in Threads : /\ edit[t] # Null => edit[t].b # b
                              /\ job[t] # Null => job[t].b # b)
             => Outcome(b, k) = Held(b, k)

LEMMA OutcomeRules == IInv => OutcomeRule
BY OutcomeEditing, OutcomeWorking, OutcomeUnused DEF OutcomeRule

LEMMA OutcomeRulesNext == IInv' => OutcomeRule'
BY OutcomeRules, PTL

\* A step of thread t that changes what bitmap b holds and nothing else.
OnlyAt(t, b) ==
    /\ \A u \in Threads \ {t} : /\ b \notin Uses(u)
                               /\ edit'[u] = edit[u] /\ job'[u] = job[u]
    /\ edit[t] # Null => edit[t].b = b
    /\ job[t] # Null => job[t].b = b
    /\ edit'[t] # Null => edit'[t].b = b
    /\ job'[t] # Null => job'[t].b = b
    /\ \A z \in Bitmaps \ {b}, k \in Keys : Held(z, k)' = Held(z, k)

\* No thread is about to clone a container that has been freed, before the step
\* and after it.
Cloneable == CloneSourceLive /\ CloneSourceLive'

\* It keeps the outcome of every other bitmap: the other threads' operations read
\* no slot of b, and what is behind the wrappers they clone from is not written.
LEMMA OthersKept ==
    ASSUME IInv, IInv', FrozenStep, Cloneable,
           NEW t \in Threads, NEW b \in Bitmaps, OnlyAt(t, b)
    PROVE  \A z \in Bitmaps \ {b}, k \in Keys : Outcome(z, k)' = Outcome(z, k)
<1> SUFFICES ASSUME NEW z \in Bitmaps \ {b}, NEW k \in Keys
             PROVE  Outcome(z, k)' = Outcome(z, k)
  OBVIOUS
<1>1. OutcomeRule /\ OutcomeRule'
  BY OutcomeRules, OutcomeRulesNext
<1>2. CASE \E u \in Threads : edit[u] # Null /\ edit[u].b = z
  <2>1. PICK u \in Threads, d \in EditStates : edit[u] = d /\ d.b = z
    BY <1>2 DEF IInv, ThreadInv, TaskType
  <2>2. u # t /\ edit'[u] = d /\ d # Null
    BY <2>1, NullAssumption DEF OnlyAt
  <2>3. CASE k # d.k
    <3>1. Outcome(z, k) = Held(z, k)
      BY <1>1, <2>1, <2>2, <2>3 DEF OutcomeRule
    <3>2. Outcome(z, k)' = Held(z, k)'
      BY <1>1, <2>1, <2>2, <2>3 DEF OutcomeRule
    <3> QED
      BY <3>1, <3>2 DEF OnlyAt
  <2>4. CASE k = d.k
    <3>1. Outcome(z, k) = EditOutcome(d)
      BY <1>1, <2>1, <2>2, <2>4 DEF OutcomeRule
    <3>2. Outcome(z, k)' = EditOutcome(d)'
      BY <1>1, <2>1, <2>2, <2>4 DEF OutcomeRule
    <3>3. d.w # Null => ValuesOf(d.w)' = ValuesOf(d.w)
      <4>1. d.w # Null => d.w \in Wrappers /\ wrapper[d.w] # Null /\ wrapper'[d.w] # Null
        BY <2>1, <2>2 DEF Cloneable, CloneSourceLive, EditStates
      <4> QED
        BY <4>1, WrappedKept
    <3>4. Held(d.b, d.k)' = Held(d.b, d.k)
      BY <2>1, <2>4 DEF OnlyAt
    <3>5. EditOutcome(d)' = EditOutcome(d)
      BY <3>3, <3>4 DEF EditOutcome
    <3> QED
      BY <3>1, <3>2, <3>5
  <2> QED
    BY <2>3, <2>4
<1>3. CASE \E u \in Threads : job[u] # Null /\ job[u].b = z
  <2>1. PICK u \in Threads, j \in JobStates : job[u] = j /\ j.b = z
    BY <1>3 DEF IInv, ThreadInv, TaskType
  <2>2. u # t /\ job'[u] = j /\ j # Null
    BY <2>1, NullAssumption DEF OnlyAt
  <2>3. {j.b, j.x, j.y} \subseteq Bitmaps \ {b}
    BY <2>1, <2>2 DEF OnlyAt, Uses, JobStates
  <2>4. Outcome(z, k) = JobOutcome(j, k)
    BY <1>1, <2>1, <2>2 DEF OutcomeRule
  <2>5. Outcome(z, k)' = JobOutcome(j, k)'
    BY <1>1, <2>1, <2>2 DEF OutcomeRule
  <2>6. JobOutcome(j, k)' = JobOutcome(j, k)
    <3>1. /\ Held(j.b, k)' = Held(j.b, k) /\ Held(j.x, k)' = Held(j.x, k)
          /\ Held(j.y, k)' = Held(j.y, k)
      BY <2>3 DEF OnlyAt
    <3> QED
      BY <3>1 DEF JobOutcome
  <2> QED
    BY <2>4, <2>5, <2>6
<1>4. CASE \A u \in Threads : /\ edit[u] # Null => edit[u].b # z
                              /\ job[u] # Null => job[u].b # z
  <2>1. \A u \in Threads : /\ edit'[u] # Null => edit'[u].b # z
                           /\ job'[u] # Null => job'[u].b # z
    BY <1>4 DEF OnlyAt
  <2>2. Outcome(z, k) = Held(z, k)
    BY <1>1, <1>4 DEF OutcomeRule
  <2>3. Outcome(z, k)' = Held(z, k)'
    BY <1>1, <2>1 DEF OutcomeRule
  <2> QED
    BY <2>2, <2>3 DEF OnlyAt
<1> QED
  BY <1>2, <1>3, <1>4

\* The outcome of the bitmap it works on, before the step and after it.
LEMMA OutcomeBefore ==
    ASSUME IInv, NEW t \in Threads, NEW b \in Bitmaps, OnlyAt(t, b)
    PROVE  /\ Idle(t) => \A k \in Keys : Outcome(b, k) = Held(b, k)
           /\ edit[t] # Null =>
                 /\ Outcome(b, edit[t].k) = EditOutcome(edit[t])
                 /\ \A k \in Keys \ {edit[t].k} : Outcome(b, k) = Held(b, k)
           /\ job[t] # Null => \A k \in Keys : Outcome(b, k) = JobOutcome(job[t], k)
<1>1. OutcomeRule
  BY OutcomeRules
<1>2. ASSUME Idle(t) PROVE \A k \in Keys : Outcome(b, k) = Held(b, k)
  <2>1. \A u \in Threads : /\ edit[u] # Null => edit[u].b # b
                           /\ job[u] # Null => job[u].b # b
    BY <1>2 DEF OnlyAt, Uses, Idle
  <2> QED
    BY <1>1, <2>1 DEF OutcomeRule
<1> QED
  BY <1>1, <1>2 DEF OutcomeRule, OnlyAt

LEMMA OutcomeAfter ==
    ASSUME IInv', NEW t \in Threads, NEW b \in Bitmaps, OnlyAt(t, b)
    PROVE  /\ Idle(t)' => \A k \in Keys : Outcome(b, k)' = Held(b, k)'
           /\ edit'[t] # Null =>
                 /\ Outcome(b, edit[t].k)' = EditOutcome(edit[t])'
                 /\ \A k \in Keys \ {edit'[t].k} : Outcome(b, k)' = Held(b, k)'
           /\ job'[t] # Null => \A k \in Keys : Outcome(b, k)' = JobOutcome(job[t], k)'
<1>1. OutcomeRule'
  BY OutcomeRulesNext
<1>2. ASSUME Idle(t)' PROVE \A k \in Keys : Outcome(b, k)' = Held(b, k)'
  <2>1. \A u \in Threads : /\ edit'[u] # Null => edit'[u].b # b
                           /\ job'[u] # Null => job'[u].b # b
    BY <1>2 DEF OnlyAt, Uses, Idle
  <2> QED
    BY <1>1, <2>1 DEF OutcomeRule
<1>3. ASSUME edit'[t] # Null
      PROVE  /\ Outcome(b, edit[t].k)' = EditOutcome(edit[t])'
             /\ \A k \in Keys \ {edit'[t].k} : Outcome(b, k)' = Held(b, k)'
  BY <1>1, <1>3 DEF OutcomeRule, OnlyAt
<1>4. ASSUME job'[t] # Null
      PROVE  \A k \in Keys : Outcome(b, k)' = JobOutcome(job[t], k)'
  BY <1>1, <1>4 DEF OutcomeRule, OnlyAt
<1> QED
  BY <1>2, <1>3, <1>4
-------------------------------------------------------------------------------
CallOf == [t \in Threads |-> Call(t)]
Contents(b) == IF b \in live THEN [k \in Keys |-> Outcome(b, k)] ELSE Null

LEMMA HeldType ==
    ASSUME HeapInv, NEW b \in Bitmaps, NEW k \in Keys
    PROVE  Held(b, k) \in SUBSET Vals
<1>1. <<b, k>> \in Slots
  BY DEF Slots
<1> QED
  BY <1>1, SlotValues DEF Held

\* A bitmap no thread uses is what it holds.
LEMMA RestingBitmap ==
    ASSUME IInv, NEW b \in Bitmaps, Available(b)
    PROVE  /\ \A k \in Keys : Outcome(b, k) = Held(b, k)
           /\ b \in live => Sets[b] = [k \in Keys |-> Held(b, k)] /\ Sets[b] # Null
           /\ b \notin live => /\ Sets[b] = Null
                               /\ \A k \in Keys : Held(b, k) = {}
<1>1. \A t \in Threads : /\ edit[t] # Null => edit[t].b # b
                         /\ job[t] # Null => job[t].b # b
  BY DEF Available, Uses
<1>2. \A k \in Keys : Outcome(b, k) = Held(b, k)
  BY <1>1, OutcomeRules DEF OutcomeRule
<1>3. ASSUME b \in live
      PROVE  Sets[b] = [k \in Keys |-> Held(b, k)] /\ Sets[b] # Null
  <2>1. Sets[b] = [k \in Keys |-> Held(b, k)]
    BY <1>2, <1>3 DEF Sets
  <2>2. Sets[b] \in [Keys -> SUBSET Vals]
    BY <2>1, HeldType DEF IInv
  <2> QED
    BY <2>1, <2>2, NullContentAssumption DEF ContentStates
<1>4. ASSUME b \notin live
      PROVE  Sets[b] = Null /\ \A k \in Keys : Held(b, k) = {}
  BY <1>4, DeadIsEmpty DEF Sets, Held, ValuesOf
<1> QED
  BY <1>2, <1>3, <1>4

\* A thread is in a call exactly when an operation of it is under way.
LEMMA CallWhenBusy ==
    ASSUME IInv, NEW t \in Threads
    PROVE  Call(t) = Null <=> Idle(t)
<1>1. CASE edit[t] # Null
  <2>1. PICK d \in EditStates : edit[t] = d
    BY <1>1 DEF IInv, ThreadInv, TaskType
  <2>2. d.b \in Bitmaps /\ d.k \in Keys /\ d.e \in Edits
    BY DEF EditStates
  <2>3. /\ d.e.op \in {"add", "remove", "optimize"}
        /\ d.e.op # "optimize" => d.e.v \in Vals
    BY <2>2 DEF Edits
  <2>4. Call(t) \in CallStates
    <3> DEFINE args == IF d.e.op = "optimize" THEN <<d.b, d.k>>
                       ELSE <<d.b, d.k, d.e.v>>
    <3>1. Call(t) = [op |-> d.e.op, args |-> args]
      BY <1>1, <2>1 DEF Call
    <3>2. args \in Seq(Bitmaps \cup Keys \cup Vals)
      <4>1. d.b \in Bitmaps \cup Keys \cup Vals /\ d.k \in Bitmaps \cup Keys \cup Vals
        BY <2>2
      <4>2. CASE d.e.op = "optimize"
        BY <4>1, <4>2
      <4>3. CASE d.e.op # "optimize"
        <5>1. d.e.v \in Bitmaps \cup Keys \cup Vals
          BY <2>3, <4>3
        <5> QED
          BY <4>1, <4>3, <5>1
      <4> QED
        BY <4>2, <4>3
    <3> HIDE DEF args
    <3> QED
      BY <2>3, <3>1, <3>2 DEF CallStates
  <2> QED
    BY <1>1, <2>4, NullContentAssumption DEF Idle
<1>2. CASE edit[t] = Null /\ job[t] # Null
  <2>1. PICK j \in JobStates : job[t] = j
    BY <1>2 DEF IInv, ThreadInv, TaskType
  <2>2. /\ j.b \in Bitmaps /\ j.x \in Bitmaps /\ j.y \in Bitmaps
        /\ j.op \in InPlace \cup OutOfPlace \cup {"free", "clear", "overwrite", "copy"}
    BY DEF JobStates, Emptying
  <2>3. Call(t) \in CallStates
    BY <1>2, <2>1, <2>2 DEF Call, CallStates
  <2> QED
    BY <1>2, <2>3, NullContentAssumption DEF Idle
<1>3. CASE Idle(t)
  BY <1>3 DEF Call, Idle
<1> QED
  BY <1>1, <1>2, <1>3 DEF Idle

\* A step of thread t is no step of another thread's call.
LEMMA CallStep ==
    ASSUME NEW t \in Threads, \A u \in Threads \ {t} : edit'[u] = edit[u] /\ job'[u] = job[u]
    PROVE  CallOf' = [CallOf EXCEPT ![t] = Call(t)']
<1>1. \A u \in Threads \ {t} : Call(u)' = Call(u)
  BY DEF Call
<1> QED
  BY <1>1 DEF CallOf

\* A step on bitmap b makes of it what it makes of it, and of no other anything.
LEMMA SetsStep ==
    ASSUME IInv, IInv', FrozenStep, Cloneable,
           NEW t \in Threads, NEW b \in Bitmaps, OnlyAt(t, b),
           \A z \in Bitmaps \ {b} : z \in live' <=> z \in live
    PROVE  Sets' = [Sets EXCEPT ![b] = Contents(b)']
<1>1. \A z \in Bitmaps \ {b}, k \in Keys : Outcome(z, k)' = Outcome(z, k)
  BY OthersKept
<1>2. \A z \in Bitmaps \ {b} : Contents(z)' = Contents(z)
  BY <1>1 DEF Contents
<1>3. Sets = [z \in Bitmaps |-> Contents(z)] /\ Sets' = [z \in Bitmaps |-> Contents(z)']
  BY DEF Sets, Contents
<1> QED
  BY <1>2, <1>3

\* When it leaves the outcome of b too, it changes no set.
LEMMA SetsKept ==
    ASSUME IInv, IInv', FrozenStep, Cloneable,
           NEW t \in Threads, NEW b \in Bitmaps, OnlyAt(t, b), live' = live,
           b \in live => \A k \in Keys : Outcome(b, k)' = Outcome(b, k)
    PROVE  Sets' = Sets
<1>1. Contents(b)' = Contents(b)
  BY DEF Contents
<1>2. Sets' = [Sets EXCEPT ![b] = Contents(b)]
  BY <1>1, SetsStep
<1> QED
  BY <1>2 DEF Sets, Contents
-------------------------------------------------------------------------------
Mapped == [Values!Next]_(Values!vars)

\* The other threads are where they were.
Alone(t) == \A u \in Threads \ {t} : edit'[u] = edit[u] /\ job'[u] = job[u]

LEMMA MapStutter ==
    ASSUME Sets' = Sets, CallOf' = CallOf
    PROVE  Mapped
BY DEF Mapped, Values!vars, CallOf

LEMMA MapReturn ==
    ASSUME IInv, NEW t \in Threads, ~Idle(t), Idle(t)', Alone(t), Sets' = Sets
    PROVE  Mapped
<1>1. Call(t) # Null
  BY CallWhenBusy
<1>2. Call(t)' = Null
  BY DEF Idle, Call
<1>3. CallOf' = [CallOf EXCEPT ![t] = Null]
  BY <1>2, CallStep DEF Alone
<1>4. Values!Return(t)
  BY <1>1, <1>3 DEF Values!Return, CallOf
<1> QED
  BY <1>4 DEF Mapped, Values!Next

LEMMA MapCalls ==
    ASSUME IInv, NEW t \in Threads, Idle(t), Alone(t), NEW op, NEW args,
           Call(t)' = [op |-> op, args |-> args]
    PROVE  Values!Calls(t, op, args)
<1>1. Call(t) = Null
  BY CallWhenBusy
<1>2. CallOf' = [CallOf EXCEPT ![t] = [op |-> op, args |-> args]]
  BY CallStep DEF Alone
<1> QED
  BY <1>1, <1>2 DEF Values!Calls, CallOf

LEMMA MapAtOnce ==
    ASSUME IInv, NEW t \in Threads, Idle(t), UNCHANGED <<edit, job>>
    PROVE  Values!AtOnce(t)
<1>1. Call(t) = Null
  BY CallWhenBusy
<1>2. CallOf' = CallOf
  BY DEF CallOf, Call
<1> QED
  BY <1>1, <1>2 DEF Values!AtOnce, CallOf

\* A new bitmap is empty.
LEMMA MapCreate ==
    ASSUME IInv, IInv', FrozenStep, Cloneable,
           NEW t \in Threads, NEW b \in Bitmaps, Create(t, b)
    PROVE  Mapped
<1>1. /\ Idle(t) /\ Available(b) /\ b \notin live /\ live' = live \cup {b}
      /\ UNCHANGED <<slot, cont, wrapper, edit, job>>
  BY DEF Create
<1>2. \A z, k : Held(z, k)' = Held(z, k)
  BY <1>1 DEF Held, ValuesOf
<1>3. OnlyAt(t, b)
  BY <1>1, <1>2 DEF OnlyAt, Idle, Available
<1>4. Sets[b] = Null /\ \A k \in Keys : Held(b, k) = {}
  BY <1>1, RestingBitmap
<1>5. Idle(t)'
  BY <1>1 DEF Idle
<1>6. \A k \in Keys : Outcome(b, k)' = {}
  BY <1>2, <1>3, <1>4, <1>5, OutcomeAfter
<1>7. Contents(b)' = [k \in Keys |-> {}]
  BY <1>1, <1>6 DEF Contents
<1>8. Sets' = [Sets EXCEPT ![b] = [k \in Keys |-> {}]]
  BY <1>1, <1>3, <1>7, SetsStep
<1>9. Values!Create(t, b)
  BY <1>1, <1>4, <1>8, MapAtOnce
     DEF Values!Create, Values!Exists, Values!Becomes, Values!Empty
<1> QED
  BY <1>9 DEF Mapped, Values!Next

\* HoldsNow, in terms of the slot of one bitmap.
LEMMA HoldsNowHeld ==
    ASSUME NEW b \in Bitmaps, NEW k \in Keys, NEW vals, HoldsNow(<<b, k>>, vals)
    PROVE  /\ Held(b, k)' = vals
           /\ \A c \in Keys \ {k} : Held(b, c)' = Held(b, c)
           /\ \A z \in Bitmaps \ {b}, c \in Keys : Held(z, c)' = Held(z, c)
BY DEF HoldsNow, Held, Slots

\* The first value of a key.
LEMMA MapAddNewKey ==
    ASSUME IInv, IInv', FrozenStep, Cloneable, NEW t \in Threads,
           NEW b \in Bitmaps, NEW k \in Keys, NEW v \in Vals, AddNewKey(t, b, k, v)
    PROVE  Mapped
<1>1. /\ Idle(t) /\ Available(b) /\ b \in live /\ slot[<<b, k>>] = Null
      /\ Allocate(<<b, k>>, {v}) /\ UNCHANGED <<live, edit, job>>
  BY DEF AddNewKey
<1>2. HoldsNow(<<b, k>>, {v})
  <2>1. <<b, k>> \in Slots /\ {v} \in SUBSET Vals
    BY DEF Slots
  <2> QED
    BY <1>1, <2>1, AllocateValues DEF IInv
<1>3. OnlyAt(t, b)
  BY <1>1, <1>2, HoldsNowHeld DEF OnlyAt, Idle, Available
<1>4. /\ Sets[b] = [c \in Keys |-> Held(b, c)] /\ Sets[b] # Null
      /\ Held(b, k) = {}
  BY <1>1, RestingBitmap DEF Held, ValuesOf
<1>5. Idle(t)'
  BY <1>1 DEF Idle
<1>6. \A c \in Keys : Outcome(b, c)' = Held(b, c)'
  BY <1>3, <1>5, OutcomeAfter
<1>7. Contents(b)' = [Sets[b] EXCEPT ![k] = @ \cup {v}]
  <2>1. /\ Outcome(b, k)' = Held(b, k) \cup {v}
        /\ \A c \in Keys \ {k} : Outcome(b, c)' = Held(b, c)
    BY <1>2, <1>4, <1>6, HoldsNowHeld
  <2>2. b \in live'
    BY <1>1
  <2> QED
    BY <1>4, <2>1, <2>2 DEF Contents
<1>8. Sets' = [Sets EXCEPT ![b] = [Sets[b] EXCEPT ![k] = @ \cup {v}]]
  BY <1>1, <1>3, <1>7, SetsStep
<1>9. Values!Add(t, b, k, v)
  BY <1>1, <1>4, <1>8, MapAtOnce DEF Values!Add, Values!Exists, Values!Becomes
<1> QED
  BY <1>9 DEF Mapped, Values!Next

\* The start of an edit: the slot may lose its reference, but the values it will
\* be given are those it held, edited.
LEMMA BeginEditHolds ==
    ASSUME IInv, IInv', FrozenStep, Cloneable, NEW t \in Threads,
           NEW b \in Bitmaps, NEW k \in Keys, NEW e \in Edits, BeginEdit(t, b, k, e)
    PROVE  /\ \A c \in Keys \ {k} : Held(b, c)' = Held(b, c)
           /\ \A z \in Bitmaps \ {b}, c \in Keys : Held(z, c)' = Held(z, c)
           /\ EditOutcome(edit[t])' = Edited(e, Held(b, k))
           /\ edit'[t] # Null /\ edit'[t].b = b /\ edit'[t].k = k /\ edit'[t].e = e
           /\ \A u \in Threads \ {t} : edit'[u] = edit[u]
<1> DEFINE s == <<b, k>>
<1>1. s \in Slots /\ HeapInv /\ HeapInv'
  BY DEF Slots, IInv
<1>2. PICK w \in Wrappers \cup {Null} :
         /\ edit' = [edit EXCEPT ![t] = [b |-> b, k |-> k, e |-> e, w |-> w]]
         /\ w # Null <=> UnshareDrop(t, b, k, e)
  <2>1. CASE UnshareDrop(t, b, k, e)
    BY <2>1, NullAssumption DEF UnshareDrop, Refs
  <2>2. CASE ~UnshareDrop(t, b, k, e)
    BY <2>2 DEF BeginEdit, UnsharePrivate, UnshareLast
  <2> QED
    BY <2>1, <2>2
<1>3. /\ edit'[t] = [b |-> b, k |-> k, e |-> e, w |-> w]
      /\ edit'[t] # Null
      /\ \A u \in Threads \ {t} : edit'[u] = edit[u]
  <2>1. /\ edit'[t] = [b |-> b, k |-> k, e |-> e, w |-> w]
        /\ \A u \in Threads \ {t} : edit'[u] = edit[u]
    BY <1>2 DEF IInv, ThreadInv, TaskType
  <2>2. edit'[t] \in EditStates
    BY <2>1 DEF EditStates
  <2> QED
    BY <2>1, <2>2, NullAssumption
<1>4. EditOutcome(edit[t])' = Edited(e, IF w = Null THEN Held(b, k)' ELSE ValuesOf(w)')
  BY <1>3 DEF EditOutcome
<1>5. CASE UnsharePrivate(t, b, k, e) /\ w = Null
  <2>1. \A z, c : Held(z, c)' = Held(z, c)
    BY <1>5 DEF UnsharePrivate, Held, ValuesOf
  <2> QED
    BY <1>3, <1>4, <1>5, <2>1
<1>6. CASE UnshareLast(t, b, k, e) /\ w = Null
  <2>1. slot[s] \in Wrappers /\ slot'[s] \in Containers
    BY <1>1, <1>6, StealHeap DEF UnshareLast, IsLast
  <2>2. HoldsNow(s, ValuesOf(slot[s]))
    BY <1>1, <1>6, <2>1, StealValues DEF UnshareLast
  <2>3. HoldsNow(s, Held(b, k))
    BY <2>2 DEF Held
  <2> QED
    BY <1>3, <1>4, <1>6, <2>3, HoldsNowHeld
<1>7. CASE UnshareDrop(t, b, k, e) /\ w # Null
  <2>1. /\ slot[s] \in Wrappers /\ cont' = cont /\ slot' = [slot EXCEPT ![s] = Null]
        /\ w = slot[s]
    <3>1. edit'[t] = [b |-> b, k |-> k, e |-> e, w |-> slot[s]]
      BY <1>7 DEF UnshareDrop, IInv, ThreadInv, TaskType
    <3> QED
      BY <1>3, <1>7, <3>1 DEF UnshareDrop
  <2>2. HoldsNow(s, {})
    BY <1>1, <2>1, DropValues
  <2>3. wrapper[w] # Null /\ wrapper'[w] # Null
    BY <1>1, <1>3, <1>7, <2>1, NullAssumption
       DEF Cloneable, CloneSourceLive, HeapInv, NoDangling, Refs
  <2>4. ValuesOf(w)' = Held(b, k)
    BY <2>1, <2>3, WrappedKept DEF Held
  <2> QED
    BY <1>3, <1>4, <1>7, <2>2, <2>4, HoldsNowHeld
<1> QED
  BY <1>2, <1>5, <1>6, <1>7 DEF BeginEdit

\* roaring_bitmap_add, _remove and _run_optimize take effect when they begin.
LEMMA MapBeginEdit ==
    ASSUME IInv, IInv', FrozenStep, Cloneable, NEW t \in Threads,
           NEW b \in Bitmaps, NEW k \in Keys, NEW e \in Edits, BeginEdit(t, b, k, e)
    PROVE  Mapped
<1>1. /\ Idle(t) /\ Available(b) /\ b \in live /\ UNCHANGED <<live, job>>
      /\ edit'[t] # Null /\ edit'[t].b = b /\ edit'[t].k = k /\ edit'[t].e = e
      /\ Alone(t)
  BY BeginEditHolds DEF BeginEdit, Alone
<1>2. OnlyAt(t, b)
  BY <1>1, BeginEditHolds DEF OnlyAt, Idle, Available, Alone
<1>3. Sets[b] = [c \in Keys |-> Held(b, c)] /\ Sets[b] # Null
  BY <1>1, RestingBitmap
<1>4. /\ Outcome(b, k)' = Edited(e, Held(b, k))
      /\ \A c \in Keys \ {k} : Outcome(b, c)' = Held(b, c)
  <2>1. /\ Outcome(b, edit[t].k)' = EditOutcome(edit[t])'
        /\ \A c \in Keys \ {edit'[t].k} : Outcome(b, c)' = Held(b, c)'
    BY <1>1, <1>2, OutcomeAfter
  <2>2. Outcome(b, edit[t].k)' = Outcome(b, k)'
    BY <1>1
  <2>3. /\ EditOutcome(edit[t])' = Edited(e, Held(b, k))
        /\ \A c \in Keys \ {k} : Held(b, c)' = Held(b, c)
    BY BeginEditHolds
  <2> QED
    BY <1>1, <2>1, <2>2, <2>3
<1>5. Contents(b)' = [Sets[b] EXCEPT ![k] = Edited(e, @)]
  BY <1>1, <1>3, <1>4 DEF Contents
<1>6. Sets' = [Sets EXCEPT ![b] = [Sets[b] EXCEPT ![k] = Edited(e, @)]]
  BY <1>1, <1>2, <1>5, SetsStep
<1>7. Call(t)' = [op |-> e.op, args |-> IF e.op = "optimize" THEN <<b, k>>
                                        ELSE <<b, k, e.v>>]
  BY <1>1 DEF Call
<1>8. CASE e.op = "add"
  <2>1. e.v \in Vals
    BY <1>8 DEF Edits
  <2>2. Values!Calls(t, "add", <<b, k, e.v>>)
    BY <1>1, <1>7, <1>8, MapCalls
  <2>3. Edited(e, Sets[b][k]) = Sets[b][k] \cup {e.v}
    BY <1>8 DEF Edited
  <2>4. Values!Add(t, b, k, e.v)
    BY <1>3, <1>6, <2>2, <2>3 DEF Values!Add, Values!Exists, Values!Becomes
  <2> QED
    BY <2>1, <2>4 DEF Mapped, Values!Next
<1>9. CASE e.op = "remove"
  <2>1. e.v \in Vals
    BY <1>9 DEF Edits
  <2>2. Values!Calls(t, "remove", <<b, k, e.v>>)
    BY <1>1, <1>7, <1>9, MapCalls
  <2>3. Edited(e, Sets[b][k]) = Sets[b][k] \ {e.v}
    BY <1>9 DEF Edited
  <2>4. Values!Remove(t, b, k, e.v)
    BY <1>3, <1>6, <2>2, <2>3 DEF Values!Remove, Values!Exists, Values!Becomes
  <2> QED
    BY <2>1, <2>4 DEF Mapped, Values!Next
<1>10. CASE e.op = "optimize"
  <2>1. Values!Calls(t, "optimize", <<b, k>>)
    BY <1>1, <1>7, <1>10, MapCalls
  <2>2. Edited(e, Sets[b][k]) = Sets[b][k]
    BY <1>10 DEF Edited
  <2>3. Sets' = Sets
    <3>1. [Sets[b] EXCEPT ![k] = Edited(e, @)] = Sets[b]
      BY <1>3, <2>2
    <3> QED
      BY <1>6, <3>1 DEF Sets
  <2>4. Values!Optimize(t, b, k)
    BY <1>3, <2>1, <2>3 DEF Values!Optimize, Values!Exists
  <2> QED
    BY <2>4 DEF Mapped, Values!Next
<1> QED
  BY <1>8, <1>9, <1>10 DEF Edits

\* Cloning the container behind the wrapper gives the slot the values back.
LEMMA MapClone ==
    ASSUME IInv, IInv', FrozenStep, Cloneable, NEW t \in Threads, Clone(t)
    PROVE  Mapped
<1> USE NullAssumption
<1>1. PICK d \in EditStates : edit[t] = d /\ d.w # Null /\ d # Null
  BY DEF Clone, IInv, ThreadInv, TaskType
<1> DEFINE s == <<d.b, d.k>>
<1>2. d.b \in Bitmaps /\ d.k \in Keys /\ d.w \in Wrappers
  BY <1>1 DEF EditStates
<1>3. s \in Slots /\ slot[s] = Null /\ HeapInv /\ job[t] = Null
  BY <1>1, <1>2 DEF Slots, IInv, ThreadInv, EditOK
<1>4. wrapper[d.w] # Null
  BY <1>1 DEF Cloneable, CloneSourceLive
<1>5. ValuesOf(d.w) \in SUBSET Vals /\ Allocate(s, ValuesOf(d.w))
  BY <1>1, <1>2, <1>3, <1>4, ValuesType, DisjointAssumption DEF Clone, Refs
<1>6. HoldsNow(s, ValuesOf(d.w))
  BY <1>3, <1>5, AllocateValues
<1>7. /\ edit'[t] = [b |-> d.b, k |-> d.k, e |-> d.e, w |-> Null]
      /\ \A u \in Threads \ {t} : edit'[u] = edit[u]
      /\ UNCHANGED <<live, job>>
  <2>1. [d EXCEPT !.w = Null] = [b |-> d.b, k |-> d.k, e |-> d.e, w |-> Null]
    BY DEF EditStates
  <2> QED
    BY <1>1, <2>1 DEF Clone, IInv, ThreadInv, TaskType
<1>8. edit'[t] # Null
  <2>1. edit'[t] \in EditStates
    BY <1>2, <1>7 DEF EditStates
  <2> QED
    BY <2>1
<1>9. OnlyAt(t, d.b)
  <2>1. \A u \in Threads \ {t} : d.b \notin Uses(u)
    BY <1>1 DEF IInv, ThreadInv, Uses
  <2> QED
    BY <1>1, <1>2, <1>3, <1>6, <1>7, <1>8, <2>1, HoldsNowHeld DEF OnlyAt
<1>10. /\ Outcome(d.b, d.k) = Edited(d.e, ValuesOf(d.w))
       /\ \A c \in Keys \ {d.k} : Outcome(d.b, c) = Held(d.b, c)
  BY <1>1, <1>2, <1>9, OutcomeBefore DEF EditOutcome
<1>11. /\ Outcome(d.b, d.k)' = EditOutcome(edit[t])'
       /\ \A c \in Keys \ {d.k} : Outcome(d.b, c)' = Held(d.b, c)'
  <2>1. /\ Outcome(d.b, edit[t].k)' = EditOutcome(edit[t])'
        /\ \A c \in Keys \ {edit'[t].k} : Outcome(d.b, c)' = Held(d.b, c)'
    BY <1>2, <1>8, <1>9, OutcomeAfter
  <2>2. Outcome(d.b, edit[t].k)' = Outcome(d.b, d.k)'
    BY <1>7
  <2> QED
    BY <1>7, <2>1, <2>2
<1>12. EditOutcome(edit[t])' = Edited(d.e, Held(d.b, d.k)')
  BY <1>7 DEF EditOutcome
<1>13. \A c \in Keys : Outcome(d.b, c)' = Outcome(d.b, c)
  BY <1>2, <1>6, <1>10, <1>11, <1>12, HoldsNowHeld
<1>14. Sets' = Sets
  BY <1>2, <1>7, <1>9, <1>13, SetsKept
<1>15. CallOf' = CallOf
  <2>1. Call(t)' = Call(t)
    BY <1>1, <1>7, <1>8 DEF Call
  <2>2. \A u \in Threads \ {t} : Call(u)' = Call(u)
    BY <1>7 DEF Call
  <2> QED
    BY <2>1, <2>2 DEF CallOf
<1> QED
  BY <1>14, <1>15, MapStutter

\* Storing the edited values is the return of the call.
LEMMA MapStore ==
    ASSUME IInv, IInv', FrozenStep, Cloneable, NEW t \in Threads, Store(t)
    PROVE  Mapped
<1> USE NullAssumption
<1>1. PICK d \in EditStates : edit[t] = d /\ d.w = Null /\ d # Null
  BY DEF Store, IInv, ThreadInv, TaskType
<1> DEFINE s == <<d.b, d.k>>
           new == Edited(d.e, cont[slot[s]])
<1>2. d.b \in Bitmaps /\ d.k \in Keys /\ d.e \in Edits
  BY <1>1 DEF EditStates
<1>3. s \in Slots /\ slot[s] \in Containers /\ HeapInv /\ job[t] = Null
  BY <1>1, <1>2 DEF Slots, IInv, ThreadInv, EditOK
<1>4. new \in SUBSET Vals
  <2>1. cont[slot[s]] \in SUBSET Vals
    BY <1>3, DisjointAssumption DEF HeapInv, HeapType, NoDangling, Refs
  <2> QED
    BY <1>2, <2>1, EditedType
<1>5. slot[s] # Null
  BY <1>3 DEF Refs
<1>6. HoldsNow(s, new)
  <2>1. CASE new = {} /\ Release(s)
    BY <1>3, <1>5, <2>1, ReleaseValues
  <2>2. CASE Overwrite(s, new)
    BY <1>3, <1>4, <2>2, OverwriteValues
  <2>3. CASE Replace(s, new)
    BY <1>3, <1>4, <1>5, <2>3, ReplaceValues
  <2> QED
    BY <1>1, <2>1, <2>2, <2>3 DEF Store
<1>7. /\ edit'[t] = Null /\ \A u \in Threads \ {t} : edit'[u] = edit[u]
      /\ UNCHANGED <<live, job>>
  BY DEF Store, IInv, ThreadInv, TaskType
<1>8. OnlyAt(t, d.b)
  <2>1. \A u \in Threads \ {t} : d.b \notin Uses(u)
    BY <1>1 DEF IInv, ThreadInv, Uses
  <2> QED
    BY <1>1, <1>2, <1>3, <1>6, <1>7, <2>1, HoldsNowHeld DEF OnlyAt
<1>9. /\ Outcome(d.b, d.k) = new
      /\ \A c \in Keys \ {d.k} : Outcome(d.b, c) = Held(d.b, c)
  BY <1>1, <1>2, <1>3, <1>8, OutcomeBefore, SlotContents DEF EditOutcome, Held
<1>10. Idle(t)'
  BY <1>3, <1>7 DEF Idle
<1>11. \A c \in Keys : Outcome(d.b, c)' = Held(d.b, c)'
  BY <1>2, <1>8, <1>10, OutcomeAfter
<1>12. \A c \in Keys : Outcome(d.b, c)' = Outcome(d.b, c)
  BY <1>2, <1>6, <1>9, <1>11, HoldsNowHeld
<1>13. Sets' = Sets
  BY <1>2, <1>7, <1>8, <1>12, SetsKept
<1>14. ~Idle(t) /\ Alone(t)
  BY <1>1, <1>7 DEF Idle, Alone
<1> QED
  BY <1>10, <1>13, <1>14, MapReturn

\* An operation on whole bitmaps takes effect when it begins, and begins with the
\* slots as they are.
LEMMA JobBegun ==
    ASSUME IInv, IInv', FrozenStep, Cloneable, NEW t \in Threads,
           NEW j \in JobStates, Idle(t), Available(j.b),
           UNCHANGED <<slot, cont, wrapper, edit>>, job' = [job EXCEPT ![t] = j],
           \A z \in Bitmaps \ {j.b} : z \in live' <=> z \in live
    PROVE  /\ job'[t] = j /\ job'[t] # Null /\ edit'[t] = Null
           /\ Alone(t)
           /\ Sets' = [Sets EXCEPT ![j.b] = Contents(j.b)']
           /\ \A k \in Keys : Outcome(j.b, k)' = JobOutcome(j, k)
<1>1. j # Null /\ j.b \in Bitmaps
  BY NullAssumption DEF JobStates
<1>2. /\ job'[t] = j /\ job'[t] # Null /\ edit'[t] = Null
      /\ \A u \in Threads \ {t} : edit'[u] = edit[u] /\ job'[u] = job[u]
  BY <1>1 DEF IInv, ThreadInv, TaskType, Idle
<1>3. \A z, k : Held(z, k)' = Held(z, k)
  BY DEF Held, ValuesOf
<1>4. OnlyAt(t, j.b)
  BY <1>2, <1>3 DEF OnlyAt, Idle, Available
<1>5. Sets' = [Sets EXCEPT ![j.b] = Contents(j.b)']
  BY <1>1, <1>4, SetsStep
<1>6. \A k \in Keys : Outcome(j.b, k)' = JobOutcome(j, k)
  <2>1. \A k \in Keys : Outcome(j.b, k)' = JobOutcome(job[t], k)'
    BY <1>1, <1>2, <1>4, OutcomeAfter
  <2>2. \A k \in Keys : JobOutcome(job[t], k)' = JobOutcome(j, k)
    BY <1>2, <1>3 DEF JobOutcome
  <2> QED
    BY <2>1, <2>2
<1> QED
  BY <1>2, <1>5, <1>6 DEF Alone

LEMMA JobType ==
    ASSUME NEW op \in Operations,
           NEW b \in Bitmaps, NEW x \in Bitmaps, NEW y \in Bitmaps
    PROVE  \E j \in JobStates : /\ j = Job(op, b, x, y)
                              /\ j.op = op /\ j.b = b /\ j.x = x /\ j.y = y
                              /\ j.todo = Keys
<1>1. Job(op, b, x, y) \in JobStates
  BY DEF Job, JobStates, Operations
<1> QED
  BY <1>1 DEF Job

LEMMA MapBeginFree ==
    ASSUME IInv, IInv', FrozenStep, Cloneable, NEW t \in Threads,
           NEW b \in Bitmaps, BeginFree(t, b)
    PROVE  Mapped
<1>1. PICK j \in JobStates : /\ j = Job("free", b, b, b)
                            /\ j.op = "free" /\ j.b = b /\ j.x = b /\ j.y = b
                            /\ j.todo = Keys
  BY JobType DEF Operations, Emptying
<1>2. /\ Idle(t) /\ Available(b) /\ b \in live /\ live' = live \ {b}
      /\ job' = [job EXCEPT ![t] = j] /\ UNCHANGED <<slot, cont, wrapper, edit>>
  BY <1>1 DEF BeginFree
<1>3. /\ job'[t] = j /\ job'[t] # Null /\ edit'[t] = Null
      /\ Alone(t) /\ Sets' = [Sets EXCEPT ![b] = Contents(b)']
      /\ \A k \in Keys : Outcome(b, k)' = JobOutcome(j, k)
  <2>1. \A z \in Bitmaps \ {j.b} : z \in live' <=> z \in live
    BY <1>1, <1>2
  <2>2. Available(j.b)
    BY <1>1, <1>2
  <2>3. /\ job'[t] = j /\ job'[t] # Null /\ edit'[t] = Null
        /\ Alone(t) /\ Sets' = [Sets EXCEPT ![j.b] = Contents(j.b)']
        /\ \A k \in Keys : Outcome(j.b, k)' = JobOutcome(j, k)
    BY <1>2, <2>1, <2>2, JobBegun
  <2> QED
    BY <1>1, <2>3
<1>4. Contents(b)' = Null /\ Sets[b] # Null
  BY <1>2, RestingBitmap DEF Contents
<1>5. Call(t)' = [op |-> "free", args |-> <<b>>]
  BY <1>1, <1>3 DEF Call
<1>6. Values!Free(t, b)
  BY <1>2, <1>3, <1>4, <1>5, MapCalls DEF Values!Free, Values!Exists, Values!Becomes
<1> QED
  BY <1>6 DEF Mapped, Values!Next

LEMMA MapBeginClear ==
    ASSUME IInv, IInv', FrozenStep, Cloneable, NEW t \in Threads,
           NEW b \in Bitmaps, BeginClear(t, b)
    PROVE  Mapped
<1>1. PICK j \in JobStates : /\ j = Job("clear", b, b, b)
                            /\ j.op = "clear" /\ j.b = b /\ j.x = b /\ j.y = b
                            /\ j.todo = Keys
  BY JobType DEF Operations, Emptying
<1>2. /\ Idle(t) /\ Available(b) /\ b \in live /\ live' = live
      /\ job' = [job EXCEPT ![t] = j] /\ UNCHANGED <<slot, cont, wrapper, edit>>
  BY <1>1 DEF BeginClear
<1>3. /\ job'[t] = j /\ job'[t] # Null /\ edit'[t] = Null
      /\ Alone(t) /\ Sets' = [Sets EXCEPT ![b] = Contents(b)']
      /\ \A k \in Keys : Outcome(b, k)' = JobOutcome(j, k)
  <2>1. \A z \in Bitmaps \ {j.b} : z \in live' <=> z \in live
    BY <1>1, <1>2
  <2>2. Available(j.b)
    BY <1>1, <1>2
  <2>3. /\ job'[t] = j /\ job'[t] # Null /\ edit'[t] = Null
        /\ Alone(t) /\ Sets' = [Sets EXCEPT ![j.b] = Contents(j.b)']
        /\ \A k \in Keys : Outcome(j.b, k)' = JobOutcome(j, k)
    BY <1>2, <2>1, <2>2, JobBegun
  <2> QED
    BY <1>1, <2>3
<1>4. Contents(b)' = Values!Empty
  BY <1>1, <1>2, <1>3 DEF Contents, JobOutcome, Emptying, Values!Empty
<1>5. Sets[b] # Null
  BY <1>2, RestingBitmap
<1>6. Call(t)' = [op |-> "clear", args |-> <<b>>]
  BY <1>1, <1>3 DEF Call
<1>7. Values!Clear(t, b)
  BY <1>2, <1>3, <1>4, <1>5, <1>6, MapCalls
     DEF Values!Clear, Values!Exists, Values!Becomes
<1> QED
  BY <1>7 DEF Mapped, Values!Next

LEMMA MapBeginOverwrite ==
    ASSUME IInv, IInv', FrozenStep, Cloneable, NEW t \in Threads,
           NEW b \in Bitmaps, NEW x \in Bitmaps, BeginOverwrite(t, b, x)
    PROVE  Mapped
<1>1. PICK j \in JobStates : /\ j = Job("overwrite", b, x, x)
                            /\ j.op = "overwrite" /\ j.b = b /\ j.x = x /\ j.y = x
                            /\ j.todo = Keys
  BY JobType DEF Operations, Emptying
<1>2. /\ Idle(t) /\ Available(b) /\ Available(x)
      /\ b \in live /\ x \in live /\ live' = live
      /\ job' = [job EXCEPT ![t] = j] /\ UNCHANGED <<slot, cont, wrapper, edit>>
  BY <1>1 DEF BeginOverwrite
<1>3. /\ job'[t] = j /\ job'[t] # Null /\ edit'[t] = Null
      /\ Alone(t) /\ Sets' = [Sets EXCEPT ![b] = Contents(b)']
      /\ \A k \in Keys : Outcome(b, k)' = JobOutcome(j, k)
  <2>1. \A z \in Bitmaps \ {j.b} : z \in live' <=> z \in live
    BY <1>1, <1>2
  <2>2. Available(j.b)
    BY <1>1, <1>2
  <2>3. /\ job'[t] = j /\ job'[t] # Null /\ edit'[t] = Null
        /\ Alone(t) /\ Sets' = [Sets EXCEPT ![j.b] = Contents(j.b)']
        /\ \A k \in Keys : Outcome(j.b, k)' = JobOutcome(j, k)
    BY <1>2, <2>1, <2>2, JobBegun
  <2> QED
    BY <1>1, <2>3
<1>4. Sets[x] = [k \in Keys |-> Held(x, k)] /\ Sets[x] # Null
  BY <1>2, RestingBitmap
<1>5. \A k \in Keys : JobOutcome(j, k) = Held(x, k)
  BY <1>1 DEF JobOutcome, Emptying
<1>6. Contents(b)' = Sets[x]
  BY <1>2, <1>3, <1>4, <1>5 DEF Contents
<1>7. Call(t)' = [op |-> "assign", args |-> <<b, x>>]
  BY <1>1, <1>3 DEF Call
<1>8. Values!Assign(t, b, x)
  BY <1>2, <1>3, <1>4, <1>6, <1>7, MapCalls
     DEF Values!Assign, Values!Exists, Values!Becomes
<1> QED
  BY <1>8 DEF Mapped, Values!Next

LEMMA MapBeginCopy ==
    ASSUME IInv, IInv', FrozenStep, Cloneable, NEW t \in Threads,
           NEW b \in Bitmaps, NEW x \in Bitmaps, BeginCopy(t, b, x)
    PROVE  Mapped
<1>1. PICK j \in JobStates : /\ j = Job("copy", b, x, x)
                            /\ j.op = "copy" /\ j.b = b /\ j.x = x /\ j.y = x
                            /\ j.todo = Keys
  <2>1. "copy" \in Operations
    BY DEF Operations
  <2> QED
    BY <2>1, JobType
<1>2. /\ Idle(t) /\ Available(b) /\ Available(x)
      /\ x \in live /\ live' = live \cup {b}
      /\ job' = [job EXCEPT ![t] = j] /\ UNCHANGED <<slot, cont, wrapper, edit>>
  BY <1>1 DEF BeginCopy
<1>3. /\ job'[t] = j /\ job'[t] # Null /\ edit'[t] = Null
      /\ Alone(t) /\ Sets' = [Sets EXCEPT ![b] = Contents(b)']
      /\ \A k \in Keys : Outcome(b, k)' = JobOutcome(j, k)
  <2>1. \A z \in Bitmaps \ {j.b} : z \in live' <=> z \in live
    BY <1>1, <1>2
  <2>2. Available(j.b)
    BY <1>1, <1>2
  <2>3. /\ job'[t] = j /\ job'[t] # Null /\ edit'[t] = Null
        /\ Alone(t) /\ Sets' = [Sets EXCEPT ![j.b] = Contents(j.b)']
        /\ \A k \in Keys : Outcome(j.b, k)' = JobOutcome(j, k)
    BY <1>2, <2>1, <2>2, JobBegun
  <2> QED
    BY <1>1, <2>3
<1>4. Sets[x] = [k \in Keys |-> Held(x, k)] /\ Sets[x] # Null
  BY <1>2, RestingBitmap
<1>5. \A k \in Keys : JobOutcome(j, k) = Held(x, k)
  BY <1>1 DEF JobOutcome, Emptying
<1>6. Contents(b)' = Sets[x]
  BY <1>2, <1>3, <1>4, <1>5 DEF Contents
<1>7. Call(t)' = [op |-> "assign", args |-> <<b, x>>]
  BY <1>1, <1>3 DEF Call
<1>8. Values!Assign(t, b, x)
  BY <1>2, <1>3, <1>4, <1>6, <1>7, MapCalls
     DEF Values!Assign, Values!Exists, Values!Becomes
<1> QED
  BY <1>8 DEF Mapped, Values!Next

LEMMA CombinationIsCombined ==
    ASSUME NEW op \in InPlace \cup OutOfPlace, NEW v1, NEW v2
    PROVE  Values!Combination(op, v1, v2) = Combined(op, v1, v2)
BY DEF InPlace, OutOfPlace, Combined, Values!Combination

LEMMA MapBeginInPlace ==
    ASSUME IInv, IInv', FrozenStep, Cloneable, NEW t \in Threads,
           NEW op \in InPlace, NEW b \in Bitmaps, NEW x \in Bitmaps,
           BeginInPlace(t, op, b, x)
    PROVE  Mapped
<1>1. PICK j \in JobStates : /\ j = Job(op, b, x, x)
                            /\ j.op = op /\ j.b = b /\ j.x = x /\ j.y = x
                            /\ j.todo = Keys
  BY JobType DEF Operations, Emptying
<1>2. /\ Idle(t) /\ Available(b) /\ Available(x)
      /\ b \in live /\ x \in live /\ live' = live
      /\ job' = [job EXCEPT ![t] = j] /\ UNCHANGED <<slot, cont, wrapper, edit>>
  BY <1>1 DEF BeginInPlace
<1>3. /\ job'[t] = j /\ job'[t] # Null /\ edit'[t] = Null
      /\ Alone(t) /\ Sets' = [Sets EXCEPT ![b] = Contents(b)']
      /\ \A k \in Keys : Outcome(b, k)' = JobOutcome(j, k)
  <2>1. \A z \in Bitmaps \ {j.b} : z \in live' <=> z \in live
    BY <1>1, <1>2
  <2>2. Available(j.b)
    BY <1>1, <1>2
  <2>3. /\ job'[t] = j /\ job'[t] # Null /\ edit'[t] = Null
        /\ Alone(t) /\ Sets' = [Sets EXCEPT ![j.b] = Contents(j.b)']
        /\ \A k \in Keys : Outcome(j.b, k)' = JobOutcome(j, k)
    BY <1>2, <2>1, <2>2, JobBegun
  <2> QED
    BY <1>1, <2>3
<1>4. /\ Sets[b] = [k \in Keys |-> Held(b, k)] /\ Sets[b] # Null
      /\ Sets[x] = [k \in Keys |-> Held(x, k)] /\ Sets[x] # Null
  BY <1>2, RestingBitmap
<1>5. \A k \in Keys : JobOutcome(j, k) = Combined(op, Held(b, k), Held(x, k))
  BY <1>1 DEF JobOutcome, Emptying, InPlace
<1>6. Contents(b)' = [k \in Keys |-> Values!Combination(op, Sets[b][k], Sets[x][k])]
  BY <1>2, <1>3, <1>4, <1>5, CombinationIsCombined DEF Contents
<1>7. Call(t)' = [op |-> op, args |-> <<b, b, x>>]
  BY <1>1, <1>3 DEF Call, InPlace
<1>8. Values!Combine(t, op, b, b, x)
  BY <1>2, <1>3, <1>4, <1>6, <1>7, MapCalls
     DEF Values!Combine, Values!Exists, Values!Becomes
<1> QED
  BY <1>8 DEF Mapped, Values!Next, InPlace

LEMMA MapBeginOutOfPlace ==
    ASSUME IInv, IInv', FrozenStep, Cloneable, NEW t \in Threads,
           NEW op \in OutOfPlace,
           NEW b \in Bitmaps, NEW x \in Bitmaps, NEW y \in Bitmaps,
           BeginOutOfPlace(t, op, b, x, y)
    PROVE  Mapped
<1>1. PICK j \in JobStates : /\ j = Job(op, b, x, y)
                            /\ j.op = op /\ j.b = b /\ j.x = x /\ j.y = y
                            /\ j.todo = Keys
  BY JobType DEF Operations, Emptying
<1>2. /\ Idle(t) /\ Available(b) /\ Available(x) /\ Available(y)
      /\ b \notin live /\ x \in live /\ y \in live /\ live' = live \cup {b}
      /\ job' = [job EXCEPT ![t] = j] /\ UNCHANGED <<slot, cont, wrapper, edit>>
  BY <1>1 DEF BeginOutOfPlace
<1>3. /\ job'[t] = j /\ job'[t] # Null /\ edit'[t] = Null
      /\ Alone(t) /\ Sets' = [Sets EXCEPT ![b] = Contents(b)']
      /\ \A k \in Keys : Outcome(b, k)' = JobOutcome(j, k)
  <2>1. \A z \in Bitmaps \ {j.b} : z \in live' <=> z \in live
    BY <1>1, <1>2
  <2>2. Available(j.b)
    BY <1>1, <1>2
  <2>3. /\ job'[t] = j /\ job'[t] # Null /\ edit'[t] = Null
        /\ Alone(t) /\ Sets' = [Sets EXCEPT ![j.b] = Contents(j.b)']
        /\ \A k \in Keys : Outcome(j.b, k)' = JobOutcome(j, k)
    BY <1>2, <2>1, <2>2, JobBegun
  <2> QED
    BY <1>1, <2>3
<1>4. /\ Sets[x] = [k \in Keys |-> Held(x, k)] /\ Sets[x] # Null
      /\ Sets[y] = [k \in Keys |-> Held(y, k)] /\ Sets[y] # Null
      /\ Sets[b] = Null
  BY <1>2, RestingBitmap
<1>5. \A k \in Keys : JobOutcome(j, k) = Combined(op, Held(x, k), Held(y, k))
  BY <1>1 DEF JobOutcome, Emptying, InPlace, OutOfPlace
<1>6. Contents(b)' = [k \in Keys |-> Values!Combination(op, Sets[x][k], Sets[y][k])]
  BY <1>2, <1>3, <1>4, <1>5, CombinationIsCombined DEF Contents
<1>7. Call(t)' = [op |-> op, args |-> <<b, x, y>>]
  BY <1>1, <1>3 DEF Call, InPlace, OutOfPlace
<1>8. ~Values!Exists(b) /\ Values!Combine(t, op, b, x, y)
  BY <1>2, <1>3, <1>4, <1>6, <1>7, MapCalls
     DEF Values!Combine, Values!Exists, Values!Becomes
<1> QED
  BY <1>8 DEF Mapped, Values!Next, OutOfPlace

-------------------------------------------------------------------------------
\* One key of an operation gives the slot what the operation makes of the key.
LEMMA SkipValues ==
    ASSUME Skip, NEW s \in Slots
    PROVE  HoldsNow(s, ValuesOf(slot[s]))
BY DEF Skip, HoldsNow, ValuesOf

LEMMA ReleaseKeyValues ==
    ASSUME HeapInv, NEW b \in Bitmaps, NEW k \in Keys, ReleaseKey(b, k)
    PROVE  HoldsNow(<<b, k>>, {})
<1>1. <<b, k>> \in Slots
  BY DEF Slots
<1>2. CASE slot[<<b, k>>] = Null
  <2>1. Skip /\ ValuesOf(slot[<<b, k>>]) = {}
    BY <1>1, <1>2, SlotContents DEF ReleaseKey
  <2> QED
    BY <1>1, <2>1, SkipValues
<1>3. CASE slot[<<b, k>>] # Null
  BY <1>1, <1>3, ReleaseValues DEF ReleaseKey
<1> QED
  BY <1>2, <1>3

LEMMA ShareKeyValues ==
    ASSUME HeapInv, NEW b \in Bitmaps, NEW x \in Bitmaps, NEW k \in Keys,
           b # x, slot[<<b, k>>] = Null, ShareKey(b, k, x)
    PROVE  HoldsNow(<<b, k>>, Held(x, k))
<1>1. <<b, k>> \in Slots /\ <<x, k>> \in Slots /\ <<x, k>> # <<b, k>>
  BY DEF Slots
<1>2. CASE slot[<<x, k>>] = Null
  <2>1. Skip /\ ValuesOf(slot[<<b, k>>]) = {} /\ Held(x, k) = {}
    BY <1>1, <1>2, SlotContents DEF ShareKey, Held
  <2> QED
    BY <1>1, <2>1, SkipValues
<1>3. CASE slot[<<x, k>>] # Null
  BY <1>1, <1>3, ShareValues DEF ShareKey, Held
<1> QED
  BY <1>2, <1>3

LEMMA InPlaceKeyValues ==
    ASSUME HeapInv, NEW op \in InPlace, NEW b \in Bitmaps, NEW x \in Bitmaps,
           NEW k \in Keys, b # x, InPlaceKey(op, b, k, x)
    PROVE  HoldsNow(<<b, k>>, Combined(op, Held(b, k), Held(x, k)))
<1> DEFINE s == <<b, k>>
           vals == Combined(op, Held(b, k), Held(x, k))
<1>1. s \in Slots /\ <<x, k>> \in Slots
  BY DEF Slots
<1>2. vals \in SUBSET Vals
  BY HeldType, CombinedType
<1>3. CASE slot[s] = Null
  <2>1. Held(b, k) = {}
    BY <1>1, <1>3, SlotContents DEF Held
  <2>2. CASE KeepsRight(op)
    <3>1. vals = Held(x, k)
      BY <2>1, <2>2 DEF Combined, KeepsRight
    <3> QED
      BY <1>3, <2>2, <3>1, ShareKeyValues DEF InPlaceKey
  <2>3. CASE ~KeepsRight(op)
    <3>1. vals = {}
      BY <2>1, <2>3 DEF Combined, KeepsRight, InPlace
    <3>2. HoldsNow(s, ValuesOf(slot[s]))
      BY <1>1, <1>3, <2>3, SkipValues DEF InPlaceKey
    <3> QED
      BY <2>1, <3>1, <3>2 DEF Held
  <2> QED
    BY <2>2, <2>3
<1>4. CASE slot[s] # Null /\ slot[<<x, k>>] = Null
  <2>1. Held(x, k) = {}
    BY <1>1, <1>4, SlotContents DEF Held
  <2>2. CASE KeepsLeft(op)
    <3>1. vals = Held(b, k)
      BY <2>1, <2>2 DEF Combined, KeepsLeft, InPlace
    <3>2. HoldsNow(s, ValuesOf(slot[s]))
      BY <1>1, <1>4, <2>2, SkipValues DEF InPlaceKey
    <3> QED
      BY <3>1, <3>2 DEF Held
  <2>3. CASE ~KeepsLeft(op)
    <3>1. vals = {}
      BY <2>1, <2>3 DEF Combined, KeepsLeft, InPlace
    <3>2. Release(s)
      BY <1>4, <2>3 DEF InPlaceKey
    <3> QED
      BY <1>1, <1>4, <3>1, <3>2, ReleaseValues
  <2> QED
    BY <2>2, <2>3
<1>5. CASE slot[s] # Null /\ slot[<<x, k>>] # Null
  <2>1. \/ vals = {} /\ Release(s)
        \/ vals # {} /\ slot[s] \in Containers /\ Overwrite(s, vals)
        \/ vals # {} /\ slot[s] \in Wrappers /\ Replace(s, vals)
    BY <1>5 DEF InPlaceKey, Held
  <2> QED
    BY <1>1, <1>2, <1>5, <2>1, ReleaseValues, OverwriteValues, ReplaceValues
<1> QED
  BY <1>3, <1>4, <1>5

LEMMA OutOfPlaceKeyValues ==
    ASSUME HeapInv, NEW op \in OutOfPlace, NEW b \in Bitmaps, NEW x \in Bitmaps,
           NEW y \in Bitmaps, NEW k \in Keys, b # x, b # y, slot[<<b, k>>] = Null,
           OutOfPlaceKey(op, b, k, x, y)
    PROVE  HoldsNow(<<b, k>>, Combined(op, Held(x, k), Held(y, k)))
<1> DEFINE s == <<b, k>>
           vals == Combined(op, Held(x, k), Held(y, k))
<1>1. s \in Slots /\ <<x, k>> \in Slots /\ <<y, k>> \in Slots
  BY DEF Slots
<1>2. vals \in SUBSET Vals /\ Held(b, k) = {}
  BY <1>1, HeldType, CombinedType, SlotContents DEF Held
<1>3. ASSUME Skip, vals = {} PROVE HoldsNow(s, vals)
  <2>1. HoldsNow(s, ValuesOf(slot[s]))
    BY <1>1, <1>3, SkipValues
  <2> QED
    BY <1>2, <1>3, <2>1 DEF Held
<1>4. CASE slot[<<y, k>>] = Null
  <2>1. Held(y, k) = {}
    BY <1>1, <1>4, SlotContents DEF Held
  <2>2. CASE KeepsLeft(op)
    <3>1. vals = Held(x, k)
      BY <2>1, <2>2 DEF Combined, KeepsLeft, OutOfPlace
    <3> QED
      BY <1>4, <2>2, <3>1, ShareKeyValues DEF OutOfPlaceKey
  <2>3. CASE ~KeepsLeft(op)
    <3>1. vals = {}
      BY <2>1, <2>3 DEF Combined, KeepsLeft, OutOfPlace
    <3> QED
      BY <1>3, <1>4, <2>3, <3>1 DEF OutOfPlaceKey
  <2> QED
    BY <2>2, <2>3
<1>5. CASE slot[<<y, k>>] # Null /\ slot[<<x, k>>] = Null
  <2>1. Held(x, k) = {}
    BY <1>1, <1>5, SlotContents DEF Held
  <2>2. CASE KeepsRight(op)
    <3>1. vals = Held(y, k)
      BY <2>1, <2>2 DEF Combined, KeepsRight, OutOfPlace
    <3> QED
      BY <1>5, <2>2, <3>1, ShareKeyValues DEF OutOfPlaceKey
  <2>3. CASE ~KeepsRight(op)
    <3>1. vals = {}
      BY <2>1, <2>3 DEF Combined, KeepsRight, OutOfPlace
    <3> QED
      BY <1>3, <1>5, <2>3, <3>1 DEF OutOfPlaceKey
  <2> QED
    BY <2>2, <2>3
<1>6. CASE slot[<<y, k>>] # Null /\ slot[<<x, k>>] # Null
  <2>1. \/ vals = {} /\ Skip
        \/ vals # {} /\ Allocate(s, vals)
    BY <1>6 DEF OutOfPlaceKey, Held
  <2> QED
    BY <1>1, <1>2, <1>3, <2>1, AllocateValues
<1> QED
  BY <1>4, <1>5, <1>6

\* So the slot of the key that is done holds the outcome of the operation, unless
\* the operation empties its destination only to fill it afterwards.
LEMMA KeyDone ==
    ASSUME HeapInv, NEW j \in JobStates, NEW k \in Keys, k \in j.todo,
           j.op \notin {"free", "clear"} => j.b # j.x /\ j.b # j.y,
           j.op \in InPlace => j.y = j.x,
           j.op \in OutOfPlace \cup {"copy"} => slot[<<j.b, k>>] = Null,
           \/ j.op \in Emptying /\ ReleaseKey(j.b, k)
           \/ j.op = "copy" /\ ShareKey(j.b, k, j.x)
           \/ j.op \in InPlace /\ InPlaceKey(j.op, j.b, k, j.x)
           \/ j.op \in OutOfPlace /\ OutOfPlaceKey(j.op, j.b, k, j.x, j.y)
    PROVE  \E vals : /\ HoldsNow(<<j.b, k>>, vals)
                     /\ j.op # "overwrite" => vals = JobOutcome(j, k)
<1>1. j.b \in Bitmaps /\ j.x \in Bitmaps /\ j.y \in Bitmaps
  BY DEF JobStates
<1>2. CASE j.op \in Emptying /\ ReleaseKey(j.b, k)
  <2>1. HoldsNow(<<j.b, k>>, {})
    BY <1>1, <1>2, ReleaseKeyValues
  <2>2. j.op # "overwrite" => JobOutcome(j, k) = {}
    BY <1>2 DEF JobOutcome
  <2> QED
    BY <2>1, <2>2
<1>3. CASE j.op = "copy" /\ ShareKey(j.b, k, j.x)
  <2>1. HoldsNow(<<j.b, k>>, Held(j.x, k))
    BY <1>1, <1>3, ShareKeyValues
  <2>2. JobOutcome(j, k) = Held(j.x, k)
    BY <1>3 DEF JobOutcome, Emptying
  <2> QED
    BY <2>1, <2>2
<1>4. CASE j.op \in InPlace /\ InPlaceKey(j.op, j.b, k, j.x)
  <2>1. j.b # j.x /\ j.y = j.x
    BY <1>4 DEF InPlace
  <2>2. HoldsNow(<<j.b, k>>, Combined(j.op, Held(j.b, k), Held(j.x, k)))
    BY <1>1, <1>4, <2>1, InPlaceKeyValues
  <2>3. JobOutcome(j, k) = Combined(j.op, Held(j.b, k), Held(j.x, k))
    BY <1>4, <2>1 DEF JobOutcome, Emptying, InPlace
  <2> QED
    BY <2>2, <2>3
<1>5. CASE j.op \in OutOfPlace /\ OutOfPlaceKey(j.op, j.b, k, j.x, j.y)
  <2>1. j.b # j.x /\ j.b # j.y /\ slot[<<j.b, k>>] = Null
    BY <1>5 DEF OutOfPlace
  <2>2. HoldsNow(<<j.b, k>>, Combined(j.op, Held(j.x, k), Held(j.y, k)))
    BY <1>1, <1>5, <2>1, OutOfPlaceKeyValues
  <2>3. JobOutcome(j, k) = Combined(j.op, Held(j.x, k), Held(j.y, k))
    BY <1>5 DEF JobOutcome, Emptying, InPlace, OutOfPlace
  <2> QED
    BY <2>2, <2>3
<1> QED
  BY <1>2, <1>3, <1>4, <1>5

\* A key that is done does not change the outcome of the operation.
LEMMA KeyOutcomes ==
    ASSUME NEW j \in JobStates, NEW k \in Keys, k \in j.todo,
           NEW n \in JobStates,
           n.op = j.op, n.b = j.b, n.x = j.x, n.y = j.y, n.todo = j.todo \ {k},
           j.op \notin {"free", "clear"} => j.b # j.x /\ j.b # j.y,
           NEW vals, HoldsNow(<<j.b, k>>, vals),
           j.op # "overwrite" => vals = JobOutcome(j, k)
    PROVE  \A c \in Keys : JobOutcome(n, c)' = JobOutcome(j, c)
<1>1. j.b \in Bitmaps /\ j.x \in Bitmaps /\ j.y \in Bitmaps
  BY DEF JobStates
<1>2. /\ Held(j.b, k)' = vals
      /\ \A c \in Keys \ {k} : Held(j.b, c)' = Held(j.b, c)
      /\ \A z \in Bitmaps \ {j.b}, c \in Keys : Held(z, c)' = Held(z, c)
  BY <1>1, HoldsNowHeld
<1>3. CASE j.op = "overwrite"
  BY <1>1, <1>2, <1>3 DEF JobOutcome
<1>4. CASE j.op # "overwrite"
  <2>1. JobOutcome(n, k)' = JobOutcome(j, k)
    BY <1>2, <1>4 DEF JobOutcome
  <2>2. ASSUME NEW c \in Keys \ {k} PROVE JobOutcome(n, c)' = JobOutcome(j, c)
    <3>1. Held(j.b, c)' = Held(j.b, c) /\ (c \in n.todo <=> c \in j.todo)
      BY <1>2
    <3>2. CASE j.op \in Emptying
      BY <1>4, <3>1, <3>2 DEF JobOutcome
    <3>3. CASE j.op \notin Emptying
      <4>1. Held(j.x, c)' = Held(j.x, c) /\ Held(j.y, c)' = Held(j.y, c)
        BY <1>1, <1>2, <3>3 DEF Emptying
      <4> QED
        BY <1>4, <3>1, <4>1 DEF JobOutcome
    <3> QED
      BY <3>2, <3>3
  <2> QED
    BY <2>1, <2>2
<1> QED
  BY <1>3, <1>4

\* The keys of an operation are worked on without a change any caller can see.
LEMMA MapJobKey ==
    ASSUME IInv, IInv', FrozenStep, Cloneable, NEW t \in Threads, JobKey(t)
    PROVE  Mapped
<1> USE NullAssumption
<1>1. PICK j \in JobStates : job[t] = j /\ j # Null
  BY DEF JobKey, IInv, ThreadInv, TaskType
<1>2. j.b \in Bitmaps /\ j.todo \subseteq Keys
  BY DEF JobStates
<1>3. PICK k \in j.todo :
         /\ \/ j.op \in Emptying /\ ReleaseKey(j.b, k)
            \/ j.op = "copy" /\ ShareKey(j.b, k, j.x)
            \/ j.op \in InPlace /\ InPlaceKey(j.op, j.b, k, j.x)
            \/ j.op \in OutOfPlace /\ OutOfPlaceKey(j.op, j.b, k, j.x, j.y)
         /\ job' = [job EXCEPT ![t].todo = @ \ {k}]
  BY <1>1 DEF JobKey
<1>4. /\ edit[t] = Null
      /\ j.op \notin {"free", "clear"} => j.b # j.x /\ j.b # j.y
      /\ j.op \in InPlace => j.y = j.x
      /\ j.op \in OutOfPlace \cup {"copy"} => slot[<<j.b, k>>] = Null
  BY <1>1, <1>2 DEF IInv, ThreadInv, EditOK, JobOK
<1>5. PICK n \in JobStates :
         /\ n.op = j.op /\ n.b = j.b /\ n.x = j.x /\ n.y = j.y
         /\ n.todo = j.todo \ {k}
         /\ job' = [job EXCEPT ![t] = n]
  <2> DEFINE n == [j EXCEPT !.todo = @ \ {k}]
  <2>1. n = [op |-> j.op, b |-> j.b, x |-> j.x, y |-> j.y, todo |-> j.todo \ {k}]
    BY DEF JobStates
  <2>2. n \in JobStates
    BY <2>1 DEF JobStates
  <2>3. job' = [job EXCEPT ![t] = n]
    BY <1>1, <1>3 DEF IInv, ThreadInv, TaskType
  <2> QED
    BY <2>1, <2>2, <2>3
<1>6. /\ job'[t] = n /\ n # Null
      /\ \A u \in Threads \ {t} : job'[u] = job[u]
      /\ UNCHANGED <<live, edit>>
  BY <1>5 DEF IInv, ThreadInv, TaskType, JobKey
<1>7. PICK vals : /\ HoldsNow(<<j.b, k>>, vals)
                  /\ j.op # "overwrite" => vals = JobOutcome(j, k)
  BY <1>2, <1>3, <1>4, KeyDone DEF IInv
<1>8. \A c \in Keys : JobOutcome(n, c)' = JobOutcome(j, c)
  BY <1>2, <1>4, <1>5, <1>7, KeyOutcomes
<1>9. OnlyAt(t, j.b)
  <2>1. \A u \in Threads \ {t} : j.b \notin Uses(u)
    BY <1>1 DEF IInv, ThreadInv, Uses
  <2>2. \A z \in Bitmaps \ {j.b}, c \in Keys : Held(z, c)' = Held(z, c)
    BY <1>2, <1>7, HoldsNowHeld
  <2> QED
    BY <1>1, <1>4, <1>5, <1>6, <2>1, <2>2 DEF OnlyAt
<1>10. \A c \in Keys : Outcome(j.b, c) = JobOutcome(j, c)
  BY <1>1, <1>2, <1>9, OutcomeBefore
<1>11. \A c \in Keys : Outcome(j.b, c)' = JobOutcome(n, c)'
  <2>1. \A c \in Keys : Outcome(j.b, c)' = JobOutcome(job[t], c)'
    BY <1>2, <1>6, <1>9, OutcomeAfter
  <2> QED
    BY <1>6, <2>1
<1>12. Sets' = Sets
  BY <1>2, <1>6, <1>8, <1>9, <1>10, <1>11, SetsKept
<1>13. CallOf' = CallOf
  <2>1. Call(t)' = Call(t)
    BY <1>1, <1>4, <1>5, <1>6 DEF Call
  <2>2. \A u \in Threads \ {t} : Call(u)' = Call(u)
    BY <1>6 DEF Call
  <2> QED
    BY <2>1, <2>2 DEF CallOf
<1> QED
  BY <1>12, <1>13, MapStutter

\* The end of an operation: its destination holds its outcome.
LEMMA MapJobDone ==
    ASSUME IInv, IInv', FrozenStep, Cloneable, NEW t \in Threads, JobDone(t)
    PROVE  Mapped
<1> USE NullAssumption
<1>1. PICK j \in JobStates : job[t] = j /\ j # Null /\ j.todo = {}
  BY DEF JobDone, IInv, ThreadInv, TaskType
<1>2. j.b \in Bitmaps /\ j.x \in Bitmaps /\ edit[t] = Null
  BY <1>1 DEF JobStates, IInv, ThreadInv, EditOK
<1>3. \A z, c : Held(z, c)' = Held(z, c)
  BY DEF JobDone, Held, ValuesOf
<1>4. /\ Alone(t) /\ UNCHANGED <<live, edit>>
      /\ \A u \in Threads \ {t} : j.b \notin Uses(u)
  BY <1>1 DEF JobDone, Alone, IInv, ThreadInv, TaskType, Uses
<1>5. CASE j.op = "overwrite"
  <2>1. PICK n \in JobStates : /\ n = Job("copy", j.b, j.x, j.x)
                              /\ n.op = "copy" /\ n.b = j.b /\ n.x = j.x
                              /\ n.todo = Keys /\ n # Null
    <3>1. "copy" \in Operations
      BY DEF Operations
    <3> QED
      BY <1>2, <3>1, JobType
  <2>2. job'[t] = n
    BY <1>1, <1>5, <2>1 DEF JobDone, IInv, ThreadInv, TaskType
  <2>3. OnlyAt(t, j.b)
    BY <1>1, <1>2, <1>3, <1>4, <2>1, <2>2 DEF OnlyAt, Alone
  <2>4. \A c \in Keys : Outcome(j.b, c) = Held(j.x, c)
    BY <1>1, <1>2, <1>5, <2>3, OutcomeBefore DEF JobOutcome
  <2>5. \A c \in Keys : Outcome(j.b, c)' = Held(j.x, c)
    <3>1. \A c \in Keys : Outcome(j.b, c)' = JobOutcome(job[t], c)'
      BY <1>2, <2>1, <2>2, <2>3, OutcomeAfter
    <3>2. \A c \in Keys : JobOutcome(job[t], c)' = Held(j.x, c)
      BY <1>3, <2>1, <2>2 DEF JobOutcome, Emptying
    <3> QED
      BY <3>1, <3>2
  <2>6. Sets' = Sets
    BY <1>2, <1>4, <2>3, <2>4, <2>5, SetsKept
  <2>7. CallOf' = CallOf
    <3>1. Call(t)' = Call(t)
      BY <1>1, <1>2, <1>4, <1>5, <2>1, <2>2 DEF Call
    <3>2. \A u \in Threads \ {t} : Call(u)' = Call(u)
      BY <1>4 DEF Call, Alone
    <3> QED
      BY <3>1, <3>2 DEF CallOf
  <2> QED
    BY <2>6, <2>7, MapStutter
<1>6. CASE j.op # "overwrite"
  <2>1. job'[t] = Null
    BY <1>1, <1>6 DEF JobDone, IInv, ThreadInv, TaskType
  <2>2. OnlyAt(t, j.b)
    BY <1>1, <1>2, <1>3, <1>4, <2>1 DEF OnlyAt, Alone
  <2>3. \A c \in Keys : Outcome(j.b, c) = Held(j.b, c)
    BY <1>1, <1>2, <1>6, <2>2, OutcomeBefore DEF JobOutcome
  <2>4. Idle(t)' /\ ~Idle(t)
    BY <1>1, <1>2, <1>4, <2>1 DEF Idle
  <2>5. \A c \in Keys : Outcome(j.b, c)' = Held(j.b, c)'
    BY <1>2, <2>2, <2>4, OutcomeAfter
  <2>6. Sets' = Sets
    BY <1>2, <1>3, <1>4, <2>2, <2>3, <2>5, SetsKept
  <2> QED
    BY <1>4, <2>4, <2>6, MapReturn
<1> QED
  BY <1>5, <1>6
-------------------------------------------------------------------------------
\* At first there is no bitmap and no call.
LEMMA MapInit == Init => Values!Init
<1> SUFFICES ASSUME Init PROVE Values!Init
  OBVIOUS
<1>1. Sets = [b \in Bitmaps |-> Null]
  BY DEF Init, Sets
<1>2. \A t \in Threads : Call(t) = Null
  BY DEF Init, Call
<1>3. CallOf = [t \in Threads |-> Null]
  BY <1>2 DEF CallOf
<1> QED
  BY <1>1, <1>3 DEF Values!Init, CallOf

\* Each step of the implementation is a step of the sets, or changes none of them.
LEMMA MapStep ==
    ASSUME IInv, IInv', Cloneable, [Next]_vars
    PROVE  Mapped
<1>1. FrozenStep
  BY NextStep
<1>2. CASE UNCHANGED vars
  <2>1. \A z, k : Held(z, k)' = Held(z, k)
    BY <1>2 DEF vars, Held, ValuesOf
  <2>2. \A z \in Bitmaps, k \in Keys : Outcome(z, k)' = Outcome(z, k)
    BY <1>2 DEF vars, Outcome, ValuesOf
  <2>3. Sets' = Sets
    BY <1>2, <2>2 DEF vars, Sets
  <2>4. CallOf' = CallOf
    BY <1>2 DEF vars, CallOf, Call
  <2> QED
    BY <2>3, <2>4, MapStutter
<1>3. ASSUME NEW t \in Threads, Step(t) PROVE Mapped
  <2> USE <1>1
  <2>1. ASSUME NEW b \in Bitmaps, Create(t, b) PROVE Mapped
    BY <2>1, MapCreate
  <2>2. ASSUME NEW b \in Bitmaps, BeginFree(t, b) \/ BeginClear(t, b) PROVE Mapped
    BY <2>2, MapBeginFree, MapBeginClear
  <2>3. ASSUME NEW b \in Bitmaps, NEW k \in Keys, NEW v \in Vals, AddNewKey(t, b, k, v)
        PROVE  Mapped
    BY <2>3, MapAddNewKey
  <2>4. ASSUME NEW b \in Bitmaps, NEW k \in Keys, NEW e \in Edits, BeginEdit(t, b, k, e)
        PROVE  Mapped
    BY <2>4, MapBeginEdit
  <2>5. ASSUME Clone(t) \/ Store(t) PROVE Mapped
    BY <2>5, MapClone, MapStore
  <2>6. ASSUME NEW b \in Bitmaps, NEW x \in Bitmaps,
               BeginOverwrite(t, b, x) \/ BeginCopy(t, b, x)
        PROVE  Mapped
    BY <2>6, MapBeginOverwrite, MapBeginCopy
  <2>7. ASSUME NEW op \in InPlace, NEW b \in Bitmaps, NEW x \in Bitmaps,
               BeginInPlace(t, op, b, x)
        PROVE  Mapped
    BY <2>7, MapBeginInPlace
  <2>8. ASSUME NEW op \in OutOfPlace,
               NEW b \in Bitmaps, NEW x \in Bitmaps, NEW y \in Bitmaps,
               BeginOutOfPlace(t, op, b, x, y)
        PROVE  Mapped
    BY <2>8, MapBeginOutOfPlace
  <2>9. ASSUME JobKey(t) \/ JobDone(t) PROVE Mapped
    BY <2>9, MapJobKey, MapJobDone
  <2> QED
    BY <1>3, <2>1, <2>2, <2>3, <2>4, <2>5, <2>6, <2>7, <2>8, <2>9 DEF Step
<1> QED
  BY <1>2, <1>3 DEF Next

\* Each step of any thread, while no container that was freed is about to be cloned
\* by shared_container_extract_copy, does to the bitmaps what it does to separate sets,
\* even when an earlier clone has gone wrong.
THEOREM StepsSeparate == Spec => SeparateSteps
<1>1. IInv /\ IInv' /\ [Next]_vars
        => [CloneSourceLive /\ CloneSourceLive' => [Values!Next]_(Values!vars)]_vars
  BY MapStep DEF Cloneable, Mapped
<1> QED
  BY Invariance, <1>1, PTL DEF Spec, SeparateSteps

\* Sharing is never seen by a caller: as long as shared_container_extract_copy
\* does not copy a container that was freed under it, every behaviour of the
\* bitmaps, whatever threads there are, is one of separate sets of integers.
THEOREM SharingUnseen == Spec /\ []CloneSourceLive => IsBitmapValues
<1>1. IInv /\ IInv' /\ CloneSourceLive /\ CloneSourceLive' /\ [Next]_vars
         => [Values!Next]_(Values!vars)
  BY MapStep DEF Cloneable, Mapped
<1> QED
  BY Invariance, MapInit, <1>1, PTL DEF Spec, IsBitmapValues, Values!Spec
-------------------------------------------------------------------------------
\* A bitmap used by one thread: nothing comes between the drop of a counter and
\* the copy of the container behind it.
OneThread == \A t, u \in Threads : t = u

LEMMA CloneSourceStep ==
    ASSUME OneThread, IInv, CloneSourceLive, [Next]_vars
    PROVE  CloneSourceLive'
<1> USE NullAssumption
<1>1. CASE UNCHANGED vars
  BY <1>1 DEF vars, CloneSourceLive
<1>2. ASSUME NEW t \in Threads, Step(t) PROVE CloneSourceLive'
  <2>1. \A u \in Threads : u = t
    BY DEF OneThread
  <2>2. SUFFICES ASSUME edit'[t] # Null, edit'[t].w # Null
                 PROVE  wrapper'[edit'[t].w] # Null
    BY <2>1 DEF CloneSourceLive
  <2>3. CASE edit'[t] = edit[t] /\ edit[t] # Null
    <3>1. edit[t].w # Null /\ job[t] = Null /\ ~Idle(t)
      BY <2>2, <2>3 DEF IInv, ThreadInv, EditOK, Idle
    <3>2. Clone(t)
      BY <1>2, <3>1 DEF Step, Create, BeginFree, BeginClear, AddNewKey, BeginEdit,
         Store, BeginOverwrite, BeginCopy, BeginInPlace, BeginOutOfPlace, JobKey, JobDone
    <3>3. wrapper' = wrapper
      BY <3>2 DEF Clone, Allocate
    <3> QED
      BY <2>2, <2>3, <3>3 DEF CloneSourceLive
  <2>4. ASSUME NEW b \in Bitmaps, NEW k \in Keys, NEW e \in Edits, BeginEdit(t, b, k, e)
        PROVE  wrapper'[edit'[t].w] # Null
    <3>1. UnshareDrop(t, b, k, e)
      BY <2>2, <2>4 DEF BeginEdit, UnsharePrivate, UnshareLast, IInv, ThreadInv, TaskType
    <3>2. PICK w \in Wrappers : slot[<<b, k>>] = w
      BY <3>1 DEF UnshareDrop
    <3>3. edit'[t].w = w
      BY <3>1, <3>2 DEF UnshareDrop, IInv, ThreadInv, TaskType
    <3>4. /\ wrapper[w] \in SharedContainers
          /\ wrapper[w].counter # 0 /\ wrapper[w].counter # 1
      <4>1. <<b, k>> \in Slots
        BY DEF Slots
      <4> QED
        BY <3>1, <3>2, <4>1
           DEF UnshareDrop, IsLast, IInv, HeapInv, HeapType, Counted, NoDangling, Refs
    <3>5. wrapper'[w] \in SharedContainers
      BY <3>1, <3>2, <3>4 DEF UnshareDrop, SharedContainers, IInv, HeapInv, HeapType
    <3> QED
      BY <3>3, <3>5
  <2>5. CASE edit'[t] = edit[t] /\ edit[t] = Null
    BY <2>2, <2>5
  <2>6. CASE Clone(t) \/ Store(t)
    BY <2>2, <2>6 DEF Clone, Store, IInv, ThreadInv, TaskType, EditStates
  <2>7. \/ edit' = edit
        \/ Clone(t) \/ Store(t)
        \/ \E b \in Bitmaps, k \in Keys, e \in Edits : BeginEdit(t, b, k, e)
    BY <1>2 DEF Step, Create, BeginFree, BeginClear, AddNewKey,
       BeginOverwrite, BeginCopy, BeginInPlace, BeginOutOfPlace, JobKey, JobDone
  <2> QED
    BY <2>3, <2>4, <2>5, <2>6, <2>7
<1> QED
  BY <1>1, <1>2 DEF Next

\* A container is there to be copied for as long as one thread runs.
THEOREM CloneSourceStays ==
    ASSUME OneThread
    PROVE  Spec => []CloneSourceLive
<1>1. Init => CloneSourceLive
  BY NullAssumption DEF Init, CloneSourceLive
<1>2. IInv /\ CloneSourceLive /\ [Next]_vars => CloneSourceLive'
  BY CloneSourceStep
<1> QED
  BY Invariance, <1>1, <1>2, PTL DEF Spec

\* roaring.h promises a caller of one thread separate sets of integers, without
\* a condition.
THEOREM SharingUnseenByOne ==
    ASSUME OneThread
    PROVE  Spec => IsBitmapValues
<1>1. Spec => []CloneSourceLive
  BY CloneSourceStays
<1> QED
  BY SharingUnseen, <1>1, PTL
-------------------------------------------------------------------------------
\* What a change of the heap leaves in the containers: what was there, what is put
\* there, or nothing at all.
LEMMA ReleasedFull ==
    ASSUME HeapInv, NoEmptyContainer, NEW s \in Slots, slot[s] # Null
    PROVE  \A c \in Containers : ContReleased(slot[s])[c] # {}
<1>1. Null # {}
  BY NullAssumption
<1> QED
  BY <1>1 DEF ContReleased, NoEmptyContainer, HeapInv, HeapType

LEMMA ReleaseFull ==
    ASSUME HeapInv, NoEmptyContainer, NEW s \in Slots, slot[s] # Null, Release(s)
    PROVE  NoEmptyContainer'
BY ReleasedFull DEF Release, NoEmptyContainer

LEMMA OverwriteFull ==
    ASSUME HeapInv, NoEmptyContainer, NEW s \in Slots, NEW vals, vals # {},
           Overwrite(s, vals)
    PROVE  NoEmptyContainer'
BY DEF Overwrite, NoEmptyContainer, HeapInv, HeapType

LEMMA AllocateFull ==
    ASSUME HeapInv, NoEmptyContainer, NEW s \in Slots, NEW vals, vals # {},
           Allocate(s, vals)
    PROVE  NoEmptyContainer'
BY DEF Allocate, NoEmptyContainer, HeapInv, HeapType

LEMMA ReplaceFull ==
    ASSUME HeapInv, NoEmptyContainer, NEW s \in Slots, NEW vals, vals # {},
           slot[s] # Null, Replace(s, vals)
    PROVE  NoEmptyContainer'
<1>1. PICK n \in Containers : cont' = [ContReleased(slot[s]) EXCEPT ![n] = vals]
  BY DEF Replace
<1>2. \A c \in Containers : ContReleased(slot[s])[c] # {}
  BY ReleasedFull
<1>3. ContReleased(slot[s]) \in [Containers -> {Null} \cup SUBSET Vals]
  BY DEF ContReleased, HeapInv, HeapType
<1> QED
  BY <1>1, <1>2, <1>3 DEF NoEmptyContainer

\* The copy of a container that is not empty is not empty; an edit that empties a
\* container removes it.
LEMMA CloneFull ==
    ASSUME IInv, NoEmptyContainer, CloneSourceLive, NEW t \in Threads, Clone(t)
    PROVE  NoEmptyContainer'
<1> USE NullAssumption
<1>1. PICK d \in EditStates : edit[t] = d /\ d.w # Null /\ d # Null
  BY DEF Clone, IInv, ThreadInv, TaskType
<1> DEFINE s == <<d.b, d.k>>
<1>2. d.b \in Bitmaps /\ d.k \in Keys /\ d.w \in Wrappers
  BY <1>1 DEF EditStates
<1>3. s \in Slots /\ wrapper[d.w] # Null
  BY <1>1, <1>2 DEF Slots, CloneSourceLive
<1>4. ValuesOf(d.w) # {}
  <2>1. wrapper[d.w] \in SharedContainers
    BY <1>2, <1>3 DEF IInv, HeapInv, HeapType
  <2>2. wrapper[d.w].container \in Containers
    BY <2>1 DEF SharedContainers
  <2> QED
    BY <1>1, <1>2, <2>2 DEF ValuesOf, NoEmptyContainer
<1>5. Allocate(s, ValuesOf(d.w))
  BY <1>1, <1>3 DEF Clone
<1> QED
  BY <1>3, <1>4, <1>5, AllocateFull DEF IInv

LEMMA StoreFull ==
    ASSUME IInv, NoEmptyContainer, NEW t \in Threads, Store(t)
    PROVE  NoEmptyContainer'
<1> USE NullAssumption
<1>1. PICK d \in EditStates : edit[t] = d /\ d.w = Null /\ d # Null
  BY DEF Store, IInv, ThreadInv, TaskType
<1> DEFINE s == <<d.b, d.k>>
           new == Edited(d.e, cont[slot[s]])
<1>2. s \in Slots
  BY DEF Slots, EditStates
<1>3. slot[s] # Null
  BY <1>1 DEF IInv, ThreadInv, EditOK, Refs
<1>4. CASE Release(s)
  BY <1>2, <1>3, <1>4, ReleaseFull DEF IInv
<1>5. CASE new # {} /\ Overwrite(s, new)
  BY <1>2, <1>5, OverwriteFull DEF IInv
<1>6. CASE new # {} /\ Replace(s, new)
  BY <1>2, <1>3, <1>6, ReplaceFull DEF IInv
<1> QED
  BY <1>1, <1>4, <1>5, <1>6 DEF Store

\* An operation on two bitmaps stores the container of a key only when the result
\* has values.
LEMMA ReleaseKeyFull ==
    ASSUME HeapInv, NoEmptyContainer, NEW b \in Bitmaps, NEW k \in Keys, ReleaseKey(b, k)
    PROVE  NoEmptyContainer'
<1>1. <<b, k>> \in Slots
  BY DEF Slots
<1> QED
  BY <1>1, ReleaseFull DEF ReleaseKey, Skip, NoEmptyContainer

LEMMA ShareKeyFull ==
    ASSUME NoEmptyContainer, NEW b, NEW k, NEW x, ShareKey(b, k, x)
    PROVE  NoEmptyContainer'
BY DEF ShareKey, Share, Skip, NoEmptyContainer

LEMMA InPlaceKeyFull ==
    ASSUME HeapInv, NoEmptyContainer, NEW op \in InPlace,
           NEW b \in Bitmaps, NEW x \in Bitmaps, NEW k \in Keys,
           InPlaceKey(op, b, k, x)
    PROVE  NoEmptyContainer'
<1> DEFINE s == <<b, k>>
           vals == Combined(op, Held(b, k), Held(x, k))
<1>1. s \in Slots
  BY DEF Slots
<1>2. ASSUME Skip PROVE NoEmptyContainer'
  BY <1>2 DEF Skip, NoEmptyContainer
<1>3. CASE slot[s] = Null
  BY <1>2, <1>3, ShareKeyFull DEF InPlaceKey
<1>4. CASE slot[s] # Null
  <2>1. \/ Skip
        \/ Release(s)
        \/ vals # {} /\ Overwrite(s, vals)
        \/ vals # {} /\ Replace(s, vals)
    BY <1>4 DEF InPlaceKey, Held
  <2> QED
    BY <1>1, <1>2, <1>4, <2>1, ReleaseFull, OverwriteFull, ReplaceFull
<1> QED
  BY <1>3, <1>4

LEMMA OutOfPlaceKeyFull ==
    ASSUME HeapInv, NoEmptyContainer, NEW op \in OutOfPlace, NEW b \in Bitmaps,
           NEW x \in Bitmaps, NEW y \in Bitmaps, NEW k \in Keys,
           OutOfPlaceKey(op, b, k, x, y)
    PROVE  NoEmptyContainer'
<1> DEFINE s == <<b, k>>
           vals == Combined(op, Held(x, k), Held(y, k))
<1>1. s \in Slots
  BY DEF Slots
<1>2. \/ ShareKey(b, k, x)
      \/ ShareKey(b, k, y)
      \/ Skip
      \/ vals # {} /\ Allocate(s, vals)
  BY DEF OutOfPlaceKey, Held
<1>3. ASSUME Skip PROVE NoEmptyContainer'
  BY <1>3 DEF Skip, NoEmptyContainer
<1> QED
  BY <1>1, <1>2, <1>3, ShareKeyFull, AllocateFull

LEMMA FullStep ==
    ASSUME IInv, CloneSourceLive, NoEmptyContainer, [Next]_vars
    PROVE  NoEmptyContainer'
<1>1. ASSUME cont' = cont PROVE NoEmptyContainer'
  BY <1>1 DEF NoEmptyContainer
<1>2. ASSUME NEW t \in Threads, Step(t) PROVE NoEmptyContainer'
  <2>1. ASSUME NEW b \in Bitmaps, NEW k \in Keys, NEW v \in Vals, AddNewKey(t, b, k, v)
        PROVE  NoEmptyContainer'
    <3>1. <<b, k>> \in Slots /\ {v} # {}
      BY DEF Slots
    <3> QED
      BY <2>1, <3>1, AllocateFull DEF AddNewKey, IInv
  <2>2. ASSUME NEW b \in Bitmaps, NEW k \in Keys, NEW e \in Edits, BeginEdit(t, b, k, e)
        PROVE  cont' = cont
    BY <2>2 DEF BeginEdit, UnsharePrivate, UnshareLast, UnshareDrop
  <2>3. CASE JobKey(t)
    <3>1. PICK j \in JobStates : job[t] = j
      BY <2>3 DEF JobKey, IInv, ThreadInv, TaskType
    <3>2. /\ j.b \in Bitmaps /\ j.x \in Bitmaps /\ j.y \in Bitmaps
          /\ j.todo \subseteq Keys
      BY DEF JobStates
    <3>3. PICK k \in j.todo :
             \/ ReleaseKey(j.b, k)
             \/ ShareKey(j.b, k, j.x)
             \/ j.op \in InPlace /\ InPlaceKey(j.op, j.b, k, j.x)
             \/ j.op \in OutOfPlace /\ OutOfPlaceKey(j.op, j.b, k, j.x, j.y)
      BY <2>3, <3>1 DEF JobKey
    <3> QED
      BY <3>2, <3>3, ReleaseKeyFull, ShareKeyFull, InPlaceKeyFull, OutOfPlaceKeyFull
         DEF IInv
  <2>4. CASE JobDone(t)
    BY <1>1, <2>4 DEF JobDone
  <2>5. ASSUME \E b \in Bitmaps : Create(t, b) \/ BeginFree(t, b) \/ BeginClear(t, b)
        PROVE  cont' = cont
    BY <2>5 DEF Create, BeginFree, BeginClear
  <2>6. ASSUME \/ \E b, x \in Bitmaps : BeginOverwrite(t, b, x) \/ BeginCopy(t, b, x)
               \/ \E op \in InPlace, b, x \in Bitmaps : BeginInPlace(t, op, b, x)
               \/ \E op \in OutOfPlace, b, x, y \in Bitmaps :
                     BeginOutOfPlace(t, op, b, x, y)
        PROVE  cont' = cont
    BY <2>6 DEF BeginOverwrite, BeginCopy, BeginInPlace, BeginOutOfPlace
  <2> QED
    BY <1>1, <1>2, <2>1, <2>2, <2>3, <2>4, <2>5, <2>6, CloneFull, StoreFull DEF Step
<1> QED
  BY <1>1, <1>2 DEF Next, vars

\* The code's own assumption "that the initial containers are non-empty"
\* (roaring.c:801) holds: an operation that empties a container drops it.
THEOREM ContainersFull == Spec /\ []CloneSourceLive => []NoEmptyContainer
<1>1. Init => NoEmptyContainer
  BY NullAssumption DEF Init, NoEmptyContainer
<1>2. IInv /\ CloneSourceLive /\ NoEmptyContainer /\ [Next]_vars => NoEmptyContainer'
  BY FullStep
<1> QED
  BY Invariance, <1>1, <1>2, PTL DEF Spec

\* A single thread needs no condition for it.
THEOREM ContainersFullForOne ==
    ASSUME OneThread
    PROVE  Spec => []NoEmptyContainer
<1>1. Spec => []CloneSourceLive
  BY CloneSourceStays
<1> QED
  BY ContainersFull, <1>1, PTL
===============================================================================
