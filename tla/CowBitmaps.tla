------------------------------ MODULE CowBitmaps ------------------------------
(* Copy-on-write bitmaps (roaring.c, roaring_array.c, containers.c).          *)
(*                                                                            *)
(* A bitmap has at most one container per key.  With ROARING_FLAG_COW a copy  *)
(* shares the containers of its source: the source's slot and the copy's slot *)
(* both point to a shared_container_t, which holds the container and an       *)
(* atomic reference counter.  A container behind a wrapper must be unshared   *)
(* before it is written.  Several threads work at once, each on bitmaps no    *)
(* other thread is using; the wrappers are what their bitmaps have in common. *)
(*                                                                            *)
(* A step is the piece of an operation between two accesses to memory other   *)
(* threads can reach, that is, between two operations on a counter or between *)
(* a counter and the container behind it.                                     *)
EXTENDS Naturals, Sequences, FiniteSets

CONSTANTS Bitmaps,      \* the roaring_bitmap_t objects
          Keys,         \* the high 16 bits of a value
          Vals,         \* the low 16 bits of a value
          Containers,   \* addresses of array, bitset and run containers
          Wrappers,     \* addresses of shared_container_t
          Threads,
          MaxArray,     \* DEFAULT_MAX_SIZE: the most an array container holds
          Null

Slots == Bitmaps \X Keys
Refs == Containers \cup Wrappers

\* What roaring_bitmap_add, _remove and _run_optimize do to one container.
Edits == [op : {"add", "remove"}, v : Vals] \cup [op : {"optimize"}]
InPlace == {"ior", "iand", "ixor", "iandnot"}
OutOfPlace == {"or", "and", "xor", "andnot"}
Emptying == {"free", "clear", "overwrite"}

\* What the memory of a wrapper, and the local state of an operation, can hold.
SharedContainers == [container : Containers, counter : Nat]
EditStates == [b : Bitmaps, k : Keys, e : Edits, w : Wrappers \cup {Null}]
JobStates == [op : InPlace \cup OutOfPlace \cup Emptying \cup {"copy"},
              b : Bitmaps, x : Bitmaps, y : Bitmaps, todo : SUBSET Keys]

\* What BitmapValues can tell of a bitmap and of a thread.
ContentStates == [Keys -> SUBSET Vals]
CallStates == [op : InPlace \cup OutOfPlace
                      \cup {"add", "remove", "optimize", "free", "clear", "assign"},
               args : Seq(Bitmaps \cup Keys \cup Vals)]

ASSUME FiniteAssumption == /\ IsFiniteSet(Bitmaps)
                           /\ IsFiniteSet(Keys)
                           /\ MaxArray \in Nat
ASSUME NullAssumption == /\ Null \notin Refs
                         /\ \A s \in SUBSET Vals : s # Null
                         /\ Null \notin SharedContainers
                         /\ Null \notin EditStates
                         /\ Null \notin JobStates
ASSUME NullContentAssumption == Null \notin ContentStates \cup CallStates
ASSUME DisjointAssumption == Containers \cap Wrappers = {}

VARIABLES live,     \* the bitmaps that exist
          slot,     \* slot[<<b, k>>]: containers[i], typecodes[i] of b at key k
          cont,     \* the values in an allocated container, Null when it is free
          wrapper,  \* an allocated shared_container_t, Null when it is free
          edit,     \* edit[t]: thread t is changing one value of one container
          job       \* job[t]: thread t is in an operation on whole bitmaps

vars == <<live, slot, cont, wrapper, edit, job>>
-------------------------------------------------------------------------------
\* container_unwrap_shared: the values a slot holds.
ValuesOf(r) == IF r = Null THEN {}
               ELSE IF r \in Wrappers THEN cont[wrapper[r].container]
               ELSE cont[r]

Kind(vals) == IF Cardinality(vals) <= MaxArray THEN "array" ELSE "bitset"

Edited(e, vals) == CASE e.op = "add" -> vals \cup {e.v}
                     [] e.op = "remove" -> vals \ {e.v}
                     [] OTHER -> vals

Combined(op, v1, v2) ==
    CASE op \in {"or", "ior"} -> v1 \cup v2
      [] op \in {"and", "iand"} -> v1 \cap v2
      [] op \in {"xor", "ixor"} -> (v1 \ v2) \cup (v2 \ v1)
      [] op \in {"andnot", "iandnot"} -> v1 \ v2

\* Variant: andnot_inplace loses the keys only the left operand has.
KeepsLeftButIandnot(op) == op \in {"or", "ior", "xor", "ixor", "andnot"}

\* Operations that keep a key only the left operand has.
KeepsLeft(op) == op \in {"or", "ior", "xor", "ixor", "andnot", "iandnot"}
\* Operations that keep a key only the right operand has.
KeepsRight(op) == op \in {"or", "ior", "xor", "ixor"}

Fresh(c) == c \in Containers /\ cont[c] = Null

\* Variant: the counter is compared with what it was before the decrement.
IsLastEarly(r) == r \in Wrappers /\ wrapper[r].counter <= 2

\* container_free and shared_container_free: what releasing a slot's reference
\* leaves of the containers and of the wrappers.
IsLast(r) == r \in Wrappers /\ wrapper[r].counter = 1

\* Variant: the wrapper is freed and its container is not.
ContReleasedLeak(r) == IF r \in Containers THEN [cont EXCEPT ![r] = Null] ELSE cont

ContReleased(r) == IF r \in Containers THEN [cont EXCEPT ![r] = Null]
                   ELSE IF IsLast(r)
                        THEN [cont EXCEPT ![wrapper[r].container] = Null]
                        ELSE cont
WrapperReleased(r) == IF r \in Containers THEN wrapper
                      ELSE IF IsLast(r) THEN [wrapper EXCEPT ![r] = Null]
                           ELSE [wrapper EXCEPT ![r].counter = @ - 1]

\* container_free(slot) and the slot is gone.
Release(s) == /\ cont' = ContReleased(slot[s])
              /\ wrapper' = WrapperReleased(slot[s])
              /\ slot' = [slot EXCEPT ![s] = Null]

\* Variant: a wrapper that is there already gets no second count.
ShareUncounted(s, d) ==
    \/ /\ slot[s] \in Wrappers
       /\ slot' = [slot EXCEPT ![d] = slot[s]]
       /\ UNCHANGED <<cont, wrapper>>
    \/ /\ slot[s] \in Containers
       /\ \E w \in Wrappers :
            /\ wrapper[w] = Null
            /\ wrapper' = [wrapper EXCEPT ![w] = [container |-> slot[s],
                                                  counter |-> 2]]
            /\ slot' = [slot EXCEPT ![s] = w, ![d] = w]
       /\ UNCHANGED cont

\* get_copy_of_container with copy_on_write: slot s keeps its container, slot d
\* gets a second reference to it.
Share(s, d) ==
    \/ /\ slot[s] \in Wrappers
       /\ wrapper' = [wrapper EXCEPT ![slot[s]].counter = @ + 1]
       /\ slot' = [slot EXCEPT ![d] = slot[s]]
       /\ UNCHANGED cont
    \/ /\ slot[s] \in Containers
       /\ \E w \in Wrappers :
            /\ wrapper[w] = Null
            /\ wrapper' = [wrapper EXCEPT ![w] = [container |-> slot[s],
                                                  counter |-> 2]]
            /\ slot' = [slot EXCEPT ![s] = w, ![d] = w]
       /\ UNCHANGED cont

\* A new container holding vals goes into the empty slot s.
Allocate(s, vals) == \E c \in Containers : /\ Fresh(c)
                                           /\ cont' = [cont EXCEPT ![c] = vals]
                                           /\ slot' = [slot EXCEPT ![s] = c]
                                           /\ UNCHANGED wrapper

\* The slot's reference is released and a new container takes its place.
Replace(s, vals) ==
    \E c \in Containers :
        /\ Fresh(c)
        /\ cont' = [ContReleased(slot[s]) EXCEPT ![c] = vals]
        /\ wrapper' = WrapperReleased(slot[s])
        /\ slot' = [slot EXCEPT ![s] = c]

\* The private container in slot s is written where it is.
Overwrite(s, vals) == /\ cont' = [cont EXCEPT ![slot[s]] = vals]
                      /\ UNCHANGED <<slot, wrapper>>
-------------------------------------------------------------------------------
\* The bitmaps thread t is working on.
Uses(t) == (IF edit[t] = Null THEN {} ELSE {edit[t].b})
           \cup (IF job[t] = Null THEN {} ELSE {job[t].b, job[t].x, job[t].y})

Idle(t) == edit[t] = Null /\ job[t] = Null

\* The caller's part of thread safety: a bitmap is used by one thread at a
\* time, as a source too, since copying rewrites the slots of the source.
Available(b) == \A t \in Threads : b \notin Uses(t)

\* roaring_bitmap_create_with_capacity, then set_copy_on_write(TRUE).
Create(t, b) ==
    /\ Idle(t) /\ Available(b) /\ b \notin live
    /\ live' = live \cup {b}
    /\ UNCHANGED <<slot, cont, wrapper, edit, job>>

\* roaring_bitmap_add, the key is new: a new array container.
AddNewKey(t, b, k, v) ==
    /\ Idle(t) /\ Available(b) /\ b \in live
    /\ slot[<<b, k>>] = Null
    /\ Allocate(<<b, k>>, {v})
    /\ UNCHANGED <<live, edit, job>>

\* ra_unshare_container_at_index on a slot that is not shared: nothing to do.
UnsharePrivate(t, b, k, e) ==
    /\ slot[<<b, k>>] \in Containers
    /\ edit' = [edit EXCEPT ![t] = [b |-> b, k |-> k, e |-> e, w |-> Null]]
    /\ UNCHANGED <<slot, cont, wrapper>>

\* shared_container_extract_copy when croaring_refcount_dec says zero: the
\* container moves out of the wrapper and the wrapper is freed.
UnshareLast(t, b, k, e) ==
    /\ IsLast(slot[<<b, k>>])
    /\ slot' = [slot EXCEPT ![<<b, k>>] = wrapper[slot[<<b, k>>]].container]
    /\ wrapper' = [wrapper EXCEPT ![slot[<<b, k>>]] = Null]
    /\ edit' = [edit EXCEPT ![t] = [b |-> b, k |-> k, e |-> e, w |-> Null]]
    /\ UNCHANGED cont

\* shared_container_extract_copy otherwise: the counter drops first, and only
\* then, in Clone, is the container behind it copied.  From here on the slot
\* holds no reference.
UnshareDrop(t, b, k, e) ==
    /\ slot[<<b, k>>] \in Wrappers /\ ~IsLast(slot[<<b, k>>])
    /\ wrapper' = [wrapper EXCEPT ![slot[<<b, k>>]].counter = @ - 1]
    /\ slot' = [slot EXCEPT ![<<b, k>>] = Null]
    /\ edit' = [edit EXCEPT ![t] = [b |-> b, k |-> k, e |-> e, w |-> slot[<<b, k>>]]]
    /\ UNCHANGED cont

BeginEdit(t, b, k, e) ==
    /\ Idle(t) /\ Available(b) /\ b \in live
    /\ \/ UnsharePrivate(t, b, k, e)
       \/ UnshareLast(t, b, k, e)
       \/ UnshareDrop(t, b, k, e)
    /\ UNCHANGED <<live, job>>

\* container_clone(sc->container).  When the wrapper has been freed meanwhile
\* the read is undefined: any values may come out of it.
Clone(t) ==
    /\ edit[t] # Null /\ edit[t].w # Null
    /\ \/ /\ wrapper[edit[t].w] # Null
          /\ Allocate(<<edit[t].b, edit[t].k>>, ValuesOf(edit[t].w))
       \/ /\ wrapper[edit[t].w] = Null
          /\ \E vals \in SUBSET Vals : Allocate(<<edit[t].b, edit[t].k>>, vals)
    /\ edit' = [edit EXCEPT ![t].w = Null]
    /\ UNCHANGED <<live, job>>

\* Variant: roaring_bitmap_remove keeps a container it has emptied.
StoreKeepsEmpty(t) ==
    /\ edit[t] # Null /\ edit[t].w = Null
    /\ LET s == <<edit[t].b, edit[t].k>>
           old == cont[slot[s]]
           new == Edited(edit[t].e, old)
       IN  IF Kind(new) = Kind(old) THEN Overwrite(s, new) ELSE Replace(s, new)
    /\ edit' = [edit EXCEPT ![t] = Null]
    /\ UNCHANGED <<live, job>>

\* container_add, container_remove or convert_run_optimize on the container that
\* is now private.  When the kind of container changes, a new one replaces it;
\* a container left empty is removed.
Store(t) ==
    /\ edit[t] # Null /\ edit[t].w = Null
    /\ LET s == <<edit[t].b, edit[t].k>>
           old == cont[slot[s]]
           new == Edited(edit[t].e, old)
       IN  \/ /\ new = {}
              /\ Release(s)
           \/ /\ new # {} /\ Kind(new) = Kind(old)
              /\ Overwrite(s, new)
           \/ /\ new # {} /\ Kind(new) # Kind(old)
              /\ Replace(s, new)
    /\ edit' = [edit EXCEPT ![t] = Null]
    /\ UNCHANGED <<live, job>>
-------------------------------------------------------------------------------
Job(op, b, x, y) == [op |-> op, b |-> b, x |-> x, y |-> y, todo |-> Keys]

\* roaring_bitmap_free: ra_clear, then the bitmap itself.
BeginFree(t, b) ==
    /\ Idle(t) /\ Available(b) /\ b \in live
    /\ live' = live \ {b}
    /\ job' = [job EXCEPT ![t] = Job("free", b, b, b)]
    /\ UNCHANGED <<slot, cont, wrapper, edit>>

\* roaring_bitmap_clear.
BeginClear(t, b) ==
    /\ Idle(t) /\ Available(b) /\ b \in live
    /\ job' = [job EXCEPT ![t] = Job("clear", b, b, b)]
    /\ UNCHANGED <<live, slot, cont, wrapper, edit>>

\* roaring_bitmap_overwrite(b, x): ra_overwrite frees the containers of b first.
BeginOverwrite(t, b, x) ==
    /\ Idle(t) /\ b # x /\ {b, x} \subseteq live
    /\ Available(b) /\ Available(x)
    /\ job' = [job EXCEPT ![t] = Job("overwrite", b, x, x)]
    /\ UNCHANGED <<live, slot, cont, wrapper, edit>>

\* roaring_bitmap_copy(x), whose answer is b.
BeginCopy(t, b, x) ==
    /\ Idle(t) /\ b \notin live /\ x \in live
    /\ Available(b) /\ Available(x)
    /\ live' = live \cup {b}
    /\ job' = [job EXCEPT ![t] = Job("copy", b, x, x)]
    /\ UNCHANGED <<slot, cont, wrapper, edit>>

\* roaring_bitmap_or_inplace(b, x) and the other in-place operations.
BeginInPlace(t, op, b, x) ==
    /\ Idle(t) /\ b # x /\ {b, x} \subseteq live
    /\ Available(b) /\ Available(x)
    /\ job' = [job EXCEPT ![t] = Job(op, b, x, x)]
    /\ UNCHANGED <<live, slot, cont, wrapper, edit>>

\* roaring_bitmap_or(x, y) and the other operations that make a bitmap, b.
BeginOutOfPlace(t, op, b, x, y) ==
    /\ Idle(t) /\ b \notin live /\ {x, y} \subseteq live
    /\ Available(b) /\ Available(x) /\ Available(y)
    /\ live' = live \cup {b}
    /\ job' = [job EXCEPT ![t] = Job(op, b, x, y)]
    /\ UNCHANGED <<slot, cont, wrapper, edit>>

Skip == UNCHANGED <<slot, cont, wrapper>>

\* ra_clear_containers, one key.
ReleaseKey(b, k) == IF slot[<<b, k>>] = Null THEN Skip ELSE Release(<<b, k>>)

\* ra_overwrite and ra_append_copy, one key.
ShareKey(b, k, x) == IF slot[<<x, k>>] = Null THEN Skip ELSE Share(<<x, k>>, <<b, k>>)

\* Variant: the in-place operation writes through the wrapper.
InPlaceKeyWritesShared(op, b, k, x) ==
    LET r1 == slot[<<b, k>>]
        r2 == slot[<<x, k>>]
        vals == Combined(op, ValuesOf(r1), ValuesOf(r2))
        c == IF r1 \in Wrappers THEN wrapper[r1].container ELSE r1
    IN  IF r1 = Null
        THEN IF KeepsRight(op) THEN ShareKey(b, k, x) ELSE Skip
        ELSE IF r2 = Null
        THEN IF KeepsLeft(op) THEN Skip ELSE Release(<<b, k>>)
        ELSE IF vals = {} THEN Release(<<b, k>>)
        ELSE cont' = [cont EXCEPT ![c] = vals] /\ UNCHANGED <<slot, wrapper>>

\* One key of an in-place operation.  A shared container is not written: the
\* result is a new container, and the reference is dropped after it was read.
InPlaceKey(op, b, k, x) ==
    LET r1 == slot[<<b, k>>]
        r2 == slot[<<x, k>>]
        vals == Combined(op, ValuesOf(r1), ValuesOf(r2))
    IN  IF r1 = Null
        THEN IF KeepsRight(op) THEN ShareKey(b, k, x) ELSE Skip
        ELSE IF r2 = Null
        THEN IF KeepsLeft(op) THEN Skip ELSE Release(<<b, k>>)
        ELSE \/ vals = {} /\ Release(<<b, k>>)
             \/ vals # {} /\ r1 \in Containers /\ Overwrite(<<b, k>>, vals)
             \/ vals # {} /\ r1 \in Wrappers /\ Replace(<<b, k>>, vals)

\* One key of an operation that makes a new bitmap.
OutOfPlaceKey(op, b, k, x, y) ==
    LET vals == Combined(op, ValuesOf(slot[<<x, k>>]), ValuesOf(slot[<<y, k>>]))
    IN  IF slot[<<y, k>>] = Null
        THEN IF KeepsLeft(op) THEN ShareKey(b, k, x) ELSE Skip
        ELSE IF slot[<<x, k>>] = Null
        THEN IF KeepsRight(op) THEN ShareKey(b, k, y) ELSE Skip
        ELSE \/ vals = {} /\ Skip
             \/ vals # {} /\ Allocate(<<b, k>>, vals)

\* The next key of the operation thread t is in.
JobKey(t) ==
    /\ job[t] # Null
    /\ \E k \in job[t].todo :
         LET j == job[t]
         IN  /\ \/ j.op \in Emptying /\ ReleaseKey(j.b, k)
                \/ j.op = "copy" /\ ShareKey(j.b, k, j.x)
                \/ j.op \in InPlace /\ InPlaceKey(j.op, j.b, k, j.x)
                \/ j.op \in OutOfPlace /\ OutOfPlaceKey(j.op, j.b, k, j.x, j.y)
             /\ job' = [job EXCEPT ![t].todo = @ \ {k}]
    /\ UNCHANGED <<live, edit>>

\* The loop over the keys is over.  An overwrite has emptied its destination and
\* goes on to copy.
JobDone(t) ==
    /\ job[t] # Null /\ job[t].todo = {}
    /\ job' = [job EXCEPT ![t] = IF job[t].op = "overwrite"
                                 THEN Job("copy", job[t].b, job[t].x, job[t].x)
                                 ELSE Null]
    /\ UNCHANGED <<live, slot, cont, wrapper, edit>>
-------------------------------------------------------------------------------
Init == /\ live = {}
        /\ slot = [s \in Slots |-> Null]
        /\ cont = [c \in Containers |-> Null]
        /\ wrapper = [w \in Wrappers |-> Null]
        /\ edit = [t \in Threads |-> Null]
        /\ job = [t \in Threads |-> Null]

Step(t) ==
    \/ \E b \in Bitmaps : Create(t, b) \/ BeginFree(t, b) \/ BeginClear(t, b)
    \/ \E b \in Bitmaps, k \in Keys, v \in Vals : AddNewKey(t, b, k, v)
    \/ \E b \in Bitmaps, k \in Keys, e \in Edits : BeginEdit(t, b, k, e)
    \/ Clone(t)
    \/ Store(t)
    \/ \E b, x \in Bitmaps : BeginOverwrite(t, b, x) \/ BeginCopy(t, b, x)
    \/ \E op \in InPlace, b, x \in Bitmaps : BeginInPlace(t, op, b, x)
    \/ \E op \in OutOfPlace, b, x, y \in Bitmaps : BeginOutOfPlace(t, op, b, x, y)
    \/ JobKey(t)
    \/ JobDone(t)

Next == \E t \in Threads : Step(t)

Spec == Init /\ [][Next]_vars
-------------------------------------------------------------------------------
\* Every variable holds what the code can store in it.
TypeOK ==
    /\ live \subseteq Bitmaps
    /\ slot \in [Slots -> Refs \cup {Null}]
    /\ cont \in [Containers -> {Null} \cup SUBSET Vals]
    /\ wrapper \in [Wrappers -> SharedContainers \cup {Null}]
    /\ edit \in [Threads -> EditStates \cup {Null}]
    /\ job \in [Threads -> JobStates \cup {Null}]

Holders(w) == {s \in Slots : slot[s] = w}

\* The counter of a shared container is the number of bitmaps that point to it,
\* in every interleaving of croaring_refcount_inc and croaring_refcount_dec:
\* what "reference counting" promises (containers.h:54).  It is never zero while
\* the wrapper is allocated.
Counted == \A w \in Wrappers :
              wrapper[w] # Null => /\ wrapper[w].counter = Cardinality(Holders(w))
                                   /\ wrapper[w].counter # 0

\* No bitmap points to freed memory, neither directly nor through a wrapper, so
\* no operation reads or frees a container twice.
NoDangling ==
    /\ \A s \in Slots : slot[s] # Null => IF slot[s] \in Wrappers
                                          THEN wrapper[slot[s]] # Null
                                          ELSE cont[slot[s]] # Null
    /\ \A w \in Wrappers : wrapper[w] # Null => cont[wrapper[w].container] # Null

Encloses(w, c) == wrapper[w] # Null /\ wrapper[w].container = c

\* An allocated container belongs to one slot or to one wrapper, never to two
\* owners: none leaks when its last reference goes, and none is written or freed
\* by two bitmaps.
OneOwner == \A c \in Containers :
               /\ cont[c] # Null => \/ \E s \in Slots : slot[s] = c
                                    \/ \E w \in Wrappers : Encloses(w, c)
               /\ \A s1, s2 \in Slots : slot[s1] = c /\ slot[s2] = c => s1 = s2
               /\ \A w1, w2 \in Wrappers :
                     Encloses(w1, c) /\ Encloses(w2, c) => w1 = w2
               /\ \A s \in Slots, w \in Wrappers : ~(slot[s] = c /\ Encloses(w, c))

\* A bitmap keeps no empty container: roaring_bitmap_or relies on it ("we assume
\* that the initial containers are non-empty", roaring.c:801), and so do the
\* iterator and roaring_bitmap_is_empty.
NoEmptyContainer == \A c \in Containers : cont[c] # {}

\* The shared container an unsharing thread is about to clone has not been freed
\* by the other holders ("any access to the object through this reference must
\* obviously happened before" the drop, portability.h:453).
CloneSourceLive == \A t \in Threads :
                      edit[t] # Null /\ edit[t].w # Null => wrapper[edit[t].w] # Null

\* Copy on write: as long as a container stays behind a wrapper, no operation of
\* any bitmap changes the values in it.
SharedContentFrozen ==
    [][\A w \in Wrappers :
          wrapper[w] # Null /\ wrapper'[w] # Null
             => /\ wrapper'[w].container = wrapper[w].container
                /\ cont'[wrapper[w].container] = cont[wrapper[w].container]]_vars
-------------------------------------------------------------------------------
\* The values bitmap b stands for: what it will hold once the operation on it, if
\* one is running, has ended.
Outcome(b, k) ==
    LET here == ValuesOf(slot[<<b, k>>])
        editing == {t \in Threads : edit[t] # Null /\ edit[t].b = b /\ edit[t].k = k}
        working == {t \in Threads : job[t] # Null /\ job[t].b = b}
    IN  IF editing # {}
        THEN LET d == edit[CHOOSE t \in editing : TRUE]
             IN  Edited(d.e, IF d.w = Null THEN here ELSE ValuesOf(d.w))
        ELSE IF working # {}
        THEN LET j == job[CHOOSE t \in working : TRUE]
                 left == ValuesOf(slot[<<j.x, k>>])
                 right == ValuesOf(slot[<<j.y, k>>])
             IN  IF j.op = "overwrite" THEN left
                 ELSE IF k \notin j.todo THEN here
                 ELSE IF j.op \in Emptying THEN {}
                 ELSE IF j.op = "copy" THEN left
                 ELSE IF j.op \in InPlace THEN Combined(j.op, here, right)
                 ELSE Combined(j.op, left, right)
        ELSE here

Sets == [b \in Bitmaps |-> IF b \in live THEN [k \in Keys |-> Outcome(b, k)]
                           ELSE Null]

\* The call thread t is in.
Call(t) ==
    LET d == edit[t]
        j == job[t]
    IN  IF d # Null
        THEN [op |-> d.e.op, args |-> IF d.e.op = "optimize" THEN <<d.b, d.k>>
                                      ELSE <<d.b, d.k, d.e.v>>]
        ELSE IF j = Null THEN Null
        ELSE IF j.op \in {"free", "clear"} THEN [op |-> j.op, args |-> <<j.b>>]
        ELSE IF j.op \in {"overwrite", "copy"}
        THEN [op |-> "assign", args |-> <<j.b, j.x>>]
        ELSE IF j.op \in InPlace THEN [op |-> j.op, args |-> <<j.b, j.b, j.x>>]
        ELSE [op |-> j.op, args |-> <<j.b, j.x, j.y>>]

Values == INSTANCE BitmapValues WITH set <- Sets,
                                     call <- [t \in Threads |-> Call(t)]

\* Copy-on-write bitmaps behave like separate sets of integers: each call does to
\* its own bitmap what it does to a set, and sharing is never seen by a caller.
IsBitmapValues == Values!Spec

\* With several threads a container may be freed while it is cloned, and the clone is
\* then arbitrary.  Every step before and after which no thread is about to clone a
\* freed container is one of separate sets all the same.
SeparateSteps ==
    [][CloneSourceLive /\ CloneSourceLive' => [Values!Next]_(Values!vars)]_vars
===============================================================================
