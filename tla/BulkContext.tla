----------------------------- MODULE BulkContext ------------------------------
(* The bulk operations of copy-on-write bitmaps (roaring.c).  add_bulk and     *)
(* contains_bulk keep the container of the last value in a context owned by    *)
(* the caller, and go straight to it while the values have the same key.       *)
(* remove_many keeps a position the same way, inside one call.                 *)
(*                                                                             *)
(* The caller of BulkSpec is the one roaring.h describes (269-279, 294-296): a *)
(* context belongs to one bitmap, serves both functions, and ends when another *)
(* function modifies the bitmap.  Where bitmaps share containers this caller   *)
(* is not safe; CarefulCaller names what else it takes, rule by rule.          *)
(*                                                                             *)
(* One thread works here, so an operation is one step, but for remove_many,    *)
(* which takes a step for each value; CowBitmaps has the interleavings.        *)
EXTENDS CowBitmaps, Integers

ASSUME OneThreadAssumption == \A t, u \in Threads : t = u
ASSUME KeysAssumption == Keys \subseteq Nat

VARIABLES ctx,        \* ctx[b]: the caller's roaring_bulk_context_t for bitmap b
          many,       \* the remove_many under way: its bitmap and pos, or Null
          usedFreed   \* memory was used after it was freed; kept for MemorySafe only
bulkVars == <<vars, ctx, many, usedFreed>>

\* k and r: the key and the container of a context.
Contexts == [k : Keys, r : Refs]
Removals == [b : Bitmaps, pos : Int]

ASSUME NullRemovalAssumption == Null \notin Contexts \cup Removals

\* container_add or container_remove on a shared container, and container_free of
\* what was there before, as add_bulk_impl and remove_many do when another container
\* comes back.  get_writable_copy_if_shared (own) has given the reference back
\* already: the counter drops twice.  If that was the last reference, the wrapper is
\* freed when it drops again; if the holders were two, the other one loses its
\* container.  When the kind changes, own is lost.  An empty result is freed.
RewriteShared(s, w, new) ==
    \E own, c \in Containers :
        /\ IF IsLast(w) THEN own = wrapper[w].container ELSE Fresh(own)
        /\ IF Kind(new) = Kind(ValuesOf(w)) THEN c = own ELSE Fresh(c) /\ c # own
        /\ cont' = [d \in Containers |->
                      IF d = c THEN (IF new = {} THEN Null ELSE new)
                      ELSE IF d = own THEN ValuesOf(w)
                      ELSE IF d = wrapper[w].container /\ wrapper[w].counter = 2 THEN Null
                      ELSE cont[d]]
        /\ wrapper' = [wrapper EXCEPT ![w] = IF wrapper[w].counter <= 2 THEN Null
                                             ELSE [@ EXCEPT !.counter = @ - 2]]
        /\ slot' = [slot EXCEPT ![s] = IF new = {} THEN Null ELSE c]
        /\ usedFreed' = (usedFreed \/ IsLast(w))
-------------------------------------------------------------------------------
\* container_add on the unshared container of slot s.
AddToSlot(s, v) ==
    LET new == ValuesOf(slot[s]) \cup {v}
    IN  \/ slot[s] = Null /\ Allocate(s, {v})
        \/ slot[s] \in Wrappers /\ Replace(s, new)
        \/ /\ slot[s] \in Containers
           /\ IF Kind(new) = Kind(cont[slot[s]]) THEN Overwrite(s, new)
              ELSE Replace(s, new)

\* Variant: the short cut does not compare the keys.
AtHandAnyKey(b, k) == ctx[b] # Null

\* The context holds the container of key k.
AtHand(b, k) == ctx[b] # Null /\ ctx[b].k = k

\* add_bulk_impl, another key than the context's: containerptr_roaring_bitmap_add,
\* whose container the context keeps.
AddBulkSeek(b, k, v) ==
    /\ ~AtHand(b, k)
    /\ AddToSlot(<<b, k>>, v)
    /\ ctx' = [ctx EXCEPT ![b] = [k |-> k, r |-> slot'[<<b, k>>]]]
    /\ UNCHANGED usedFreed

\* Variant: the context is not told that the container was replaced.
AddBulkAtHandStale(b, k, v) ==
    /\ AtHand(b, k) /\ ctx[b].r \in Containers
    /\ LET old == ctx[b].r
           new == cont[old] \cup {v}
       IN  \/ /\ Kind(new) = Kind(cont[old])
              /\ cont' = [cont EXCEPT ![old] = new]
              /\ UNCHANGED slot
           \/ /\ Kind(new) # Kind(cont[old])
              /\ \E c \in Containers :
                    /\ Fresh(c)
                    /\ cont' = [cont EXCEPT ![old] = Null, ![c] = new]
                    /\ slot' = [slot EXCEPT ![<<b, k>>] = c]
    /\ UNCHANGED <<wrapper, ctx, usedFreed>>

\* add_bulk_impl, the context's key and a container that was not shared when the
\* context got it: it is written without looking at the slot.  When its kind changes,
\* the old one is freed and the slot set.
AddBulkAtHand(b, k, v) ==
    /\ AtHand(b, k) /\ ctx[b].r \in Containers
    /\ LET old == ctx[b].r
           new == cont[old] \cup {v}
       IN  \/ /\ Kind(new) = Kind(cont[old])
              /\ cont' = [cont EXCEPT ![old] = new]
              /\ UNCHANGED <<slot, ctx>>
           \/ /\ Kind(new) # Kind(cont[old])
              /\ \E c \in Containers :
                    /\ Fresh(c)
                    /\ cont' = [cont EXCEPT ![old] = Null, ![c] = new]
                    /\ slot' = [slot EXCEPT ![<<b, k>>] = c]
                    /\ ctx' = [ctx EXCEPT ![b].r = c]
    /\ UNCHANGED <<wrapper, usedFreed>>

\* add_bulk_impl, the context's key and a shared container, which contains_bulk found.
AddBulkShared(b, k, v) ==
    /\ AtHand(b, k) /\ ctx[b].r \in Wrappers
    /\ RewriteShared(<<b, k>>, ctx[b].r, ValuesOf(ctx[b].r) \cup {v})
    /\ ctx' = [ctx EXCEPT ![b].r = slot'[<<b, k>>]]

\* roaring_bitmap_contains_bulk: seeks the first key not below k, and keeps what
\* it finds there even when it is not k.
ContainsBulk(b, k) ==
    /\ ~AtHand(b, k)
    /\ \E f \in Keys : /\ slot[<<b, f>>] # Null /\ f >= k
                       /\ \A g \in Keys : g >= k /\ g < f => slot[<<b, g>>] = Null
                       /\ ctx' = [ctx EXCEPT ![b] = [k |-> f, r |-> slot[<<b, f>>]]]
    /\ UNCHANGED <<slot, cont, wrapper, usedFreed>>
-------------------------------------------------------------------------------
\* The place of key k among the keys of b, and whether keys[i] is k.
Position(b, k) == Cardinality({j \in Keys : j < k /\ slot[<<b, j>>] # Null})
KeyIsAt(b, i, k) == slot[<<b, k>>] # Null /\ i = Position(b, k)

\* ra_get_index; -1 stands for every negative answer.
GetIndex(b, k) == IF slot[<<b, k>>] = Null THEN -1 ELSE Position(b, k)

\* Variant: an emptied container is freed and stays in the array.
RemovePrivateInPlace(s, new) ==
    /\ slot[s] \in Containers
    /\ IF new = {} THEN cont' = ContReleased(slot[s]) /\ UNCHANGED <<slot, wrapper>>
       ELSE IF Kind(new) = Kind(ValuesOf(slot[s])) THEN Overwrite(s, new)
       ELSE Replace(s, new)
    /\ UNCHANGED usedFreed

\* remove_many on a container that is not shared.
RemovePrivate(s, new) ==
    /\ slot[s] \in Containers
    /\ IF new = {} THEN Release(s)
       ELSE IF Kind(new) = Kind(ValuesOf(slot[s])) THEN Overwrite(s, new)
       ELSE Replace(s, new)
    /\ UNCHANGED usedFreed

\* remove_many on a shared container, which it does not unshare as remove does.
RemoveShared(s, new) == slot[s] \in Wrappers /\ RewriteShared(s, slot[s], new)

\* Variant: pos is kept when the container was removed.
PositionKept(i, new) == i

\* The pos remove_many goes on with.
PositionAfter(i, new) == IF new = {} THEN -1 ELSE i

\* One turn of the loop of roaring_bitmap_remove_many: the container is at pos, when
\* keys[pos] is the key, or looked up.
RemoveValue(k, v) ==
    /\ many # Null
    /\ LET b == many.b
           s == <<b, k>>
           i == IF many.pos >= 0 /\ KeyIsAt(b, many.pos, k) THEN many.pos ELSE GetIndex(b, k)
           new == ValuesOf(slot[s]) \ {v}
       IN  \/ /\ i < 0
              /\ many' = [many EXCEPT !.pos = i]
              /\ UNCHANGED <<slot, cont, wrapper, usedFreed>>
           \/ /\ i >= 0
              /\ RemovePrivate(s, new) \/ RemoveShared(s, new)
              /\ many' = [many EXCEPT !.pos = PositionAfter(i, new)]
    /\ UNCHANGED <<live, edit, job, ctx>>
-------------------------------------------------------------------------------
\* The bitmaps a step of thread t modifies, as roaring.h has it: a const argument is
\* not among them.
Written(t) ==
    {b \in Bitmaps : \/ edit'[t] # Null /\ edit'[t].b = b
                     \/ job'[t] # Null /\ job'[t].b = b
                     \/ Idle(t) /\ Idle(t)' /\ \E k \in Keys : slot[<<b, k>>] # slot'[<<b, k>>]}

Invalidate(bs) == ctx' = [b \in Bitmaps |-> IF b \in bs THEN Null ELSE ctx[b]]

\* Another function than the bulk ones.
Other(t) == many = Null /\ Step(t) /\ Invalidate(Written(t)) /\ UNCHANGED <<many, usedFreed>>

Quiet(t, b) == Idle(t) /\ Available(b) /\ b \in live /\ UNCHANGED <<live, edit, job>>
Bulk(t, b) == many = Null /\ Quiet(t, b)

AddBulk(t, b, k, v) ==
    /\ Bulk(t, b)
    /\ AddBulkSeek(b, k, v) \/ AddBulkAtHand(b, k, v) \/ AddBulkShared(b, k, v)
    /\ UNCHANGED many

\* The caller sets a context to zero.
Forget(t, b) == /\ Bulk(t, b) /\ ctx[b] # Null
                /\ Invalidate({b})
                /\ UNCHANGED <<slot, cont, wrapper, many, usedFreed>>

\* roaring_bitmap_remove_many, up to the loop.  It modifies the bitmap.
BeginRemoveMany(t, b) ==
    /\ Bulk(t, b) /\ \E k \in Keys : slot[<<b, k>>] # Null
    /\ many' = [b |-> b, pos |-> -1]
    /\ Invalidate({b})
    /\ UNCHANGED <<slot, cont, wrapper, usedFreed>>

EndRemoveMany == many # Null /\ many' = Null /\ UNCHANGED <<vars, ctx, usedFreed>>

BulkStep(t) ==
    \/ \E b \in Bitmaps, k \in Keys, v \in Vals : AddBulk(t, b, k, v)
    \/ \E b \in Bitmaps, k \in Keys : Bulk(t, b) /\ ContainsBulk(b, k) /\ UNCHANGED many
    \/ \E b \in Bitmaps : Forget(t, b) \/ BeginRemoveMany(t, b)
    \/ \E k \in Keys, v \in Vals : RemoveValue(k, v)
    \/ EndRemoveMany

BulkInit == /\ Init
            /\ ctx = [b \in Bitmaps |-> Null]
            /\ many = Null
            /\ usedFreed = FALSE

\* Freed memory was not used, and no bitmap points to any.
MemorySafe == NoDangling /\ ~usedFreed

\* What the program does once it is not memory safe is undefined: the model ends there.
BulkNext == MemorySafe /\ \E t \in Threads : BulkStep(t) \/ Other(t)
BulkSpec == BulkInit /\ [][BulkNext]_bulkVars
-------------------------------------------------------------------------------
\* What a caller with copy-on-write bitmaps has to see to beyond roaring.h: remove_many
\* gets a bitmap that shares nothing,
RemovesUnshared == many # Null => \A k \in Keys : slot[<<many.b, k>>] \notin Wrappers
\* add_bulk gets no context in which contains_bulk has left a shared container,
AddsUnshared == \A b \in Bitmaps, k \in Keys, v \in Vals : ~AddBulkShared(b, k, v)
\* and the const source of a copy, and of what copies a key of its operands, has no
\* context any more.
SourcesForgotten ==
    \A t \in Threads : job[t] # Null => \A b \in {job[t].x, job[t].y} : ctx[b] = Null

CarefulCaller == RemovesUnshared' /\ AddsUnshared /\ SourcesForgotten'

CarefulSpec == BulkInit /\ [][BulkNext /\ CarefulCaller]_bulkVars
-------------------------------------------------------------------------------
\* A context that is not empty holds the container its bitmap holds for that key.
ContextAtSlot == \A b \in Bitmaps : ctx[b] # Null => slot[<<b, ctx[b].k>>] = ctx[b].r

\* The pos that remove_many takes into the next turn is -1 or lies in the arrays.
PositionInside == many # Null => \/ many.pos = -1
                                 \/ \E k \in Keys : KeyIsAt(many.b, many.pos, k)

\* What is kept from one value to the next stays right, so going without a search finds
\* what a search would have found: add_bulk_impl writes the very container of the slot,
\* and remove_many reads no keys[pos] behind the end of the arrays, where
\* ra_remove_at_index leaves the key and the freed container of what it removed.
ShortCutsExact == ContextAtSlot /\ PositionInside
===============================================================================
