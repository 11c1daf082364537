----------------------------- MODULE BitmapValues -----------------------------
(* What the bitmaps of roaring.h promise their caller: each is a set of        *)
(* integers of its own, here one set of low halves per key; a call changes the *)
(* bitmap it is made on, as the function says, and no other.                   *)
EXTENDS Sequences

CONSTANTS Bitmaps, Keys, Vals, Threads, Null

VARIABLES set,    \* set[b]: the contents of bitmap b, Null when it does not exist
          call    \* call[t]: the function thread t is in and its arguments, or Null

vars == <<set, call>>

Empty == [k \in Keys |-> {}]
Exists(b) == set[b] # Null
Becomes(b, s) == set' = [set EXCEPT ![b] = s]

\* A call takes effect when it is made.  Some are over at once.
Calls(t, op, args) == /\ call[t] = Null
                      /\ call' = [call EXCEPT ![t] = [op |-> op, args |-> args]]
AtOnce(t) == call[t] = Null /\ UNCHANGED call
Return(t) == call[t] # Null /\ call' = [call EXCEPT ![t] = Null] /\ UNCHANGED set

Combination(op, a, b) == CASE op \in {"or", "ior"} -> a \cup b
                           [] op \in {"and", "iand"} -> a \cap b
                           [] op \in {"andnot", "iandnot"} -> a \ b
                           [] op \in {"xor", "ixor"} -> (a \ b) \cup (b \ a)

\* roaring_bitmap_create and _free, _clear, _add, _remove and _run_optimize.
Create(t, b) == AtOnce(t) /\ ~Exists(b) /\ Becomes(b, Empty)
Free(t, b) == Calls(t, "free", <<b>>) /\ Exists(b) /\ Becomes(b, Null)
Clear(t, b) == Calls(t, "clear", <<b>>) /\ Exists(b) /\ Becomes(b, Empty)
Add(t, b, k, v) == /\ Calls(t, "add", <<b, k, v>>) \/ AtOnce(t)
                   /\ Exists(b)
                   /\ Becomes(b, [set[b] EXCEPT ![k] = @ \cup {v}])
Remove(t, b, k, v) == /\ Calls(t, "remove", <<b, k, v>>) \/ AtOnce(t)
                      /\ Exists(b)
                      /\ Becomes(b, [set[b] EXCEPT ![k] = @ \ {v}])
Optimize(t, b, k) == Calls(t, "optimize", <<b, k>>) /\ Exists(b) /\ UNCHANGED set

\* roaring_bitmap_copy and _overwrite.
Assign(t, b, x) == Calls(t, "assign", <<b, x>>) /\ Exists(x) /\ Becomes(b, set[x])

\* roaring_bitmap_or, _and, _xor and _andnot; the in-place ones when b = x.
Combine(t, op, b, x, y) ==
    /\ Calls(t, op, <<b, x, y>>)
    /\ Exists(x) /\ Exists(y)
    /\ Becomes(b, [k \in Keys |-> Combination(op, set[x][k], set[y][k])])

Init == set = [b \in Bitmaps |-> Null] /\ call = [t \in Threads |-> Null]

Next == \E t \in Threads :
    \/ Return(t)
    \/ \E b \in Bitmaps : Create(t, b) \/ Free(t, b) \/ Clear(t, b)
    \/ \E b \in Bitmaps, k \in Keys : Optimize(t, b, k)
    \/ \E b \in Bitmaps, k \in Keys, v \in Vals : Add(t, b, k, v) \/ Remove(t, b, k, v)
    \/ \E b, x \in Bitmaps : Assign(t, b, x)
    \/ \E op \in {"ior", "iand", "ixor", "iandnot"}, b, x \in Bitmaps :
          Combine(t, op, b, b, x)
    \/ \E op \in {"or", "and", "xor", "andnot"}, b, x, y \in Bitmaps :
          ~Exists(b) /\ Combine(t, op, b, x, y)

Spec == Init /\ [][Next]_vars
===============================================================================
