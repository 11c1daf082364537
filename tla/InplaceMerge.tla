---------------------------- MODULE InplaceMerge ----------------------------
(* The in-place operations of two bitmaps (roaring.c): x1 is overwritten with  *)
(* its intersection, union, symmetric difference or difference with x2.  A     *)
(* bitmap is an array of slots in the order of their keys, a key and a         *)
(* container that is not empty; a container is the set of its low halves.      *)
(* Each step is one turn of a loop, which reads both arrays at pos1 and pos2   *)
(* and writes its answer into the array it still reads.                        *)
(*                                                                             *)
(* Positions count from 1.  Who owns the containers is modelled in CowBitmaps. *)
EXTENDS Integers, Sequences

CONSTANTS Keys,    \* high halves of numbers
          Lows,    \* low halves
          Inputs,  \* bitmaps x1 starts as
          Operands \* bitmaps given as x2

Slots == [key : Keys, low : (SUBSET Lows) \ {{}}]

Ascending(s) == \A i, j \in DOMAIN s : i < j => s[i].key < s[j].key

ASSUME MergeAssumption ==
    /\ Keys \subseteq Int
    /\ \A s \in Inputs \cup Operands : s \in Seq(Slots) /\ Ascending(s)

VARIABLES x1, x2,        \* the arrays of the two bitmaps
          op,            \* the call, or the last one
          running,       \* whether the call has not returned
          pos1, pos2,    \* the slots the loop reads
          isize,         \* intersection_size: slots of the answer written so far
          old            \* x1 as the call found it
vars == <<x1, x2, op, running, pos1, pos2, isize, old>>

Ops == {"and", "or", "xor", "andnot"}
Compacting == {"and", "andnot"}   \* write the answer behind the slots they read
Splicing == {"or", "xor"}         \* insert and remove slots

\* Whether a number is in the answer of o, as it is in x1 and in x2.
Truth(o, in1, in2) == \/ o = "and" /\ in1 /\ in2
                      \/ o = "or" /\ (in1 \/ in2)
                      \/ o = "xor" /\ (in1 \/ in2) /\ ~(in1 /\ in2)
                      \/ o = "andnot" /\ in1 /\ ~in2

\* container_iand, container_ior, container_ixor, container_iandnot
Combine(c1, c2) == {v \in c1 \cup c2 : Truth(op, v \in c1, v \in c2)}

-----------------------------------------------------------------------------
(* Edits of an array *)

\* Variant: the slots from i on are not moved up.
InsertSlotOver(s, i, slot) == [s EXCEPT ![i] = slot]
InsertSlot(s, i, slot) ==
    [j \in 1..Len(s) + 1 |-> IF j < i THEN s[j] ELSE IF j = i THEN slot ELSE s[j - 1]]

RemoveSlot(s, i) == [j \in 1..Len(s) - 1 |-> IF j < i THEN s[j] ELSE s[j + 1]]

Downsize(s, n) == [j \in 1..n |-> s[j]]

\* The slots of t from position i on, after s.
AppendFrom(s, t, i) ==
    [j \in 1..Len(s) + Len(t) + 1 - i |-> IF j <= Len(s) THEN s[j] ELSE t[i + j - Len(s) - 1]]

\* The slots of s from position i on, slid down to follow the first n.
SlideDown(s, i, n) ==
    [j \in DOMAIN s |-> IF n < j /\ j <= n + Len(s) + 1 - i THEN s[i + j - n - 1] ELSE s[j]]

\* p is the first position after pos whose key is at least x.
IsNext(s, x, pos, p) ==
    /\ \A q \in pos + 1..p - 1 : s[q].key < x
    /\ p <= Len(s) => s[p].key >= x

-----------------------------------------------------------------------------
(* The calls *)

Init == /\ x1 \in Inputs /\ x2 = <<>> /\ old = x1
        /\ op = "or" /\ running = FALSE
        /\ pos1 = Len(x1) + 1 /\ pos2 = 1 /\ isize = 0

Begin == /\ ~running
         /\ running' = TRUE /\ op' \in Ops /\ x2' \in Operands
         /\ pos1' = 1 /\ pos2' = 1 /\ isize' = 0 /\ old' = x1
         /\ UNCHANGED x1

More == running /\ pos1 <= Len(x1) /\ pos2 <= Len(x2)
Key1 == x1[pos1].key
Key2 == x2[pos2].key

\* Both have the key: x1 keeps the container the operation leaves, if it has numbers.
Meet ==
    /\ More /\ Key1 = Key2
    /\ LET low == Combine(x1[pos1].low, x2[pos2].low)
           slot == [key |-> Key1, low |-> low]
       IN  \/ /\ op \in Compacting /\ low # {}
              /\ x1' = [x1 EXCEPT ![isize + 1] = slot]
              /\ isize' = isize + 1 /\ pos1' = pos1 + 1
           \/ /\ op \in Compacting /\ low = {}
              /\ pos1' = pos1 + 1 /\ UNCHANGED <<x1, isize>>
           \/ /\ op \in Splicing /\ low # {}
              /\ x1' = [x1 EXCEPT ![pos1] = slot]
              /\ pos1' = pos1 + 1 /\ UNCHANGED isize
           \/ /\ op \in Splicing /\ low = {}
              /\ x1' = RemoveSlot(x1, pos1)
              /\ UNCHANGED <<pos1, isize>>
    /\ pos2' = pos2 + 1
    /\ UNCHANGED <<x2, op, running, old>>

\* Only x1 has the key of pos1.
SkipLeft ==
    /\ More /\ Key1 < Key2 /\ op = "and"
    /\ \E p \in pos1 + 1..Len(x1) + 1 : IsNext(x1, Key2, pos1, p) /\ pos1' = p
    /\ UNCHANGED <<x1, x2, op, running, pos2, isize, old>>

\* Variant: the slot is kept where it is.
KeepLeftInPlace ==
    /\ More /\ Key1 < Key2 /\ op # "and"
    /\ IF op = "andnot" THEN isize' = isize + 1 ELSE UNCHANGED isize
    /\ pos1' = pos1 + 1
    /\ UNCHANGED <<x1, x2, op, running, pos2, old>>
KeepLeft ==
    /\ More /\ Key1 < Key2 /\ op # "and"
    /\ IF op = "andnot"
       THEN x1' = [x1 EXCEPT ![isize + 1] = x1[pos1]] /\ isize' = isize + 1
       ELSE UNCHANGED <<x1, isize>>
    /\ pos1' = pos1 + 1
    /\ UNCHANGED <<x2, op, running, pos2, old>>

\* Only x2 has the key of pos2.
SkipRight ==
    /\ More /\ Key1 > Key2 /\ op \in Compacting
    /\ \E p \in pos2 + 1..Len(x2) + 1 : IsNext(x2, Key1, pos2, p) /\ pos2' = p
    /\ UNCHANGED <<x1, x2, op, running, pos1, isize, old>>

TakeRight ==
    /\ More /\ Key1 > Key2 /\ op \in Splicing
    /\ x1' = InsertSlot(x1, pos1, x2[pos2])
    /\ pos1' = pos1 + 1 /\ pos2' = pos2 + 1
    /\ UNCHANGED <<x2, op, running, isize, old>>

\* One array has run out.  The early returns for an empty x1 or x2 leave what this
\* does at once.
Finish ==
    /\ running /\ ~More
    /\ running' = FALSE
    /\ \/ op = "and" /\ x1' = Downsize(x1, isize)
       \/ /\ op = "andnot"
          /\ x1' = Downsize(SlideDown(x1, pos1, isize), isize + Len(x1) + 1 - pos1)
       \/ op \in Splicing /\ x1' = AppendFrom(x1, x2, pos2)
    /\ UNCHANGED <<x2, op, pos1, pos2, isize, old>>

Next == Begin \/ Meet \/ SkipLeft \/ KeepLeft \/ SkipRight \/ TakeRight \/ Finish
MergeSpec == Init /\ [][Next]_vars

-----------------------------------------------------------------------------
(* Properties *)

Has(s, i, v) == v \in s[i].low
\* Whether the slots of s before position n hold the number of halves k and v.
HoldsBefore(s, n, k, v) == \E i \in 1..n - 1 : s[i].key = k /\ Has(s, i, v)
Holds(s, k, v) == HoldsBefore(s, Len(s) + 1, k, v)

TypeOK == /\ x1 \in Seq(Slots) /\ x2 \in Seq(Slots) /\ old \in Seq(Slots)
          /\ op \in Ops /\ running \in BOOLEAN
          /\ pos1 \in Nat \ {0} /\ pos2 \in Nat \ {0} /\ isize \in Nat

\* When a call has returned, x1 has exactly the numbers the operation leaves of the
\* x1 it found and x2, in the order of their keys and with no empty container.
MergeExact ==
    ~running /\ op \in Ops =>
       /\ Ascending(x1)
       /\ \A i \in DOMAIN x1 : x1[i].low # {}
       /\ \A k \in Keys, v \in Lows :
             Holds(x1, k, v) <=> Truth(op, Holds(old, k, v), Holds(x2, k, v))
=============================================================================
