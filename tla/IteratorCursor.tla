---------------------------- MODULE IteratorCursor ----------------------------
(* What roaring.h promises of a roaring_uint32_iterator_t: a cursor on a set of *)
(* numbers, taken in increasing order, with one place before the first of them  *)
(* and one after the last.                                                      *)
EXTENDS Integers, Sequences, SequencesExt

CONSTANT Top        \* the largest value there is

VARIABLES set,      \* the values of the bitmap
          at,       \* the value the cursor is at
          call      \* the last call: the function, its argument and what it copied

Before == -1
After == Top + 1
HasValue == at \in set

\* The nearest value from v on, upwards and downwards.
Up(v) == CHOOSE u \in set \cup {After} : u >= v /\ \A x \in set : x >= v => u <= x
Down(v) == CHOOSE u \in set \cup {Before} : u <= v /\ \A x \in set : x <= v => u >= x

Calls(op, arg) == call' = [op |-> op, arg |-> arg, buf |-> <<>>]
Moved(v) == at' = v /\ UNCHANGED set

Init == at \in {Up(0), Down(Top)} /\ call = [op |-> "init", arg |-> 0, buf |-> <<>>]

Start == Calls("first", 0) /\ Moved(Up(0))
Finish == Calls("last", 0) /\ Moved(Down(Top))
Advance == Calls("advance", 0) /\ Moved(IF at = After THEN After ELSE Up(at + 1))
Previous == Calls("previous", 0) /\ Moved(IF at = Before THEN Before ELSE Down(at - 1))

\* The first value that is at least v.
Seek(v) == Calls("seek", v) /\ Moved(Up(v))

\* The next n values, or those that are left; the cursor is at the one after them.
Read(n) ==
    /\ call' = [op |-> "read", arg |-> n, buf |-> call'.buf]
    /\ UNCHANGED set
    /\ LET buf == call'.buf
       IN  IF HasValue
           THEN /\ at' \in set \cup {After}
                /\ ToSet(buf) = {v \in set : at <= v /\ v < at'}
                /\ \A i, j \in 1..Len(buf) : i < j => buf[i] < buf[j]
                /\ Len(buf) = n \/ (Len(buf) < n /\ at' = After)
           ELSE buf = <<>> /\ at' = at

Next == \/ Start \/ Finish \/ Advance \/ Previous
        \/ \E v \in 0..Top : Seek(v)
        \/ \E n \in Nat : Read(n)

Spec == Init /\ [][Next]_<<set, at, call>>
===============================================================================
