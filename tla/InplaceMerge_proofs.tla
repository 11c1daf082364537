-------------------------- MODULE InplaceMerge_proofs --------------------------
(* MergeExact for every set of keys and of low halves and for all bitmaps.     *)
(* The inductive invariant says what the array holds in the middle of a loop:  *)
(* the answer for what was read, and behind pos1 the slots still to be read.   *)
EXTENDS InplaceMerge, SequenceTheorems, TLAPS

\* Slots the call has inserted in x1, less those it has removed.
Shift == Len(x1) - Len(old)
\* The slot of old at pos1, and the slots of x1 that are part of the answer.
Read == pos1 - Shift
Written == IF op \in Compacting THEN isize ELSE pos1 - 1

PositionsOK ==
    /\ pos1 \in 1..Len(x1) + 1 /\ pos2 \in 1..Len(x2) + 1
    /\ Read \in 1..Len(old) + 1
    /\ op \in Compacting => Len(x1) = Len(old) /\ isize < pos1

\* No slot is overwritten before it is read.
Unread == \A i \in pos1..Len(x1) : x1[i] = old[i - Shift]

\* What was read of one array comes before what was not read of the other.
Separated ==
    /\ \A i \in 1..Read - 1, j \in pos2..Len(x2) : old[i].key < x2[j].key
    /\ \A i \in Read..Len(old), j \in 1..pos2 - 1 : x2[j].key < old[i].key

WrittenFirst ==
    /\ \A i, j \in 1..Written : i < j => x1[i].key < x1[j].key
    /\ \A i \in 1..Written, j \in Read..Len(old) : x1[i].key < old[j].key
    /\ \A i \in 1..Written, j \in pos2..Len(x2) : x1[i].key < x2[j].key

WrittenExact ==
    \A k \in Keys, v \in Lows :
        HoldsBefore(x1, Written + 1, k, v)
            <=> Truth(op, HoldsBefore(old, Read, k, v), HoldsBefore(x2, pos2, k, v))

Halfway == PositionsOK /\ Unread /\ Separated /\ WrittenFirst /\ WrittenExact

MergeInv == /\ TypeOK /\ Ascending(old) /\ Ascending(x2)
            /\ running => Halfway
            /\ MergeExact
-------------------------------------------------------------------------------
(* Arrays *)

\* What the type of an array says of its slots.
LEMMA SlotsOf ==
    ASSUME NEW s \in Seq(Slots)
    PROVE  /\ Len(s) \in Nat /\ DOMAIN s = 1..Len(s)
           /\ \A i \in 1..Len(s) : /\ s[i] \in Slots /\ s[i].key \in Keys /\ s[i].key \in Int
                                   /\ s[i].low \subseteq Lows /\ s[i].low # {}
<1>1. Len(s) \in Nat /\ DOMAIN s = 1..Len(s)
  BY LenProperties
<1>2. ASSUME NEW i \in 1..Len(s) PROVE s[i] \in Slots
  BY ElementOfSeq
<1> QED
  BY <1>1, <1>2, MergeAssumption DEF Slots

\* A function on 1..n is an array of n slots.
LEMMA IsArray ==
    ASSUME NEW n \in Nat, NEW s \in [1..n -> Slots]
    PROVE  s \in Seq(Slots) /\ Len(s) = n
<1>1. s \in Seq(Slots)
  BY SeqDef
<1>2. Len(s) \in Nat /\ DOMAIN s = 1..Len(s) /\ DOMAIN s = 1..n
  BY <1>1, LenProperties
<1>3. Len(s) = n
  BY <1>2
<1> QED
  BY <1>1, <1>3

\* The slots behind one have greater keys.
LEMMA After ==
    ASSUME NEW s \in Seq(Slots), Ascending(s), NEW n \in 1..Len(s)
    PROVE  \A j \in n + 1..Len(s) : s[n].key < s[j].key
<1>1. DOMAIN s = 1..Len(s) /\ Len(s) \in Nat
  BY SlotsOf
<1>2. \A j \in n + 1..Len(s) : j \in 1..Len(s) /\ n < j
  BY <1>1
<1> QED
  BY <1>1, <1>2 DEF Ascending

\* A key before the key of a slot comes before those of the slots behind it too.
LEMMA AfterFrom ==
    ASSUME NEW s \in Seq(Slots), Ascending(s), NEW n \in 1..Len(s),
           NEW x \in Int, x < s[n].key
    PROVE  \A j \in n..Len(s) : x < s[j].key
<1>1. \A j \in 1..Len(s) : s[j].key \in Int
  BY SlotsOf
<1>2. Len(s) \in Nat
  BY SlotsOf
<1>3. ASSUME NEW j \in n..Len(s) PROVE x < s[j].key
  <2>1. j \in 1..Len(s) /\ (j = n \/ j \in n + 1..Len(s))
    BY <1>2
  <2>2. j = n \/ s[n].key < s[j].key
    BY <2>1, After
  <2> QED
    BY <1>1, <2>1, <2>2
<1> QED
  BY <1>3

\* One more slot.
LEMMA HoldsNext ==
    ASSUME NEW s, NEW n \in Nat \ {0}, NEW k, NEW v
    PROVE  HoldsBefore(s, n + 1, k, v)
             <=> HoldsBefore(s, n, k, v) \/ (s[n].key = k /\ v \in s[n].low)
<1>1. 1..(n + 1) - 1 = (1..n - 1) \cup {n}
  OBVIOUS
<1> QED
  BY <1>1 DEF HoldsBefore, Has

\* Only the slots before n matter.
LEMMA HoldsSame ==
    ASSUME NEW s, NEW t, NEW n, NEW k, NEW v,
           \A i \in 1..n - 1 : s[i] = t[i]
    PROVE  HoldsBefore(s, n, k, v) <=> HoldsBefore(t, n, k, v)
BY DEF HoldsBefore, Has

\* No slot before n has the key.
LEMMA NotHeld ==
    ASSUME NEW s, NEW n, NEW k, NEW v,
           \A i \in 1..n - 1 : s[i].key # k
    PROVE  ~HoldsBefore(s, n, k, v)
BY DEF HoldsBefore
-------------------------------------------------------------------------------
(* The calls *)

LEMMA InitInv == Init => MergeInv
<1> SUFFICES ASSUME Init PROVE MergeInv
  OBVIOUS
<1>1. x1 \in Seq(Slots) /\ Ascending(x1) /\ Len(x1) \in Nat
  BY MergeAssumption, LenProperties DEF Init
<1>2. x2 = <<>> /\ x2 \in Seq(Slots) /\ Len(x2) = 0 /\ DOMAIN x2 = {}
  BY EmptySeq, LenProperties DEF Init
<1>3. /\ Ascending(old) /\ Ascending(x2) /\ ~running
      /\ old = x1 /\ op \in Ops /\ running \in BOOLEAN
      /\ pos1 = Len(x1) + 1 /\ pos2 = 1 /\ isize = 0
  BY <1>1, <1>2 DEF Init, Ops, Ascending
<1>4. ASSUME NEW k \in Keys, NEW v \in Lows
      PROVE  Holds(x1, k, v) <=> Truth(op, Holds(old, k, v), Holds(x2, k, v))
  <2>1. ~Holds(x2, k, v)
    BY <1>2 DEF Holds, HoldsBefore
  <2> QED
    BY <2>1 DEF Init, Truth
<1>5. MergeExact
  BY <1>1, <1>3, <1>4, SlotsOf DEF MergeExact
<1>6. TypeOK
  BY <1>1, <1>2, <1>3 DEF TypeOK
<1> QED
  BY <1>3, <1>5, <1>6 DEF MergeInv

LEMMA BeginInv == MergeInv /\ Begin => MergeInv'
<1> SUFFICES ASSUME MergeInv, Begin PROVE MergeInv'
  OBVIOUS
<1>1. x1 \in Seq(Slots) /\ Len(x1) \in Nat /\ Ascending(x1) /\ DOMAIN x1 = 1..Len(x1)
  BY LenProperties DEF MergeInv, TypeOK, Begin, MergeExact
<1>2. x2' \in Seq(Slots) /\ Len(x2') \in Nat /\ Ascending(x2')
  BY MergeAssumption, LenProperties DEF Begin
<1>3. x1' = x1 /\ old' = x1 /\ pos1' = 1 /\ pos2' = 1 /\ isize' = 0 /\ op' \in Ops /\ running'
  BY DEF Begin
<1>4. Shift' = 0 /\ Read' = 1 /\ Written' = 0
  BY <1>1, <1>3 DEF Shift, Read, Written
<1>5. TypeOK' /\ Ascending(old)' /\ Ascending(x2)'
  BY <1>1, <1>2, <1>3 DEF TypeOK
<1>6. PositionsOK' /\ Unread' /\ Separated' /\ WrittenFirst'
  BY <1>1, <1>2, <1>3, <1>4 DEF PositionsOK, Unread, Separated, WrittenFirst
<1>7. WrittenExact'
  <2> SUFFICES ASSUME NEW k \in Keys, NEW v \in Lows
               PROVE  HoldsBefore(x1', 1, k, v)
                        <=> Truth(op', HoldsBefore(old', 1, k, v), HoldsBefore(x2', 1, k, v))
    BY <1>3, <1>4 DEF WrittenExact
  <2>1. ~HoldsBefore(x1', 1, k, v) /\ ~HoldsBefore(old', 1, k, v) /\ ~HoldsBefore(x2', 1, k, v)
    BY NotHeld
  <2> QED
    BY <1>3, <2>1 DEF Truth, Ops
<1> QED
  BY <1>3, <1>5, <1>6, <1>7 DEF MergeInv, Halfway, MergeExact
\* The state in front of a turn of a loop.
LEMMA Midway ==
    ASSUME MergeInv, More
    PROVE  /\ running /\ op \in Ops /\ isize \in Nat
           /\ x1 \in Seq(Slots) /\ x2 \in Seq(Slots) /\ old \in Seq(Slots)
           /\ Len(x1) \in Nat /\ Len(x2) \in Nat /\ Len(old) \in Nat
           /\ pos1 \in 1..Len(x1) /\ pos2 \in 1..Len(x2) /\ Read \in 1..Len(old)
           /\ Written \in 0..pos1 - 1
           /\ x1[pos1] = old[Read]
           /\ Halfway
<1>1. /\ running /\ op \in Ops /\ isize \in Nat /\ Halfway
      /\ x1 \in Seq(Slots) /\ x2 \in Seq(Slots) /\ old \in Seq(Slots)
      /\ pos1 \in Nat \ {0} /\ pos2 \in Nat \ {0}
      /\ pos1 <= Len(x1) /\ pos2 <= Len(x2)
  BY DEF MergeInv, TypeOK, More
<1>2. Len(x1) \in Nat /\ Len(x2) \in Nat /\ Len(old) \in Nat
  BY <1>1, LenProperties
<1>3. pos1 \in 1..Len(x1) /\ pos2 \in 1..Len(x2) /\ Read \in 1..Len(old)
  BY <1>1, <1>2 DEF Halfway, PositionsOK, Read, Shift
<1>4. Written \in 0..pos1 - 1
  BY <1>1, <1>2, <1>3 DEF Halfway, PositionsOK, Written
<1>5. x1[pos1] = old[Read]
  BY <1>1, <1>2, <1>3 DEF Halfway, Unread, Read
<1> QED
  BY <1>1, <1>2, <1>3, <1>4, <1>5

\* A turn that writes one slot, whose key is the first it reads and comes before
\* what it leaves unread, keeps the answer in order.
LEMMA WroteInOrder ==
    ASSUME MergeInv, More, old' = old, x2' = x2,
           Read' \in Nat, pos2' \in Nat, Read' >= Read, pos2' >= pos2,
           Written' = Written + 1,
           \A i \in 1..Written : x1'[i] = x1[i],
           x1'[Written + 1].key \in {old[Read].key, x2[pos2].key},
           \A j \in Read'..Len(old) : x1'[Written + 1].key < old[j].key,
           \A j \in pos2'..Len(x2) : x1'[Written + 1].key < x2[j].key
    PROVE  WrittenFirst'
<1>1. /\ Written \in Nat /\ Read \in 1..Len(old) /\ pos2 \in 1..Len(x2) /\ WrittenFirst
      /\ Len(old) \in Nat /\ Len(x2) \in Nat
  BY Midway DEF Halfway
<1>2. \A i \in 1..Written : x1[i].key < x1'[Written + 1].key
  BY <1>1 DEF WrittenFirst
<1>3. ASSUME NEW i \in 1..Written', NEW j \in 1..Written', i < j
      PROVE  x1'[i].key < x1'[j].key
  <2>1. i \in 1..Written /\ (j \in 1..Written \/ j = Written + 1)
    BY <1>1, <1>3
  <2> QED
    BY <1>1, <1>2, <1>3, <2>1 DEF WrittenFirst
<1>4. ASSUME NEW i \in 1..Written'
      PROVE  /\ \A j \in Read'..Len(old) : x1'[i].key < old[j].key
             /\ \A j \in pos2'..Len(x2) : x1'[i].key < x2[j].key
  <2>1. CASE i = Written + 1
    BY <2>1
  <2>2. CASE i \in 1..Written
    <3>1. Read'..Len(old) \subseteq Read..Len(old) /\ pos2'..Len(x2) \subseteq pos2..Len(x2)
      BY <1>1
    <3> QED
      BY <1>1, <2>2, <3>1 DEF WrittenFirst
  <2> QED
    BY <1>1, <2>1, <2>2
<1> QED
  BY <1>3, <1>4 DEF WrittenFirst

\* A turn that writes nothing keeps the answer in order.
LEMMA LeftInOrder ==
    ASSUME MergeInv, More, old' = old, x2' = x2,
           Read' \in Nat, pos2' \in Nat, Read' >= Read, pos2' >= pos2,
           Written' = Written,
           \A i \in 1..Written : x1'[i] = x1[i]
    PROVE  WrittenFirst'
<1>1. /\ Written \in Nat /\ Read \in 1..Len(old) /\ pos2 \in 1..Len(x2) /\ WrittenFirst
      /\ Len(old) \in Nat /\ Len(x2) \in Nat
  BY Midway DEF Halfway
<1>2. \A i, j \in 1..Written' : i < j => x1'[i].key < x1'[j].key
  BY <1>1 DEF WrittenFirst
<1>3. \A i \in 1..Written', j \in Read'..Len(old) : x1'[i].key < old[j].key
  BY <1>1 DEF WrittenFirst
<1>4. \A i \in 1..Written', j \in pos2'..Len(x2) : x1'[i].key < x2[j].key
  BY <1>1 DEF WrittenFirst
<1> QED
  BY <1>2, <1>3, <1>4 DEF WrittenFirst
\* What the loop reads next is not in anything it has read or written.
LEMMA Fresh ==
    ASSUME MergeInv, More, NEW v
    PROVE  /\ ~HoldsBefore(old, Read, Key1, v) /\ ~HoldsBefore(x2, pos2, Key1, v)
           /\ ~HoldsBefore(x1, Written + 1, Key1, v)
           /\ Key1 >= Key2 => ~HoldsBefore(x2, pos2, Key2, v)
           /\ Key1 <= Key2 => ~HoldsBefore(old, Read, Key2, v)
           /\ Key1 > Key2 => /\ ~HoldsBefore(old, Read, Key2, v)
                             /\ ~HoldsBefore(x2, pos2, Key2, v)
                             /\ ~HoldsBefore(x1, Written + 1, Key2, v)
<1>1. /\ Key1 = old[Read].key /\ Read \in 1..Len(old) /\ pos2 \in 1..Len(x2)
      /\ Len(old) \in Nat /\ Len(x2) \in Nat /\ Written \in Nat
      /\ Separated /\ WrittenFirst
      /\ DOMAIN old = 1..Len(old) /\ DOMAIN x2 = 1..Len(x2)
  BY Midway, SlotsOf DEF Key1, Halfway
<1>2. \A i \in 1..Len(old) : old[i].key \in Int
  BY Midway, SlotsOf
<1>3. \A i \in 1..Len(x2) : x2[i].key \in Int
  BY Midway, SlotsOf
<1>4. \A i \in 1..Written : x1[i].key \in Int
  BY Midway, SlotsOf
<1>5. \A i \in 1..Read - 1 : old[i].key < Key1 /\ old[i].key < Key2
  BY <1>1 DEF MergeInv, Ascending, Separated, Key2
<1>6. \A j \in 1..pos2 - 1 : x2[j].key < Key1 /\ x2[j].key < Key2
  BY <1>1 DEF MergeInv, Ascending, Separated, Key2
<1>7. \A i \in 1..Written : x1[i].key < Key1 /\ x1[i].key < Key2
  BY <1>1 DEF WrittenFirst, Key2
<1>8. Key1 \in Int /\ Key2 \in Int
  BY <1>1, <1>2, <1>3 DEF Key2
<1>9. /\ \A i \in 1..Read - 1 : old[i].key # Key1 /\ old[i].key # Key2
      /\ \A j \in 1..pos2 - 1 : x2[j].key # Key1 /\ x2[j].key # Key2
      /\ \A i \in 1..(Written + 1) - 1 : x1[i].key # Key1 /\ x1[i].key # Key2
  BY <1>1, <1>2, <1>3, <1>4, <1>5, <1>6, <1>7, <1>8
<1> QED
  BY <1>9, NotHeld

\* A range of positions cut at a.
LEMMA SplitRange ==
    ASSUME NEW a \in Nat, NEW b \in Nat, a <= b
    PROVE  /\ \A i \in 1..b - 1 : i \in 1..a - 1 \/ i \in a..b - 1
           /\ \A n \in Nat : \A i \in b..n : i \in a..n
OBVIOUS

\* A turn that reads the slots before Read' and pos2' and nothing out of order.
LEMMA StillSeparated ==
    ASSUME MergeInv, More, old' = old, x2' = x2,
           Read' \in Nat, pos2' \in Nat, Read' >= Read, pos2' >= pos2,
           \A i \in Read..Read' - 1, j \in pos2'..Len(x2) : old[i].key < x2[j].key,
           \A i \in Read'..Len(old), j \in pos2..pos2' - 1 : x2[j].key < old[i].key
    PROVE  Separated'
<1>1. /\ Read \in 1..Len(old) /\ pos2 \in 1..Len(x2) /\ Separated
      /\ Len(old) \in Nat /\ Len(x2) \in Nat
  BY Midway DEF Halfway
<1>2. /\ \A i \in 1..Read' - 1 : i \in 1..Read - 1 \/ i \in Read..Read' - 1
      /\ \A i \in Read'..Len(old) : i \in Read..Len(old)
  <2>1. Read \in Nat
    BY <1>1
  <2> QED
    BY <1>1, <2>1, SplitRange
<1>3. /\ \A j \in 1..pos2' - 1 : j \in 1..pos2 - 1 \/ j \in pos2..pos2' - 1
      /\ \A j \in pos2'..Len(x2) : j \in pos2..Len(x2)
  <2>1. pos2 \in Nat
    BY <1>1
  <2> QED
    BY <1>1, <2>1, SplitRange
<1>4. ASSUME NEW i \in 1..Read' - 1, NEW j \in pos2'..Len(x2) PROVE old[i].key < x2[j].key
  BY <1>1, <1>2, <1>3 DEF Separated
<1>5. ASSUME NEW i \in Read'..Len(old), NEW j \in 1..pos2' - 1 PROVE x2[j].key < old[i].key
  BY <1>1, <1>2, <1>3 DEF Separated
<1> QED
  BY <1>4, <1>5 DEF Separated

\* A turn keeps the invariant when it keeps its parts.
LEMMA TurnInv ==
    ASSUME MergeInv, More, UNCHANGED <<x2, op, running, old>>,
           x1' \in Seq(Slots), isize' \in Nat,
           pos1' \in Nat \ {0}, pos2' \in Nat \ {0},
           PositionsOK', Unread', Separated', WrittenFirst', WrittenExact'
    PROVE  MergeInv'
BY DEF MergeInv, TypeOK, Halfway, MergeExact, More
\* A slot for the key of both and what the operation leaves of their containers.
Met == [key |-> Key1, low |-> Combine(x1[pos1].low, x2[pos2].low)]

\* What a turn does to x1 when both have the key: the operation writes or drops a
\* slot, and the slots behind pos1 are still those of old.
LEMMA MeetShape ==
    ASSUME MergeInv, Meet
    PROVE  /\ x1' \in Seq(Slots) /\ isize' \in Nat
           /\ PositionsOK' /\ Unread' /\ Read' = Read + 1
           /\ pos1' \in Nat \ {0}
           /\ \A i \in 1..Written : x1'[i] = x1[i]
           /\ Met.low # {} => Written' = Written + 1 /\ x1'[Written + 1] = Met
           /\ Met.low = {} => Written' = Written
<1>0. More /\ Key1 = Key2 /\ pos2' = pos2 + 1 /\ UNCHANGED <<x2, op, running, old>>
  BY DEF Meet
<1>1. /\ x1 \in Seq(Slots) /\ x2 \in Seq(Slots) /\ old \in Seq(Slots) /\ isize \in Nat
      /\ Len(x1) \in Nat /\ Len(x2) \in Nat /\ Len(old) \in Nat
      /\ pos1 \in 1..Len(x1) /\ pos2 \in 1..Len(x2) /\ Read \in 1..Len(old)
      /\ PositionsOK /\ Unread
      /\ DOMAIN x1 = 1..Len(x1)
  BY <1>0, Midway, SlotsOf DEF Halfway
<1>2. Met.low # {} => Met \in Slots
  <2>1. /\ x1[pos1].low \subseteq Lows /\ x2[pos2].low \subseteq Lows /\ Key1 \in Keys
    BY <1>1, SlotsOf DEF Key1
  <2> QED
    BY <2>1 DEF Met, Combine, Slots
<1>3. CASE /\ op \in Compacting /\ Met.low # {}
           /\ x1' = [x1 EXCEPT ![isize + 1] = Met]
           /\ isize' = isize + 1 /\ pos1' = pos1 + 1
  <2>1. isize + 1 \in 1..pos1 /\ isize + 1 \in 1..Len(x1) /\ Len(x1) = Len(old)
    BY <1>1, <1>3 DEF PositionsOK
  <2>2. /\ x1' \in Seq(Slots) /\ Len(x1') = Len(x1)
        /\ \A j \in 1..Len(x1) : x1'[j] = IF j = isize + 1 THEN Met ELSE x1[j]
    BY <1>1, <1>2, <1>3, <2>1, ExceptSeq
  <2>3. Shift = 0 /\ Shift' = 0 /\ Written = isize /\ Written' = isize + 1
    BY <1>0, <1>1, <1>3, <2>1, <2>2 DEF Shift, Written
  <2>4. Read' = Read + 1
    BY <1>1, <1>3, <2>3 DEF Read
  <2>5. Unread'
    BY <1>0, <1>1, <1>3, <2>1, <2>2, <2>3 DEF Unread
  <2>6. PositionsOK'
    BY <1>0, <1>1, <1>3, <2>1, <2>2, <2>4 DEF PositionsOK
  <2> QED
    BY <1>1, <1>3, <2>1, <2>2, <2>3, <2>4, <2>5, <2>6
<1>4. CASE /\ op \in Compacting /\ Met.low = {}
           /\ pos1' = pos1 + 1 /\ UNCHANGED <<x1, isize>>
  <2>1. Len(x1) = Len(old) /\ Shift = 0 /\ Shift' = 0 /\ Written = isize /\ Written' = isize
    BY <1>0, <1>1, <1>4 DEF PositionsOK, Shift, Written
  <2>2. Read' = Read + 1
    BY <1>1, <1>4, <2>1 DEF Read
  <2>3. Unread'
    BY <1>0, <1>1, <1>4, <2>1 DEF Unread
  <2>4. PositionsOK'
    <3>1. pos1' \in 1..Len(x1') + 1 /\ pos2' \in 1..Len(x2') + 1 /\ Read' \in 1..Len(old') + 1
      BY <1>0, <1>1, <1>4, <2>2
    <3>2. Len(x1') = Len(old') /\ isize' < pos1'
      BY <1>0, <1>1, <1>4, <2>1 DEF PositionsOK
    <3> QED
      BY <3>1, <3>2 DEF PositionsOK
  <2> QED
    BY <1>1, <1>4, <2>1, <2>2, <2>3, <2>4
<1>5. CASE /\ op \in Splicing /\ Met.low # {}
           /\ x1' = [x1 EXCEPT ![pos1] = Met]
           /\ pos1' = pos1 + 1 /\ UNCHANGED isize
  <2>1. /\ x1' \in Seq(Slots) /\ Len(x1') = Len(x1)
        /\ \A j \in 1..Len(x1) : x1'[j] = IF j = pos1 THEN Met ELSE x1[j]
    BY <1>1, <1>2, <1>5, ExceptSeq
  <2>2. /\ op \notin Compacting /\ Shift' = Shift /\ Shift \in Int
        /\ Written = pos1 - 1 /\ Written' = pos1
    BY <1>0, <1>1, <1>5, <2>1 DEF Shift, Written, Splicing, Compacting
  <2>3. Read' = Read + 1
    BY <1>1, <1>5, <2>2 DEF Read
  <2>4. Unread'
    BY <1>0, <1>1, <1>5, <2>1, <2>2 DEF Unread
  <2>5. PositionsOK'
    BY <1>0, <1>1, <1>5, <2>1, <2>2, <2>3 DEF PositionsOK
  <2> QED
    BY <1>1, <1>5, <2>1, <2>2, <2>3, <2>4, <2>5
<1>6. CASE /\ op \in Splicing /\ Met.low = {}
           /\ x1' = RemoveSlot(x1, pos1)
           /\ UNCHANGED <<pos1, isize>>
  <2>1. x1' \in [1..Len(x1) - 1 -> Slots]
    BY <1>1, <1>6, SlotsOf DEF RemoveSlot
  <2>2. /\ x1' \in Seq(Slots) /\ Len(x1') = Len(x1) - 1
        /\ \A j \in 1..Len(x1) - 1 : x1'[j] = IF j < pos1 THEN x1[j] ELSE x1[j + 1]
    BY <1>1, <1>6, <2>1, IsArray DEF RemoveSlot
  <2>3. /\ op \notin Compacting /\ Shift' = Shift - 1 /\ Shift \in Int
        /\ Written = pos1 - 1 /\ Written' = pos1 - 1
    BY <1>0, <1>1, <1>6, <2>2 DEF Shift, Written, Splicing, Compacting
  <2>4. Read' = Read + 1
    BY <1>1, <1>6, <2>3 DEF Read
  <2>5. Unread'
    BY <1>0, <1>1, <1>6, <2>2, <2>3 DEF Unread
  <2>6. PositionsOK'
    <3>1. pos1' \in 1..Len(x1') + 1 /\ pos2' \in 1..Len(x2') + 1 /\ Read' \in 1..Len(old') + 1
      BY <1>0, <1>1, <1>6, <2>2, <2>4
    <3>2. op' \notin Compacting
      BY <1>0, <2>3
    <3> QED
      BY <3>1, <3>2 DEF PositionsOK
  <2>7. \A i \in 1..Written : x1'[i] = x1[i]
    <3>1. ASSUME NEW i \in 1..Written PROVE x1'[i] = x1[i]
      <4>1. i \in 1..Len(x1) - 1 /\ i < pos1
        BY <1>1, <2>3
      <4> QED
        BY <2>2, <4>1
    <3> QED
      BY <3>1
  <2> QED
    BY <1>1, <1>6, <2>2, <2>3, <2>4, <2>5, <2>6, <2>7
<1>7. \/ /\ op \in Compacting /\ Met.low # {}
         /\ x1' = [x1 EXCEPT ![isize + 1] = Met]
         /\ isize' = isize + 1 /\ pos1' = pos1 + 1
      \/ /\ op \in Compacting /\ Met.low = {}
         /\ pos1' = pos1 + 1 /\ UNCHANGED <<x1, isize>>
      \/ /\ op \in Splicing /\ Met.low # {}
         /\ x1' = [x1 EXCEPT ![pos1] = Met]
         /\ pos1' = pos1 + 1 /\ UNCHANGED isize
      \/ /\ op \in Splicing /\ Met.low = {}
         /\ x1' = RemoveSlot(x1, pos1)
         /\ UNCHANGED <<pos1, isize>>
  <2>1. Met.low = Combine(x1[pos1].low, x2[pos2].low)
    BY DEF Met
  <2> QED
    BY <2>1 DEF Meet, Met
<1> QED
  BY ONLY <1>3, <1>4, <1>5, <1>6, <1>7, Zenon
LEMMA MeetInv == MergeInv /\ Meet => MergeInv'
<1> SUFFICES ASSUME MergeInv, Meet PROVE MergeInv'
  OBVIOUS
<1>0. More /\ Key1 = Key2 /\ pos2' = pos2 + 1 /\ UNCHANGED <<x2, op, running, old>>
  BY DEF Meet
<1>1. /\ x1 \in Seq(Slots) /\ x2 \in Seq(Slots) /\ old \in Seq(Slots) /\ op \in Ops
      /\ Len(x2) \in Nat /\ Len(old) \in Nat /\ Written \in Nat
      /\ pos2 \in 1..Len(x2) /\ Read \in 1..Len(old) /\ x1[pos1] = old[Read]
      /\ Key1 = old[Read].key /\ Key1 = x2[pos2].key
      /\ DOMAIN old = 1..Len(old) /\ DOMAIN x2 = 1..Len(x2)
      /\ Ascending(old) /\ Ascending(x2) /\ WrittenExact
  BY <1>0, Midway, SlotsOf DEF MergeInv, Halfway, Key1, Key2
<1>2. /\ x1' \in Seq(Slots) /\ isize' \in Nat /\ pos1' \in Nat \ {0}
      /\ PositionsOK' /\ Unread' /\ Read' = Read + 1
      /\ \A i \in 1..Written : x1'[i] = x1[i]
      /\ Met.low # {} => Written' = Written + 1 /\ x1'[Written + 1] = Met
      /\ Met.low = {} => Written' = Written
  BY MeetShape
<1>3. /\ \A j \in Read + 1..Len(old) : Key1 < old[j].key
      /\ \A j \in pos2 + 1..Len(x2) : Key1 < x2[j].key
  BY <1>1, After
<1>a. Read \in Nat \ {0} /\ pos2 \in Nat \ {0} /\ Written + 1 \in Nat \ {0}
  BY <1>1
<1>4. Separated'
  <2>1. \A i \in Read..Read' - 1, j \in pos2'..Len(x2) : old[i].key < x2[j].key
    <3>1. \A i \in Read..Read' - 1 : i = Read
      BY <1>a, <1>2
    <3> QED
      BY <1>0, <1>1, <1>3, <3>1
  <2>2. \A i \in Read'..Len(old), j \in pos2..pos2' - 1 : x2[j].key < old[i].key
    BY <1>0, <1>1, <1>2, <1>3
  <2> QED
    BY <1>0, <1>1, <1>2, <2>1, <2>2, StillSeparated
<1>5. WrittenFirst'
  <2>1. CASE Met.low # {}
    <3>1. x1'[Written + 1].key = Key1
      BY <1>2, <2>1 DEF Met
    <3> QED
      BY <1>0, <1>1, <1>2, <1>3, <2>1, <3>1, WroteInOrder
  <2>2. CASE Met.low = {}
    BY <1>0, <1>1, <1>2, <2>2, LeftInOrder
  <2> QED
    BY <2>1, <2>2
<1>6. WrittenExact'
  <2> SUFFICES ASSUME NEW k \in Keys, NEW v \in Lows
               PROVE  HoldsBefore(x1', Written' + 1, k, v)
                        <=> Truth(op, HoldsBefore(old, Read + 1, k, v),
                                      HoldsBefore(x2, pos2 + 1, k, v))
    BY <1>0, <1>2 DEF WrittenExact
  <2>1. HoldsBefore(x1', Written' + 1, k, v)
          <=> HoldsBefore(x1, Written + 1, k, v) \/ (Key1 = k /\ v \in Met.low)
    <3>1. HoldsBefore(x1', Written + 1, k, v) <=> HoldsBefore(x1, Written + 1, k, v)
      BY <1>1, <1>2, HoldsSame
    <3>2. CASE Met.low = {}
      BY <1>2, <3>1, <3>2
    <3>3. CASE Met.low # {}
      <4>1. ASSUME NEW n \in Nat \ {0}
            PROVE  HoldsBefore(x1', n + 1, k, v)
                     <=> HoldsBefore(x1', n, k, v) \/ (x1'[n].key = k /\ v \in x1'[n].low)
        BY HoldsNext
      <4>2. HoldsBefore(x1', (Written + 1) + 1, k, v)
              <=> HoldsBefore(x1', Written + 1, k, v)
                    \/ (x1'[Written + 1].key = k /\ v \in x1'[Written + 1].low)
        BY <1>a, <4>1
      <4> QED
        BY <1>2, <3>1, <3>3, <4>2 DEF Met
    <3> QED
      BY <3>2, <3>3
  <2>2. HoldsBefore(old, Read + 1, k, v)
          <=> HoldsBefore(old, Read, k, v) \/ (Key1 = k /\ v \in old[Read].low)
    <3>1. HoldsBefore(old, Read + 1, k, v)
            <=> HoldsBefore(old, Read, k, v) \/ (old[Read].key = k /\ v \in old[Read].low)
      BY <1>a, HoldsNext
    <3> QED
      BY <1>1, <3>1
  <2>3. HoldsBefore(x2, pos2 + 1, k, v)
          <=> HoldsBefore(x2, pos2, k, v) \/ (Key1 = k /\ v \in x2[pos2].low)
    <3>1. HoldsBefore(x2, pos2 + 1, k, v)
            <=> HoldsBefore(x2, pos2, k, v) \/ (x2[pos2].key = k /\ v \in x2[pos2].low)
      BY <1>a, HoldsNext
    <3> QED
      BY <1>1, <3>1
  <2>4. v \in Met.low <=> Truth(op, v \in old[Read].low, v \in x2[pos2].low)
    BY <1>1 DEF Met, Combine, Truth
  <2>5. HoldsBefore(x1, Written + 1, k, v)
          <=> Truth(op, HoldsBefore(old, Read, k, v), HoldsBefore(x2, pos2, k, v))
    BY <1>1 DEF WrittenExact
  <2>6. CASE k = Key1
    <3>1. ~HoldsBefore(old, Read, k, v) /\ ~HoldsBefore(x2, pos2, k, v)
          /\ ~HoldsBefore(x1, Written + 1, k, v)
      BY <1>0, <2>6, Fresh
    <3> QED
      BY <2>1, <2>2, <2>3, <2>4, <2>6, <3>1 DEF Truth
  <2>7. CASE k # Key1
    BY <2>1, <2>2, <2>3, <2>5, <2>7 DEF Truth
  <2> QED
    BY <2>6, <2>7
<1> QED
  BY <1>0, <1>1, <1>2, <1>4, <1>5, <1>6, TurnInv
\* The numbers of the answer once a slot has been written.
LEMMA HoldsWritten ==
    ASSUME Written \in Nat, Written' = Written + 1,
           \A i \in 1..Written : x1'[i] = x1[i], NEW k, NEW v
    PROVE  HoldsBefore(x1', Written' + 1, k, v)
             <=> HoldsBefore(x1, Written + 1, k, v)
                   \/ (x1'[Written + 1].key = k /\ v \in x1'[Written + 1].low)
<1>1. HoldsBefore(x1', Written + 1, k, v) <=> HoldsBefore(x1, Written + 1, k, v)
  BY HoldsSame
<1>2. ASSUME NEW n \in Nat \ {0}
      PROVE  HoldsBefore(x1', n + 1, k, v)
               <=> HoldsBefore(x1', n, k, v) \/ (x1'[n].key = k /\ v \in x1'[n].low)
  BY HoldsNext
<1>3. Written + 1 \in Nat \ {0}
  OBVIOUS
<1> QED
  BY <1>1, <1>2, <1>3

LEMMA KeepLeftInv == MergeInv /\ KeepLeft => MergeInv'
<1> SUFFICES ASSUME MergeInv, KeepLeft PROVE MergeInv'
  OBVIOUS
<1>0. /\ More /\ Key1 < Key2 /\ op # "and" /\ pos1' = pos1 + 1
      /\ UNCHANGED <<x2, op, running, old, pos2>>
  BY DEF KeepLeft
<1>1. /\ x1 \in Seq(Slots) /\ x2 \in Seq(Slots) /\ old \in Seq(Slots) /\ op \in Ops
      /\ Len(x1) \in Nat /\ Len(x2) \in Nat /\ Len(old) \in Nat
      /\ Written \in Nat /\ isize \in Nat /\ pos1 \in 1..Len(x1)
      /\ pos2 \in 1..Len(x2) /\ Read \in 1..Len(old) /\ x1[pos1] = old[Read]
      /\ Key1 = old[Read].key /\ Key2 = x2[pos2].key
      /\ Ascending(old) /\ Ascending(x2)
      /\ WrittenExact /\ PositionsOK /\ Unread
  BY <1>0, Midway DEF MergeInv, Halfway, Key1, Key2
<1>a. Read \in Nat \ {0} /\ pos2 \in Nat \ {0} /\ x1[pos1] \in Slots /\ Key1 \in Int
  BY <1>1, SlotsOf
<1>2. /\ x1' \in Seq(Slots) /\ isize' \in Nat
      /\ PositionsOK' /\ Unread' /\ Read' = Read + 1
      /\ \A i \in 1..Written : x1'[i] = x1[i]
      /\ Written' = Written + 1 /\ x1'[Written + 1] = old[Read]
  <2>1. CASE op = "andnot"
    <3>1. /\ op \in Compacting /\ isize + 1 \in 1..pos1 /\ isize + 1 \in 1..Len(x1)
          /\ Len(x1) = Len(old)
      BY <1>1, <2>1 DEF PositionsOK, Compacting
    <3>2. x1' = [x1 EXCEPT ![isize + 1] = x1[pos1]] /\ isize' = isize + 1
      BY <2>1 DEF KeepLeft
    <3>3. /\ x1' \in Seq(Slots) /\ Len(x1') = Len(x1)
          /\ \A j \in 1..Len(x1) : x1'[j] = IF j = isize + 1 THEN x1[pos1] ELSE x1[j]
      BY <1>1, <1>a, <3>1, <3>2, ExceptSeq
    <3>4. Shift = 0 /\ Shift' = 0 /\ Written = isize /\ Written' = isize + 1
      BY <1>0, <1>1, <3>1, <3>2, <3>3 DEF Shift, Written
    <3>5. Read' = Read + 1
      BY <1>0, <1>1, <3>4 DEF Read
    <3>6. Unread'
      BY <1>0, <1>1, <3>1, <3>3, <3>4 DEF Unread
    <3>7. PositionsOK'
      <4>1. pos1' \in 1..Len(x1') + 1 /\ isize' < pos1' /\ Len(x1') = Len(old)
        BY <1>0, <1>1, <3>1, <3>2, <3>3
      <4>2. pos2' \in 1..Len(x2') + 1
        BY <1>0, <1>1
      <4>3. Read' \in 1..Len(old') + 1
        BY <1>0, <1>1, <3>5
      <4> QED
        BY <1>0, <4>1, <4>2, <4>3 DEF PositionsOK
    <3> QED
      BY <1>1, <3>1, <3>2, <3>3, <3>4, <3>5, <3>6, <3>7
  <2>2. CASE op \in Splicing
    <3>1. x1' = x1 /\ isize' = isize /\ op # "andnot" /\ op \notin Compacting
      BY <2>2 DEF KeepLeft, Splicing, Compacting
    <3>2. Shift' = Shift /\ Shift \in Int /\ Written = pos1 - 1 /\ Written' = pos1
      BY <1>0, <1>1, <3>1 DEF Shift, Written
    <3>3. Read' = Read + 1
      BY <1>0, <1>1, <3>2 DEF Read
    <3>4. Unread'
      BY <1>0, <1>1, <3>1, <3>2 DEF Unread
    <3>5. PositionsOK'
      BY <1>0, <1>1, <3>1, <3>3 DEF PositionsOK
    <3> QED
      BY <1>1, <3>1, <3>2, <3>3, <3>4, <3>5
  <2> QED
    BY <1>0, <1>1, <2>1, <2>2 DEF Ops, Splicing
<1>3. /\ \A j \in Read + 1..Len(old) : Key1 < old[j].key
      /\ \A j \in pos2..Len(x2) : Key1 < x2[j].key
  <2>1. Key1 < x2[pos2].key
    BY <1>0, <1>1
  <2> QED
    BY <1>1, <1>a, <2>1, After, AfterFrom
<1>4. Separated'
  <2>1. \A i \in Read..Read' - 1 : i = Read
    BY <1>a, <1>2
  <2>2. \A j \in pos2..pos2' - 1 : FALSE
    BY <1>0, <1>a
  <2>3. \A i \in Read..Read' - 1, j \in pos2'..Len(x2) : old[i].key < x2[j].key
    <3>1. pos2' = pos2 /\ old[Read].key = Key1
      BY <1>0, <1>1
    <3> QED
      BY <1>3, <2>1, <3>1
  <2>4. \A i \in Read'..Len(old), j \in pos2..pos2' - 1 : x2[j].key < old[i].key
    BY <2>2
  <2>5. Read' \in Nat /\ Read' >= Read /\ pos2' \in Nat /\ pos2' >= pos2
    BY <1>0, <1>a, <1>2
  <2> QED
    BY <1>0, <2>3, <2>4, <2>5, StillSeparated
<1>5. WrittenFirst'
  BY <1>0, <1>1, <1>a, <1>2, <1>3, WroteInOrder
<1>6. WrittenExact'
  <2> SUFFICES ASSUME NEW k \in Keys, NEW v \in Lows
               PROVE  HoldsBefore(x1', Written' + 1, k, v)
                        <=> Truth(op, HoldsBefore(old, Read + 1, k, v),
                                      HoldsBefore(x2, pos2, k, v))
    BY <1>0, <1>2 DEF WrittenExact
  <2>1. HoldsBefore(x1', Written' + 1, k, v)
          <=> HoldsBefore(x1, Written + 1, k, v) \/ (Key1 = k /\ v \in old[Read].low)
    BY <1>1, <1>2, HoldsWritten
  <2>2. HoldsBefore(old, Read + 1, k, v)
          <=> HoldsBefore(old, Read, k, v) \/ (Key1 = k /\ v \in old[Read].low)
    <3>1. HoldsBefore(old, Read + 1, k, v)
            <=> HoldsBefore(old, Read, k, v) \/ (old[Read].key = k /\ v \in old[Read].low)
      BY <1>a, HoldsNext
    <3> QED
      BY <1>1, <3>1
  <2>3. HoldsBefore(x1, Written + 1, k, v)
          <=> Truth(op, HoldsBefore(old, Read, k, v), HoldsBefore(x2, pos2, k, v))
    BY <1>1 DEF WrittenExact
  <2>4. k = Key1 => ~HoldsBefore(old, Read, k, v) /\ ~HoldsBefore(x2, pos2, k, v)
    BY <1>0, Fresh
  <2> QED
    BY <1>0, <1>1, <2>1, <2>2, <2>3, <2>4 DEF Truth, Ops
<1> QED
  BY <1>0, <1>1, <1>2, <1>4, <1>5, <1>6, TurnInv

LEMMA TakeRightInv == MergeInv /\ TakeRight => MergeInv'
<1> SUFFICES ASSUME MergeInv, TakeRight PROVE MergeInv'
  OBVIOUS
<1>0. /\ More /\ Key1 > Key2 /\ op \in Splicing /\ op \notin Compacting
      /\ x1' = InsertSlot(x1, pos1, x2[pos2]) /\ pos1' = pos1 + 1 /\ pos2' = pos2 + 1
      /\ UNCHANGED <<x2, op, running, old, isize>>
  BY DEF TakeRight, Splicing, Compacting
<1>1. /\ x1 \in Seq(Slots) /\ x2 \in Seq(Slots) /\ old \in Seq(Slots)
      /\ Len(x1) \in Nat /\ Len(x2) \in Nat /\ Len(old) \in Nat
      /\ Written \in Nat /\ isize \in Nat /\ pos1 \in 1..Len(x1)
      /\ pos2 \in 1..Len(x2) /\ Read \in 1..Len(old)
      /\ Key1 = old[Read].key /\ Key2 = x2[pos2].key
      /\ Ascending(old) /\ Ascending(x2)
      /\ WrittenExact /\ PositionsOK /\ Unread
  <2>1. /\ op \in Ops /\ isize \in Nat /\ Written \in 0..pos1 - 1 /\ Halfway
        /\ x1 \in Seq(Slots) /\ x2 \in Seq(Slots) /\ old \in Seq(Slots)
        /\ Len(x1) \in Nat /\ Len(x2) \in Nat /\ Len(old) \in Nat
        /\ pos1 \in 1..Len(x1) /\ pos2 \in 1..Len(x2) /\ Read \in 1..Len(old)
        /\ x1[pos1] = old[Read]
    BY <1>0, Midway
  <2>2. Key1 = old[Read].key /\ Key2 = x2[pos2].key
    BY <2>1 DEF Key1, Key2
  <2> QED
    BY <2>1, <2>2 DEF MergeInv, Halfway
<1>a. Read \in Nat \ {0} /\ pos2 \in Nat \ {0} /\ x2[pos2] \in Slots /\ Key2 \in Int
      /\ \A i \in 1..Len(x1) : x1[i] \in Slots
  BY <1>1, SlotsOf
<1>2. /\ x1' \in Seq(Slots)
      /\ PositionsOK' /\ Unread' /\ Read' = Read
      /\ \A i \in 1..Written : x1'[i] = x1[i]
      /\ Written' = Written + 1 /\ x1'[Written + 1] = x2[pos2]
  <2>1. x1' \in [1..Len(x1) + 1 -> Slots]
    BY <1>0, <1>1, <1>a DEF InsertSlot
  <2>2. /\ x1' \in Seq(Slots) /\ Len(x1') = Len(x1) + 1
        /\ \A j \in 1..Len(x1) + 1 :
              x1'[j] = IF j < pos1 THEN x1[j] ELSE IF j = pos1 THEN x2[pos2] ELSE x1[j - 1]
    BY <1>0, <1>1, <2>1, IsArray DEF InsertSlot
  <2>3. Shift' = Shift + 1 /\ Shift \in Int /\ Written = pos1 - 1 /\ Written' = pos1
    BY <1>0, <1>1, <2>2 DEF Shift, Written
  <2>4. Read' = Read
    BY <1>0, <1>1, <2>3 DEF Read
  <2>5. Unread'
    <3>1. ASSUME NEW i \in pos1'..Len(x1') PROVE x1'[i] = old[i - Shift']
      <4>1. i - 1 \in pos1..Len(x1) /\ i \in 1..Len(x1) + 1 /\ i > pos1
        BY <1>0, <1>1, <2>2
      <4>2. x1'[i] = x1[i - 1] /\ x1[i - 1] = old[(i - 1) - Shift]
        BY <1>1, <2>2, <4>1 DEF Unread
      <4>3. (i - 1) - Shift = i - Shift'
        BY <2>3, <4>1
      <4> QED
        BY <4>2, <4>3
    <3> QED
      BY <1>0, <3>1 DEF Unread
  <2>6. PositionsOK'
    <3>1. pos1' \in 1..Len(x1') + 1 /\ pos2' \in 1..Len(x2') + 1 /\ Read' \in 1..Len(old') + 1
      BY <1>0, <1>1, <2>2, <2>4
    <3> QED
      BY <1>0, <3>1 DEF PositionsOK
  <2>7. /\ \A i \in 1..Written : x1'[i] = x1[i]
        /\ Written' = Written + 1 /\ x1'[Written + 1] = x2[pos2]
    <3>1. ASSUME NEW i \in 1..Written PROVE x1'[i] = x1[i]
      <4>1. i \in 1..Len(x1) + 1 /\ i < pos1
        BY <1>1, <2>3
      <4> QED
        BY <2>2, <4>1
    <3>2. Written' = Written + 1 /\ Written + 1 = pos1 /\ pos1 \in 1..Len(x1) + 1
      BY <1>1, <2>3
    <3> QED
      BY <2>2, <3>1, <3>2
  <2> QED
    BY <2>2, <2>3, <2>4, <2>5, <2>6, <2>7
<1>3. /\ \A j \in Read..Len(old) : Key2 < old[j].key
      /\ \A j \in pos2 + 1..Len(x2) : Key2 < x2[j].key
  <2>1. Key2 < old[Read].key
    BY <1>0, <1>1, SlotsOf
  <2> QED
    BY <1>1, <1>a, <2>1, After, AfterFrom
<1>4. Separated'
  <2>1. \A j \in pos2..pos2' - 1 : j = pos2
    BY <1>0, <1>a
  <2>2. \A i \in Read..Read' - 1 : FALSE
    BY <1>2, <1>a
  <2>3. \A i \in Read..Read' - 1, j \in pos2'..Len(x2) : old[i].key < x2[j].key
    BY <2>2
  <2>4. \A i \in Read'..Len(old), j \in pos2..pos2' - 1 : x2[j].key < old[i].key
    <3>1. Read' = Read /\ x2[pos2].key = Key2
      BY <1>1, <1>2
    <3> QED
      BY <1>3, <2>1, <3>1
  <2>5. Read' \in Nat /\ Read' >= Read /\ pos2' \in Nat /\ pos2' >= pos2
    BY <1>0, <1>a, <1>2
  <2> QED
    BY <1>0, <2>3, <2>4, <2>5, StillSeparated
<1>5. WrittenFirst'
  BY <1>0, <1>1, <1>a, <1>2, <1>3, WroteInOrder
<1>6. WrittenExact'
  <2> SUFFICES ASSUME NEW k \in Keys, NEW v \in Lows
               PROVE  HoldsBefore(x1', Written' + 1, k, v)
                        <=> Truth(op, HoldsBefore(old, Read, k, v),
                                      HoldsBefore(x2, pos2 + 1, k, v))
    BY <1>0, <1>2 DEF WrittenExact
  <2>1. HoldsBefore(x1', Written' + 1, k, v)
          <=> HoldsBefore(x1, Written + 1, k, v) \/ (Key2 = k /\ v \in x2[pos2].low)
    BY <1>1, <1>2, HoldsWritten
  <2>2. HoldsBefore(x2, pos2 + 1, k, v)
          <=> HoldsBefore(x2, pos2, k, v) \/ (Key2 = k /\ v \in x2[pos2].low)
    <3>1. HoldsBefore(x2, pos2 + 1, k, v)
            <=> HoldsBefore(x2, pos2, k, v) \/ (x2[pos2].key = k /\ v \in x2[pos2].low)
      BY <1>a, HoldsNext
    <3> QED
      BY <1>1, <3>1
  <2>3. HoldsBefore(x1, Written + 1, k, v)
          <=> Truth(op, HoldsBefore(old, Read, k, v), HoldsBefore(x2, pos2, k, v))
    BY <1>1 DEF WrittenExact
  <2>4. k = Key2 => ~HoldsBefore(old, Read, k, v) /\ ~HoldsBefore(x2, pos2, k, v)
    BY <1>0, Fresh
  <2> QED
    BY <1>0, <2>1, <2>2, <2>3, <2>4 DEF Truth, Splicing
<1> QED
  BY <1>0, <1>1, <1>2, <1>4, <1>5, <1>6, TurnInv
LEMMA SkipLeftInv == MergeInv /\ SkipLeft => MergeInv'
<1> SUFFICES ASSUME MergeInv, SkipLeft PROVE MergeInv'
  OBVIOUS
<1>0. /\ More /\ Key1 < Key2 /\ op = "and" /\ op \in Compacting
      /\ UNCHANGED <<x1, x2, op, running, pos2, isize, old>>
  BY DEF SkipLeft, Compacting
<1>1. PICK p \in pos1 + 1..Len(x1) + 1 : IsNext(x1, Key2, pos1, p) /\ pos1' = p
  BY DEF SkipLeft
<1>2. /\ x1 \in Seq(Slots) /\ x2 \in Seq(Slots) /\ old \in Seq(Slots)
      /\ Len(x1) \in Nat /\ Len(x2) \in Nat /\ Len(old) \in Nat
      /\ isize \in Nat /\ pos1 \in 1..Len(x1)
      /\ pos2 \in 1..Len(x2) /\ Read \in 1..Len(old) /\ x1[pos1] = old[Read]
      /\ Key1 = old[Read].key /\ Key2 = x2[pos2].key
      /\ Ascending(x2) /\ WrittenExact /\ PositionsOK /\ Unread /\ Separated
  BY <1>0, Midway DEF MergeInv, Halfway, Key1, Key2
<1>3. /\ Shift = 0 /\ Shift' = 0 /\ Read = pos1 /\ Read' = p
      /\ Written = isize /\ Written' = isize
      /\ Len(x1) = Len(old) /\ isize < pos1
  <2>1. Len(x1) = Len(old) /\ isize < pos1 /\ Written = isize /\ Written' = isize
    BY <1>0, <1>2 DEF PositionsOK, Written
  <2>2. Shift = 0 /\ Shift' = 0
    BY <1>0, <1>2, <2>1 DEF Shift
  <2> QED
    BY <1>1, <1>2, <2>1, <2>2 DEF Read
<1>4. PositionsOK' /\ Unread'
  <2>1. Unread'
    BY <1>0, <1>1, <1>2, <1>3 DEF Unread
  <2> QED
    BY <1>0, <1>1, <1>2, <1>3, <2>1 DEF PositionsOK
<1>5. \A i \in Read..p - 1 : i \in Read..Len(old) /\ old[i].key \in Int /\ old[i].key < Key2
  <2>1. ASSUME NEW i \in Read..p - 1 PROVE i \in 1..Len(old) /\ x1[i] = old[i] /\ x1[i].key < Key2
    <3>1. i \in 1..Len(old) /\ x1[i] = old[i] /\ (i = pos1 \/ i \in pos1 + 1..p - 1)
      BY <1>1, <1>2, <1>3, <2>1 DEF Unread
    <3> QED
      BY <1>0, <1>1, <3>1 DEF IsNext, Key1
  <2> QED
    BY <1>2, <2>1, SlotsOf
<1>6. Separated'
  <2>1. Key2 \in Int /\ \A j \in pos2..Len(x2) : x2[j].key \in Int /\ (j = pos2 \/ Key2 < x2[j].key)
    <3>1. \A j \in pos2..Len(x2) : j \in 1..Len(x2) /\ (j = pos2 \/ j \in pos2 + 1..Len(x2))
      BY <1>2
    <3> QED
      BY <1>2, <3>1, After, SlotsOf
  <2>2. ASSUME NEW i \in Read..p - 1, NEW j \in pos2..Len(x2) PROVE old[i].key < x2[j].key
    <3>1. old[i].key \in Int /\ old[i].key < Key2
      BY <1>5
    <3>2. x2[j].key \in Int /\ (x2[j].key = Key2 \/ Key2 < x2[j].key)
      BY <1>2, <2>1
    <3> QED
      BY <2>1, <3>1, <3>2
  <2>3. \A j \in pos2..pos2' - 1 : FALSE
    BY <1>0, <1>2
  <2> QED
    BY <1>0, <1>1, <1>2, <1>3, <2>2, <2>3, StillSeparated
<1>7. WrittenFirst'
  BY <1>0, <1>1, <1>2, <1>3, LeftInOrder
<1>8. WrittenExact'
  <2> SUFFICES ASSUME NEW k \in Keys, NEW v \in Lows
               PROVE  HoldsBefore(x1, Written + 1, k, v)
                        <=> Truth(op, HoldsBefore(old, p, k, v), HoldsBefore(x2, pos2, k, v))
    BY <1>0, <1>3 DEF WrittenExact
  <2>1. HoldsBefore(x1, Written + 1, k, v)
          <=> Truth(op, HoldsBefore(old, Read, k, v), HoldsBefore(x2, pos2, k, v))
    BY <1>2 DEF WrittenExact
  <2>2. HoldsBefore(old, Read, k, v) => HoldsBefore(old, p, k, v)
    BY <1>1, <1>2, <1>3 DEF HoldsBefore
  <2>3. HoldsBefore(old, p, k, v) /\ HoldsBefore(x2, pos2, k, v) => HoldsBefore(old, Read, k, v)
    <3> SUFFICES ASSUME NEW i \in 1..p - 1, old[i].key = k, Has(old, i, v),
                        NEW j \in 1..pos2 - 1, x2[j].key = k
                 PROVE  i \in 1..Read - 1
      BY DEF HoldsBefore
    <3>1. i \in 1..Read - 1 \/ i \in Read..p - 1
      BY <1>1, <1>2, <1>3
    <3>2. ASSUME i \in Read..p - 1 PROVE FALSE
      <4>1. i \in Read..Len(old) /\ old[i].key \in Int
        BY <1>5, <3>2
      <4>2. x2[j].key < old[i].key
        BY <1>2, <4>1 DEF Separated
      <4> QED
        BY <4>1, <4>2
    <3> QED
      BY <3>1, <3>2
  <2> QED
    BY <1>0, <2>1, <2>2, <2>3 DEF Truth
<1> QED
  BY <1>0, <1>1, <1>2, <1>4, <1>6, <1>7, <1>8, TurnInv

LEMMA SkipRightInv == MergeInv /\ SkipRight => MergeInv'
<1> SUFFICES ASSUME MergeInv, SkipRight PROVE MergeInv'
  OBVIOUS
<1>0. /\ More /\ Key1 > Key2 /\ op \in Compacting
      /\ UNCHANGED <<x1, x2, op, running, pos1, isize, old>>
  BY DEF SkipRight
<1>1. PICK p \in pos2 + 1..Len(x2) + 1 : IsNext(x2, Key1, pos2, p) /\ pos2' = p
  BY DEF SkipRight
<1>2. /\ x1 \in Seq(Slots) /\ x2 \in Seq(Slots) /\ old \in Seq(Slots)
      /\ Len(x1) \in Nat /\ Len(x2) \in Nat /\ Len(old) \in Nat
      /\ isize \in Nat /\ pos1 \in 1..Len(x1)
      /\ pos2 \in 1..Len(x2) /\ Read \in 1..Len(old)
      /\ Key1 = old[Read].key /\ Key2 = x2[pos2].key
      /\ Ascending(old) /\ WrittenExact /\ PositionsOK /\ Unread /\ Separated
  BY <1>0, Midway DEF MergeInv, Halfway, Key1, Key2
<1>3. Shift' = Shift /\ Read' = Read /\ Written' = Written
  BY <1>0 DEF Shift, Read, Written
<1>4. PositionsOK' /\ Unread'
  BY <1>0, <1>1, <1>2, <1>3 DEF PositionsOK, Unread
<1>5. \A j \in pos2..p - 1 : j \in pos2..Len(x2) /\ x2[j].key \in Int /\ x2[j].key < Key1
  <2>1. ASSUME NEW j \in pos2..p - 1 PROVE j \in 1..Len(x2) /\ x2[j].key < Key1
    <3>1. j \in 1..Len(x2) /\ (j = pos2 \/ j \in pos2 + 1..p - 1)
      BY <1>1, <1>2, <2>1
    <3>2. Key2 < Key1
      BY <1>0, <1>2, SlotsOf
    <3> QED
      BY <1>1, <1>2, <3>1, <3>2 DEF IsNext
  <2> QED
    BY <1>2, <2>1, SlotsOf
<1>6. Separated'
  <2>1. Key1 \in Int /\ \A i \in Read..Len(old) : old[i].key \in Int /\ (i = Read \/ Key1 < old[i].key)
    <3>1. \A i \in Read..Len(old) : i \in 1..Len(old) /\ (i = Read \/ i \in Read + 1..Len(old))
      BY <1>2
    <3> QED
      BY <1>2, <3>1, After, SlotsOf
  <2>2. ASSUME NEW i \in Read..Len(old), NEW j \in pos2..p - 1 PROVE x2[j].key < old[i].key
    <3>1. x2[j].key \in Int /\ x2[j].key < Key1
      BY <1>5
    <3>2. old[i].key \in Int /\ (old[i].key = Key1 \/ Key1 < old[i].key)
      BY <1>2, <2>1
    <3> QED
      BY <2>1, <3>1, <3>2
  <2>3. \A i \in Read..Read' - 1 : FALSE
    BY <1>3, <1>2
  <2>4. \A i \in Read..Read' - 1, j \in pos2'..Len(x2) : old[i].key < x2[j].key
    BY <2>3
  <2>5. \A i \in Read'..Len(old), j \in pos2..pos2' - 1 : x2[j].key < old[i].key
    BY <1>1, <1>3, <2>2
  <2>6. Read' \in Nat /\ Read' >= Read /\ pos2' \in Nat /\ pos2' >= pos2
    BY <1>1, <1>2, <1>3
  <2> QED
    BY <1>0, <2>4, <2>5, <2>6, StillSeparated
<1>7. WrittenFirst'
  BY <1>0, <1>1, <1>2, <1>3, LeftInOrder
<1>8. WrittenExact'
  <2> SUFFICES ASSUME NEW k \in Keys, NEW v \in Lows
               PROVE  HoldsBefore(x1, Written + 1, k, v)
                        <=> Truth(op, HoldsBefore(old, Read, k, v), HoldsBefore(x2, p, k, v))
    BY <1>0, <1>1, <1>3 DEF WrittenExact
  <2>1. HoldsBefore(x1, Written + 1, k, v)
          <=> Truth(op, HoldsBefore(old, Read, k, v), HoldsBefore(x2, pos2, k, v))
    BY <1>2 DEF WrittenExact
  <2>2. HoldsBefore(x2, pos2, k, v) => HoldsBefore(x2, p, k, v)
    BY <1>1, <1>2 DEF HoldsBefore
  <2>3. HoldsBefore(old, Read, k, v) /\ HoldsBefore(x2, p, k, v) => HoldsBefore(x2, pos2, k, v)
    <3> SUFFICES ASSUME NEW j \in 1..p - 1, x2[j].key = k, Has(x2, j, v),
                        NEW i \in 1..Read - 1, old[i].key = k
                 PROVE  j \in 1..pos2 - 1
      BY DEF HoldsBefore
    <3>1. j \in 1..pos2 - 1 \/ j \in pos2..p - 1
      BY <1>1, <1>2
    <3>2. ASSUME j \in pos2..p - 1 PROVE FALSE
      <4>1. j \in pos2..Len(x2) /\ x2[j].key \in Int
        BY <1>5, <3>2
      <4>2. old[i].key < x2[j].key
        BY <1>2, <4>1 DEF Separated
      <4> QED
        BY <4>1, <4>2
    <3> QED
      BY <3>1, <3>2
  <2> QED
    BY <1>0, <2>1, <2>2, <2>3 DEF Truth, Compacting
<1> QED
  BY <1>0, <1>1, <1>2, <1>4, <1>6, <1>7, <1>8, TurnInv
-------------------------------------------------------------------------------
(* The end of a call *)

\* The slots of s from position n on hold the number of halves k and v.
HoldsFrom(s, n, k, v) == \E i \in n..Len(s) : s[i].key = k /\ Has(s, i, v)

LEMMA HoldsSplit ==
    ASSUME NEW s \in Seq(Slots), NEW n \in 1..Len(s) + 1, NEW k, NEW v
    PROVE  Holds(s, k, v) <=> HoldsBefore(s, n, k, v) \/ HoldsFrom(s, n, k, v)
<1>1. Len(s) \in Nat
  BY SlotsOf
<1>2. 1..(Len(s) + 1) - 1 = (1..n - 1) \cup (n..Len(s))
  BY <1>1
<1> QED
  BY <1>2 DEF Holds, HoldsBefore, HoldsFrom

\* The answer written so far, followed by the slots of t from position n on.
FollowedBy(s, t, n) ==
    /\ Len(s) = Written + Len(t) + 1 - n
    /\ \A j \in 1..Written : s[j] = x1[j]
    /\ \A j \in Written + 1..Len(s) : s[j] = t[n + (j - Written) - 1]

LEMMA FollowedInOrder ==
    ASSUME NEW s \in Seq(Slots), NEW t \in Seq(Slots), Ascending(t),
           NEW n \in 1..Len(t) + 1, Written \in Nat, FollowedBy(s, t, n),
           \A i, j \in 1..Written : i < j => x1[i].key < x1[j].key,
           \A i \in 1..Written, j \in n..Len(t) : x1[i].key < t[j].key
    PROVE  Ascending(s)
<1>1. Len(s) \in Nat /\ DOMAIN s = 1..Len(s) /\ Len(t) \in Nat /\ DOMAIN t = 1..Len(t)
  BY SlotsOf
<1>2. \A j \in Written + 1..Len(s) : n + (j - Written) - 1 \in n..Len(t)
  BY <1>1 DEF FollowedBy
<1>3. ASSUME NEW i \in 1..Len(s), NEW j \in 1..Len(s), i < j
      PROVE  s[i].key < s[j].key
  <2>1. CASE j \in 1..Written
    <3>1. i \in 1..Written /\ s[i] = x1[i] /\ s[j] = x1[j]
      BY <1>1, <1>3, <2>1 DEF FollowedBy
    <3> QED
      BY <1>3, <2>1, <3>1
  <2>2. CASE i \in 1..Written /\ j \in Written + 1..Len(s)
    BY <1>2, <2>2 DEF FollowedBy
  <2>3. CASE i \in Written + 1..Len(s)
    <3>1. j \in Written + 1..Len(s)
      BY <1>1, <1>3, <2>3
    <3>2. /\ n + (i - Written) - 1 \in DOMAIN t /\ n + (j - Written) - 1 \in DOMAIN t
          /\ n + (i - Written) - 1 < n + (j - Written) - 1
      <4>1. /\ n + (i - Written) - 1 \in n..Len(t) /\ n + (j - Written) - 1 \in n..Len(t)
        BY <1>2, <2>3, <3>1
      <4>2. /\ n \in Nat \ {0} /\ i \in Nat /\ j \in Nat
        BY <1>1
      <4> QED
        BY <1>1, <1>3, <4>1, <4>2
    <3> QED
      BY <2>3, <3>1, <3>2 DEF FollowedBy, Ascending
  <2> QED
    BY <1>1, <1>3, <2>1, <2>2, <2>3
<1> QED
  BY <1>1, <1>3 DEF Ascending

LEMMA FollowedHolds ==
    ASSUME NEW s \in Seq(Slots), NEW t \in Seq(Slots), NEW n \in 1..Len(t) + 1,
           Written \in Nat, FollowedBy(s, t, n), NEW k, NEW v
    PROVE  Holds(s, k, v) <=> HoldsBefore(x1, Written + 1, k, v) \/ HoldsFrom(t, n, k, v)
<1>1. Len(s) \in Nat /\ Len(t) \in Nat /\ Written + 1 \in 1..Len(s) + 1
  BY SlotsOf DEF FollowedBy
<1>2. Holds(s, k, v) <=> HoldsBefore(s, Written + 1, k, v) \/ HoldsFrom(s, Written + 1, k, v)
  BY <1>1, HoldsSplit
<1>3. HoldsBefore(s, Written + 1, k, v) <=> HoldsBefore(x1, Written + 1, k, v)
  BY HoldsSame DEF FollowedBy
<1>4. HoldsFrom(s, Written + 1, k, v) => HoldsFrom(t, n, k, v)
  <2>1. \A j \in Written + 1..Len(s) : n + (j - Written) - 1 \in n..Len(t)
    BY <1>1 DEF FollowedBy
  <2> QED
    BY <2>1 DEF FollowedBy, HoldsFrom, Has
<1>5. HoldsFrom(t, n, k, v) => HoldsFrom(s, Written + 1, k, v)
  <2> SUFFICES ASSUME NEW i \in n..Len(t), t[i].key = k, Has(t, i, v)
               PROVE  HoldsFrom(s, Written + 1, k, v)
    BY DEF HoldsFrom
  <2>1. Written + (i - n) + 1 \in Written + 1..Len(s)
    BY <1>1 DEF FollowedBy
  <2>2. n + ((Written + (i - n) + 1) - Written) - 1 = i
    BY <1>1
  <2>3. s[Written + (i - n) + 1] = t[i]
    BY <2>1, <2>2 DEF FollowedBy
  <2> QED
    BY <2>1, <2>3 DEF HoldsFrom, Has
<1> QED
  BY <1>2, <1>3, <1>4, <1>5

\* The state in front of the end of a call, and what the call leaves in x1.
LEMMA AtEnd ==
    ASSUME MergeInv, running, ~More
    PROVE  /\ op \in Ops /\ isize \in Nat /\ Written \in Nat
           /\ x1 \in Seq(Slots) /\ x2 \in Seq(Slots) /\ old \in Seq(Slots)
           /\ Len(x1) \in Nat /\ Len(x2) \in Nat /\ Len(old) \in Nat
           /\ pos1 \in 1..Len(x1) + 1 /\ pos2 \in 1..Len(x2) + 1 /\ Read \in 1..Len(old) + 1
           /\ Written <= pos1 - 1 /\ Written <= Len(x1)
           /\ pos1 - Read = Len(x1) - Len(old)
           /\ pos1 = Len(x1) + 1 <=> Read = Len(old) + 1
           /\ Read = Len(old) + 1 \/ pos2 = Len(x2) + 1
           /\ Halfway
<1>1. /\ op \in Ops /\ isize \in Nat /\ Halfway
      /\ x1 \in Seq(Slots) /\ x2 \in Seq(Slots) /\ old \in Seq(Slots)
  BY DEF MergeInv, TypeOK
<1>2. Len(x1) \in Nat /\ Len(x2) \in Nat /\ Len(old) \in Nat
  BY <1>1, LenProperties
<1>3. pos1 \in 1..Len(x1) + 1 /\ pos2 \in 1..Len(x2) + 1 /\ Read \in 1..Len(old) + 1
  BY <1>1 DEF Halfway, PositionsOK
<1>4. Written \in Nat /\ Written <= pos1 - 1 /\ Written <= Len(x1)
  BY <1>1, <1>2, <1>3 DEF Halfway, PositionsOK, Written
<1>5. pos1 - Read = Len(x1) - Len(old)
  BY <1>2, <1>3 DEF Read, Shift
<1>6. pos1 = Len(x1) + 1 \/ pos2 = Len(x2) + 1
  BY <1>2, <1>3 DEF More
<1> QED
  BY <1>1, <1>2, <1>3, <1>4, <1>5, <1>6
\* What was not read of one array has no key of what was read of the other.
LEMMA RestApart ==
    ASSUME MergeInv, running, ~More, NEW k \in Keys, NEW v
    PROVE  /\ ~(HoldsBefore(old, Read, k, v) /\ HoldsFrom(x2, pos2, k, v))
           /\ ~(HoldsFrom(old, Read, k, v) /\ HoldsBefore(x2, pos2, k, v))
           /\ ~(HoldsFrom(old, Read, k, v) /\ HoldsFrom(x2, pos2, k, v))
<1>1. /\ Separated /\ Len(x2) \in Nat /\ Len(old) \in Nat
      /\ Read \in 1..Len(old) + 1 /\ pos2 \in 1..Len(x2) + 1
      /\ Read = Len(old) + 1 \/ pos2 = Len(x2) + 1
  BY AtEnd DEF Halfway
<1>2. k \in Int
  BY MergeAssumption
<1>3. ~(HoldsBefore(old, Read, k, v) /\ HoldsFrom(x2, pos2, k, v))
  BY <1>1, <1>2 DEF HoldsBefore, HoldsFrom, Separated
<1>4. ~(HoldsFrom(old, Read, k, v) /\ HoldsBefore(x2, pos2, k, v))
  BY <1>1, <1>2 DEF HoldsBefore, HoldsFrom, Separated
<1>5. ~(HoldsFrom(old, Read, k, v) /\ HoldsFrom(x2, pos2, k, v))
  BY <1>1 DEF HoldsFrom
<1> QED
  BY <1>3, <1>4, <1>5

\* The last step leaves the answer written, and of the array that has not run out
\* the slots the operation keeps.
LEMMA FinishShape ==
    ASSUME MergeInv, Finish
    PROVE  /\ x1' \in Seq(Slots)
           /\ op = "and" => FollowedBy(x1', old, Len(old) + 1)
           /\ op = "andnot" \/ (op \in Splicing /\ pos1 <= Len(x1))
                => FollowedBy(x1', old, Read)
           /\ op \in Splicing /\ pos1 > Len(x1) => FollowedBy(x1', x2, pos2)
<1>1. running /\ ~More
  BY DEF Finish
<1>2. /\ op \in Ops /\ isize \in Nat /\ Written \in Nat
      /\ x1 \in Seq(Slots) /\ x2 \in Seq(Slots) /\ old \in Seq(Slots)
      /\ Len(x1) \in Nat /\ Len(x2) \in Nat /\ Len(old) \in Nat
      /\ pos1 \in 1..Len(x1) + 1 /\ pos2 \in 1..Len(x2) + 1 /\ Read \in 1..Len(old) + 1
      /\ Written <= pos1 - 1 /\ Written <= Len(x1)
      /\ pos1 - Read = Len(x1) - Len(old)
      /\ pos1 = Len(x1) + 1 <=> Read = Len(old) + 1
      /\ Read = Len(old) + 1 \/ pos2 = Len(x2) + 1
      /\ PositionsOK /\ Unread
  BY <1>1, AtEnd DEF Halfway
<1>3. /\ \A j \in 1..Len(x1) : x1[j] \in Slots
      /\ \A j \in 1..Len(x2) : x2[j] \in Slots
      /\ DOMAIN x1 = 1..Len(x1)
  BY <1>2, SlotsOf
<1>4. \A j \in pos1..Len(x1) : x1[j] = old[j - (pos1 - Read)]
  BY <1>2 DEF Unread, Shift
<1>5. CASE op = "and"
  <2>1. Written = isize /\ x1' = Downsize(x1, isize)
    BY <1>5 DEF Finish, Written, Compacting, Splicing
  <2>2. x1' \in [1..isize -> Slots] /\ \A j \in 1..isize : x1'[j] = x1[j]
    BY <1>2, <1>3, <2>1 DEF Downsize
  <2>3. x1' \in Seq(Slots) /\ Len(x1') = isize
    BY <1>2, <2>2, IsArray
  <2> QED
    BY <1>2, <1>5, <2>1, <2>2, <2>3 DEF FollowedBy, Splicing
<1>6. CASE op = "andnot"
  <2>1. /\ Written = isize /\ Len(x1) = Len(old) /\ pos1 = Read
        /\ x1' = Downsize(SlideDown(x1, pos1, isize), isize + Len(x1) + 1 - pos1)
    BY <1>2, <1>6 DEF Finish, Written, Compacting, Splicing, PositionsOK
  <2> DEFINE n == isize + Len(x1) + 1 - pos1
  <2>2. n \in Nat /\ n <= Len(x1) /\ isize <= n
    BY <1>2, <2>1
  <2>3. \A j \in 1..n : x1'[j] = IF isize < j THEN x1[pos1 + j - isize - 1] ELSE x1[j]
    BY <1>2, <1>3, <2>1, <2>2 DEF Downsize, SlideDown
  <2>4. \A j \in 1..n : isize < j => pos1 + j - isize - 1 \in pos1..Len(x1)
    BY <1>2, <2>1, <2>2
  <2>5. x1' \in [1..n -> Slots]
    <3>1. x1' = [j \in 1..n |-> SlideDown(x1, pos1, isize)[j]]
      BY <2>1 DEF Downsize
    <3>2. ASSUME NEW j \in 1..n PROVE x1'[j] \in Slots
      <4>1. j \in 1..Len(x1)
        BY <1>2, <2>2
      <4>2. isize < j => pos1 + j - isize - 1 \in 1..Len(x1)
        BY <1>2, <2>4
      <4> QED
        BY <1>3, <2>3, <4>1, <4>2
    <3> QED
      BY <3>1, <3>2
  <2>6. x1' \in Seq(Slots) /\ Len(x1') = n
    BY <2>2, <2>5, IsArray
  <2>7. \A j \in isize + 1..n : x1'[j] = old[Read + (j - isize) - 1]
    <3>1. ASSUME NEW j \in isize + 1..n PROVE x1'[j] = old[Read + (j - isize) - 1]
      <4>1. j \in 1..n /\ isize < j
        BY <1>2, <2>2
      <4>2. x1'[j] = x1[pos1 + j - isize - 1] /\ pos1 + j - isize - 1 \in pos1..Len(x1)
        BY <2>3, <2>4, <4>1
      <4>3. (pos1 + j - isize - 1) - (pos1 - Read) = Read + (j - isize) - 1
        BY <1>2, <4>1
      <4>4. x1[pos1 + j - isize - 1] = old[Read + (j - isize) - 1]
        BY <1>4, <4>2, <4>3
      <4> QED
        BY <4>2, <4>4
    <3> QED
      BY <3>1
  <2>8. \A j \in 1..isize : x1'[j] = x1[j]
    <3>1. ASSUME NEW j \in 1..isize PROVE x1'[j] = x1[j]
      <4>1. j \in 1..n /\ ~(isize < j)
        BY <1>2, <2>2
      <4> QED
        BY <2>3, <4>1
    <3> QED
      BY <3>1
  <2>9. n = Written + Len(old) + 1 - Read
    BY <2>1
  <2>10. FollowedBy(x1', old, Read)
    BY <2>1, <2>6, <2>7, <2>8, <2>9 DEF FollowedBy
  <2> QED
    BY <1>6, <2>6, <2>10 DEF Splicing
<1>7. CASE op \in Splicing
  <2>1. Written = pos1 - 1 /\ x1' = AppendFrom(x1, x2, pos2) /\ op # "and" /\ op # "andnot"
    BY <1>7 DEF Finish, Written, Compacting, Splicing
  <2> DEFINE n == Len(x1) + Len(x2) + 1 - pos2
  <2>2. n \in Nat /\ Len(x1) <= n
    BY <1>2
  <2>3. \A j \in 1..n : x1'[j] = IF j <= Len(x1) THEN x1[j] ELSE x2[pos2 + j - Len(x1) - 1]
    BY <2>1 DEF AppendFrom
  <2>4. \A j \in 1..n : j > Len(x1) => pos2 + j - Len(x1) - 1 \in 1..Len(x2)
    BY <1>2, <2>2
  <2>5. x1' \in [1..n -> Slots]
    BY <1>2, <1>3, <2>1, <2>3, <2>4 DEF AppendFrom
  <2>6. x1' \in Seq(Slots) /\ Len(x1') = n
    BY <2>2, <2>5, IsArray
  <2>7. CASE pos1 <= Len(x1)
    <3>1. pos2 = Len(x2) + 1 /\ n = Len(x1)
      <4>1. pos1 # Len(x1) + 1
        BY <1>2, <2>7
      <4>2. pos2 = Len(x2) + 1
        BY <1>2, <4>1
      <4> QED
        BY <1>2, <4>2
    <3>2. ASSUME NEW j \in Written + 1..Len(x1')
          PROVE  x1'[j] = old[Read + (j - Written) - 1]
      <4>1. j \in 1..n /\ j <= Len(x1) /\ j \in pos1..Len(x1)
        BY <1>2, <2>1, <2>6, <3>1
      <4>2. x1'[j] = x1[j]
        BY <2>3, <4>1
      <4>3. j - (pos1 - Read) = Read + (j - Written) - 1
        BY <1>2, <2>1, <4>1
      <4>4. x1[j] = old[j - (pos1 - Read)]
        BY <1>4, <4>1
      <4> QED
        BY <4>2, <4>3, <4>4
    <3>3. ASSUME NEW j \in 1..Written PROVE x1'[j] = x1[j]
      <4>1. j \in 1..n /\ j <= Len(x1)
        BY <1>2, <3>1
      <4> QED
        BY <2>3, <4>1
    <3>4. Len(x1') = Written + Len(old) + 1 - Read
      BY <1>2, <2>1, <2>6, <3>1
    <3>5. FollowedBy(x1', old, Read)
      BY <2>6, <3>2, <3>3, <3>4 DEF FollowedBy
    <3> QED
      BY <1>2, <1>7, <2>1, <2>6, <2>7, <3>5
  <2>8. CASE pos1 > Len(x1)
    <3>1. Written = Len(x1)
      BY <1>2, <2>1, <2>8
    <3>2. ASSUME NEW j \in Written + 1..Len(x1')
          PROVE  x1'[j] = x2[pos2 + (j - Written) - 1]
      <4>0. Len(x1) \in Nat /\ n \in Nat /\ Len(x1') = n /\ Written = Len(x1)
        BY <1>2, <2>2, <2>6, <3>1
      <4>1. j \in 1..n /\ ~(j <= Len(x1))
        BY <4>0
      <4>2. pos2 + j - Len(x1) - 1 = pos2 + (j - Written) - 1
        BY <1>2, <3>1, <4>1
      <4> QED
        BY <2>3, <4>1, <4>2
    <3>3. ASSUME NEW j \in 1..Written PROVE x1'[j] = x1[j]
      <4>1. j \in 1..n /\ j <= Len(x1)
        BY <1>2, <2>2, <3>1
      <4> QED
        BY <2>3, <4>1
    <3>4. n = Written + Len(x2) + 1 - pos2
      BY <3>1
    <3>5. FollowedBy(x1', x2, pos2)
      BY <2>6, <3>2, <3>3, <3>4 DEF FollowedBy
    <3> QED
      BY <1>2, <1>7, <2>1, <2>6, <2>8, <3>5
  <2> QED
    BY <1>2, <2>7, <2>8
<1>8. op = "and" \/ op = "andnot" \/ op \in Splicing
  BY <1>2 DEF Ops, Splicing
<1> QED
  BY ONLY <1>5, <1>6, <1>7, <1>8, Zenon

LEMMA FinishInv == MergeInv /\ Finish => MergeInv'
<1> SUFFICES ASSUME MergeInv, Finish PROVE MergeInv'
  OBVIOUS
<1>0. /\ running /\ ~More /\ ~running' /\ running' \in BOOLEAN
      /\ UNCHANGED <<x2, op, pos1, pos2, isize, old>>
  BY DEF Finish
<1>1. /\ op \in Ops /\ isize \in Nat /\ Written \in Nat
      /\ x2 \in Seq(Slots) /\ old \in Seq(Slots) /\ Len(x2) \in Nat /\ Len(old) \in Nat
      /\ pos2 \in 1..Len(x2) + 1 /\ Read \in 1..Len(old) + 1
      /\ pos1 = Len(x1) + 1 <=> Read = Len(old) + 1
      /\ Read = Len(old) + 1 \/ pos2 = Len(x2) + 1
      /\ pos1 \in 1..Len(x1) + 1 /\ Len(x1) \in Nat
      /\ WrittenFirst /\ WrittenExact /\ Ascending(old) /\ Ascending(x2)
  BY <1>0, AtEnd DEF Halfway, MergeInv
<1>2. x1' \in Seq(Slots)
  BY FinishShape
<1>3. /\ \A i, j \in 1..Written : i < j => x1[i].key < x1[j].key
      /\ \A i \in 1..Written, j \in Len(old) + 1..Len(old) : x1[i].key < old[j].key
      /\ \A i \in 1..Written, j \in Read..Len(old) : x1[i].key < old[j].key
      /\ \A i \in 1..Written, j \in pos2..Len(x2) : x1[i].key < x2[j].key
  <2>1. Len(old) + 1..Len(old) = {}
    BY <1>1
  <2> QED
    BY <1>1, <2>1 DEF WrittenFirst
<1>4. \/ op = "and" /\ FollowedBy(x1', old, Len(old) + 1)
      \/ op # "and" /\ pos2 = Len(x2) + 1 /\ FollowedBy(x1', old, Read)
      \/ op = "andnot" /\ FollowedBy(x1', old, Read)
      \/ op \in Splicing /\ Read = Len(old) + 1 /\ FollowedBy(x1', x2, pos2)
  <2>1. pos1 <= Len(x1) => pos2 = Len(x2) + 1
    BY <1>1
  <2>2. pos1 > Len(x1) => Read = Len(old) + 1
    BY <1>1
  <2>3. /\ op \in {"and", "andnot"} \/ op \in Splicing
        /\ op \in Splicing => op # "and"
        /\ pos1 <= Len(x1) \/ pos1 > Len(x1)
    BY <1>1 DEF Ops, Splicing
  <2>4. /\ op = "and" => FollowedBy(x1', old, Len(old) + 1)
        /\ op = "andnot" \/ (op \in Splicing /\ pos1 <= Len(x1)) => FollowedBy(x1', old, Read)
        /\ op \in Splicing /\ pos1 > Len(x1) => FollowedBy(x1', x2, pos2)
    BY FinishShape
  <2> QED
    BY ONLY <2>1, <2>2, <2>3, <2>4
<1>5. Ascending(x1')
  <2>1. Len(old) + 1 \in 1..Len(old) + 1
    BY <1>1
  <2> QED
    BY <1>1, <1>2, <1>3, <1>4, <2>1, FollowedInOrder
<1>6. ASSUME NEW k \in Keys, NEW v \in Lows
      PROVE  Holds(x1', k, v) <=> Truth(op, Holds(old, k, v), Holds(x2, k, v))
  <2>1. HoldsBefore(x1, Written + 1, k, v)
          <=> Truth(op, HoldsBefore(old, Read, k, v), HoldsBefore(x2, pos2, k, v))
    BY <1>1 DEF WrittenExact
  <2>2. Holds(old, k, v) <=> HoldsBefore(old, Read, k, v) \/ HoldsFrom(old, Read, k, v)
    BY <1>1, HoldsSplit
  <2>3. Holds(x2, k, v) <=> HoldsBefore(x2, pos2, k, v) \/ HoldsFrom(x2, pos2, k, v)
    BY <1>1, HoldsSplit
  <2>4. /\ ~(HoldsBefore(old, Read, k, v) /\ HoldsFrom(x2, pos2, k, v))
        /\ ~(HoldsFrom(old, Read, k, v) /\ HoldsBefore(x2, pos2, k, v))
        /\ ~(HoldsFrom(old, Read, k, v) /\ HoldsFrom(x2, pos2, k, v))
    BY <1>0, RestApart
  <2>5. CASE op = "and" /\ FollowedBy(x1', old, Len(old) + 1)
    <3>1. Len(old) + 1 \in 1..Len(old) + 1 /\ ~HoldsFrom(old, Len(old) + 1, k, v)
      BY <1>1 DEF HoldsFrom
    <3>2. Holds(x1', k, v) <=> HoldsBefore(x1, Written + 1, k, v)
      BY <1>1, <1>2, <2>5, <3>1, FollowedHolds
    <3> QED
      BY <2>1, <2>2, <2>3, <2>4, <2>5, <3>2 DEF Truth
  <2>6. CASE op # "and" /\ pos2 = Len(x2) + 1 /\ FollowedBy(x1', old, Read)
    <3>1. ~HoldsFrom(x2, pos2, k, v)
      BY <1>1, <2>6 DEF HoldsFrom
    <3>2. Holds(x1', k, v)
            <=> HoldsBefore(x1, Written + 1, k, v) \/ HoldsFrom(old, Read, k, v)
      BY <1>1, <1>2, <2>6, FollowedHolds
    <3> QED
      BY <1>1, <2>1, <2>2, <2>3, <2>4, <2>6, <3>1, <3>2 DEF Truth, Ops
  <2>7. CASE op = "andnot" /\ FollowedBy(x1', old, Read)
    <3>1. Holds(x1', k, v)
            <=> HoldsBefore(x1, Written + 1, k, v) \/ HoldsFrom(old, Read, k, v)
      BY <1>1, <1>2, <2>7, FollowedHolds
    <3> QED
      BY <2>1, <2>2, <2>3, <2>4, <2>7, <3>1 DEF Truth
  <2>8. CASE op \in Splicing /\ Read = Len(old) + 1 /\ FollowedBy(x1', x2, pos2)
    <3>1. ~HoldsFrom(old, Read, k, v)
      BY <1>1, <2>8 DEF HoldsFrom
    <3>2. Holds(x1', k, v)
            <=> HoldsBefore(x1, Written + 1, k, v) \/ HoldsFrom(x2, pos2, k, v)
      BY <1>1, <1>2, <2>8, FollowedHolds
    <3> QED
      BY <2>1, <2>2, <2>3, <2>4, <2>8, <3>1, <3>2 DEF Truth, Splicing
  <2> QED
    BY <1>4, <2>5, <2>6, <2>7, <2>8
<1>7. MergeExact'
  <2>1. \A i \in DOMAIN x1' : x1'[i].low # {}
    BY <1>2, SlotsOf
  <2> QED
    BY <1>0, <1>5, <1>6, <2>1 DEF MergeExact
<1>8. TypeOK'
  BY <1>0, <1>1, <1>2 DEF TypeOK, MergeInv
<1> QED
  BY <1>0, <1>1, <1>7, <1>8 DEF MergeInv
-------------------------------------------------------------------------------
\* In the middle of every call the array holds the answer for what was read and,
\* behind pos1, the slots still to be read.
THEOREM MergeInvariant == MergeSpec => []MergeInv
<1>1. Init => MergeInv
  BY InitInv
<1>2. MergeInv /\ [Next]_vars => MergeInv'
  <2> SUFFICES ASSUME MergeInv, [Next]_vars PROVE MergeInv'
    OBVIOUS
  <2>1. CASE Begin
    BY <2>1, BeginInv
  <2>2. CASE Meet
    BY <2>2, MeetInv
  <2>3. CASE SkipLeft
    BY <2>3, SkipLeftInv
  <2>4. CASE KeepLeft
    BY <2>4, KeepLeftInv
  <2>5. CASE SkipRight
    BY <2>5, SkipRightInv
  <2>6. CASE TakeRight
    BY <2>6, TakeRightInv
  <2>7. CASE Finish
    BY <2>7, FinishInv
  <2>8. CASE UNCHANGED vars
    BY <2>8 DEF vars, MergeInv, TypeOK, Halfway, PositionsOK, Unread, Separated, WrittenFirst,
                WrittenExact, MergeExact, Shift, Read, Written
  <2> QED
    BY <2>1, <2>2, <2>3, <2>4, <2>5, <2>6, <2>7, <2>8 DEF Next
<1> QED
  BY <1>1, <1>2, PTL DEF MergeSpec

\* and_inplace, or_inplace, xor_inplace and andnot_inplace leave exactly the numbers
\* their operation asks for, in order and in no empty container, whatever the bitmaps.
THEOREM InplaceExact == MergeSpec => []MergeExact
<1>1. MergeInv => MergeExact
  BY DEF MergeInv
<1> QED
  BY <1>1, MergeInvariant, PTL
=============================================================================
