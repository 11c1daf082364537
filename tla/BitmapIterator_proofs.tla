------------------------ MODULE BitmapIterator_proofs -------------------------
(* The iterator for any number of keys, low halves and containers.              *)
(*                                                                              *)
(* The first part is about finite sets of numbers: the i-th member, the place   *)
(* of a member, the runs.  Its inductions go by the least number for which a    *)
(* claim fails.  The second shows that the iterator stays in step with the      *)
(* container it is in.                                                          *)
(*                                                                              *)
(* The rest shows that BitmapIterator implements IteratorCursor, for every      *)
(* bitmap and whatever the kinds of its containers: the iterator stands for a   *)
(* number of the bitmap, or for one of the two places beside them, and each     *)
(* call takes it where the call takes a cursor.  It orders the values of a      *)
(* bitmap by container and low half, says what an iterator stands for after a   *)
(* move, and follows the rounds of a read.                                      *)
EXTENDS BitmapIterator, FiniteSetTheorems, WellFoundedInduction, TLAPS

\* The numbers a container may hold.
LowHalves == 0..(Lows - 1)
-------------------------------------------------------------------------------
\* A set of natural numbers that is not empty has a least member.
LEMMA LeastOfNaturals ==
    ASSUME NEW T \in SUBSET Nat, T # {}
    PROVE  \E x \in T : \A y \in T : x <= y
<1> DEFINE less == {p \in Nat \X Nat : p[1] < p[2]}
<1>1. IsWellFoundedOn(less, Nat)
  BY NatLessThanWellFounded DEF OpToRel
<1>2. \A x, y \in Nat : y < x => <<y, x>> \in less
  OBVIOUS
<1> HIDE DEF less
<1>3. PICK x \in T : \A y \in T : ~(<<y, x>> \in less)
  BY <1>1, WFMin
<1>4. ASSUME NEW y \in T PROVE x <= y
  <2>1. ~(y < x)
    BY <1>2, <1>3
  <2> QED
    BY <2>1
<1> QED
  BY <1>4

\* A bounded one has a greatest member.
LEMMA GreatestOfNaturals ==
    ASSUME NEW n \in Nat, NEW T \in SUBSET (0..n), T # {}
    PROVE  \E x \in T : \A y \in T : y <= x
<1> DEFINE M == {n - x : x \in T}
<1>1. M \in SUBSET Nat /\ M # {}
  <2>1. PICK y \in T : TRUE
    OBVIOUS
  <2>2. n - y \in M
    OBVIOUS
  <2>3. \A x \in T : n - x \in Nat
    OBVIOUS
  <2> QED
    BY <2>2, <2>3
<1>2. PICK z \in M : \A y \in M : z <= y
  BY <1>1, LeastOfNaturals
<1>3. PICK x \in T : z = n - x
  BY <1>2
<1>4. ASSUME NEW y \in T PROVE y <= x
  <2>1. n - y \in M
    OBVIOUS
  <2> QED
    BY <1>2, <1>3, <2>1
<1> QED
  BY <1>4

LEMMA LowMembers ==
    ASSUME NEW S \in SUBSET LowHalves
    PROVE  \A v \in S : v \in Int /\ 0 <= v /\ v < Lows
BY SizeAssumption DEF LowHalves

LEMMA LowFinite ==
    ASSUME NEW S \in SUBSET LowHalves
    PROVE  IsFiniteSet(S) /\ Cardinality(S) \in Nat /\ (S # {} => Cardinality(S) > 0)
<1>1. IsFiniteSet(LowHalves)
  BY SizeAssumption, FS_Interval DEF LowHalves
<1>2. IsFiniteSet(S)
  BY <1>1, FS_Subset
<1> QED
  BY <1>2, FS_CardinalityType, FS_EmptySet

\* The members below a number are fewer than those below a greater one, if there is
\* one between.
LEMMA PlaceGrows ==
    ASSUME NEW S \in SUBSET LowHalves, NEW v \in S, NEW w \in Int, v < w
    PROVE  Place(S, v) < Place(S, w)
<1> DEFINE below(x) == {u \in S : u < x}
<1>1. below(v) \in SUBSET S /\ below(w) \in SUBSET S /\ v \notin below(v)
  BY DEF LowHalves
<1>2. IsFiniteSet(below(v)) /\ IsFiniteSet(below(w))
  BY <1>1, LowFinite
<1>3. Cardinality(below(v)) \in Nat /\ Cardinality(below(w)) \in Nat
  BY <1>1, LowFinite
<1>4. below(v) \cup {v} \in SUBSET below(w)
  <2>1. \A u \in S : u < v => u < w
    BY LowMembers
  <2> QED
    BY <2>1
<1>5. Cardinality(below(v) \cup {v}) = Cardinality(below(v)) + 1
  BY <1>1, <1>2, FS_AddElement
<1>6. Cardinality(below(v) \cup {v}) <= Cardinality(below(w))
  BY <1>2, <1>4, FS_Subset
<1> QED
  BY <1>3, <1>5, <1>6 DEF Place

LEMMA PlaceType ==
    ASSUME NEW S \in SUBSET LowHalves, NEW w \in Int
    PROVE  Place(S, w) \in 0..Cardinality(S)
<1>1. {u \in S : u < w} \in SUBSET S
  OBVIOUS
<1> QED
  BY <1>1, LowFinite, FS_Subset DEF Place

LEMMA PlaceNatural ==
    ASSUME NEW S \in SUBSET LowHalves, NEW w \in Int
    PROVE  Place(S, w) \in Nat
<1>1. {u \in S : u < w} \in SUBSET LowHalves
  OBVIOUS
<1> QED
  BY <1>1, LowFinite DEF Place

LEMMA PlaceOfMember ==
    ASSUME NEW S \in SUBSET LowHalves, NEW v \in S
    PROVE  Place(S, v) \in 0..(Cardinality(S) - 1)
<1>1. v \in Int /\ Lows \in Int /\ v < Lows
  BY SizeAssumption, LowMembers
<1>2. Place(S, v) < Place(S, Lows)
  BY <1>1, PlaceGrows
<1>3. Place(S, v) \in 0..Cardinality(S) /\ Place(S, Lows) \in 0..Cardinality(S)
  BY <1>1, PlaceType
<1>4. Cardinality(S) \in Nat
  BY LowFinite
<1> QED
  BY <1>2, <1>3, <1>4

\* Members at the same place are the same.
LEMMA PlaceInjective ==
    ASSUME NEW S \in SUBSET LowHalves, NEW v \in S, NEW w \in S,
           Place(S, v) = Place(S, w)
    PROVE  v = w
<1>1. v \in Int /\ w \in Int
  BY LowMembers
<1>2. ~(v < w) /\ ~(w < v)
  BY <1>1, PlaceGrows, PlaceNatural
<1> QED
  BY <1>1, <1>2

\* The i-th member is there, and it is at place i.
LEMMA NthMember ==
    ASSUME NEW S \in SUBSET LowHalves, NEW i \in 0..(Cardinality(S) - 1)
    PROVE  Nth(S, i) \in S /\ Place(S, Nth(S, i)) = i
<1>1. IsFiniteSet(S) /\ Cardinality(S) \in Nat /\ S # {}
  BY LowFinite, FS_EmptySet
<1>2. \A v \in S : v \in Int /\ 0 <= v /\ v < Lows
  BY LowMembers
<1> DEFINE T == {v \in S : Place(S, v) >= i}
<1>3. T # {}
  <2>1. PICK g \in S : \A v \in S : v <= g
    <3>1. Lows - 1 \in Nat /\ S \in SUBSET (0..(Lows - 1))
      BY SizeAssumption DEF LowHalves
    <3> QED
      BY <1>1, <3>1, GreatestOfNaturals
  <2>2. {u \in S : u < g} = S \ {g}
    BY <1>2, <2>1
  <2>3. Place(S, g) = Cardinality(S) - 1
    BY <1>1, <2>2, FS_RemoveElement DEF Place
  <2> QED
    BY <1>1, <2>3
<1>4. PICK v \in T : \A u \in T : v <= u
  <2>1. T \in SUBSET Nat
    BY <1>2
  <2> QED
    BY <1>3, <2>1, LeastOfNaturals
<1>5. Place(S, v) = i
  <2>1. SUFFICES ASSUME Place(S, v) # i PROVE FALSE
    OBVIOUS
  <2> DEFINE B == {u \in S : u < v}
  <2>2. B \in SUBSET LowHalves /\ Cardinality(B) = Place(S, v)
    BY DEF Place
  <2>3. Place(S, v) > i /\ Place(S, v) \in Int
    BY <1>4, <2>1, PlaceOfMember, LowFinite
  <2>4. B # {}
    BY <2>2, <2>3, FS_EmptySet
  <2>5. PICK w \in B : \A u \in B : u <= w
    <3>1. Lows - 1 \in Nat /\ B \in SUBSET (0..(Lows - 1))
      BY SizeAssumption, <2>2 DEF LowHalves
    <3> HIDE DEF B
    <3> QED
      BY <2>4, <3>1, GreatestOfNaturals
  <2>6. {u \in S : u < w} = B \ {w}
    BY <1>2, <2>5
  <2>7. Place(S, w) = Place(S, v) - 1
    <3>1. IsFiniteSet(B)
      BY <2>2, LowFinite
    <3> HIDE DEF B
    <3> QED
      BY <2>2, <2>5, <2>6, <3>1, FS_RemoveElement DEF Place
  <2>8. w \in T
    BY <2>3, <2>7
  <2> QED
    BY <1>2, <1>4, <2>8
<1>6. v \in S
  OBVIOUS
<1> HIDE DEF T
<1>7. \E x \in S : Cardinality({u \in S : u < x}) = i
  BY <1>5, <1>6 DEF Place
<1> QED
  BY <1>7 DEF Nth, Place

LEMMA NthOfPlace ==
    ASSUME NEW S \in SUBSET LowHalves, NEW v \in S
    PROVE  Nth(S, Place(S, v)) = v
<1>1. Place(S, v) \in 0..(Cardinality(S) - 1)
  BY PlaceOfMember
<1>2. Nth(S, Place(S, v)) \in S /\ Place(S, Nth(S, Place(S, v))) = Place(S, v)
  BY <1>1, NthMember
<1> QED
  BY <1>2, PlaceInjective

\* Places are in the order of the members.
LEMMA PlaceOrder ==
    ASSUME NEW S \in SUBSET LowHalves, NEW v \in S, NEW w \in S
    PROVE  v < w <=> Place(S, v) < Place(S, w)
<1>1. v \in Int /\ w \in Int
  BY LowMembers
<1>2. Place(S, v) \in Nat /\ Place(S, w) \in Nat
  BY <1>1, PlaceNatural
<1>3. v < w => Place(S, v) < Place(S, w)
  BY <1>1, PlaceGrows
<1>4. w < v => Place(S, w) < Place(S, v)
  BY <1>1, PlaceGrows
<1> QED
  BY <1>1, <1>2, <1>3, <1>4

LEMMA LeastMember ==
    ASSUME NEW S \in SUBSET LowHalves, S # {}
    PROVE  /\ Least(S) \in S
           /\ \A v \in S : Least(S) <= v
<1>1. Cardinality(S) \in Nat /\ Cardinality(S) > 0
  BY LowFinite
<1>2. 0 \in 0..(Cardinality(S) - 1)
  BY <1>1
<1>3. Least(S) \in S /\ Place(S, Least(S)) = 0
  BY <1>2, NthMember DEF Least
<1>4. ASSUME NEW v \in S PROVE Least(S) <= v
  <2>1. Place(S, v) \in 0..(Cardinality(S) - 1)
    BY PlaceOfMember
  <2>2. ~(v < Least(S))
    BY <1>3, <2>1, PlaceOrder
  <2> QED
    BY <1>3, <2>2, LowMembers
<1> QED
  BY <1>3, <1>4

LEMMA GreatestMember ==
    ASSUME NEW S \in SUBSET LowHalves, S # {}
    PROVE  /\ Greatest(S) \in S
           /\ \A v \in S : v <= Greatest(S)
<1>1. Cardinality(S) \in Nat /\ Cardinality(S) > 0
  BY LowFinite
<1>2. Cardinality(S) - 1 \in 0..(Cardinality(S) - 1)
  BY <1>1
<1>3. Greatest(S) \in S /\ Place(S, Greatest(S)) = Cardinality(S) - 1
  BY <1>2, NthMember DEF Greatest
<1>4. ASSUME NEW v \in S PROVE v <= Greatest(S)
  <2>1. Place(S, v) \in 0..(Cardinality(S) - 1)
    BY PlaceOfMember
  <2>2. ~(Greatest(S) < v)
    BY <1>1, <1>3, <2>1, PlaceOrder
  <2> QED
    BY <1>3, <2>2, LowMembers
<1> QED
  BY <1>3, <1>4

\* Between two neighbours there is no member.
LEMMA Neighbours ==
    ASSUME NEW S \in SUBSET LowHalves, NEW v \in S, NEW w \in S,
           Place(S, w) = Place(S, v) + 1
    PROVE  v < w /\ \A u \in S : u <= v \/ w <= u
<1>1. v \in Int /\ w \in Int /\ Place(S, v) \in Nat
  BY LowMembers, PlaceNatural
<1>2. ASSUME NEW u \in S PROVE u <= v \/ w <= u
  <2>1. u \in Int /\ Place(S, u) \in Nat
    BY LowMembers, PlaceNatural
  <2>2. v < u <=> Place(S, v) < Place(S, u)
    BY PlaceOrder
  <2>3. u < w <=> Place(S, u) < Place(S, w)
    BY PlaceOrder
  <2> QED
    BY <1>1, <2>1, <2>2, <2>3
<1> QED
  BY <1>1, <1>2, PlaceOrder
-------------------------------------------------------------------------------
\* There are no fewer members below a greater number.
LEMMA PlaceMonotone ==
    ASSUME NEW S \in SUBSET LowHalves, NEW v \in Int, NEW w \in Int, v <= w
    PROVE  Place(S, v) <= Place(S, w) /\ Place(S, v) \in Nat /\ Place(S, w) \in Nat
<1> DEFINE below(x) == {u \in S : u < x}
<1>1. below(v) \in SUBSET LowHalves /\ below(w) \in SUBSET LowHalves
  OBVIOUS
<1>2. below(v) \in SUBSET below(w)
  BY LowMembers
<1>3. IsFiniteSet(below(w)) /\ Cardinality(below(v)) \in Nat /\ Cardinality(below(w)) \in Nat
  BY <1>1, LowFinite
<1>4. Cardinality(below(v)) <= Cardinality(below(w))
  BY <1>2, <1>3, FS_Subset
<1> QED
  BY <1>3, <1>4 DEF Place

\* One more than those below a member are those up to it.
LEMMA PlaceNext ==
    ASSUME NEW S \in SUBSET LowHalves, NEW v \in Int
    PROVE  Place(S, v + 1) = Place(S, v) + (IF v \in S THEN 1 ELSE 0)
<1> DEFINE B == {u \in S : u < v}
<1>1. B \in SUBSET LowHalves /\ v \notin B
  BY LowMembers
<1>2. IsFiniteSet(B) /\ Cardinality(B) \in Nat
  BY <1>1, LowFinite
<1>3. CASE v \in S
  <2>1. {u \in S : u < v + 1} = B \cup {v}
    <3>1. \A u \in S : u < v + 1 <=> u < v \/ u = v
      BY LowMembers
    <3> QED
      BY <1>3, <3>1
  <2>2. Cardinality(B \cup {v}) = Cardinality(B) + 1
    BY <1>1, <1>2, FS_AddElement
  <2> QED
    BY <1>3, <2>1, <2>2 DEF Place
<1>4. CASE v \notin S
  <2>1. {u \in S : u < v + 1} = B
    BY <1>4, LowMembers
  <2> QED
    BY <1>2, <1>4, <2>1 DEF Place
<1> QED
  BY <1>3, <1>4

LEMMA BeginsEndsMembers ==
    ASSUME NEW S \in SUBSET LowHalves
    PROVE  /\ Begins(S) \in SUBSET S /\ Ends(S) \in SUBSET S
           /\ Begins(S) \in SUBSET LowHalves /\ Ends(S) \in SUBSET LowHalves
BY DEF Begins, Ends

\* Runs begin and end in turn: below a number as many begin as end, but for the run
\* that goes on there.
LEMMA RunsInTurn ==
    ASSUME NEW S \in SUBSET LowHalves, NEW v \in Nat
    PROVE  Place(Begins(S), v) =
              Place(Ends(S), v) + (IF v - 1 \in S /\ v \in S THEN 1 ELSE 0)
<1> DEFINE Claim(x) == Place(Begins(S), x) =
                          Place(Ends(S), x) + (IF x - 1 \in S /\ x \in S THEN 1 ELSE 0)
           Bad == {x \in Nat : ~Claim(x)}
<1>1. SUFFICES ASSUME Bad # {} PROVE FALSE
  OBVIOUS
<1>2. PICK x \in Bad : \A y \in Bad : x <= y
  BY <1>1, LeastOfNaturals
<1>3. Begins(S) \in SUBSET LowHalves /\ Ends(S) \in SUBSET LowHalves
  BY BeginsEndsMembers
<1>4. CASE x = 0
  <2>1. {u \in Begins(S) : u < 0} = {} /\ {u \in Ends(S) : u < 0} = {} /\ 0 - 1 \notin S
    BY <1>3, LowMembers
  <2>2. Place(Begins(S), 0) = 0 /\ Place(Ends(S), 0) = 0
    BY <2>1, FS_EmptySet DEF Place
  <2> QED
    BY <1>2, <1>4, <2>1, <2>2
<1>5. CASE x # 0
  <2> DEFINE y == x - 1
  <2>1. y \in Nat /\ y + 1 = x /\ y \notin Bad
    BY <1>2, <1>5
  <2>2. Claim(y)
    BY <2>1
  <2>3. /\ Place(Begins(S), x) = Place(Begins(S), y) + (IF y \in Begins(S) THEN 1 ELSE 0)
        /\ Place(Ends(S), x) = Place(Ends(S), y) + (IF y \in Ends(S) THEN 1 ELSE 0)
    BY <1>3, <2>1, PlaceNext
  <2>4. /\ y \in Begins(S) <=> y \in S /\ y - 1 \notin S
        /\ y \in Ends(S) <=> y \in S /\ x \notin S
    BY <2>1 DEF Begins, Ends
  <2>5. Place(Ends(S), y) \in Nat
    BY <1>3, <2>1, PlaceMonotone
  <2>6. Claim(x)
    BY <2>2, <2>3, <2>4, <2>5
  <2> QED
    BY <1>2, <2>6
<1> QED
  BY <1>4, <1>5

LEMMA AsManyEnds ==
    ASSUME NEW S \in SUBSET LowHalves
    PROVE  Cardinality(Ends(S)) = Runs(S) /\ Runs(S) \in Nat
<1>1. Begins(S) \in SUBSET LowHalves /\ Ends(S) \in SUBSET LowHalves
  BY BeginsEndsMembers
<1>2. Lows \in Nat /\ Lows \notin S
  BY SizeAssumption, LowMembers
<1>3. {u \in Begins(S) : u < Lows} = Begins(S) /\ {u \in Ends(S) : u < Lows} = Ends(S)
  BY <1>1, LowMembers
<1>4. Place(Begins(S), Lows) = Place(Ends(S), Lows) + 0
  BY <1>2, RunsInTurn
<1>5. Cardinality(Ends(S)) \in Nat
  BY <1>1, LowFinite
<1> QED
  BY <1>3, <1>4, <1>5 DEF Place, Runs

\* A member is in the run of those that begin up to it.
LEMMA RunOfMember ==
    ASSUME NEW S \in SUBSET LowHalves, NEW v \in S
    PROVE  Place(Begins(S), v + 1) = Place(Ends(S), v) + 1
<1>1. Begins(S) \in SUBSET LowHalves /\ v \in Nat
  BY BeginsEndsMembers, LowMembers
<1>2. Place(Begins(S), v + 1) = Place(Begins(S), v) + (IF v \in Begins(S) THEN 1 ELSE 0)
  BY <1>1, PlaceNext
<1>3. Place(Begins(S), v) = Place(Ends(S), v) + (IF v - 1 \in S /\ v \in S THEN 1 ELSE 0)
  BY <1>1, RunsInTurn
<1>4. v \in Begins(S) <=> v - 1 \notin S
  BY DEF Begins
<1>5. Place(Ends(S), v) \in Nat
  BY <1>1, PlaceMonotone, BeginsEndsMembers
<1> QED
  BY <1>2, <1>3, <1>4, <1>5

\* Where the i-th run begins and ends.
LEMMA RunBounds ==
    ASSUME NEW S \in SUBSET LowHalves, NEW i \in 0..(Runs(S) - 1)
    PROVE  /\ RunBegin(S, i) \in S /\ RunBegin(S, i) - 1 \notin S
           /\ RunEnd(S, i) \in S /\ RunEnd(S, i) + 1 \notin S
           /\ RunBegin(S, i) <= RunEnd(S, i)
           /\ Place(Begins(S), RunBegin(S, i)) = i
           /\ Place(Ends(S), RunBegin(S, i)) = i
           /\ Place(Ends(S), RunEnd(S, i)) = i
<1> DEFINE b == RunBegin(S, i)
           e == RunEnd(S, i)
<1>1. Begins(S) \in SUBSET LowHalves /\ Ends(S) \in SUBSET LowHalves
  BY BeginsEndsMembers
<1>2. i \in 0..(Cardinality(Begins(S)) - 1) /\ i \in 0..(Cardinality(Ends(S)) - 1)
  BY AsManyEnds DEF Runs
<1>3. b \in Begins(S) /\ Place(Begins(S), b) = i
  BY <1>1, <1>2, NthMember DEF RunBegin
<1>4. e \in Ends(S) /\ Place(Ends(S), e) = i
  BY <1>1, <1>2, NthMember DEF RunEnd
<1>5. b \in S /\ b - 1 \notin S /\ e \in S /\ e + 1 \notin S
  BY <1>3, <1>4 DEF Begins, Ends
<1>6. b \in Nat /\ e \in Nat /\ i \in Nat
  BY <1>5, LowMembers, <1>3, <1>4, <1>1, PlaceOfMember
<1>7. Place(Begins(S), b) = Place(Ends(S), b) + 0
  BY <1>5, <1>6, RunsInTurn
<1>8. Place(Ends(S), b) = i
  <2>1. Place(Ends(S), b) \in Nat
    BY <1>1, <1>6, PlaceMonotone
  <2> QED
    BY <1>3, <1>7, <2>1
<1>9. ~(e < b)
  BY <1>1, <1>4, <1>6, <1>8, PlaceGrows
<1> QED
  BY <1>3, <1>4, <1>5, <1>6, <1>8, <1>9

\* Everything between the ends of a run is in it.
LEMMA RunFilled ==
    ASSUME NEW S \in SUBSET LowHalves, NEW i \in 0..(Runs(S) - 1),
           NEW v \in RunBegin(S, i)..RunEnd(S, i)
    PROVE  v \in S
<1> DEFINE b == RunBegin(S, i)
           e == RunEnd(S, i)
           Gaps == {x \in Nat : x \in b..e /\ x \notin S}
<1>1. /\ b \in S /\ e \in S /\ e + 1 \notin S
      /\ Place(Ends(S), b) = i /\ Place(Ends(S), e) = i
  BY RunBounds
<1>2. b \in Nat /\ e \in Nat
  BY <1>1, LowMembers
<1> HIDE DEF b, e
<1>3. SUFFICES ASSUME v \notin S PROVE FALSE
  OBVIOUS
<1>4. v \in Gaps
  BY <1>2, <1>3 DEF b, e
<1>5. PICK x \in Gaps : \A y \in Gaps : x <= y
  <2>1. Gaps \in SUBSET Nat /\ Gaps # {}
    BY <1>4
  <2> HIDE DEF Gaps
  <2> QED
    BY <2>1, LeastOfNaturals
<1> DEFINE p == x - 1
<1>6. x # b /\ x \in b..e /\ x \notin S
  BY <1>1, <1>5
<1>7. p \in Nat /\ p \in b..e /\ p < e /\ p + 1 = x
  BY <1>2, <1>6
<1>8. p \in S
  <2>1. p \notin Gaps
    BY <1>5, <1>7
  <2> QED
    BY <1>7, <2>1
<1>9. p \in Ends(S)
  BY <1>6, <1>7, <1>8 DEF Ends
<1>10. Ends(S) \in SUBSET LowHalves
  BY BeginsEndsMembers
<1>11. Place(Ends(S), p) < i
  BY <1>1, <1>2, <1>7, <1>9, <1>10, PlaceGrows
<1>12. i <= Place(Ends(S), p) /\ Place(Ends(S), p) \in Nat /\ Place(Ends(S), b) \in Nat
  <2>1. b <= p /\ p \in Int /\ b \in Int
    BY <1>2, <1>7
  <2> HIDE DEF p
  <2> QED
    BY <1>1, <1>10, <2>1, PlaceMonotone
<1> QED
  BY <1>1, <1>11, <1>12

\* The run a member is in, by the number of runs that begin up to it.
LEMMA MemberInRun ==
    ASSUME NEW S \in SUBSET LowHalves, NEW v \in S
    PROVE  LET r == Place(Begins(S), v + 1) - 1
           IN  /\ r \in 0..(Runs(S) - 1)
               /\ v \in RunBegin(S, r)..RunEnd(S, r)
               /\ r = Place(Ends(S), v)
<1> DEFINE r == Place(Begins(S), v + 1) - 1
<1>1. Begins(S) \in SUBSET LowHalves /\ Ends(S) \in SUBSET LowHalves /\ v \in Nat
  BY BeginsEndsMembers, LowMembers
<1>2. r = Place(Ends(S), v) /\ Place(Ends(S), v) \in Nat
  BY <1>1, RunOfMember, PlaceNatural
<1>3. Place(Begins(S), v + 1) \in 0..Runs(S) /\ Runs(S) \in Nat
  BY <1>1, PlaceType, AsManyEnds DEF Runs
<1>4. r \in 0..(Runs(S) - 1) /\ r \in Nat
  BY <1>2, <1>3
<1> DEFINE b == RunBegin(S, r)
           e == RunEnd(S, r)
<1>5. b \in Nat /\ e \in Nat /\ b \in S /\ e \in S
  BY <1>4, RunBounds, LowMembers
<1>6. Place(Begins(S), b) = r /\ Place(Ends(S), e) = r
  BY <1>4, RunBounds
<1>7. e \in Ends(S)
  BY <1>4, RunBounds DEF Ends
<1>8. Place(Begins(S), v + 1) = r + 1
  BY <1>3
<1> HIDE DEF b, e, r
<1>9. v <= e
  <2>1. SUFFICES ASSUME e < v PROVE FALSE
    BY <1>1, <1>5
  <2>2. Ends(S) \in SUBSET LowHalves /\ v \in Int
    BY <1>1
  <2>3. Place(Ends(S), e) < Place(Ends(S), v)
    BY <1>7, <2>1, <2>2, PlaceGrows
  <2> QED
    BY <1>2, <1>6, <2>3
<1>10. b <= v
  <2>1. SUFFICES ASSUME v + 1 <= b PROVE FALSE
    BY <1>1, <1>5
  <2>2. Place(Begins(S), v + 1) <= Place(Begins(S), b)
    BY <1>1, <1>5, <2>1, PlaceMonotone
  <2> QED
    BY <1>4, <1>6, <1>8, <2>2
<1> QED
  BY <1>1, <1>2, <1>4, <1>5, <1>9, <1>10 DEF b, e, r

\* A member of the i-th run has i runs that end before it.
LEMMA PlaceInRun ==
    ASSUME NEW S \in SUBSET LowHalves, NEW i \in 0..(Runs(S) - 1),
           NEW v \in RunBegin(S, i)..RunEnd(S, i)
    PROVE  v \in S /\ Place(Ends(S), v) = i
<1> DEFINE b == RunBegin(S, i)
           e == RunEnd(S, i)
<1>1. v \in S
  BY RunFilled
<1>2. b \in S /\ e \in S /\ Place(Ends(S), b) = i /\ Place(Ends(S), e) = i
  BY RunBounds
<1>3. b \in Int /\ e \in Int /\ v \in Int /\ b <= v /\ v <= e
  <2>1. b \in Int /\ e \in Int
    BY <1>2, LowMembers
  <2> QED
    BY <2>1
<1>4. Ends(S) \in SUBSET LowHalves
  BY BeginsEndsMembers
<1> HIDE DEF b, e
<1>5. Place(Ends(S), b) <= Place(Ends(S), v) /\ Place(Ends(S), v) <= Place(Ends(S), e)
  BY <1>3, <1>4, PlaceMonotone
<1>6. Place(Ends(S), v) \in Nat
  BY <1>3, <1>4, PlaceNatural
<1> QED
  BY <1>1, <1>2, <1>5, <1>6

\* Between two runs there is no member, nor after the last or before the first.
LEMMA RunsOrdered ==
    ASSUME NEW S \in SUBSET LowHalves, NEW i \in 0..(Runs(S) - 1), NEW u \in S
    PROVE  /\ RunEnd(S, i) < u => i + 1 < Runs(S) /\ RunBegin(S, i + 1) <= u
           /\ RunBegin(S, 0) <= u
<1> DEFINE e == RunEnd(S, i)
           r == Place(Ends(S), u)
<1>1. Begins(S) \in SUBSET LowHalves /\ Ends(S) \in SUBSET LowHalves /\ u \in Nat
  BY BeginsEndsMembers, LowMembers
<1>2. r \in 0..(Runs(S) - 1) /\ u \in RunBegin(S, r)..RunEnd(S, r)
  BY MemberInRun
<1>3. Runs(S) \in Nat /\ r \in Nat /\ i \in Nat
  <2>1. Runs(S) \in Nat
    BY AsManyEnds
  <2> QED
    BY <1>2, <2>1
<1>4. ASSUME NEW q \in 0..(Runs(S) - 1), q <= r
      PROVE  RunBegin(S, q) <= u
  <2> DEFINE b == RunBegin(S, q)
             x == RunBegin(S, r)
  <2>1. b \in S /\ x \in S /\ Place(Begins(S), b) = q /\ Place(Begins(S), x) = r
    BY <1>2, RunBounds
  <2>2. x \in Begins(S) /\ b \in Begins(S)
    BY <1>2, RunBounds DEF Begins
  <2>3. x \in Int /\ b \in Int
    BY <2>1, LowMembers
  <2>4. x <= u
    BY <1>2
  <2> HIDE DEF b, x, r
  <2>5. ~(x < b)
    BY <1>1, <1>3, <1>4, <2>1, <2>2, PlaceOrder
  <2> QED
    BY <1>1, <2>3, <2>4, <2>5 DEF b
<1>5. RunBegin(S, 0) <= u
  <2>1. 0 \in 0..(Runs(S) - 1)
    BY <1>2, <1>3
  <2> QED
    BY <1>3, <1>4, <2>1
<1>6. ASSUME e < u PROVE i < r
  <2>1. e \in S /\ e + 1 \notin S /\ Place(Ends(S), e) = i
    BY RunBounds
  <2>2. e \in Ends(S)
    BY <2>1 DEF Ends
  <2>3. Ends(S) \in SUBSET LowHalves /\ u \in Int
    BY <1>1
  <2> HIDE DEF e
  <2>4. Place(Ends(S), e) < Place(Ends(S), u)
    BY <1>6, <2>2, <2>3, PlaceGrows
  <2> QED
    BY <2>1, <2>4
<1>7. ASSUME e < u PROVE i + 1 < Runs(S) /\ RunBegin(S, i + 1) <= u
  <2>1. i + 1 <= r /\ i + 1 \in 0..(Runs(S) - 1)
    BY <1>2, <1>3, <1>6, <1>7
  <2> QED
    BY <1>3, <1>4, <2>1
<1> QED
  BY <1>5, <1>7

LEMMA RunsApart ==
    ASSUME NEW S \in SUBSET LowHalves, NEW i \in 0..(Runs(S) - 1),
           i + 1 \in 0..(Runs(S) - 1)
    PROVE  RunEnd(S, i) < RunBegin(S, i + 1)
<1> DEFINE e == RunEnd(S, i)
           b == RunBegin(S, i + 1)
<1>1. e \in S /\ b \in S /\ Place(Ends(S), e) = i /\ Place(Ends(S), b) = i + 1
  BY RunBounds
<1>2. e \in Int /\ b \in Int /\ i \in Nat /\ Ends(S) \in SUBSET LowHalves
  BY <1>1, LowMembers, BeginsEndsMembers
<1> HIDE DEF e, b
<1>3. ~(b <= e)
  BY <1>1, <1>2, PlaceMonotone
<1> QED
  BY <1>2, <1>3 DEF e, b
-------------------------------------------------------------------------------
AllContainers == UNION {ContainersOf(k) : k \in 0..(Keys - 1)}

Iterators == [container_index : Int, in_container_index : Int, run_index : Int,
              current_value : Int, has_value : BOOLEAN,
              container : AllContainers \cup {<<>>}]

\* The low half of the value an iterator shows.
Low(i) == i.current_value - High(i.container)

\* Iterator i has a value, and everything it keeps fits that value.
HasPlace(i) ==
    /\ i \in Iterators
    /\ i.has_value
    /\ i.container_index \in 0..(Size - 1)
    /\ i.container = bitmap[i.container_index + 1]
    /\ Low(i) \in i.container.vals
    /\ i.container.kind = "bitset" => i.in_container_index = Low(i)
    /\ i.container.kind = "array" => i.in_container_index = Place(i.container.vals, Low(i))
    /\ i.container.kind = "run" =>
          /\ i.run_index \in 0..(Runs(i.container.vals) - 1)
          /\ Low(i) \in RunBegin(i.container.vals, i.run_index)
                          ..RunEnd(i.container.vals, i.run_index)

\* An iterator without a value has left the bitmap, or it has stopped at an end of
\* the range of values, in a run container.
HasNone(i) ==
    /\ i \in Iterators
    /\ ~i.has_value
    /\ i.container_index \in -1..Size
    /\ i.container_index \in 0..(Size - 1) =>
          /\ i.container = bitmap[i.container_index + 1]
          /\ i.container.kind = "run"
          /\ i.current_value \in {0, Top}

Placed(i) == HasPlace(i) \/ HasNone(i)

\* From i to j the iterator moves to value v of the container it is in.
MovesTo(i, j, v) == /\ HasPlace(j)
                    /\ j.container_index = i.container_index
                    /\ j.current_value = High(i.container) + v
-------------------------------------------------------------------------------
LEMMA ContainerType ==
    ASSUME NEW c \in AllContainers
    PROVE  /\ c.vals \in SUBSET LowHalves /\ c.vals # {}
           /\ c.key \in 0..(Keys - 1)
           /\ c.kind \in {"run", "array", "bitset"}
BY DEF AllContainers, ContainersOf, LowHalves

LEMMA HighType ==
    ASSUME NEW c \in AllContainers
    PROVE  High(c) \in Nat /\ High(c) + Lows <= Top + 1 /\ Top \in Nat /\ Top > 0
<1>1. c.key \in Nat /\ c.key + 1 <= Keys /\ Keys \in Nat /\ Lows \in Nat /\ Lows > 1 /\ Keys > 0
  BY ContainerType, SizeAssumption
<1>2. \A a, b, l \in Nat : a <= b => a * l <= b * l
  OBVIOUS
<1>3. (c.key + 1) * Lows <= Keys * Lows
  BY <1>1, <1>2
<1>4. (c.key + 1) * Lows = c.key * Lows + Lows
  BY <1>1
<1>5. c.key * Lows \in Nat /\ Keys * Lows \in Nat
  BY <1>1
<1> QED
  BY <1>1, <1>3, <1>4, <1>5 DEF High, Top

LEMMA BitmapType ==
    ASSUME bitmap \in Bitmaps
    PROVE  /\ Size \in Nat
           /\ \A n \in 1..Size : bitmap[n] \in AllContainers
<1>1. PICK n \in 0..MaxSize : bitmap \in [1..n -> AllContainers]
  BY DEF Bitmaps, AllContainers
<1>2. n \in Nat
  BY BoundAssumption, <1>1
<1>3. bitmap \in Seq(AllContainers) /\ Len(bitmap) = n
  BY <1>1, <1>2
<1> QED
  BY <1>1, <1>2, <1>3 DEF Size

\* What is known of the container an iterator is in.
LEMMA InContainer ==
    ASSUME bitmap \in Bitmaps, NEW n \in 0..(Size - 1), NEW c, c = bitmap[n + 1]
    PROVE  /\ c \in AllContainers
           /\ c.vals \in SUBSET LowHalves /\ c.vals # {}
           /\ c.kind \in {"run", "array", "bitset"}
           /\ High(c) \in Nat
<1>1. n + 1 \in 1..Size
  BY BitmapType
<1> QED
  BY <1>1, BitmapType, ContainerType, HighType

\* Iterator i with the fields that a move within a container sets.
With(i, a, q, x) == [i EXCEPT !.in_container_index = a, !.run_index = q,
                                 !.current_value = x, !.has_value = TRUE]

LEMMA WithType ==
    ASSUME NEW i \in Iterators, NEW a \in Int, NEW q \in Int, NEW x \in Int
    PROVE  /\ With(i, a, q, x) \in Iterators
           /\ With(i, a, q, x).in_container_index = a
           /\ With(i, a, q, x).run_index = q
           /\ With(i, a, q, x).current_value = x
           /\ With(i, a, q, x).has_value
           /\ With(i, a, q, x).container_index = i.container_index
           /\ With(i, a, q, x).container = i.container
<1> DEFINE j == With(i, a, q, x)
<1>1. j \in Iterators
  BY DEF Iterators, With
<1>2. j.in_container_index = a /\ j.run_index = q
  BY DEF Iterators, With
<1>3. j.current_value = x /\ j.has_value
  BY DEF Iterators, With
<1>4. j.container_index = i.container_index /\ j.container = i.container
  BY DEF Iterators, With
<1> QED
  BY <1>1, <1>2, <1>3, <1>4

\* At gives an iterator a place.
LEMMA AtPlace ==
    ASSUME bitmap \in Bitmaps, NEW i \in Iterators,
           i.container_index \in 0..(Size - 1),
           i.container = bitmap[i.container_index + 1],
           NEW v \in i.container.vals
    PROVE  MovesTo(i, At(i, v), v)
<1> DEFINE c == i.container
           j == At(i, v)
<1>1. /\ c \in AllContainers /\ c.vals \in SUBSET LowHalves
      /\ c.kind \in {"run", "array", "bitset"} /\ High(c) \in Nat
  BY InContainer
<1>2. v \in Int
  BY <1>1, LowMembers
<1>3. Place(c.vals, v) \in Int
  BY <1>1, <1>2, PlaceNatural
<1>4. Below(Begins(c.vals), v) = {u \in Begins(c.vals) : u < v + 1}
  BY <1>1, <1>2, BeginsEndsMembers, LowMembers DEF Below
<1> DEFINE r == Place(Begins(c.vals), v + 1) - 1
<1>5. r = Cardinality(Below(Begins(c.vals), v)) - 1
  BY <1>4 DEF Place
<1>6. r \in 0..(Runs(c.vals) - 1) /\ v \in RunBegin(c.vals, r)..RunEnd(c.vals, r)
  BY <1>1, MemberInRun
<1>7. r \in Int
  BY <1>6
<1> DEFINE a == CASE c.kind = "bitset" -> v
                  [] c.kind = "array" -> Place(c.vals, v)
                  [] c.kind = "run" -> 0
           q == IF c.kind = "run" THEN r ELSE 0
<1>8. j = With(i, a, q, High(c) + v)
  BY <1>5 DEF At, With
<1>9. /\ a \in Int /\ q \in Int
      /\ c.kind = "bitset" => a = v
      /\ c.kind = "array" => a = Place(c.vals, v)
      /\ c.kind = "run" => q = r
  BY <1>1, <1>2, <1>3, <1>7
<1> HIDE DEF r, a, q
<1>12. High(c) + v \in Int
  BY <1>1, <1>2
<1>10. /\ j \in Iterators
       /\ j.container = c /\ j.container_index = i.container_index
       /\ j.has_value /\ j.current_value = High(c) + v
       /\ j.in_container_index = a /\ j.run_index = q
  BY <1>8, <1>9, <1>12, WithType
<1>11. Low(j) = v
  BY <1>1, <1>2, <1>10 DEF Low
<1> HIDE DEF j
<1> QED
  BY <1>6, <1>9, <1>10, <1>11 DEF HasPlace, MovesTo, j

\* Iterator i at another container, with nothing there.
Without(i, n, a, q, x) == [i EXCEPT !.container_index = n, !.in_container_index = a,
                                    !.run_index = q, !.current_value = x,
                                    !.has_value = FALSE]

LEMMA WithoutType ==
    ASSUME NEW i \in Iterators, NEW n \in Int, NEW a \in Int, NEW q \in Int, NEW x \in Int
    PROVE  /\ Without(i, n, a, q, x) \in Iterators
           /\ Without(i, n, a, q, x).container_index = n
           /\ ~Without(i, n, a, q, x).has_value
<1> DEFINE j == Without(i, n, a, q, x)
<1>1. j \in Iterators
  BY DEF Iterators, Without
<1>2. j.container_index = n /\ ~j.has_value
  BY DEF Iterators, Without
<1> QED
  BY <1>1, <1>2

\* Behind the last container, or before the first, there is no value.
LEMMA PartialInitOutside ==
    ASSUME bitmap \in Bitmaps, NEW i \in Iterators, NEW n \in Int, n = -1 \/ n = Size
    PROVE  /\ HasNone(PartialInit(i, n))
           /\ PartialInit(i, n).container_index = n
<1> DEFINE j == PartialInit(i, n)
<1>1. Size \in Nat /\ (n < 0 \/ n >= Size)
  BY BitmapType
<1>2. Top \in Int
  BY SizeAssumption DEF Top
<1>3. j = Without(i, n, 0, 0, Top)
  BY <1>1 DEF PartialInit, Without
<1>4. j \in Iterators
  BY <1>2, <1>3, WithoutType
<1>5. j.container_index = n /\ ~j.has_value
  BY <1>2, <1>3, WithoutType
<1> HIDE DEF j
<1>6. j.container_index \in -1..Size /\ j.container_index \notin 0..(Size - 1)
  BY <1>1, <1>5
<1> QED
  BY <1>4, <1>5, <1>6 DEF HasNone, j

LEMMA PartialInitInside ==
    ASSUME bitmap \in Bitmaps, NEW i, NEW n \in 0..(Size - 1)
    PROVE  LET j == PartialInit(i, n)
           IN  /\ j \in Iterators
               /\ j.has_value
               /\ j.container_index = n
               /\ j.container = bitmap[n + 1]
<1>1. Size \in Nat /\ bitmap[n + 1] \in AllContainers
  BY BitmapType, InContainer
<1>2. ~(n < 0 \/ n >= Size)
  BY <1>1
<1> QED
  BY <1>1, <1>2 DEF PartialInit, Iterators

\* loadfirstvalue and loadlastvalue, in a container of the bitmap and beside it.
LEMMA LoadFirstInside ==
    ASSUME bitmap \in Bitmaps, NEW i, NEW n \in 0..(Size - 1)
    PROVE  LET j == LoadFirst(i, n)
           IN  /\ HasPlace(j)
               /\ j.container_index = n
               /\ Low(j) = Least(bitmap[n + 1].vals)
<1> DEFINE p == PartialInit(i, n)
           v == Least(bitmap[n + 1].vals)
           j == LoadFirst(i, n)
<1>1. /\ p \in Iterators /\ p.has_value /\ p.container_index = n
      /\ p.container = bitmap[n + 1]
  BY PartialInitInside
<1>2. /\ bitmap[n + 1].vals \in SUBSET LowHalves /\ bitmap[n + 1].vals # {}
      /\ High(bitmap[n + 1]) \in Nat
  BY InContainer
<1>3. v \in bitmap[n + 1].vals /\ v \in Int
  BY <1>2, LeastMember, LowMembers
<1>4. j = At(p, v)
  BY <1>1 DEF LoadFirst
<1> HIDE DEF p, v, j
<1>5. MovesTo(p, j, v)
  BY <1>1, <1>3, <1>4, AtPlace
<1>6. HasPlace(j) /\ j.container_index = n /\ j.current_value = High(bitmap[n + 1]) + v
  BY <1>1, <1>5 DEF MovesTo
<1>7. Low(j) = v
  BY <1>2, <1>3, <1>6 DEF Low, HasPlace
<1> QED
  BY <1>6, <1>7 DEF j, v

LEMMA LoadLastInside ==
    ASSUME bitmap \in Bitmaps, NEW i, NEW n \in 0..(Size - 1)
    PROVE  LET j == LoadLast(i, n)
           IN  /\ HasPlace(j)
               /\ j.container_index = n
               /\ Low(j) = Greatest(bitmap[n + 1].vals)
<1> DEFINE p == PartialInit(i, n)
           v == Greatest(bitmap[n + 1].vals)
           j == LoadLast(i, n)
<1>1. /\ p \in Iterators /\ p.has_value /\ p.container_index = n
      /\ p.container = bitmap[n + 1]
  BY PartialInitInside
<1>2. /\ bitmap[n + 1].vals \in SUBSET LowHalves /\ bitmap[n + 1].vals # {}
      /\ High(bitmap[n + 1]) \in Nat
  BY InContainer
<1>3. v \in bitmap[n + 1].vals /\ v \in Int
  BY <1>2, GreatestMember, LowMembers
<1>4. j = At(p, v)
  BY <1>1 DEF LoadLast
<1> HIDE DEF p, v, j
<1>5. MovesTo(p, j, v)
  BY <1>1, <1>3, <1>4, AtPlace
<1>6. HasPlace(j) /\ j.container_index = n /\ j.current_value = High(bitmap[n + 1]) + v
  BY <1>1, <1>5 DEF MovesTo
<1>7. Low(j) = v
  BY <1>2, <1>3, <1>6 DEF Low, HasPlace
<1> QED
  BY <1>6, <1>7 DEF j, v

LEMMA LoadOutside ==
    ASSUME bitmap \in Bitmaps, NEW i \in Iterators, NEW n \in Int, n = -1 \/ n = Size
    PROVE  /\ HasNone(LoadFirst(i, n)) /\ LoadFirst(i, n).container_index = n
           /\ HasNone(LoadLast(i, n)) /\ LoadLast(i, n).container_index = n
<1>1. HasNone(PartialInit(i, n)) /\ PartialInit(i, n).container_index = n
  BY PartialInitOutside
<1>2. ~PartialInit(i, n).has_value
  BY <1>1 DEF HasNone
<1> QED
  BY <1>1, <1>2 DEF LoadFirst, LoadLast

LEMMA LoadPlaced ==
    ASSUME bitmap \in Bitmaps, NEW i \in Iterators, NEW n \in -1..Size
    PROVE  Placed(LoadFirst(i, n)) /\ Placed(LoadLast(i, n))
<1>1. Size \in Nat
  BY BitmapType
<1>2. n \in 0..(Size - 1) \/ n = -1 \/ n = Size
  BY <1>1
<1>3. CASE n \in 0..(Size - 1)
  BY <1>3, LoadFirstInside, LoadLastInside DEF Placed
<1>4. CASE n = -1 \/ n = Size
  BY <1>1, <1>4, LoadOutside DEF Placed
<1> QED
  BY <1>2, <1>3, <1>4
-------------------------------------------------------------------------------
\* w is the member of vals next above v.
NextIn(vals, v, w) == w \in vals /\ v < w /\ \A u \in vals : u <= v \/ w <= u

\* The facts on an iterator with a place that the moves use.
LEMMA PlaceFacts ==
    ASSUME bitmap \in Bitmaps, NEW i, HasPlace(i)
    PROVE  LET c == i.container
           IN  /\ c \in AllContainers
               /\ c.vals \in SUBSET LowHalves
               /\ c.kind \in {"run", "array", "bitset"}
               /\ High(c) \in Nat
               /\ Low(i) \in c.vals /\ Low(i) \in Nat /\ Low(i) < Lows
               /\ i.current_value = High(c) + Low(i)
               /\ i.current_value \in 0..Top
<1> DEFINE c == i.container
<1>1. c \in AllContainers /\ c.vals \in SUBSET LowHalves /\ High(c) \in Nat
  BY InContainer DEF HasPlace
<1>2. Low(i) \in c.vals /\ i.current_value \in Int
  BY DEF HasPlace, Iterators
<1>3. Low(i) \in Nat /\ Low(i) < Lows
  BY <1>1, <1>2, LowMembers
<1>4. High(c) + Lows <= Top + 1 /\ Top \in Nat /\ Lows \in Nat
  BY <1>1, HighType, SizeAssumption
<1>5. i.current_value = High(c) + Low(i)
  BY <1>1, <1>2 DEF Low
<1>6. c.kind \in {"run", "array", "bitset"}
  BY <1>1, ContainerType
<1> HIDE DEF c
<1>7. i.current_value \in 0..Top
  BY <1>1, <1>3, <1>4, <1>5
<1> QED
  BY <1>1, <1>2, <1>3, <1>5, <1>6, <1>7 DEF c

LEMMA WithPlace ==
    ASSUME bitmap \in Bitmaps, NEW i, HasPlace(i),
           NEW a \in Int, NEW q \in Int, NEW v \in i.container.vals,
           i.container.kind = "bitset" => a = v,
           i.container.kind = "array" => a = Place(i.container.vals, v),
           i.container.kind = "run" =>
              /\ q \in 0..(Runs(i.container.vals) - 1)
              /\ v \in RunBegin(i.container.vals, q)..RunEnd(i.container.vals, q)
    PROVE  MovesTo(i, With(i, a, q, High(i.container) + v), v)
<1> DEFINE c == i.container
           x == High(c) + v
           j == With(i, a, q, x)
<1>1. c.vals \in SUBSET LowHalves /\ High(c) \in Nat
  BY PlaceFacts
<1>2. v \in Int /\ x \in Int
  BY <1>1, LowMembers
<1>3. /\ i \in Iterators
      /\ i.container_index \in 0..(Size - 1) /\ c = bitmap[i.container_index + 1]
  BY DEF HasPlace
<1> HIDE DEF x
<1>4. /\ j \in Iterators /\ j.has_value /\ j.container = c
      /\ j.container_index = i.container_index
      /\ j.in_container_index = a /\ j.run_index = q /\ j.current_value = x
  BY <1>2, <1>3, WithType
<1> HIDE DEF j
<1>5. Low(j) = v
  BY <1>1, <1>2, <1>4 DEF Low, x
<1>6. HasPlace(j)
  BY <1>3, <1>4, <1>5 DEF HasPlace
<1> QED
  BY <1>4, <1>6 DEF MovesTo, x, j

LEMMA FieldTypes ==
    ASSUME NEW i \in Iterators
    PROVE  i.in_container_index \in Int /\ i.run_index \in Int /\ i.container_index \in Int
BY DEF Iterators

LEMMA WrappedSmall ==
    ASSUME Top \in Nat, NEW v \in 0..Top
    PROVE  Wrapped(v) = v
BY DEF Wrapped

LEMMA ValueOff ==
    ASSUME NEW i \in Iterators
    PROVE  LET j == [i EXCEPT !.has_value = FALSE]
           IN  /\ j \in Iterators /\ ~j.has_value
               /\ j.container_index = i.container_index /\ j.container = i.container
               /\ j.current_value = i.current_value
BY DEF Iterators

\* advance in a bitset container: to the next member, or to the next container.
LEMMA AdvanceBitsetMoves ==
    ASSUME bitmap \in Bitmaps, NEW i, HasPlace(i), i.container.kind = "bitset"
    PROVE  LET vals == i.container.vals
           IN  \/ \E w \in vals : NextIn(vals, Low(i), w) /\ MovesTo(i, AdvanceBitset(i), w)
               \/ /\ \A u \in vals : u <= Low(i)
                  /\ AdvanceBitset(i) = LoadFirst(i, i.container_index + 1)
<1> DEFINE vals == i.container.vals
           v == Low(i)
           more == Above(vals, v + 1)
<1>1. vals \in SUBSET LowHalves /\ v \in vals /\ v \in Nat
  BY PlaceFacts
<1>2. i.in_container_index = v
  BY DEF HasPlace
<1>3. \A u \in more : u \in vals /\ u >= v + 1
  BY DEF Above
<1>4. \A u \in vals : u <= v \/ u \in more
  BY <1>1, LowMembers DEF Above
<1>5. CASE more = {}
  <2>1. AdvanceBitset(i) = LoadFirst(i, i.container_index + 1)
    BY <1>2, <1>5 DEF AdvanceBitset
  <2> QED
    BY <1>4, <1>5, <2>1
<1>6. CASE more # {}
  <2> DEFINE w == Least(more)
  <2>1. more \in SUBSET LowHalves
    BY <1>1 DEF Above
  <2>2. w \in more /\ \A u \in more : w <= u
    BY <1>6, <2>1, LeastMember
  <2>3. AdvanceBitset(i) = At(i, w)
    BY <1>2, <1>6 DEF AdvanceBitset
  <2>4. w \in vals /\ v < w /\ \A u \in vals : u <= v \/ w <= u
    <3>1. w \in Int
      BY <2>1, <2>2, LowMembers
    <3>2. w \in vals /\ w >= v + 1
      BY <1>3, <2>2
    <3>3. \A u \in vals : u <= v \/ w <= u
      BY <1>4, <2>2
    <3> HIDE DEF w, v
    <3> QED
      BY <1>1, <3>1, <3>2, <3>3
  <2>5. MovesTo(i, At(i, w), w)
    BY <2>4, AtPlace DEF HasPlace
  <2> QED
    BY <2>3, <2>4, <2>5 DEF NextIn
<1> QED
  BY <1>5, <1>6

\* advance in an array container.
LEMMA AdvanceArrayMoves ==
    ASSUME bitmap \in Bitmaps, NEW i, HasPlace(i), i.container.kind = "array"
    PROVE  LET vals == i.container.vals
           IN  \/ \E w \in vals : NextIn(vals, Low(i), w) /\ MovesTo(i, AdvanceArray(i), w)
               \/ /\ \A u \in vals : u <= Low(i)
                  /\ AdvanceArray(i) = LoadFirst(i, i.container_index + 1)
<1> DEFINE vals == i.container.vals
           v == Low(i)
           n == i.in_container_index + 1
<1>1. vals \in SUBSET LowHalves /\ v \in vals /\ v \in Nat /\ High(i.container) \in Nat
  BY PlaceFacts
<1>2. i.in_container_index = Place(vals, v) /\ i \in Iterators
  BY DEF HasPlace
<1>3. Place(vals, v) \in 0..(Cardinality(vals) - 1) /\ Cardinality(vals) \in Nat
  BY <1>1, PlaceOfMember, LowFinite
<1>4. n \in Nat /\ n = Place(vals, v) + 1
  BY <1>2, <1>3
<1>5. CASE n < Cardinality(vals)
  <2> DEFINE w == Nth(vals, n)
             x == High(i.container) + w
  <2>1. n \in 0..(Cardinality(vals) - 1)
    BY <1>3, <1>4, <1>5
  <2>2. w \in vals /\ Place(vals, w) = n
    BY <1>1, <2>1, NthMember
  <2>3. v < w /\ \A u \in vals : u <= v \/ w <= u
    BY <1>1, <1>4, <2>2, Neighbours
  <2>4. w \in Int /\ x \in Int
    BY <1>1, <2>2, LowMembers
  <2>5. AdvanceArray(i) = [i EXCEPT !.in_container_index = n, !.has_value = TRUE,
                                    !.current_value = x]
    BY <1>5 DEF AdvanceArray
  <2> HIDE DEF w, x, n
  <2>6. AdvanceArray(i) = With(i, n, i.run_index, x) /\ i.run_index \in Int
    BY <1>2, <1>4, <2>4, <2>5 DEF With, Iterators
  <2>7. MovesTo(i, With(i, n, i.run_index, x), w)
    BY <1>4, <2>2, <2>6, WithPlace DEF x
  <2> QED
    BY <2>2, <2>3, <2>6, <2>7 DEF NextIn
<1>6. CASE ~(n < Cardinality(vals))
  <2>1. AdvanceArray(i) = LoadFirst(i, i.container_index + 1)
    BY <1>6 DEF AdvanceArray
  <2>2. ASSUME NEW u \in vals PROVE u <= v
    <3>1. Place(vals, u) \in 0..(Cardinality(vals) - 1)
      BY <1>1, PlaceOfMember
    <3>2. ~(Place(vals, v) < Place(vals, u))
      BY <1>3, <1>4, <1>6, <3>1
    <3>3. u \in Int
      BY <1>1, LowMembers
    <3> QED
      BY <1>1, <3>2, <3>3, PlaceOrder
  <2> QED
    BY <2>1, <2>2
<1> QED
  BY <1>5, <1>6

\* advance in a run container, where the value is the place within the run.
LEMMA AdvanceRunMoves ==
    ASSUME bitmap \in Bitmaps, NEW i, HasPlace(i), i.container.kind = "run"
    PROVE  LET vals == i.container.vals
           IN  \/ \E w \in vals : NextIn(vals, Low(i), w) /\ MovesTo(i, AdvanceRun(i), w)
               \/ /\ \A u \in vals : u <= Low(i)
                  /\ i.current_value # Top
                  /\ AdvanceRun(i) = LoadFirst(i, i.container_index + 1)
               \/ /\ i.current_value = Top
                  /\ AdvanceRun(i) = [i EXCEPT !.has_value = FALSE]
<1> DEFINE c == i.container
           vals == c.vals
           v == Low(i)
           q == i.run_index
           e == RunEnd(vals, q)
           next == i.current_value + 1
<1>1. /\ vals \in SUBSET LowHalves /\ v \in vals /\ v \in Nat /\ High(c) \in Nat
      /\ i.current_value = High(c) + v /\ i.current_value \in 0..Top /\ c \in AllContainers
  BY PlaceFacts
<1>2. q \in 0..(Runs(vals) - 1) /\ v \in RunBegin(vals, q)..e /\ i \in Iterators
  BY DEF HasPlace
<1>3. e \in vals /\ e \in Int /\ Runs(vals) \in Nat /\ q \in Int
  BY <1>1, <1>2, RunBounds, LowMembers, AsManyEnds
<1>4. RunBegin(vals, q) \in Int
  BY <1>1, <1>2, RunBounds, LowMembers
<1>5. Top \in Nat
  BY <1>1, HighType
<1>6. CASE i.current_value = Top
  BY <1>6 DEF AdvanceRun
<1>7. CASE i.current_value # Top /\ next <= High(c) + e
  <2> DEFINE w == v + 1
             x == High(c) + w
  <2>1. Wrapped(next) = next /\ next = x
    <3>1. next \in 0..Top /\ next = x
      BY <1>1, <1>5, <1>7
    <3> QED
      BY <1>5, <3>1, WrappedSmall
  <2>2. w \in RunBegin(vals, q)..e
    BY <1>1, <1>2, <1>3, <1>4, <1>7
  <2>3. w \in vals
    BY <1>1, <1>2, <2>2, RunFilled
  <2>4. v < w /\ \A u \in vals : u <= v \/ w <= u
    BY <1>1, LowMembers
  <2>5. AdvanceRun(i) = [i EXCEPT !.current_value = x, !.has_value = TRUE]
    BY <1>7, <2>1 DEF AdvanceRun
  <2>8. x \in Int
    BY <1>1
  <2> HIDE DEF w, x
  <2>6. AdvanceRun(i) = With(i, i.in_container_index, q, x) /\ i.in_container_index \in Int
    BY <1>2, <1>3, <2>5, <2>8 DEF With, Iterators
  <2>7. MovesTo(i, With(i, i.in_container_index, q, x), w)
    BY <1>2, <1>3, <2>2, <2>3, <2>6, WithPlace DEF x
  <2> QED
    BY <2>3, <2>4, <2>6, <2>7 DEF NextIn
<1>8. CASE i.current_value # Top /\ ~(next <= High(c) + e)
  <2>1. Wrapped(next) = next
    <3>1. next \in 0..Top
      BY <1>1, <1>5, <1>8
    <3> QED
      BY <1>5, <3>1, WrappedSmall
  <2>2. v = e
    BY <1>1, <1>2, <1>3, <1>4, <1>8
  <2>3. CASE q + 1 < Runs(vals)
    <3> DEFINE w == RunBegin(vals, q + 1)
               x == High(c) + w
    <3>1. q + 1 \in 0..(Runs(vals) - 1)
      BY <1>2, <1>3, <2>3
    <3>2. w \in vals /\ w \in RunBegin(vals, q + 1)..RunEnd(vals, q + 1) /\ w \in Int
      <4>1. w \in vals /\ RunEnd(vals, q + 1) \in vals /\ w <= RunEnd(vals, q + 1)
        BY <1>1, <3>1, RunBounds
      <4>2. w \in Int /\ RunEnd(vals, q + 1) \in Int
        BY <1>1, <4>1, LowMembers
      <4> QED
        BY <4>1, <4>2
    <3>3. v < w
      BY <1>1, <1>2, <2>2, <3>1, RunsApart
    <3>4. \A u \in vals : u <= v \/ w <= u
      <4>1. ASSUME NEW u \in vals, ~(u <= v) PROVE w <= u
        <5>1. e < u
          BY <1>1, <1>3, <2>2, <4>1, LowMembers
        <5> QED
          BY <1>1, <1>2, <5>1, RunsOrdered
      <4> QED
        BY <4>1
    <3>5. AdvanceRun(i) = [i EXCEPT !.run_index = q + 1, !.has_value = TRUE,
                                    !.current_value = x]
      BY <1>8, <2>1, <2>3 DEF AdvanceRun
    <3>8. x \in Int /\ q + 1 \in Int
      BY <1>1, <1>3, <3>2
    <3> HIDE DEF w, x
    <3>6. AdvanceRun(i) = With(i, i.in_container_index, q + 1, x)
             /\ i.in_container_index \in Int
      BY <1>2, <3>5, <3>8 DEF With, Iterators
    <3>7. MovesTo(i, With(i, i.in_container_index, q + 1, x), w)
      BY <1>2, <3>1, <3>2, <3>6, <3>8, WithPlace DEF x
    <3> QED
      BY <3>2, <3>3, <3>4, <3>6, <3>7 DEF NextIn
  <2>4. CASE ~(q + 1 < Runs(vals))
    <3>1. AdvanceRun(i) = LoadFirst(i, i.container_index + 1)
      BY <1>8, <2>1, <2>4 DEF AdvanceRun
    <3>2. ASSUME NEW u \in vals PROVE u <= v
      <4>1. ~(e < u)
        BY <1>1, <1>2, <2>4, RunsOrdered
      <4> QED
        BY <1>1, <1>3, <2>2, <4>1, LowMembers
    <3> QED
      BY <1>8, <3>1, <3>2
  <2> QED
    BY <2>3, <2>4
<1> QED
  BY <1>6, <1>7, <1>8

\* previous, in the same three kinds of container.
LEMMA PreviousBitsetMoves ==
    ASSUME bitmap \in Bitmaps, NEW i, HasPlace(i), i.container.kind = "bitset"
    PROVE  LET vals == i.container.vals
           IN  \/ \E w \in vals : NextIn(vals, w, Low(i)) /\ MovesTo(i, PreviousBitset(i), w)
               \/ /\ \A u \in vals : Low(i) <= u
                  /\ PreviousBitset(i) = LoadLast(i, i.container_index - 1)
<1> DEFINE vals == i.container.vals
           v == Low(i)
           less == Below(vals, v - 1)
<1>1. vals \in SUBSET LowHalves /\ v \in vals /\ v \in Nat
  BY PlaceFacts
<1>2. i.in_container_index = v
  BY DEF HasPlace
<1>3. \A u \in less : u \in vals /\ u <= v - 1
  BY DEF Below
<1>4. \A u \in vals : v <= u \/ u \in less
  BY <1>1, LowMembers DEF Below
<1>5. CASE less = {}
  <2>1. PreviousBitset(i) = LoadLast(i, i.container_index - 1)
    BY <1>2, <1>5 DEF PreviousBitset
  <2> QED
    BY <1>4, <1>5, <2>1
<1>6. CASE less # {}
  <2> DEFINE w == Greatest(less)
  <2>1. less \in SUBSET LowHalves
    BY <1>1 DEF Below
  <2>2. w \in less /\ \A u \in less : u <= w
    BY <1>6, <2>1, GreatestMember
  <2>3. PreviousBitset(i) = At(i, w)
    BY <1>2, <1>6 DEF PreviousBitset
  <2>4. w \in vals /\ w < v /\ \A u \in vals : u <= w \/ v <= u
    <3>1. w \in Int
      BY <2>1, <2>2, LowMembers
    <3>2. w \in vals /\ w <= v - 1
      BY <1>3, <2>2
    <3>3. \A u \in vals : u <= w \/ v <= u
      BY <1>4, <2>2
    <3> HIDE DEF w, v
    <3> QED
      BY <1>1, <3>1, <3>2, <3>3
  <2>5. MovesTo(i, At(i, w), w)
    BY <2>4, AtPlace DEF HasPlace
  <2> QED
    BY <1>1, <2>3, <2>4, <2>5 DEF NextIn
<1> QED
  BY <1>5, <1>6

LEMMA PreviousArrayMoves ==
    ASSUME bitmap \in Bitmaps, NEW i, HasPlace(i), i.container.kind = "array"
    PROVE  LET vals == i.container.vals
           IN  \/ \E w \in vals : NextIn(vals, w, Low(i)) /\ MovesTo(i, PreviousArray(i), w)
               \/ /\ \A u \in vals : Low(i) <= u
                  /\ PreviousArray(i) = LoadLast(i, i.container_index - 1)
<1> DEFINE vals == i.container.vals
           v == Low(i)
           n == i.in_container_index - 1
<1>1. vals \in SUBSET LowHalves /\ v \in vals /\ v \in Nat /\ High(i.container) \in Nat
  BY PlaceFacts
<1>2. i.in_container_index = Place(vals, v) /\ i \in Iterators
  BY DEF HasPlace
<1>3. Place(vals, v) \in 0..(Cardinality(vals) - 1) /\ Cardinality(vals) \in Nat
  BY <1>1, PlaceOfMember, LowFinite
<1>4. n \in Int /\ n = Place(vals, v) - 1
  BY <1>2, <1>3
<1>5. CASE n >= 0
  <2> DEFINE w == Nth(vals, n)
             x == High(i.container) + w
  <2>1. n \in 0..(Cardinality(vals) - 1)
    BY <1>3, <1>4, <1>5
  <2>2. w \in vals /\ Place(vals, w) = n
    BY <1>1, <2>1, NthMember
  <2>3. w < v /\ \A u \in vals : u <= w \/ v <= u
    <3>1. Place(vals, v) = Place(vals, w) + 1
      BY <1>3, <1>4, <2>2
    <3> HIDE DEF w
    <3> QED
      BY <1>1, <2>2, <3>1, Neighbours
  <2>4. w \in Int /\ x \in Int
    BY <1>1, <2>2, LowMembers
  <2>5. PreviousArray(i) = [i EXCEPT !.in_container_index = n, !.has_value = TRUE,
                                     !.current_value = x]
    BY <1>5 DEF PreviousArray
  <2> HIDE DEF w, x, n
  <2>6. PreviousArray(i) = With(i, n, i.run_index, x) /\ i.run_index \in Int
    BY <1>2, <1>4, <2>4, <2>5 DEF With, Iterators
  <2>7. MovesTo(i, With(i, n, i.run_index, x), w)
    BY <1>4, <2>2, <2>6, WithPlace DEF x
  <2> QED
    BY <1>1, <2>2, <2>3, <2>6, <2>7 DEF NextIn
<1>6. CASE ~(n >= 0)
  <2>1. PreviousArray(i) = LoadLast(i, i.container_index - 1)
    BY <1>6 DEF PreviousArray
  <2>2. ASSUME NEW u \in vals PROVE v <= u
    <3>1. Place(vals, u) \in 0..(Cardinality(vals) - 1)
      BY <1>1, PlaceOfMember
    <3>2. ~(Place(vals, u) < Place(vals, v))
      BY <1>3, <1>4, <1>6, <3>1
    <3>3. u \in Int
      BY <1>1, LowMembers
    <3> QED
      BY <1>1, <3>2, <3>3, PlaceOrder
  <2> QED
    BY <2>1, <2>2
<1> QED
  BY <1>5, <1>6

LEMMA PreviousRunMoves ==
    ASSUME bitmap \in Bitmaps, NEW i, HasPlace(i), i.container.kind = "run"
    PROVE  LET vals == i.container.vals
           IN  \/ \E w \in vals : NextIn(vals, w, Low(i)) /\ MovesTo(i, PreviousRun(i), w)
               \/ /\ \A u \in vals : Low(i) <= u
                  /\ i.current_value # 0
                  /\ PreviousRun(i) = LoadLast(i, i.container_index - 1)
               \/ /\ i.current_value = 0
                  /\ PreviousRun(i) = [i EXCEPT !.has_value = FALSE]
<1> DEFINE c == i.container
           vals == c.vals
           v == Low(i)
           q == i.run_index
           b == RunBegin(vals, q)
           next == i.current_value - 1
<1>1. /\ vals \in SUBSET LowHalves /\ v \in vals /\ v \in Nat /\ High(c) \in Nat
      /\ i.current_value = High(c) + v /\ i.current_value \in 0..Top /\ c \in AllContainers
  BY PlaceFacts
<1>2. q \in 0..(Runs(vals) - 1) /\ v \in b..RunEnd(vals, q) /\ i \in Iterators
  BY DEF HasPlace
<1>3. b \in vals /\ b \in Int /\ Runs(vals) \in Nat /\ q \in Int
  BY <1>1, <1>2, RunBounds, LowMembers, AsManyEnds
<1>4. RunEnd(vals, q) \in Int
  BY <1>1, <1>2, RunBounds, LowMembers
<1>5. Top \in Nat
  BY <1>1, HighType
<1>6. CASE i.current_value = 0
  BY <1>6 DEF PreviousRun
<1>7. CASE i.current_value # 0 /\ next >= High(c) + b
  <2> DEFINE w == v - 1
             x == High(c) + w
  <2>1. Wrapped(next) = next /\ next = x
    <3>1. next \in 0..Top /\ next = x
      BY <1>1, <1>5, <1>7
    <3> QED
      BY <1>5, <3>1, WrappedSmall
  <2>2. w \in b..RunEnd(vals, q)
    BY <1>1, <1>2, <1>3, <1>4, <1>7
  <2>3. w \in vals
    BY <1>1, <1>2, <2>2, RunFilled
  <2>4. w < v /\ \A u \in vals : u <= w \/ v <= u
    BY <1>1, LowMembers
  <2>5. PreviousRun(i) = [i EXCEPT !.current_value = x, !.has_value = TRUE]
    BY <1>7, <2>1 DEF PreviousRun
  <2>8. x \in Int
    BY <1>1
  <2> HIDE DEF w, x
  <2>6. PreviousRun(i) = With(i, i.in_container_index, q, x) /\ i.in_container_index \in Int
    BY <1>2, <1>3, <2>5, <2>8 DEF With, Iterators
  <2>7. MovesTo(i, With(i, i.in_container_index, q, x), w)
    BY <1>2, <1>3, <2>2, <2>3, <2>6, WithPlace DEF x
  <2> QED
    BY <1>1, <2>3, <2>4, <2>6, <2>7 DEF NextIn
<1>8. CASE i.current_value # 0 /\ ~(next >= High(c) + b)
  <2>1. Wrapped(next) = next
    <3>1. next \in 0..Top
      BY <1>1, <1>5, <1>8
    <3> QED
      BY <1>5, <3>1, WrappedSmall
  <2>2. v = b
    BY <1>1, <1>2, <1>3, <1>4, <1>8
  <2>3. CASE q > 0
    <3> DEFINE w == RunEnd(vals, q - 1)
               x == High(c) + w
    <3>1. q - 1 \in 0..(Runs(vals) - 1) /\ (q - 1) + 1 = q
      BY <1>2, <1>3, <2>3
    <3>2. w \in vals /\ w \in RunBegin(vals, q - 1)..RunEnd(vals, q - 1) /\ w \in Int
      <4>1. w \in vals /\ RunBegin(vals, q - 1) \in vals /\ RunBegin(vals, q - 1) <= w
        BY <1>1, <3>1, RunBounds
      <4>2. w \in Int /\ RunBegin(vals, q - 1) \in Int
        BY <1>1, <4>1, LowMembers
      <4> QED
        BY <4>1, <4>2
    <3>3. w < v
      <4>1. (q - 1) + 1 \in 0..(Runs(vals) - 1)
        BY <1>2, <3>1
      <4>2. w < RunBegin(vals, (q - 1) + 1)
        BY <1>1, <3>1, <4>1, RunsApart
      <4> QED
        BY <2>2, <3>1, <4>2
    <3>4. \A u \in vals : u <= w \/ v <= u
      <4>1. ASSUME NEW u \in vals, ~(u <= w) PROVE v <= u
        <5>1. w < u
          BY <1>1, <3>2, <4>1, LowMembers
        <5>2. RunBegin(vals, (q - 1) + 1) <= u
          BY <1>1, <3>1, <5>1, RunsOrdered
        <5> QED
          BY <2>2, <3>1, <5>2
      <4> QED
        BY <4>1
    <3>5. PreviousRun(i) = [i EXCEPT !.run_index = q - 1, !.has_value = TRUE,
                                     !.current_value = x]
      BY <1>8, <2>1, <2>3 DEF PreviousRun
    <3>8. x \in Int /\ q - 1 \in Int
      BY <1>1, <1>3, <3>2
    <3> HIDE DEF w, x
    <3>6. PreviousRun(i) = With(i, i.in_container_index, q - 1, x)
             /\ i.in_container_index \in Int
      BY <1>2, <3>5, <3>8 DEF With, Iterators
    <3>7. MovesTo(i, With(i, i.in_container_index, q - 1, x), w)
      BY <1>2, <3>1, <3>2, <3>6, <3>8, WithPlace DEF x
    <3> QED
      BY <1>1, <3>2, <3>3, <3>4, <3>6, <3>7 DEF NextIn
  <2>4. CASE ~(q > 0)
    <3>1. PreviousRun(i) = LoadLast(i, i.container_index - 1)
      BY <1>8, <2>1, <2>4 DEF PreviousRun
    <3>2. q = 0
      BY <1>2, <1>3, <2>4
    <3>3. ASSUME NEW u \in vals PROVE v <= u
      BY <1>1, <1>2, <2>2, <3>2, RunsOrdered
    <3> QED
      BY <1>8, <3>1, <3>3
  <2> QED
    BY <2>3, <2>4
<1> QED
  BY <1>6, <1>7, <1>8
-------------------------------------------------------------------------------
\* The three kinds together.
LEMMA AdvancedMoves ==
    ASSUME bitmap \in Bitmaps, NEW i, HasPlace(i)
    PROVE  LET vals == i.container.vals
           IN  \/ \E w \in vals : NextIn(vals, Low(i), w) /\ MovesTo(i, Advanced(i), w)
               \/ /\ \A u \in vals : u <= Low(i)
                  /\ Advanced(i) = LoadFirst(i, i.container_index + 1)
               \/ /\ i.container.kind = "run" /\ i.current_value = Top
                  /\ Advanced(i) = [i EXCEPT !.has_value = FALSE]
<1>1. i.container.kind \in {"run", "array", "bitset"}
  BY PlaceFacts
<1>2. ~(i.container_index >= Size) /\ ~(i.container_index < 0)
  BY BitmapType DEF HasPlace
<1>3. CASE i.container.kind = "bitset"
  <2>1. Advanced(i) = AdvanceBitset(i)
    BY <1>2, <1>3 DEF Advanced
  <2> QED
    BY <1>3, <2>1, AdvanceBitsetMoves
<1>4. CASE i.container.kind = "array"
  <2>1. Advanced(i) = AdvanceArray(i)
    BY <1>2, <1>4 DEF Advanced
  <2> QED
    BY <1>4, <2>1, AdvanceArrayMoves
<1>5. CASE i.container.kind = "run"
  <2>1. Advanced(i) = AdvanceRun(i)
    BY <1>2, <1>5 DEF Advanced
  <2> QED
    BY <1>5, <2>1, AdvanceRunMoves
<1> QED
  BY <1>1, <1>3, <1>4, <1>5

LEMMA PrecededMoves ==
    ASSUME bitmap \in Bitmaps, NEW i, HasPlace(i)
    PROVE  LET vals == i.container.vals
           IN  \/ \E w \in vals : NextIn(vals, w, Low(i)) /\ MovesTo(i, Preceded(i), w)
               \/ /\ \A u \in vals : Low(i) <= u
                  /\ Preceded(i) = LoadLast(i, i.container_index - 1)
               \/ /\ i.container.kind = "run" /\ i.current_value = 0
                  /\ Preceded(i) = [i EXCEPT !.has_value = FALSE]
<1>1. i.container.kind \in {"run", "array", "bitset"}
  BY PlaceFacts
<1>2. ~(i.container_index >= Size) /\ ~(i.container_index < 0)
  BY BitmapType DEF HasPlace
<1>3. CASE i.container.kind = "bitset"
  <2>1. Preceded(i) = PreviousBitset(i)
    BY <1>2, <1>3 DEF Preceded
  <2> QED
    BY <1>3, <2>1, PreviousBitsetMoves
<1>4. CASE i.container.kind = "array"
  <2>1. Preceded(i) = PreviousArray(i)
    BY <1>2, <1>4 DEF Preceded
  <2> QED
    BY <1>4, <2>1, PreviousArrayMoves
<1>5. CASE i.container.kind = "run"
  <2>1. Preceded(i) = PreviousRun(i)
    BY <1>2, <1>5 DEF Preceded
  <2> QED
    BY <1>5, <2>1, PreviousRunMoves
<1> QED
  BY <1>1, <1>3, <1>4, <1>5

\* An iterator that has stopped inside its container.
Stopped(i) == ~i.has_value /\ i.container_index \in 0..(Size - 1)

\* Advance from an iterator without a value.
LEMMA AdvancedFromNone ==
    ASSUME bitmap \in Bitmaps, NEW i, HasNone(i), ~(Stopped(i) /\ i.current_value = 0)
    PROVE  \/ /\ i.container_index = -1
              /\ Advanced(i) = LoadFirst(i, 0)
           \/ /\ i.container_index # -1
              /\ i.container_index = Size \/ (Stopped(i) /\ i.current_value = Top)
              /\ Advanced(i) = [i EXCEPT !.has_value = FALSE]
<1>1. Size \in Nat /\ i.container_index \in -1..Size
  BY BitmapType DEF HasNone
<1>2. CASE i.container_index = -1
  BY <1>1, <1>2 DEF Advanced
<1>3. CASE i.container_index = Size
  BY <1>1, <1>3 DEF Advanced
<1>4. CASE i.container_index \in 0..(Size - 1)
  <2>1. Stopped(i) /\ i.container.kind = "run" /\ i.current_value = Top
    BY <1>4 DEF HasNone, Stopped
  <2>2. Advanced(i) = AdvanceRun(i)
    BY <1>1, <1>4, <2>1 DEF Advanced
  <2>3. AdvanceRun(i) = [i EXCEPT !.has_value = FALSE]
    BY <2>1 DEF AdvanceRun
  <2> QED
    BY <1>1, <1>4, <2>1, <2>2, <2>3
<1> QED
  BY <1>1, <1>2, <1>3, <1>4

LEMMA PrecededFromNone ==
    ASSUME bitmap \in Bitmaps, NEW i, HasNone(i), ~(Stopped(i) /\ i.current_value = Top)
    PROVE  \/ /\ i.container_index = Size
              /\ Preceded(i) = LoadLast(i, Size - 1)
           \/ /\ i.container_index # Size
              /\ i.container_index = -1 \/ (Stopped(i) /\ i.current_value = 0)
              /\ Preceded(i) = [i EXCEPT !.has_value = FALSE]
<1>1. Size \in Nat /\ i.container_index \in -1..Size
  BY BitmapType DEF HasNone
<1>2. CASE i.container_index = -1
  BY <1>1, <1>2 DEF Preceded
<1>3. CASE i.container_index = Size
  BY <1>1, <1>3 DEF Preceded
<1>4. CASE i.container_index \in 0..(Size - 1)
  <2>1. Stopped(i) /\ i.container.kind = "run" /\ i.current_value = 0
    BY <1>4 DEF HasNone, Stopped
  <2>2. Preceded(i) = PreviousRun(i)
    BY <1>1, <1>4, <2>1 DEF Preceded
  <2>3. PreviousRun(i) = [i EXCEPT !.has_value = FALSE]
    BY <2>1 DEF PreviousRun
  <2> QED
    BY <1>1, <1>4, <2>1, <2>2, <2>3
<1> QED
  BY <1>1, <1>2, <1>3, <1>4

\* Switching the value off leaves an iterator without one, at an end of the range.
LEMMA OffHasNone ==
    ASSUME bitmap \in Bitmaps, NEW i, Placed(i),
           i.container_index \in 0..(Size - 1) =>
              i.container.kind = "run" /\ i.current_value \in {0, Top}
    PROVE  HasNone([i EXCEPT !.has_value = FALSE])
<1> DEFINE j == [i EXCEPT !.has_value = FALSE]
<1>1. i \in Iterators /\ i.container_index \in -1..Size
  BY BitmapType DEF Placed, HasPlace, HasNone
<1>2. /\ j \in Iterators /\ ~j.has_value
      /\ j.container_index = i.container_index /\ j.container = i.container
      /\ j.current_value = i.current_value
  BY <1>1, ValueOff
<1>3. i.container_index \in 0..(Size - 1) => i.container = bitmap[i.container_index + 1]
  BY DEF Placed, HasPlace, HasNone
<1> HIDE DEF j
<1>4. HasNone(j)
  BY <1>1, <1>2, <1>3 DEF HasNone
<1> QED
  BY <1>4 DEF j

LEMMA AdvancedPlaced ==
    ASSUME bitmap \in Bitmaps, NEW i, Placed(i), ~(Stopped(i) /\ i.current_value = 0)
    PROVE  Placed(Advanced(i))
<1>1. Size \in Nat /\ i \in Iterators
  BY BitmapType DEF Placed, HasPlace, HasNone
<1>2. CASE HasPlace(i)
  <2>1. i.container_index \in 0..(Size - 1)
    BY <1>2 DEF HasPlace
  <2>2. i.container_index + 1 \in -1..Size
    BY <1>1, <2>1
  <2>3. Placed(LoadFirst(i, i.container_index + 1))
    BY <1>1, <2>2, LoadPlaced
  <2>4. CASE \E w \in i.container.vals : MovesTo(i, Advanced(i), w)
    BY <2>4 DEF MovesTo, Placed
  <2>5. CASE i.container.kind = "run" /\ i.current_value = Top
                /\ Advanced(i) = [i EXCEPT !.has_value = FALSE]
    BY <2>5, OffHasNone DEF Placed
  <2> QED
    BY <1>2, <2>3, <2>4, <2>5, AdvancedMoves
<1>3. CASE HasNone(i)
  <2>1. CASE i.container_index = -1 /\ Advanced(i) = LoadFirst(i, 0)
    BY <1>1, <2>1, LoadPlaced
  <2>2. CASE i.container_index # -1 /\ Advanced(i) = [i EXCEPT !.has_value = FALSE]
    BY <1>3, <2>2, OffHasNone DEF Placed, HasNone
  <2> QED
    BY <1>3, <2>1, <2>2, AdvancedFromNone
<1> QED
  BY <1>2, <1>3 DEF Placed

LEMMA PrecededPlaced ==
    ASSUME bitmap \in Bitmaps, NEW i, Placed(i), ~(Stopped(i) /\ i.current_value = Top)
    PROVE  Placed(Preceded(i))
<1>1. Size \in Nat /\ i \in Iterators
  BY BitmapType DEF Placed, HasPlace, HasNone
<1>2. CASE HasPlace(i)
  <2>1. i.container_index \in 0..(Size - 1)
    BY <1>2 DEF HasPlace
  <2>2. i.container_index - 1 \in -1..Size
    BY <1>1, <2>1
  <2>3. Placed(LoadLast(i, i.container_index - 1))
    BY <1>1, <2>2, LoadPlaced
  <2>4. CASE \E w \in i.container.vals : MovesTo(i, Preceded(i), w)
    BY <2>4 DEF MovesTo, Placed
  <2>5. CASE i.container.kind = "run" /\ i.current_value = 0
                /\ Preceded(i) = [i EXCEPT !.has_value = FALSE]
    BY <2>5, OffHasNone DEF Placed
  <2> QED
    BY <1>2, <2>3, <2>4, <2>5, PrecededMoves
<1>3. CASE HasNone(i)
  <2>1. CASE i.container_index = Size /\ Preceded(i) = LoadLast(i, Size - 1)
    <3>1. Size - 1 \in -1..Size
      BY <1>1
    <3> QED
      BY <1>1, <2>1, <3>1, LoadPlaced
  <2>2. CASE i.container_index # Size /\ Preceded(i) = [i EXCEPT !.has_value = FALSE]
    BY <1>3, <2>2, OffHasNone DEF Placed, HasNone
  <2> QED
    BY <1>3, <2>1, <2>2, PrecededFromNone
<1> QED
  BY <1>2, <1>3 DEF Placed
-------------------------------------------------------------------------------
\* The containers with smaller keys are the first ones.
LEMMA KeysBefore ==
    ASSUME bitmap \in Bitmaps, NEW hb \in Int
    PROVE  LET before == Cardinality({n \in 1..Size : bitmap[n].key < hb})
           IN  /\ before \in 0..Size
               /\ \A n \in 1..Size : bitmap[n].key < hb <=> n <= before
<1> DEFINE S == {n \in 1..Size : bitmap[n].key < hb}
<1>1. Size \in Nat /\ \A n \in 1..Size : bitmap[n] \in AllContainers
  BY BitmapType
<1>2. \A n \in 1..Size : bitmap[n].key \in Int
  BY <1>1, ContainerType, SizeAssumption
<1>3. \A a, b \in 1..Size : a < b => bitmap[a].key < bitmap[b].key
  BY DEF Bitmaps, Ordered, Size
<1>4. S \in SUBSET (0..Size) /\ \A n \in S : n \in 1..Size
  BY <1>1
<1>5. CASE S = {}
  <2>1. Cardinality(S) = 0
    BY <1>5, FS_EmptySet
  <2>2. \A n \in 1..Size : ~(bitmap[n].key < hb)
    BY <1>5
  <2> QED
    BY <1>1, <2>1, <2>2
<1>6. CASE S # {}
  <2>1. PICK m \in S : \A n \in S : n <= m
    <3> HIDE DEF S
    <3> QED
      BY <1>1, <1>4, <1>6, GreatestOfNaturals
  <2>2. m \in 1..Size /\ bitmap[m].key < hb
    OBVIOUS
  <2>3. ASSUME NEW n \in 1..Size
        PROVE  bitmap[n].key < hb <=> n <= m
    <3>1. CASE n < m
      <4>1. bitmap[n].key < bitmap[m].key
        BY <1>3, <2>2, <3>1
      <4> QED
        BY <1>2, <2>2, <3>1, <4>1
    <3>2. CASE n = m
      BY <2>2, <3>2
    <3>3. CASE m < n
      <4>1. n \notin S
        BY <2>1, <2>2, <3>3
      <4> QED
        BY <2>2, <3>3, <4>1
    <3> QED
      BY <2>2, <3>1, <3>2, <3>3
  <2>4. S = 1..m
    <3>1. \A n : n \in S <=> n \in 1..Size /\ n <= m
      BY <2>3
    <3>2. \A n : n \in 1..m <=> n \in 1..Size /\ n <= m
      BY <1>1, <2>2
    <3> HIDE DEF S
    <3> QED
      BY <3>1, <3>2
  <2>5. Cardinality(1..m) = m
    BY <2>2, FS_Interval
  <2> HIDE DEF S
  <2>6. Cardinality(S) = m /\ m \in 0..Size
    BY <1>1, <2>2, <2>4, <2>5
  <2>7. /\ Cardinality(S) \in 0..Size
        /\ \A n \in 1..Size : bitmap[n].key < hb <=> n <= Cardinality(S)
    BY <2>3, <2>6
  <2> QED
    BY <2>7 DEF S
<1> QED
  BY <1>5, <1>6

\* Seeking a value goes to the first container with a value from there on, and in
\* the container of its key to the least such value.
LEMMA SoughtMoves ==
    ASSUME bitmap \in Bitmaps, NEW i, Placed(i), NEW val \in 0..Top
    PROVE  LET hb == val \div Lows
               lb == val % Lows
           IN  \/ \E n \in 0..Size :
                     /\ Sought(i, val) = LoadFirst(i, n)
                     /\ \A m \in 1..Size :
                           IF m <= n
                           THEN \/ bitmap[m].key < hb
                                \/ /\ bitmap[m].key = hb
                                   /\ \A u \in bitmap[m].vals : u < lb
                           ELSE hb < bitmap[m].key
               \/ \E n \in 0..(Size - 1) :
                     /\ bitmap[n + 1].key = hb
                     /\ \E w \in bitmap[n + 1].vals :
                           /\ lb <= w /\ \A u \in bitmap[n + 1].vals : u < lb \/ w <= u
                           /\ HasPlace(Sought(i, val))
                           /\ Sought(i, val).container_index = n
                           /\ Low(Sought(i, val)) = w
<1> DEFINE hb == val \div Lows
           lb == val % Lows
           S == {n \in 1..Size : bitmap[n].key < hb}
           before == Cardinality(S)
           found == \E n \in 1..Size : bitmap[n].key = hb
           c == bitmap[before + 1]
<1>1. Lows \in Nat /\ Lows > 0 /\ val \in Int
  BY SizeAssumption
<1>2. hb \in Int /\ lb \in Int
  BY <1>1
<1> HIDE DEF hb, lb
<1>3. before \in 0..Size /\ \A n \in 1..Size : bitmap[n].key < hb <=> n <= before
  BY <1>2, KeysBefore
<1>4. Size \in Nat /\ \A n \in 1..Size : bitmap[n] \in AllContainers
  BY BitmapType
<1>5. \A n \in 1..Size : bitmap[n].key \in Int
  BY <1>4, ContainerType, SizeAssumption
<1>6. \A a, b \in 1..Size : a < b => bitmap[a].key < bitmap[b].key
  BY DEF Bitmaps, Ordered, Size
<1>7. Sought(i, val) = IF ~found THEN LoadFirst(i, before)
                       ELSE IF Greatest(c.vals) < lb THEN LoadFirst(i, before + 1)
                       ELSE At(PartialInit(i, before), Least(Above(c.vals, lb)))
  BY DEF Sought, hb, lb
<1> HIDE DEF before
<1>8. CASE ~found
  <2>1. Sought(i, val) = LoadFirst(i, before)
    BY <1>7, <1>8
  <2>2. \A m \in 1..Size : IF m <= before THEN bitmap[m].key < hb ELSE hb < bitmap[m].key
    BY <1>2, <1>3, <1>5, <1>8
  <2> QED
    BY <1>3, <2>1, <2>2 DEF hb, lb
<1>9. CASE found
  <2>1. PICK n \in 1..Size : bitmap[n].key = hb
    BY <1>9
  <2>2. before + 1 \in 1..Size /\ before + 1 <= n
    BY <1>2, <1>3, <1>4, <2>1
  <2>3. c.key = hb
    <3>1. ~(c.key < hb)
      BY <1>3, <2>2
    <3>2. before + 1 < n => c.key < bitmap[n].key
      BY <1>6, <2>1, <2>2
    <3> QED
      BY <1>2, <1>4, <1>5, <2>1, <2>2, <3>1, <3>2
  <2>4. c.vals \in SUBSET LowHalves /\ c.vals # {} /\ before \in 0..(Size - 1)
    BY <1>3, <1>4, <2>2, ContainerType
  <2>5. Greatest(c.vals) \in c.vals /\ \A u \in c.vals : u <= Greatest(c.vals)
    BY <2>4, GreatestMember
  <2>6. \A u \in c.vals : u \in Int
    BY <2>4, LowMembers
  <2>7. CASE Greatest(c.vals) < lb
    <3>1. Sought(i, val) = LoadFirst(i, before + 1)
      BY <1>7, <1>9, <2>7
    <3>2. \A u \in c.vals : u < lb
      BY <1>2, <2>5, <2>6, <2>7
    <3>3. ASSUME NEW m \in 1..Size
          PROVE  IF m <= before + 1
                 THEN \/ bitmap[m].key < hb
                      \/ /\ bitmap[m].key = hb
                         /\ \A u \in bitmap[m].vals : u < lb
                 ELSE hb < bitmap[m].key
      <4>1. CASE m <= before
        BY <1>3, <2>2, <4>1
      <4>2. CASE m = before + 1
        BY <2>3, <3>2, <4>2
      <4>3. CASE before + 1 < m
        <5>1. c.key < bitmap[m].key
          BY <1>6, <2>2, <4>3
        <5> QED
          BY <1>3, <2>3, <4>3, <5>1
      <4> QED
        BY <1>3, <4>1, <4>2, <4>3
    <3> QED
      BY <2>2, <3>1, <3>3, <1>4 DEF hb, lb
  <2>8. CASE ~(Greatest(c.vals) < lb)
    <3> DEFINE more == Above(c.vals, lb)
               w == Least(more)
               p == PartialInit(i, before)
    <3>1. more \in SUBSET LowHalves /\ more # {}
      BY <1>2, <2>4, <2>5, <2>6, <2>8 DEF Above
    <3>2. w \in more /\ \A u \in more : w <= u
      BY <3>1, LeastMember
    <3>3. w \in c.vals /\ lb <= w /\ \A u \in c.vals : u < lb \/ w <= u
      BY <1>2, <2>6, <3>2 DEF Above
    <3>4. /\ p \in Iterators /\ p.has_value /\ p.container_index = before
          /\ p.container = c
      BY <2>4, PartialInitInside
    <3>5. Sought(i, val) = At(p, w)
      BY <1>7, <1>9, <2>8
    <3> HIDE DEF p, w
    <3>6. MovesTo(p, At(p, w), w)
      BY <2>4, <3>3, <3>4, AtPlace
    <3>7. High(c) \in Nat /\ w \in Int
      BY <2>2, <1>4, <2>6, <3>3, HighType
    <3>8. /\ HasPlace(Sought(i, val)) /\ Sought(i, val).container_index = before
          /\ Low(Sought(i, val)) = w
      BY <3>4, <3>5, <3>6, <3>7 DEF MovesTo, HasPlace, Low
    <3> QED
      BY <2>3, <2>4, <3>3, <3>8 DEF hb, lb
  <2> QED
    BY <2>7, <2>8
<1> QED
  BY <1>8, <1>9

LEMMA SoughtPlaced ==
    ASSUME bitmap \in Bitmaps, NEW i, Placed(i), NEW val \in 0..Top
    PROVE  Placed(Sought(i, val))
<1>1. Size \in Nat /\ i \in Iterators
  BY BitmapType DEF Placed, HasPlace, HasNone
<1>2. \A n \in 0..Size : Placed(LoadFirst(i, n))
  BY <1>1, LoadPlaced
<1> QED
  BY <1>2, SoughtMoves DEF Placed
-------------------------------------------------------------------------------
\* The sequence buf has the numbers of T, in ascending order.
Lists(buf, T) == /\ buf \in Seq(Nat)
                 /\ \A j \in 1..Len(buf) : buf[j] \in T
                 /\ \A x \in T : \E j \in 1..Len(buf) : buf[j] = x
                 /\ \A j, k \in 1..Len(buf) : j < k => buf[j] < buf[k]

\* The numbers of a container with low halves S.
Shown(c, S) == {High(c) + u : u \in S}

\* The first n members of a set, or all of them.
LEMMA FirstMembers ==
    ASSUME NEW L \in SUBSET LowHalves, L # {}, NEW n \in Nat \ {0}
    PROVE  LET F == First(L, n)
               m == Cardinality(F)
           IN  /\ F \in SUBSET L
               /\ m \in 1..n /\ m <= Cardinality(L)
               /\ \A u \in L : u \in F <=> Place(L, u) < m
               /\ L \ F # {} =>
                     /\ m = n
                     /\ \A u \in L : u \in F <=> u < Least(L \ F)
<1> DEFINE F == First(L, n)
           m == Cardinality(F)
           rest == L \ F
<1>1. F \in SUBSET L /\ F \in SUBSET LowHalves /\ rest \in SUBSET LowHalves
  BY DEF First
<1>2. IsFiniteSet(L) /\ IsFiniteSet(F) /\ Cardinality(L) \in Nat /\ m \in Nat
  BY <1>1, LowFinite
<1>3. m <= Cardinality(L)
  BY <1>1, <1>2, FS_Subset
<1>4. \A u \in L : u \in F <=> Place(L, u) < n
  BY DEF First
<1>5. \A u \in L : Place(L, u) \in 0..(Cardinality(L) - 1) /\ u \in Int
  BY PlaceOfMember, LowMembers
<1>6. m > 0
  <2>1. Least(L) \in L /\ \A u \in L : Least(L) <= u
    BY LeastMember
  <2>2. {u \in L : u < Least(L)} = {}
    BY <1>5, <2>1
  <2>3. Place(L, Least(L)) = 0
    BY <2>2, FS_EmptySet DEF Place
  <2>4. F # {}
    BY <1>4, <2>1, <2>3
  <2> QED
    BY <1>1, <2>4, LowFinite
<1>7. CASE rest = {}
  <2>1. F = L
    BY <1>1, <1>7
  <2>2. m <= n
    <3>1. SUFFICES ASSUME n < m PROVE FALSE
      BY <1>2
    <3>2. n \in 0..(Cardinality(L) - 1)
      BY <1>2, <2>1, <3>1
    <3>3. Nth(L, n) \in L /\ Place(L, Nth(L, n)) = n
      BY <3>2, NthMember
    <3> QED
      BY <1>4, <2>1, <3>3
  <2>3. \A u \in L : u \in F <=> Place(L, u) < m
    BY <1>2, <1>5, <2>1
  <2> QED
    BY <1>1, <1>2, <1>3, <1>6, <1>7, <2>2, <2>3
<1>8. CASE rest # {}
  <2> DEFINE w == Least(rest)
  <2>1. w \in rest /\ \A u \in rest : w <= u
    BY <1>1, <1>8, LeastMember
  <2>2. w \in L /\ w \in Int /\ ~(Place(L, w) < n)
    BY <1>4, <1>5, <2>1
  <2> HIDE DEF w, F
  <2>3. ASSUME NEW u \in L PROVE u \in F <=> u < w
    <3>1. u \in F => u < w
      BY <1>4, <1>5, <2>2, PlaceOrder
    <3>2. u < w => u \in F
      BY <1>5, <2>1, <2>2
    <3> QED
      BY <3>1, <3>2
  <2>4. F = {u \in L : u < w}
    BY <1>1, <2>3
  <2>5. m = Place(L, w)
    BY <2>4 DEF Place
  <2>6. m = n
    <3>1. SUFFICES ASSUME n < m PROVE FALSE
      BY <1>2, <2>2, <2>5
    <3>2. n \in 0..(Cardinality(L) - 1)
      BY <1>2, <1>3, <3>1
    <3>3. Nth(L, n) \in L /\ Place(L, Nth(L, n)) = n
      BY <3>2, NthMember
    <3>4. ~(Nth(L, n) \in F)
      BY <1>4, <3>3
    <3>5. Nth(L, n) < w
      BY <2>2, <2>5, <3>1, <3>3, PlaceOrder
    <3> QED
      BY <2>3, <3>3, <3>4, <3>5
  <2>7. \A u \in L : u \in F <=> Place(L, u) < m
    BY <1>4, <2>6
  <2>8. m \in 1..n
    BY <1>2, <1>6, <2>6
  <2> QED
    BY <1>1, <1>3, <2>3, <2>6, <2>7, <2>8 DEF w, F
<1> QED
  BY <1>7, <1>8

\* What a round copies from a bitset or an array, whose values from the iterator's
\* on are L.
LEMMA ReadSetMoves ==
    ASSUME bitmap \in Bitmaps, NEW i, HasPlace(i), NEW n \in Nat \ {0},
           NEW L \in SUBSET i.container.vals, L # {}
    PROVE  LET s == ReadSet(i, n, L)
               c == i.container
           IN  /\ Len(s.buf) \in 1..n
               /\ \/ \E w \in L :
                        /\ MovesTo(i, s.it, w)
                        /\ Lists(s.buf, Shown(c, {x \in L : x < w}))
                        /\ Len(s.buf) = n
                  \/ /\ s.it = [i EXCEPT !.has_value = FALSE]
                     /\ Lists(s.buf, Shown(c, L))
<1> DEFINE c == i.container
           F == First(L, n)
           m == Cardinality(F)
           rest == L \ F
           buf == [j \in 1..m |-> High(c) + Sorted(L)[j]]
           moved == IF rest # {} THEN At(i, Least(rest)) ELSE [i EXCEPT !.has_value = FALSE]
           s == ReadSet(i, n, L)
<1>1. s.buf = buf /\ s.it = moved
  BY DEF ReadSet
<1>2. L \in SUBSET LowHalves /\ High(c) \in Nat
  BY PlaceFacts
<1>3. /\ F \in SUBSET L /\ m \in 1..n /\ m <= Cardinality(L)
      /\ \A u \in L : u \in F <=> Place(L, u) < m
      /\ rest # {} => m = n /\ \A u \in L : u \in F <=> u < Least(rest)
  BY <1>2, FirstMembers
<1>4. Cardinality(L) \in Nat /\ m \in Nat
  BY <1>2, <1>3, LowFinite
<1> HIDE DEF F, m, s
<1>5. ASSUME NEW j \in 1..m
      PROVE  /\ buf[j] = High(c) + Nth(L, j - 1)
             /\ Nth(L, j - 1) \in F /\ Nth(L, j - 1) \in Nat
             /\ Place(L, Nth(L, j - 1)) = j - 1
  <2>1. j \in 1..Cardinality(L) /\ j - 1 \in 0..(Cardinality(L) - 1)
    BY <1>3, <1>4
  <2>2. Sorted(L)[j] = Nth(L, j - 1)
    BY <2>1 DEF Sorted
  <2>3. Nth(L, j - 1) \in L /\ Place(L, Nth(L, j - 1)) = j - 1
    BY <1>2, <2>1, NthMember
  <2>4. Nth(L, j - 1) \in F /\ Nth(L, j - 1) \in Nat
    BY <1>2, <1>3, <1>4, <2>3, LowMembers
  <2> QED
    BY <2>2, <2>3, <2>4
<1>6. buf \in [1..m -> Nat]
  BY <1>2, <1>5
<1>7. buf \in Seq(Nat) /\ Len(buf) = m
  BY <1>4, <1>6
<1>8. \A j \in 1..m : buf[j] \in {High(c) + u : u \in F}
  BY <1>5
<1>9. ASSUME NEW x \in {High(c) + u : u \in F}
      PROVE  \E j \in 1..m : buf[j] = x
  <2>1. PICK u \in F : x = High(c) + u
    BY <1>9
  <2>2. u \in L /\ Place(L, u) < m /\ Place(L, u) \in 0..(Cardinality(L) - 1)
    BY <1>2, <1>3, <2>1, PlaceOfMember
  <2>3. Place(L, u) + 1 \in 1..m /\ (Place(L, u) + 1) - 1 = Place(L, u)
    BY <1>4, <2>2
  <2>4. Nth(L, Place(L, u)) = u
    BY <1>2, <2>2, NthOfPlace
  <2>5. buf[Place(L, u) + 1] = x
    BY <1>5, <2>1, <2>3, <2>4
  <2> QED
    BY <2>3, <2>5
<1>10. ASSUME NEW j \in 1..m, NEW k \in 1..m, j < k
       PROVE  buf[j] < buf[k]
  <2> HIDE DEF buf
  <2>1. /\ buf[j] = High(c) + Nth(L, j - 1) /\ Nth(L, j - 1) \in F
        /\ Nth(L, j - 1) \in Nat /\ Place(L, Nth(L, j - 1)) = j - 1
    BY <1>5
  <2>2. /\ buf[k] = High(c) + Nth(L, k - 1) /\ Nth(L, k - 1) \in F
        /\ Nth(L, k - 1) \in Nat /\ Place(L, Nth(L, k - 1)) = k - 1
    BY <1>5
  <2>3. Place(L, Nth(L, j - 1)) < Place(L, Nth(L, k - 1))
    BY <1>10, <2>1, <2>2
  <2>4. Nth(L, j - 1) < Nth(L, k - 1)
    BY <1>2, <1>3, <2>1, <2>2, <2>3, PlaceOrder
  <2> QED
    BY <1>2, <2>1, <2>2, <2>4
<1> HIDE DEF buf
<1>11. Lists(buf, Shown(c, F))
  BY <1>7, <1>8, <1>9, <1>10 DEF Lists, Shown
<1>12. CASE rest = {}
  <2>1. F = L
    BY <1>3, <1>12
  <2>2. moved = [i EXCEPT !.has_value = FALSE]
    BY <1>12
  <2> QED
    BY <1>1, <1>3, <1>7, <1>11, <2>1, <2>2 DEF s
<1>13. CASE rest # {}
  <2> DEFINE w == Least(rest)
  <2>1. w \in rest
    BY <1>2, <1>13, LeastMember
  <2>2. w \in L /\ moved = At(i, w)
    BY <1>13, <2>1
  <2>3. F = {x \in L : x < w}
    BY <1>3, <1>13
  <2>4. MovesTo(i, At(i, w), w)
    BY <2>2, AtPlace DEF HasPlace
  <2> HIDE DEF w, moved, rest
  <2>5. /\ Len(s.buf) \in 1..n /\ Len(s.buf) = n
        /\ MovesTo(i, s.it, w)
        /\ Lists(s.buf, Shown(c, {x \in L : x < w}))
    BY <1>1, <1>3, <1>7, <1>11, <1>13, <2>2, <2>3, <2>4 DEF rest
  <2> QED
    BY <2>2, <2>5 DEF s
<1> QED
  BY <1>12, <1>13

\* What a round copies from a run: numbers in a row.
LEMMA ListsInARow ==
    ASSUME NEW a \in Nat, NEW m \in Nat, NEW T,
           \A x : x \in T <=> x \in a..(a + m - 1)
    PROVE  LET buf == [j \in 1..m |-> a + j - 1]
           IN  Len(buf) = m /\ Lists(buf, T)
<1> DEFINE buf == [j \in 1..m |-> a + j - 1]
<1>1. buf \in [1..m -> Nat]
  OBVIOUS
<1>2. buf \in Seq(Nat) /\ Len(buf) = m
  BY <1>1
<1>3. \A j \in 1..m : buf[j] = a + j - 1
  OBVIOUS
<1> HIDE DEF buf
<1>4. \A j \in 1..m : buf[j] \in T
  BY <1>3
<1>5. ASSUME NEW x \in T PROVE \E j \in 1..m : buf[j] = x
  <2>1. x \in a..(a + m - 1)
    OBVIOUS
  <2>2. x - a + 1 \in 1..m /\ a + (x - a + 1) - 1 = x
    BY <2>1
  <2> QED
    BY <1>3, <2>2
<1>6. \A j, k \in 1..m : j < k => buf[j] < buf[k]
  BY <1>3
<1>7. Lists(buf, T)
  BY <1>2, <1>4, <1>5, <1>6 DEF Lists
<1> QED
  BY <1>2, <1>7 DEF buf

LEMMA ReadRunMoves ==
    ASSUME bitmap \in Bitmaps, NEW i, HasPlace(i), NEW n \in Nat \ {0},
           i.container.kind = "run"
    PROVE  LET s == ReadRun(i, n)
               c == i.container
           IN  /\ Len(s.buf) \in 1..n
               /\ \/ \E w \in c.vals :
                        /\ Low(i) < w /\ MovesTo(i, s.it, w)
                        /\ Lists(s.buf, Shown(c, {x \in c.vals : Low(i) <= x /\ x < w}))
                  \/ /\ s.it \in Iterators /\ ~s.it.has_value
                     /\ Lists(s.buf, Shown(c, {x \in c.vals : Low(i) <= x}))
<1> DEFINE c == i.container
           vals == c.vals
           v == Low(i)
           q == i.run_index
           e == RunEnd(vals, q)
           largest == High(c) + e
           left == largest - i.current_value + 1
           num == IF left < n THEN left ELSE n
           next == Wrapped(i.current_value + num)
           moved == [i EXCEPT !.current_value = next]
           buf == [j \in 1..num |-> i.current_value + j - 1]
           s == ReadRun(i, n)
<1>1. /\ vals \in SUBSET LowHalves /\ v \in vals /\ v \in Nat /\ High(c) \in Nat
      /\ i.current_value = High(c) + v /\ i.current_value \in 0..Top /\ c \in AllContainers
  BY PlaceFacts
<1>2. q \in 0..(Runs(vals) - 1) /\ v \in RunBegin(vals, q)..e
      /\ i \in Iterators /\ i.has_value
  BY DEF HasPlace
<1>3. e \in vals /\ e \in Nat /\ e < Lows /\ Runs(vals) \in Nat /\ q \in Int
  BY <1>1, <1>2, RunBounds, LowMembers, AsManyEnds
<1>4. RunBegin(vals, q) \in Int
  BY <1>1, <1>2, RunBounds, LowMembers
<1>5. Top \in Nat /\ High(c) + Lows <= Top + 1
  BY <1>1, HighType
<1>6. /\ s.buf = buf
      /\ s.it = IF next <= largest /\ next # 0 THEN moved
                ELSE IF q + 1 < Runs(vals)
                THEN [moved EXCEPT !.run_index = q + 1,
                        !.current_value = High(c) + RunBegin(vals, q + 1)]
                ELSE [moved EXCEPT !.run_index = q + 1, !.has_value = FALSE]
  <2>1. moved.run_index = q
    BY <1>2 DEF Iterators
  <2> QED
    BY <2>1 DEF ReadRun
<1> HIDE DEF s, e
<1>7. /\ num \in 1..n /\ left = e - v + 1 /\ num <= left
      /\ largest \in 0..Top
  BY <1>1, <1>2, <1>3, <1>4, <1>5, SizeAssumption
<1> HIDE DEF num
<1>8. \A x \in v..e : x \in vals
  <2>1. \A x \in v..e : x \in RunBegin(vals, q)..e
    BY <1>1, <1>2, <1>3, <1>4
  <2> QED
    BY <1>1, <1>2, <2>1, RunFilled DEF e
<1>9. ASSUME NEW w \in Int, v + num <= w, \A x \in vals : v + num <= x => w <= x
      PROVE  LET T == Shown(c, {x \in vals : v <= x /\ x < w})
             IN  Lists(s.buf, T) /\ Len(s.buf) \in 1..n
  <2> DEFINE T == Shown(c, {x \in vals : v <= x /\ x < w})
             a == i.current_value
  <2>1. \A x : x \in T <=> x \in a..(a + num - 1)
    <3>1. ASSUME NEW x \in T PROVE x \in a..(a + num - 1)
      <4>1. PICK u \in vals : x = High(c) + u /\ v <= u /\ u < w
        BY DEF Shown
      <4>2. u \in Int /\ u < v + num
        BY <1>1, <1>7, <1>9, <4>1, LowMembers
      <4> QED
        BY <1>1, <1>7, <4>1, <4>2
    <3>2. ASSUME NEW x \in a..(a + num - 1) PROVE x \in T
      <4>1. x - High(c) \in v..e /\ x - High(c) < w /\ x = High(c) + (x - High(c))
        BY <1>1, <1>3, <1>7, <1>9
      <4>2. x - High(c) \in vals
        BY <1>8, <4>1
      <4>3. v <= x - High(c)
        BY <1>1, <1>3, <4>1
      <4> QED
        BY <4>1, <4>2, <4>3 DEF Shown
    <3> QED
      BY <3>1, <3>2
  <2>2. a \in Nat /\ num \in Nat
    BY <1>1, <1>7
  <2> HIDE DEF T, a
  <2>3. Len([j \in 1..num |-> a + j - 1]) = num /\ Lists([j \in 1..num |-> a + j - 1], T)
    BY <2>1, <2>2, ListsInARow
  <2> QED
    BY <1>6, <1>7, <2>3 DEF T, a
<1>10. CASE num < left
  <2> DEFINE w == v + num
             x == High(c) + w
  <2>1. next = x /\ x <= largest /\ x # 0 /\ x \in Int
    <3>1. num \in Int /\ w \in Int /\ 0 < w /\ w <= e
      BY <1>1, <1>3, <1>7, <1>10
    <3> HIDE DEF w
    <3>2. x \in Int /\ x <= largest /\ 0 < x
      BY <1>1, <1>3, <3>1
    <3>3. i.current_value + num = x
      BY <1>1, <3>1 DEF w
    <3> HIDE DEF x
    <3>4. x \in 0..Top /\ x # 0
      BY <1>5, <1>7, <3>2
    <3> QED
      BY <1>5, <3>2, <3>3, <3>4, WrappedSmall
  <2>2. w \in v..e /\ v < w /\ w \in Int
    BY <1>1, <1>3, <1>7, <1>10
  <2>3. w \in vals /\ w \in RunBegin(vals, q)..e
    BY <1>1, <1>2, <1>3, <1>4, <1>8, <2>2
  <2>4. s.it = [i EXCEPT !.current_value = x]
    BY <1>6, <2>1
  <2> HIDE DEF w, x
  <2>5. s.it = With(i, i.in_container_index, q, x) /\ i.in_container_index \in Int
    <3>1. i \in Iterators /\ i.has_value = TRUE /\ i.in_container_index \in Int
      BY <1>2 DEF Iterators
    <3>2. x \in Int
      BY <2>1 DEF x, w
    <3>3. [i EXCEPT !.current_value = x] = With(i, i.in_container_index, i.run_index, x)
      BY <3>1, <3>2 DEF With, Iterators
    <3> QED
      BY <2>4, <3>1, <3>3
  <2>6. MovesTo(i, s.it, w)
    BY <1>2, <1>3, <2>3, <2>5, WithPlace DEF x, e
  <2>7. Lists(s.buf, Shown(c, {y \in vals : v <= y /\ y < w})) /\ Len(s.buf) \in 1..n
    BY <1>9, <2>2 DEF w
  <2> QED
    BY <2>2, <2>3, <2>6, <2>7 DEF s
<1>11. CASE num = left
  <2>1. v + num = e + 1 /\ i.current_value + num = largest + 1
    BY <1>1, <1>3, <1>7, <1>11
  <2>2. ~(next <= largest /\ next # 0)
    <3>1. CASE largest = Top
      <4>1. Wrapped(Top + 1) = 0
        BY <1>5 DEF Wrapped
      <4> QED
        BY <2>1, <3>1, <4>1
    <3>2. CASE largest # Top
      <4>1. largest + 1 \in 0..Top /\ ~(largest + 1 <= largest)
        BY <1>5, <1>7, <3>2
      <4>2. Wrapped(largest + 1) = largest + 1
        BY <1>5, <4>1, WrappedSmall
      <4> QED
        BY <2>1, <4>1, <4>2
    <3> QED
      BY <3>1, <3>2
  <2>3. next \in Int
    BY <1>5, <1>7, <2>1 DEF Wrapped
  <2>4. CASE q + 1 < Runs(vals)
    <3> DEFINE w == RunBegin(vals, q + 1)
               x == High(c) + w
    <3>1. q + 1 \in 0..(Runs(vals) - 1) /\ q + 1 \in Int
      BY <1>2, <1>3, <2>4
    <3>2. w \in vals /\ w \in RunBegin(vals, q + 1)..RunEnd(vals, q + 1) /\ w \in Int
      <4>1. w \in vals /\ RunEnd(vals, q + 1) \in vals /\ w <= RunEnd(vals, q + 1)
        BY <1>1, <3>1, RunBounds
      <4>2. w \in Int /\ RunEnd(vals, q + 1) \in Int
        BY <1>1, <4>1, LowMembers
      <4> QED
        BY <4>1, <4>2
    <3>3. e < w
      BY <1>1, <1>2, <3>1, RunsApart DEF e
    <3>4. ASSUME NEW u \in vals, v + num <= u PROVE w <= u
      <4>1. e < u
        BY <1>1, <1>3, <2>1, <3>4, LowMembers
      <4> QED
        BY <1>1, <1>2, <4>1, RunsOrdered DEF e
    <3>5. s.it = [moved EXCEPT !.run_index = q + 1, !.current_value = x]
      BY <1>6, <2>2, <2>4
    <3>6. x \in Int
      BY <1>1, <3>2
    <3> HIDE DEF w, x, next
    <3>7. s.it = With(i, i.in_container_index, q + 1, x) /\ i.in_container_index \in Int
      <4>1. i \in Iterators /\ i.has_value = TRUE /\ i.in_container_index \in Int
        BY <1>2 DEF Iterators
      <4>2. s.it = [i EXCEPT !.run_index = q + 1, !.current_value = x]
        BY <3>5
      <4> DEFINE r == q + 1
      <4> HIDE DEF r
      <4>3. [i EXCEPT !.run_index = r, !.current_value = x]
            = With(i, i.in_container_index, r, x)
        BY <4>1 DEF With, Iterators
      <4> QED
        BY <4>1, <4>2, <4>3 DEF r
    <3>8. MovesTo(i, s.it, w)
      BY <1>2, <3>1, <3>2, <3>7, WithPlace DEF x
    <3>9. v < w /\ v + num <= w
      BY <1>1, <1>2, <1>3, <1>4, <2>1, <3>2, <3>3
    <3>10. Lists(s.buf, Shown(c, {y \in vals : v <= y /\ y < w})) /\ Len(s.buf) \in 1..n
      BY <1>9, <3>2, <3>4, <3>9
    <3> QED
      BY <3>2, <3>8, <3>9, <3>10 DEF s
  <2>5. CASE ~(q + 1 < Runs(vals))
    <3>1. s.it = [moved EXCEPT !.run_index = q + 1, !.has_value = FALSE]
      BY <1>6, <2>2, <2>5
    <3>2. q + 1 \in Int
      BY <1>3
    <3> HIDE DEF next
    <3>3. s.it \in Iterators /\ ~s.it.has_value
      BY <1>2, <2>3, <3>1, <3>2 DEF Iterators
    <3>4. \A u \in vals : u <= e /\ u < Lows /\ u \in Int
      <4>1. \A u \in vals : ~(e < u)
        BY <1>1, <1>2, <2>5, RunsOrdered DEF e
      <4> QED
        BY <1>1, <1>3, <4>1, LowMembers
    <3>5. \A u \in vals : v + num <= u => Lows <= u
      BY <1>1, <1>3, <2>1, <3>4
    <3>6. Lows \in Int /\ v + num <= Lows
      BY <1>3, <2>1, SizeAssumption
    <3>7. Lists(s.buf, Shown(c, {y \in vals : v <= y /\ y < Lows})) /\ Len(s.buf) \in 1..n
      BY <1>9, <3>5, <3>6
    <3>8. {y \in vals : v <= y /\ y < Lows} = {y \in vals : v <= y}
      BY <3>4
    <3> QED
      BY <3>3, <3>7, <3>8 DEF s
  <2> QED
    BY <2>4, <2>5
<1>12. num < left \/ num = left
  <2>1. num \in Int /\ left \in Int
    BY <1>1, <1>3, <1>7
  <2> HIDE DEF left
  <2> QED
    BY <1>7, <2>1
<1> QED
  BY <1>10, <1>11, <1>12

\* What a round copies, whatever the container's kind: the values from the
\* iterator's on, up to the one it moves to or to the container's last.
LEMMA ReadSomeMoves ==
    ASSUME bitmap \in Bitmaps, NEW i, HasPlace(i), NEW n \in Nat \ {0}
    PROVE  LET s == ReadSome(i, n)
               c == i.container
           IN  /\ Len(s.buf) \in 1..n
               /\ \/ \E w \in c.vals :
                        /\ Low(i) < w /\ MovesTo(i, s.it, w)
                        /\ Lists(s.buf, Shown(c, {x \in c.vals : Low(i) <= x /\ x < w}))
                  \/ /\ s.it \in Iterators /\ ~s.it.has_value
                     /\ Lists(s.buf, Shown(c, {x \in c.vals : Low(i) <= x}))
<1> DEFINE c == i.container
           vals == c.vals
           v == Low(i)
           L == {u \in vals : v <= u}
           s == ReadSome(i, n)
<1>1. /\ vals \in SUBSET LowHalves /\ v \in vals /\ v \in Int /\ High(c) \in Nat
      /\ c.kind \in {"run", "array", "bitset"} /\ i \in Iterators
  BY PlaceFacts DEF HasPlace
<1>2. L \in SUBSET vals /\ L # {} /\ \A u \in vals : u \in Int
  BY <1>1, LowMembers
<1>3. CASE c.kind = "run"
  <2>1. ReadSome(i, n) = ReadRun(i, n)
    BY <1>3 DEF ReadSome
  <2> QED
    BY <1>3, <2>1, ReadRunMoves
<1>4. CASE c.kind # "run"
  <2>1. s = ReadSet(i, n, L)
    <3>1. CASE c.kind = "bitset"
      <4>1. Above(vals, i.in_container_index) = L
        BY <1>1, <1>2, <3>1 DEF Above, HasPlace
      <4> QED
        BY <3>1, <4>1 DEF ReadSome
    <3>2. CASE c.kind = "array"
      <4>1. \A u \in vals : v <= u <=> Place(vals, u) >= Place(vals, v)
        <5>1. ASSUME NEW u \in vals PROVE v <= u <=> Place(vals, u) >= Place(vals, v)
          <6>1. Place(vals, u) \in Nat /\ Place(vals, v) \in Nat /\ u \in Int
            BY <1>1, <1>2, PlaceNatural
          <6>2. u < v <=> Place(vals, u) < Place(vals, v)
            BY <1>1, PlaceOrder
          <6> QED
            BY <1>1, <6>1, <6>2
        <5> QED
          BY <5>1
      <4>2. i.in_container_index = Place(vals, v)
        BY <3>2 DEF HasPlace
      <4>3. {u \in vals : Place(vals, u) >= i.in_container_index} = L
        BY <4>1, <4>2
      <4> QED
        BY <3>2, <4>3 DEF ReadSome
    <3> QED
      BY <1>1, <1>4, <3>1, <3>2
  <2> HIDE DEF s
  <2>2. /\ Len(s.buf) \in 1..n
        /\ \/ \E w \in L : /\ MovesTo(i, s.it, w)
                           /\ Lists(s.buf, Shown(c, {x \in L : x < w}))
           \/ /\ s.it = [i EXCEPT !.has_value = FALSE]
              /\ Lists(s.buf, Shown(c, L))
    <3> HIDE DEF L
    <3> QED
      BY <1>2, <2>1, ReadSetMoves
  <2>3. CASE \E w \in L : /\ MovesTo(i, s.it, w)
                          /\ Lists(s.buf, Shown(c, {x \in L : x < w}))
    <3>1. PICK w \in L : /\ MovesTo(i, s.it, w)
                         /\ Lists(s.buf, Shown(c, {x \in L : x < w}))
      BY <2>3
    <3>2. {x \in L : x < w} = {x \in vals : v <= x /\ x < w}
      OBVIOUS
    <3>3. s.buf[1] \in Shown(c, {x \in L : x < w})
      <4> DEFINE T == Shown(c, {x \in L : x < w})
      <4>1. Lists(s.buf, T) /\ 1 \in 1..Len(s.buf)
        BY <2>2, <3>1
      <4> HIDE DEF T
      <4>2. s.buf[1] \in T
        BY <4>1 DEF Lists
      <4> QED
        BY <4>2 DEF T
    <3>4. \E x \in L : x < w
      BY <3>3 DEF Shown
    <3>5. w \in vals /\ v < w
      BY <1>1, <1>2, <3>4
    <3>6. Lists(s.buf, Shown(c, {x \in vals : v <= x /\ x < w}))
      BY <3>1, <3>2
    <3> QED
      BY <2>2, <3>1, <3>5, <3>6 DEF s
  <2>4. CASE s.it = [i EXCEPT !.has_value = FALSE] /\ Lists(s.buf, Shown(c, L))
    <3>1. s.it \in Iterators /\ ~s.it.has_value
      BY <1>1, <2>4 DEF Iterators
    <3> QED
      BY <2>2, <2>4, <3>1 DEF s
  <2> QED
    BY <2>2, <2>3, <2>4
<1> QED
  BY <1>3, <1>4
-------------------------------------------------------------------------------
\* The rounds of a read.
Rounds == [it : Iterators, buf : Seq(Nat), left : Nat]

\* A round leaves the iterator where its value is, and copies at least one value
\* unless there is none to copy.
LEMMA ReadRoundPlaced ==
    ASSUME bitmap \in Bitmaps, NEW r, r \in Rounds, Placed(r.it)
    PROVE  /\ ReadRound(r) \in Rounds
           /\ Placed(ReadRound(r).it)
<1>1. CASE ~r.it.has_value \/ r.left = 0
  BY <1>1 DEF ReadRound
<1>2. CASE r.it.has_value /\ r.left # 0
  <2> DEFINE s == ReadSome(r.it, r.left)
             j == IF s.it.has_value THEN s.it ELSE LoadFirst(s.it, r.it.container_index + 1)
  <2>1. HasPlace(r.it) /\ r.left \in Nat \ {0} /\ r.buf \in Seq(Nat)
    BY <1>2 DEF Placed, HasNone, Rounds
  <2>2. /\ Len(s.buf) \in 1..r.left
        /\ s.buf \in Seq(Nat)
        /\ HasPlace(s.it) \/ (s.it \in Iterators /\ ~s.it.has_value)
    BY <2>1, ReadSomeMoves DEF MovesTo, Lists
  <2>3. ReadRound(r) = [it |-> j, buf |-> r.buf \o s.buf, left |-> r.left - Len(s.buf)]
    BY <1>2 DEF ReadRound
  <2>4. r.it.container_index + 1 \in 0..Size /\ r.it.container_index + 1 \in -1..Size
    BY <2>1, BitmapType DEF HasPlace
  <2> HIDE DEF s
  <2>5. Placed(j) /\ j \in Iterators
    <3>1. CASE s.it.has_value
      BY <2>2, <3>1 DEF Placed, HasPlace
    <3>2. CASE ~s.it.has_value
      <4>1. s.it \in Iterators /\ j = LoadFirst(s.it, r.it.container_index + 1)
        BY <2>2, <3>2 DEF HasPlace
      <4>2. Placed(j)
        BY <2>4, <4>1, LoadPlaced
      <4> QED
        BY <4>2 DEF Placed, HasPlace, HasNone
    <3> QED
      BY <3>1, <3>2
  <2> HIDE DEF j
  <2>6. r.buf \o s.buf \in Seq(Nat) /\ r.left - Len(s.buf) \in Nat
    BY <2>1, <2>2
  <2> QED
    BY <2>3, <2>5, <2>6 DEF Rounds
<1> QED
  BY <1>1, <1>2
-------------------------------------------------------------------------------
\* The rounds of ReadFrom(i, n), up to round k.
Begun(i, n) == [it |-> i, buf |-> <<>>, left |-> n]
Upto(i, n, k, g) == g = [j \in 0..k |-> IF j = 0 THEN Begun(i, n) ELSE ReadRound(g[j - 1])]

LEMMA SomeRounds ==
    ASSUME NEW i, NEW n \in Nat, NEW k \in Nat
    PROVE  \E g : Upto(i, n, k, g)
<1> DEFINE Bad == {m \in Nat : ~\E g : Upto(i, n, m, g)}
<1>1. SUFFICES ASSUME Bad # {} PROVE FALSE
  OBVIOUS
<1>2. PICK x \in Bad : \A y \in Bad : x <= y
  BY <1>1, LeastOfNaturals
<1>3. CASE x = 0
  <2>1. Upto(i, n, 0, [j \in 0..0 |-> Begun(i, n)])
    BY DEF Upto
  <2> QED
    BY <1>2, <1>3, <2>1
<1>4. CASE x # 0
  <2>1. x - 1 \in Nat /\ x - 1 \notin Bad
    BY <1>2, <1>4
  <2>2. PICK g : Upto(i, n, x - 1, g)
    BY <2>1
  <2> DEFINE h == [j \in 0..x |-> IF j = x THEN ReadRound(g[x - 1]) ELSE g[j]]
  <2>3. h = [j \in 0..x |-> h[j]]
    OBVIOUS
  <2>4. ASSUME NEW j \in 0..x
        PROVE  h[j] = IF j = 0 THEN Begun(i, n) ELSE ReadRound(h[j - 1])
    <3>1. CASE j = x
      BY <1>4, <2>1, <3>1
    <3>2. CASE j # x
      BY <2>1, <2>2, <3>2 DEF Upto
    <3> QED
      BY <3>1, <3>2
  <2> HIDE DEF h
  <2>5. Upto(i, n, x, h)
    BY <2>3, <2>4 DEF Upto
  <2> QED
    BY <1>2, <2>5
<1> QED
  BY <1>3, <1>4

\* What ReadFrom computes: the last of n rounds.
LEMMA ReadFromRounds ==
    ASSUME NEW i, NEW n \in Nat
    PROVE  \E g : /\ g[0] = Begun(i, n)
                  /\ \A k \in 1..n : g[k] = ReadRound(g[k - 1])
                  /\ ReadFrom(i, n) = g[n]
<1> DEFINE g == CHOOSE h : Upto(i, n, n, h)
<1>1. Upto(i, n, n, g)
  BY SomeRounds
<1>2. ReadFrom(i, n) = g[n]
  BY DEF ReadFrom, Upto, Begun
<1> HIDE DEF g
<1>3. g[0] = Begun(i, n) /\ \A k \in 1..n : g[k] = ReadRound(g[k - 1])
  BY <1>1 DEF Upto
<1> QED
  BY <1>2, <1>3

\* Reading leaves an iterator where its value is.
LEMMA ReadPlaced ==
    ASSUME bitmap \in Bitmaps, NEW i, Placed(i), NEW n \in Nat
    PROVE  Placed(ReadFrom(i, n).it)
<1>1. PICK g : /\ g[0] = Begun(i, n)
               /\ \A k \in 1..n : g[k] = ReadRound(g[k - 1])
               /\ ReadFrom(i, n) = g[n]
  BY ReadFromRounds
<1> DEFINE Bad == {k \in Nat : k <= n /\ ~(g[k] \in Rounds /\ Placed(g[k].it))}
<1>2. SUFFICES ASSUME Bad # {} PROVE FALSE
  BY <1>1
<1>3. PICK x \in Bad : \A y \in Bad : x <= y
  BY <1>2, LeastOfNaturals
<1>4. x # 0
  <2>1. i \in Iterators
    BY DEF Placed, HasPlace, HasNone
  <2>2. Begun(i, n) \in Rounds /\ Begun(i, n).it = i
    BY <2>1 DEF Begun, Rounds
  <2> QED
    BY <1>1, <1>3, <2>2
<1>5. x \in 1..n /\ x - 1 \in Nat /\ x - 1 <= n /\ ~(x - 1 \in Bad)
  BY <1>3, <1>4
<1>6. g[x - 1] \in Rounds /\ Placed(g[x - 1].it)
  BY <1>5
<1>7. g[x] \in Rounds /\ Placed(g[x].it)
  BY <1>1, <1>5, <1>6, ReadRoundPlaced
<1> QED
  BY <1>3, <1>7
-------------------------------------------------------------------------------
\* The inductive invariant: the bitmap stays a bitmap, and the iterator keeps its
\* place in it.
PlaceInv == bitmap \in Bitmaps /\ Placed(it)

LEMMA PlaceInvInit == Init => PlaceInv
<1>1. SUFFICES ASSUME Init PROVE PlaceInv
  OBVIOUS
<1>2. bitmap \in Bitmaps /\ it \in {LoadFirst(Raw, 0), LoadLast(Raw, Size - 1)}
  BY <1>1 DEF Init
<1>3. Raw \in Iterators
  BY DEF Raw, Iterators
<1>4. Size \in Nat /\ 0 \in -1..Size /\ Size - 1 \in -1..Size
  BY <1>2, BitmapType
<1> QED
  BY <1>2, <1>3, <1>4, LoadPlaced DEF PlaceInv

LEMMA PlaceInvNext == PlaceInv /\ [Next]_vars => PlaceInv'
<1>1. SUFFICES ASSUME PlaceInv, [Next]_vars PROVE PlaceInv'
  OBVIOUS
<1>2. bitmap \in Bitmaps /\ Placed(it) /\ it \in Iterators /\ Size \in Nat
  BY <1>1, BitmapType DEF PlaceInv, Placed, HasPlace, HasNone
<1>3. ASSUME bitmap' = bitmap, Placed(it') PROVE PlaceInv'
  BY <1>2, <1>3 DEF PlaceInv, Placed, HasPlace, HasNone, Size
<1>4. ASSUME NEW op, NEW arg, NEW i, NEW buf, Called(op, arg, i, buf), Placed(i)
      PROVE  PlaceInv'
  BY <1>3, <1>4 DEF Called
<1>5. CASE InitFirst
  <2>1. Placed(LoadFirst(it, 0))
    BY <1>2, LoadPlaced
  <2> QED
    BY <1>4, <1>5, <2>1 DEF InitFirst
<1>6. CASE InitLast
  <2>1. Placed(LoadLast(it, Size - 1))
    BY <1>2, LoadPlaced
  <2> QED
    BY <1>4, <1>6, <2>1 DEF InitLast
<1>7. ASSUME NEW val \in 0..Top, MoveEqualOrLarger(val) PROVE PlaceInv'
  <2>1. Placed(Sought(it, val))
    BY <1>2, SoughtPlaced
  <2> QED
    BY <1>4, <1>7, <2>1 DEF MoveEqualOrLarger
<1>8. ASSUME NEW n \in 0..MaxCount, Read(n) PROVE PlaceInv'
  <2>1. Placed(ReadFrom(it, n).it)
    BY <1>2, BoundAssumption, ReadPlaced
  <2> QED
    BY <1>4, <1>8, <2>1 DEF Read
<1>9. CASE Forward
  <2>1. Advance /\ ~(Stopped(it) /\ it.current_value = 0)
    BY <1>9 DEF Forward, Stopped, StoppedInside
  <2>2. Placed(Advanced(it))
    BY <1>2, <2>1, AdvancedPlaced
  <2> QED
    BY <1>4, <2>1, <2>2 DEF Advance
<1>10. CASE Backward
  <2>1. Previous /\ ~(Stopped(it) /\ it.current_value = Top)
    BY <1>10 DEF Backward, Stopped, StoppedInside
  <2>2. Placed(Preceded(it))
    BY <1>2, <2>1, PrecededPlaced
  <2> QED
    BY <1>4, <2>1, <2>2 DEF Previous
<1>11. CASE UNCHANGED vars
  BY <1>2, <1>3, <1>11 DEF vars
<1> QED
  BY <1>1, <1>5, <1>6, <1>7, <1>8, <1>9, <1>10, <1>11 DEF Next, Jump

LEMMA PlacedInStep == PlaceInv => InStep
<1>1. SUFFICES ASSUME PlaceInv PROVE InStep
  OBVIOUS
<1>2. bitmap \in Bitmaps /\ Placed(it) /\ Size \in Nat
  BY <1>1, BitmapType DEF PlaceInv
<1>3. CASE HasPlace(it)
  <2>1. it.container_index \in -1..Size
    BY <1>2, <1>3 DEF HasPlace
  <2> QED
    BY <1>3, <2>1 DEF HasPlace, InStep, Low
<1>4. CASE HasNone(it)
  BY <1>4 DEF HasNone, InStep
<1> QED
  BY <1>2, <1>3, <1>4 DEF Placed

\* However the calls on an iterator are mixed, by a caller who does not turn round after
\* it has run out at zero or UINT32_MAX in a run, it stays in or next to its bitmap,
\* and with a value it keeps the container of its index and the place of that
\* value in it: the steps of roaring_advance_uint32_iterator,
\* roaring_previous_uint32_iterator, roaring_move_uint32_iterator_equalorlarger
\* and roaring_read_uint32_iterator never update one of the two only.
THEOREM IteratorInStep == Spec => []InStep
<1>1. Init => PlaceInv
  BY PlaceInvInit
<1>2. PlaceInv /\ [Next]_vars => PlaceInv'
  BY PlaceInvNext
<1>3. PlaceInv => InStep
  BY PlacedInStep
<1> QED
  BY <1>1, <1>2, <1>3, PTL DEF Spec
-------------------------------------------------------------------------------
(* The iterator as a cursor *)

\* What an iterator stands for, of any iterator.
StandingOf(i) == IF i.has_value THEN i.current_value
                 ELSE IF i.container_index < 0 \/ (Stopped(i) /\ i.current_value = 0)
                 THEN -1
                 ELSE Top + 1

\* Number x is a value of container n of the bitmap, from 1.
ValueIn(x, n) == \E u \in bitmap[n].vals : x = High(bitmap[n]) + u

LEMMA TopType ==
    Top \in Nat /\ Top > 0 /\ Lows \in Nat /\ Lows > 1
<1>1. \A a, b \in Nat : a >= 1 /\ b >= 2 => a * b >= 2 /\ a * b \in Nat
  OBVIOUS
<1> QED
  BY <1>1, SizeAssumption DEF Top

LEMMA ValuesIn ==
    ASSUME bitmap \in Bitmaps
    PROVE  \A x : x \in Values <=> \E n \in 1..Size : ValueIn(x, n)
<1>1. \E m \in Nat : bitmap \in [1..m -> AllContainers] /\ Size = m
  <2>1. PICK n \in 0..MaxSize : bitmap \in [1..n -> AllContainers]
    BY DEF Bitmaps, AllContainers
  <2>2. n \in Nat
    BY BoundAssumption, <2>1
  <2>3. Len(bitmap) = n
    BY <2>1, <2>2
  <2> QED
    BY <2>1, <2>2, <2>3 DEF Size
<1>2. ToSet(bitmap) = {bitmap[n] : n \in 1..Size}
  BY <1>1 DEF ToSet
<1>3. ASSUME NEW x PROVE x \in Values <=> \E n \in 1..Size : ValueIn(x, n)
  <2>1. x \in Values <=> \E c \in ToSet(bitmap) : x \in {High(c) + v : v \in c.vals}
    BY DEF Values
  <2>2. x \in Values <=> \E n \in 1..Size : x \in {High(bitmap[n]) + v : v \in bitmap[n].vals}
    BY <1>2, <2>1
  <2> QED
    BY <2>2 DEF ValueIn
<1> QED
  BY <1>3

\* The values of a container lie between its key's first number and the next key's.
LEMMA ValueBounds ==
    ASSUME bitmap \in Bitmaps, NEW n \in 1..Size, NEW x, ValueIn(x, n)
    PROVE  /\ x \in 0..Top
           /\ High(bitmap[n]) <= x /\ x < High(bitmap[n]) + Lows
           /\ x - High(bitmap[n]) \in bitmap[n].vals
<1>1. bitmap[n] \in AllContainers
  BY BitmapType
<1>2. bitmap[n].vals \in SUBSET LowHalves
  BY <1>1, ContainerType
<1>3. High(bitmap[n]) \in Nat /\ High(bitmap[n]) + Lows <= Top + 1 /\ Top \in Nat /\ Lows \in Nat
  BY <1>1, HighType, SizeAssumption
<1>4. PICK u \in bitmap[n].vals : x = High(bitmap[n]) + u
  BY DEF ValueIn
<1>5. u \in Nat /\ u < Lows
  BY <1>2, <1>4, LowMembers
<1>6. x - High(bitmap[n]) = u
  BY <1>3, <1>4, <1>5
<1> QED
  BY <1>3, <1>4, <1>5, <1>6

\* The numbers of a later container's key are above all of an earlier one's.
LEMMA KeysApart ==
    ASSUME bitmap \in Bitmaps, NEW m \in 1..Size, NEW n \in 1..Size, m < n
    PROVE  High(bitmap[m]) + Lows <= High(bitmap[n])
<1>1. bitmap[m].key \in Nat /\ bitmap[n].key \in Nat /\ Lows \in Nat
  BY BitmapType, ContainerType, SizeAssumption
<1>2. bitmap[m].key < bitmap[n].key
  BY DEF Bitmaps, Ordered, Size
<1>3. \A a, b, l \in Nat : a < b => a * l + l <= b * l
  <2>1. \A a, b, l \in Nat : a <= b => a * l <= b * l
    OBVIOUS
  <2>2. \A a, l \in Nat : (a + 1) * l = a * l + l
    OBVIOUS
  <2> QED
    BY <2>1, <2>2
<1> QED
  BY <1>1, <1>2, <1>3 DEF High

LEMMA ValuesApart ==
    ASSUME bitmap \in Bitmaps, NEW m \in 1..Size, NEW n \in 1..Size, m < n,
           NEW x, ValueIn(x, m), NEW y, ValueIn(y, n)
    PROVE  x < y
<1>1. x \in Int /\ y \in Int /\ High(bitmap[m]) \in Int /\ High(bitmap[n]) \in Int /\ Lows \in Int
  BY BitmapType, HighType, ValueBounds, SizeAssumption
<1>2. x < High(bitmap[m]) + Lows /\ High(bitmap[n]) <= y
  BY ValueBounds
<1> QED
  BY <1>1, <1>2, KeysApart
-------------------------------------------------------------------------------
\* Number w is the nearest value from v on, upwards or downwards.
IsUp(v, w) == /\ w \in Values \cup {Top + 1} /\ w >= v
              /\ \A x \in Values : x >= v => w <= x
IsDown(v, w) == /\ w \in Values \cup {-1} /\ w <= v
                /\ \A x \in Values : x <= v => w >= x

LEMMA ValuesType ==
    ASSUME bitmap \in Bitmaps
    PROVE  \A x \in Values : x \in 0..Top
BY ValuesIn, ValueBounds

LEMMA UpIs ==
    ASSUME bitmap \in Bitmaps, NEW v \in Int, NEW w, IsUp(v, w)
    PROVE  Cursor!Up(v) = w
<1>1. Top \in Int /\ \A x \in Values : x \in Int /\ 0 <= x /\ x <= Top
  BY ValuesType, SizeAssumption DEF Top
<1>2. ASSUME NEW u \in Values \cup {Top + 1}, u >= v, \A x \in Values : x >= v => u <= x
      PROVE  u = w
  BY <1>1, <1>2 DEF IsUp
<1>3. w \in Values \cup {Top + 1} /\ w >= v /\ \A x \in Values : x >= v => w <= x
  BY DEF IsUp
<1> QED
  BY <1>2, <1>3 DEF Cursor!Up, Cursor!After

LEMMA DownIs ==
    ASSUME bitmap \in Bitmaps, NEW v \in Int, NEW w, IsDown(v, w)
    PROVE  Cursor!Down(v) = w
<1>1. Top \in Int /\ \A x \in Values : x \in Int /\ 0 <= x /\ x <= Top
  BY ValuesType, SizeAssumption DEF Top
<1>2. ASSUME NEW u \in Values \cup {-1}, u <= v, \A x \in Values : x <= v => u >= x
      PROVE  u = w
  BY <1>1, <1>2 DEF IsDown
<1>3. w \in Values \cup {-1} /\ w <= v /\ \A x \in Values : x <= v => w >= x
  BY DEF IsDown
<1> QED
  BY <1>2, <1>3 DEF Cursor!Down, Cursor!Before
-------------------------------------------------------------------------------
\* An iterator with a place stands for a value of its container.
LEMMA PlaceStands ==
    ASSUME bitmap \in Bitmaps, NEW i, HasPlace(i)
    PROVE  /\ i.container_index + 1 \in 1..Size
           /\ i.container = bitmap[i.container_index + 1]
           /\ StandingOf(i) = i.current_value
           /\ ValueIn(i.current_value, i.container_index + 1)
           /\ i.current_value \in Values /\ i.current_value \in 0..Top
<1>1. /\ i.container_index \in 0..(Size - 1) /\ i.container = bitmap[i.container_index + 1]
      /\ i.has_value
  BY DEF HasPlace
<1>2. i.container_index + 1 \in 1..Size
  BY <1>1, BitmapType
<1>3. /\ i.current_value = High(i.container) + Low(i) /\ Low(i) \in i.container.vals
      /\ i.current_value \in 0..Top
  BY PlaceFacts
<1>4. ValueIn(i.current_value, i.container_index + 1)
  BY <1>1, <1>3 DEF ValueIn
<1> QED
  BY <1>1, <1>2, <1>3, <1>4, ValuesIn DEF StandingOf

\* An iterator without a value stands for none.
LEMMA NoneStands ==
    ASSUME bitmap \in Bitmaps, NEW i, HasNone(i)
    PROVE  /\ StandingOf(i) \in {-1, Top + 1}
           /\ StandingOf(i) \notin Values
           /\ i.container_index = -1 => StandingOf(i) = -1
           /\ i.container_index = Size => StandingOf(i) = Top + 1
           /\ Stopped(i) /\ i.current_value = 0 => StandingOf(i) = -1
           /\ Stopped(i) /\ i.current_value = Top => StandingOf(i) = Top + 1
<1>1. /\ Size \in Nat /\ Top \in Nat /\ Top > 0
      /\ i.container_index \in -1..Size /\ ~i.has_value
  BY BitmapType, TopType DEF HasNone
<1>2. StandingOf(i) \in {-1, Top + 1}
  BY <1>1 DEF StandingOf
<1>3. StandingOf(i) \notin Values
  BY <1>1, <1>2, ValuesType
<1>4. i.container_index = -1 => StandingOf(i) = -1
  BY <1>1 DEF StandingOf
<1>5. i.container_index = Size => StandingOf(i) = Top + 1
  BY <1>1 DEF StandingOf, Stopped
<1>6. Stopped(i) /\ i.current_value = 0 => StandingOf(i) = -1
  BY <1>1 DEF StandingOf
<1>7. Stopped(i) /\ i.current_value = Top => StandingOf(i) = Top + 1
  BY <1>1 DEF StandingOf, Stopped
<1> QED
  BY <1>2, <1>3, <1>4, <1>5, <1>6, <1>7

\* Where a value that is the least of its container from v on is the next one, if
\* the containers before that one have smaller values only.
LEMMA UpWithin ==
    ASSUME bitmap \in Bitmaps, NEW v \in Int, NEW n \in 1..Size, NEW w, ValueIn(w, n),
           w >= v, \A x : ValueIn(x, n) /\ x >= v => w <= x,
           \A m \in 1..Size : m < n => \A x : ValueIn(x, m) => x < v
    PROVE  IsUp(v, w)
<1>1. w \in Values
  BY ValuesIn
<1>2. ASSUME NEW x \in Values, x >= v PROVE w <= x
  <2>1. PICK m \in 1..Size : ValueIn(x, m)
    BY ValuesIn
  <2>2. x \in Int /\ w \in Int /\ Size \in Nat
    BY <1>1, ValuesType, BitmapType
  <2>3. ~(m < n)
    BY <1>2, <2>1, <2>2
  <2>4. CASE m = n
    BY <1>2, <2>1, <2>4
  <2>5. CASE n < m
    BY <2>1, <2>2, <2>5, ValuesApart
  <2> QED
    BY <2>2, <2>3, <2>4, <2>5
<1> QED
  BY <1>1, <1>2 DEF IsUp

LEMMA DownWithin ==
    ASSUME bitmap \in Bitmaps, NEW v \in Int, NEW n \in 1..Size, NEW w, ValueIn(w, n),
           w <= v, \A x : ValueIn(x, n) /\ x <= v => w >= x,
           \A m \in 1..Size : n < m => \A x : ValueIn(x, m) => x > v
    PROVE  IsDown(v, w)
<1>1. w \in Values
  BY ValuesIn
<1>2. ASSUME NEW x \in Values, x <= v PROVE w >= x
  <2>1. PICK m \in 1..Size : ValueIn(x, m)
    BY ValuesIn
  <2>2. x \in Int /\ w \in Int /\ Size \in Nat
    BY <1>1, ValuesType, BitmapType
  <2>3. ~(n < m)
    BY <1>2, <2>1, <2>2
  <2>4. CASE m = n
    BY <1>2, <2>1, <2>4
  <2>5. CASE m < n
    BY <2>1, <2>2, <2>5, ValuesApart
  <2> QED
    BY <2>2, <2>3, <2>4, <2>5
<1> QED
  BY <1>1, <1>2 DEF IsDown

\* Loading the first value of container n, from 0, moves to the first value of the
\* containers from there on; loading the last one, to the last value of those up to
\* there.
LEMMA FirstStands ==
    ASSUME bitmap \in Bitmaps, NEW i \in Iterators, NEW n \in 0..Size, NEW v \in Int,
           v <= Top + 1,
           \A m \in 1..Size : \A x : ValueIn(x, m) => (x >= v <=> m > n)
    PROVE  IsUp(v, StandingOf(LoadFirst(i, n)))
<1> DEFINE j == LoadFirst(i, n)
<1>1. Size \in Nat /\ n \in Int
  BY BitmapType
<1> HIDE DEF j
<1>2. CASE n = Size
  <2>1. HasNone(j) /\ j.container_index = Size
    BY <1>1, <1>2, LoadOutside DEF j
  <2>2. StandingOf(j) = Top + 1
    BY <2>1, NoneStands
  <2>3. ASSUME NEW x \in Values, x >= v PROVE FALSE
    <3>1. PICK m \in 1..Size : ValueIn(x, m)
      BY <2>3, ValuesIn
    <3> QED
      BY <1>1, <1>2, <2>3, <3>1
  <2> QED
    BY <2>2, <2>3, SizeAssumption DEF IsUp, j, Top
<1>3. CASE n # Size
  <2> DEFINE vals == bitmap[n + 1].vals
  <2>1. n \in 0..(Size - 1) /\ n + 1 \in 1..Size
    BY <1>1, <1>3
  <2>2. HasPlace(j) /\ j.container_index = n /\ Low(j) = Least(vals)
    BY <2>1, LoadFirstInside DEF j
  <2>3. ValueIn(j.current_value, n + 1) /\ StandingOf(j) = j.current_value
    BY <2>2, PlaceStands
  <2>4. /\ vals \in SUBSET LowHalves /\ vals # {} /\ High(bitmap[n + 1]) \in Nat
        /\ j.current_value = High(bitmap[n + 1]) + Low(j)
    BY <2>1, <2>2, InContainer, PlaceFacts DEF HasPlace
  <2>5. \A x : ValueIn(x, n + 1) => j.current_value <= x
    <3>1. \A u \in vals : Least(vals) <= u /\ u \in Int /\ Least(vals) \in Int
      BY <2>4, LeastMember, LowMembers
    <3> QED
      BY <2>2, <2>4, <3>1 DEF ValueIn
  <2>6. j.current_value >= v
    BY <1>1, <2>1, <2>3
  <2>7. \A m \in 1..Size : m < n + 1 => \A x : ValueIn(x, m) => x < v
    <3>1. \A m \in 1..Size : \A x : ValueIn(x, m) => x \in Int
      BY ValueBounds
    <3> QED
      BY <1>1, <3>1
  <2> QED
    BY <2>1, <2>3, <2>5, <2>6, <2>7, UpWithin DEF j
<1> QED
  BY <1>2, <1>3

LEMMA LastStands ==
    ASSUME bitmap \in Bitmaps, NEW i \in Iterators, NEW n \in -1..(Size - 1), NEW v \in Int,
           v >= -1,
           \A m \in 1..Size : \A x : ValueIn(x, m) => (x <= v <=> m <= n + 1)
    PROVE  IsDown(v, StandingOf(LoadLast(i, n)))
<1> DEFINE j == LoadLast(i, n)
<1>1. Size \in Nat /\ n \in Int
  BY BitmapType
<1> HIDE DEF j
<1>2. CASE n = -1
  <2>1. HasNone(j) /\ j.container_index = -1
    BY <1>1, <1>2, LoadOutside DEF j
  <2>2. StandingOf(j) = -1
    BY <2>1, NoneStands
  <2>3. ASSUME NEW x \in Values, x <= v PROVE FALSE
    <3>1. PICK m \in 1..Size : ValueIn(x, m)
      BY <2>3, ValuesIn
    <3> QED
      BY <1>1, <1>2, <2>3, <3>1
  <2> QED
    BY <2>2, <2>3 DEF IsDown, j
<1>3. CASE n # -1
  <2> DEFINE vals == bitmap[n + 1].vals
  <2>1. n \in 0..(Size - 1) /\ n + 1 \in 1..Size
    BY <1>1, <1>3
  <2>2. HasPlace(j) /\ j.container_index = n /\ Low(j) = Greatest(vals)
    BY <2>1, LoadLastInside DEF j
  <2>3. ValueIn(j.current_value, n + 1) /\ StandingOf(j) = j.current_value
    BY <2>2, PlaceStands
  <2>4. /\ vals \in SUBSET LowHalves /\ vals # {} /\ High(bitmap[n + 1]) \in Nat
        /\ j.current_value = High(bitmap[n + 1]) + Low(j)
    BY <2>1, <2>2, InContainer, PlaceFacts DEF HasPlace
  <2>5. \A x : ValueIn(x, n + 1) => j.current_value >= x
    <3>1. \A u \in vals : Greatest(vals) >= u /\ u \in Int /\ Greatest(vals) \in Int
      BY <2>4, GreatestMember, LowMembers
    <3> QED
      BY <2>2, <2>4, <3>1 DEF ValueIn
  <2>6. j.current_value <= v
    BY <1>1, <2>1, <2>3
  <2>7. \A m \in 1..Size : n + 1 < m => \A x : ValueIn(x, m) => x > v
    <3>1. \A m \in 1..Size : \A x : ValueIn(x, m) => x \in Int
      BY ValueBounds
    <3> QED
      BY <1>1, <3>1
  <2> QED
    BY <2>1, <2>3, <2>5, <2>6, <2>7, DownWithin DEF j
<1> QED
  BY <1>2, <1>3
-------------------------------------------------------------------------------
\* Where a call leaves the cursor that iterator i stands for.
AdvancedTo(i, w) == w = IF StandingOf(i) = Top + 1 THEN Top + 1
                        ELSE Cursor!Up(StandingOf(i) + 1)
PrecededTo(i, w) == w = IF StandingOf(i) = -1 THEN -1
                        ELSE Cursor!Down(StandingOf(i) - 1)

LEMMA StartStands ==
    ASSUME bitmap \in Bitmaps, NEW i \in Iterators
    PROVE  StandingOf(LoadFirst(i, 0)) = Cursor!Up(0)
<1>1. Size \in Nat /\ Top \in Int /\ 0 <= Top + 1
  BY BitmapType, TopType
<1>2. \A m \in 1..Size : \A x : ValueIn(x, m) => (x >= 0 <=> m > 0)
  BY <1>1, ValueBounds
<1>3. IsUp(0, StandingOf(LoadFirst(i, 0)))
  BY <1>1, <1>2, FirstStands
<1> QED
  BY <1>3, UpIs

LEMMA FinishStands ==
    ASSUME bitmap \in Bitmaps, NEW i \in Iterators
    PROVE  StandingOf(LoadLast(i, Size - 1)) = Cursor!Down(Top)
<1>1. Size \in Nat /\ Size - 1 \in -1..(Size - 1) /\ Top \in Int /\ Top >= -1
  BY BitmapType, TopType
<1>2. \A m \in 1..Size : \A x : ValueIn(x, m) => (x <= Top <=> m <= (Size - 1) + 1)
  BY <1>1, ValueBounds
<1>3. IsDown(Top, StandingOf(LoadLast(i, Size - 1)))
  BY <1>1, <1>2, LastStands
<1> QED
  BY <1>1, <1>3, DownIs

LEMMA AdvancedStands ==
    ASSUME bitmap \in Bitmaps, NEW i, Placed(i), ~(Stopped(i) /\ i.current_value = 0)
    PROVE  AdvancedTo(i, StandingOf(Advanced(i)))
<1>1. Size \in Nat /\ Top \in Nat /\ Top > 0 /\ i \in Iterators
  BY BitmapType, TopType DEF Placed, HasPlace, HasNone
<1> DEFINE j == Advanced(i)
           at == i.current_value
           n == i.container_index + 1
           vals == i.container.vals
<1>2. CASE HasPlace(i)
  <2>1. /\ n \in 1..Size /\ i.container = bitmap[n] /\ StandingOf(i) = at
        /\ ValueIn(at, n) /\ at \in 0..Top
    BY <1>2, PlaceStands
  <2>2. /\ vals \in SUBSET LowHalves /\ High(i.container) \in Nat /\ Low(i) \in Nat
        /\ at = High(i.container) + Low(i) /\ i.container_index = n - 1
    BY <1>1, <1>2, PlaceFacts DEF Iterators
  <2>3. \A u \in vals : u \in Int
    BY <2>2, LowMembers
  <2> HIDE DEF at, n
  <2>4. SUFFICES IsUp(at + 1, StandingOf(j))
    BY <2>1, <1>1, UpIs DEF AdvancedTo
  <2>5. CASE \E w \in vals : NextIn(vals, Low(i), w) /\ MovesTo(i, j, w)
    <3>1. PICK w \in vals : NextIn(vals, Low(i), w) /\ MovesTo(i, j, w)
      BY <2>5
    <3>2. /\ HasPlace(j) /\ j.container_index = n - 1
          /\ j.current_value = High(i.container) + w
      BY <2>2, <3>1 DEF MovesTo
    <3> DEFINE to == j.current_value
    <3> HIDE DEF to
    <3>3. ValueIn(to, n) /\ StandingOf(j) = to
      BY <2>1, <3>2, PlaceStands DEF to
    <3>4. to >= at + 1
      BY <2>2, <2>3, <3>1, <3>2 DEF NextIn, to
    <3>5. ASSUME NEW x, ValueIn(x, n), x >= at + 1 PROVE to <= x
      <4>1. PICK u \in vals : x = High(i.container) + u
        BY <2>1, <3>5 DEF ValueIn
      <4>2. Low(i) < u
        BY <2>2, <2>3, <3>5, <4>1
      <4>3. w <= u
        BY <2>2, <2>3, <3>1, <4>2 DEF NextIn
      <4> QED
        BY <2>2, <2>3, <3>2, <4>1, <4>3 DEF to
    <3>6. \A m \in 1..Size : m < n => \A x : ValueIn(x, m) => x < at + 1
      <4>1. \A m \in 1..Size : \A x : ValueIn(x, m) => x \in Int
        BY ValueBounds
      <4>2. \A m \in 1..Size : m < n => \A x : ValueIn(x, m) => x < at
        BY <2>1, ValuesApart
      <4> QED
        BY <2>1, <4>1, <4>2
    <3> QED
      BY <2>1, <3>3, <3>4, <3>5, <3>6, UpWithin
  <2>6. CASE (\A u \in vals : u <= Low(i)) /\ j = LoadFirst(i, i.container_index + 1)
    <3>1. j = LoadFirst(i, n) /\ n \in 0..Size /\ at + 1 \in Int /\ at + 1 <= Top + 1
      BY <1>1, <2>1, <2>6 DEF n
    <3>2. ASSUME NEW m \in 1..Size, NEW x, ValueIn(x, m) PROVE x >= at + 1 <=> m > n
      <4>1. x \in Int
        BY <3>2, ValueBounds
      <4>2. CASE m < n
        BY <2>1, <3>2, <4>1, <4>2, ValuesApart
      <4>3. CASE m = n
        <5>1. PICK u \in vals : x = High(i.container) + u
          BY <2>1, <3>2, <4>3 DEF ValueIn
        <5>2. u <= Low(i) /\ u \in Int
          BY <2>3, <2>6
        <5> QED
          BY <2>2, <4>3, <5>1, <5>2
      <4>4. CASE n < m
        BY <2>1, <3>2, <4>1, <4>4, ValuesApart
      <4> QED
        BY <2>1, <4>2, <4>3, <4>4
    <3> QED
      BY <1>1, <3>1, <3>2, FirstStands
  <2>7. CASE at = Top /\ j = [i EXCEPT !.has_value = FALSE] /\ i.container.kind = "run"
    <3>1. j.current_value = Top /\ j.container_index = n - 1 /\ ~j.has_value
      BY <1>1, <2>2, <2>7 DEF Iterators, at
    <3>2. HasNone(j)
      BY <2>7, OffHasNone DEF at
    <3>3. StandingOf(j) = Top + 1
      BY <1>1, <2>1, <3>1, <3>2, NoneStands DEF Stopped
    <3>4. \A x \in Values : ~(x >= Top + 1)
      BY <1>1, ValuesType
    <3> QED
      BY <1>1, <2>7, <3>3, <3>4 DEF IsUp
  <2> QED
    BY <1>2, <2>5, <2>6, <2>7, AdvancedMoves DEF at
<1>3. CASE HasNone(i)
  <2>1. CASE i.container_index = -1 /\ j = LoadFirst(i, 0)
    <3>1. StandingOf(i) = -1 /\ StandingOf(j) = Cursor!Up(0)
      BY <1>1, <1>3, <2>1, NoneStands, StartStands
    <3> QED
      BY <1>1, <3>1 DEF AdvancedTo
  <2>2. CASE /\ i.container_index = Size \/ (Stopped(i) /\ i.current_value = Top)
             /\ j = [i EXCEPT !.has_value = FALSE]
    <3>1. StandingOf(i) = Top + 1
      BY <1>3, <2>2, NoneStands
    <3>2. StandingOf(j) = StandingOf(i)
      BY <1>1, <1>3, <2>2 DEF StandingOf, Stopped, HasNone, Iterators
    <3> QED
      BY <3>1, <3>2 DEF AdvancedTo
  <2> QED
    BY <1>3, <2>1, <2>2, AdvancedFromNone
<1> QED
  BY <1>2, <1>3 DEF Placed

LEMMA PrecededStands ==
    ASSUME bitmap \in Bitmaps, NEW i, Placed(i), ~(Stopped(i) /\ i.current_value = Top)
    PROVE  PrecededTo(i, StandingOf(Preceded(i)))
<1>1. Size \in Nat /\ Top \in Nat /\ Top > 0 /\ i \in Iterators
  BY BitmapType, TopType DEF Placed, HasPlace, HasNone
<1> DEFINE j == Preceded(i)
           at == i.current_value
           n == i.container_index + 1
           vals == i.container.vals
<1>2. CASE HasPlace(i)
  <2>1. /\ n \in 1..Size /\ i.container = bitmap[n] /\ StandingOf(i) = at
        /\ ValueIn(at, n) /\ at \in 0..Top
    BY <1>2, PlaceStands
  <2>2. /\ vals \in SUBSET LowHalves /\ High(i.container) \in Nat /\ Low(i) \in Nat
        /\ at = High(i.container) + Low(i) /\ i.container_index = n - 1
    BY <1>1, <1>2, PlaceFacts DEF Iterators
  <2>3. \A u \in vals : u \in Int
    BY <2>2, LowMembers
  <2> HIDE DEF at, n
  <2>4. SUFFICES IsDown(at - 1, StandingOf(j))
    BY <2>1, <1>1, DownIs DEF PrecededTo
  <2>5. CASE \E w \in vals : NextIn(vals, w, Low(i)) /\ MovesTo(i, j, w)
    <3>1. PICK w \in vals : NextIn(vals, w, Low(i)) /\ MovesTo(i, j, w)
      BY <2>5
    <3>2. /\ HasPlace(j) /\ j.container_index = n - 1
          /\ j.current_value = High(i.container) + w
      BY <2>2, <3>1 DEF MovesTo
    <3> DEFINE to == j.current_value
    <3> HIDE DEF to
    <3>3. ValueIn(to, n) /\ StandingOf(j) = to
      BY <2>1, <3>2, PlaceStands DEF to
    <3>4. to <= at - 1
      BY <2>2, <2>3, <3>1, <3>2 DEF NextIn, to
    <3>5. ASSUME NEW x, ValueIn(x, n), x <= at - 1 PROVE to >= x
      <4>1. PICK u \in vals : x = High(i.container) + u
        BY <2>1, <3>5 DEF ValueIn
      <4>2. u < Low(i)
        BY <2>2, <2>3, <3>5, <4>1
      <4>3. u <= w
        BY <2>2, <2>3, <3>1, <4>2 DEF NextIn
      <4> QED
        BY <2>2, <2>3, <3>2, <4>1, <4>3 DEF to
    <3>6. \A m \in 1..Size : n < m => \A x : ValueIn(x, m) => x > at - 1
      <4>1. \A m \in 1..Size : \A x : ValueIn(x, m) => x \in Int
        BY ValueBounds
      <4>2. \A m \in 1..Size : n < m => \A x : ValueIn(x, m) => at < x
        BY <2>1, ValuesApart
      <4> QED
        BY <2>1, <4>1, <4>2
    <3> QED
      BY <2>1, <3>3, <3>4, <3>5, <3>6, DownWithin
  <2>6. CASE (\A u \in vals : Low(i) <= u) /\ j = LoadLast(i, i.container_index - 1)
    <3> DEFINE k == n - 2
    <3>1. /\ j = LoadLast(i, k) /\ k \in -1..(Size - 1) /\ k + 1 = n - 1
          /\ at - 1 \in Int /\ at - 1 >= -1
      BY <1>1, <2>1, <2>2, <2>6
    <3>2. ASSUME NEW m \in 1..Size, NEW x, ValueIn(x, m) PROVE x <= at - 1 <=> m <= n - 1
      <4>1. x \in Int
        BY <3>2, ValueBounds
      <4>2. CASE m < n
        BY <2>1, <3>2, <4>1, <4>2, ValuesApart
      <4>3. CASE m = n
        <5>1. PICK u \in vals : x = High(i.container) + u
          BY <2>1, <3>2, <4>3 DEF ValueIn
        <5>2. Low(i) <= u /\ u \in Int
          BY <2>3, <2>6
        <5> QED
          BY <2>2, <4>3, <5>1, <5>2
      <4>4. CASE n < m
        BY <2>1, <3>2, <4>1, <4>4, ValuesApart
      <4> QED
        BY <2>1, <4>2, <4>3, <4>4
    <3> HIDE DEF k
    <3> QED
      BY <1>1, <3>1, <3>2, LastStands
  <2>7. CASE at = 0 /\ j = [i EXCEPT !.has_value = FALSE] /\ i.container.kind = "run"
    <3>1. j.current_value = 0 /\ j.container_index = n - 1 /\ ~j.has_value
      BY <1>1, <2>2, <2>7 DEF Iterators, at
    <3>2. HasNone(j)
      BY <2>7, OffHasNone DEF at
    <3>3. StandingOf(j) = -1
      BY <1>1, <2>1, <3>1, <3>2, NoneStands DEF Stopped
    <3>4. \A x \in Values : ~(x <= -1)
      BY <1>1, ValuesType
    <3> QED
      BY <1>1, <2>7, <3>3, <3>4 DEF IsDown
  <2> QED
    BY <1>2, <2>5, <2>6, <2>7, PrecededMoves DEF at
<1>3. CASE HasNone(i)
  <2>1. CASE i.container_index = Size /\ j = LoadLast(i, Size - 1)
    <3>1. StandingOf(i) = Top + 1 /\ StandingOf(j) = Cursor!Down(Top)
      BY <1>1, <1>3, <2>1, NoneStands, FinishStands
    <3>2. (Top + 1) - 1 = Top /\ Top + 1 # -1
      BY <1>1
    <3> QED
      BY <3>1, <3>2 DEF PrecededTo
  <2>2. CASE /\ i.container_index = -1 \/ (Stopped(i) /\ i.current_value = 0)
             /\ j = [i EXCEPT !.has_value = FALSE]
    <3>1. StandingOf(i) = -1
      BY <1>3, <2>2, NoneStands
    <3>2. StandingOf(j) = StandingOf(i)
      BY <1>1, <1>3, <2>2 DEF StandingOf, Stopped, HasNone, Iterators
    <3> QED
      BY <3>1, <3>2 DEF PrecededTo
  <2> QED
    BY <1>3, <2>1, <2>2, PrecededFromNone
<1> QED
  BY <1>2, <1>3 DEF Placed

\* A value below another's key is below it, and within a key the low halves decide.
LEMMA HalvesOrder ==
    ASSUME NEW k \in Nat, NEW u \in 0..(Lows - 1), NEW val \in Nat
    PROVE  LET hb == val \div Lows
               lb == val % Lows
           IN  /\ val = hb * Lows + lb /\ hb \in Nat /\ lb \in 0..(Lows - 1)
               /\ k < hb => k * Lows + u < val
               /\ hb < k => val < k * Lows + u
               /\ k = hb => (u < lb <=> k * Lows + u < val)
<1> DEFINE hb == val \div Lows
           lb == val % Lows
<1>1. Lows \in Nat /\ Lows > 1
  BY TopType
<1>2. val = hb * Lows + lb /\ hb \in Nat /\ lb \in 0..(Lows - 1)
  <2>1. val = Lows * hb + lb /\ hb \in Nat /\ lb \in 0..(Lows - 1)
    BY <1>1
  <2> HIDE DEF hb, lb
  <2> QED
    BY <1>1, <2>1
<1> HIDE DEF hb, lb
<1>3. \A a, b, l \in Nat : a < b => a * l + l <= b * l
  <2>1. \A a, b, l \in Nat : a <= b => a * l <= b * l
    OBVIOUS
  <2>2. \A a, l \in Nat : (a + 1) * l = a * l + l
    OBVIOUS
  <2> QED
    BY <2>1, <2>2
<1>4. k * Lows \in Nat /\ hb * Lows \in Nat
  BY <1>1, <1>2
<1>5. k < hb => k * Lows + Lows <= hb * Lows
  BY <1>1, <1>2, <1>3
<1>6. hb < k => hb * Lows + Lows <= k * Lows
  BY <1>1, <1>2, <1>3
<1> DEFINE p == k * Lows
           q == hb * Lows
<1>7. k = hb => p = q
  OBVIOUS
<1> HIDE DEF p, q
<1>8. /\ k < hb => p + u < val
      /\ hb < k => val < p + u
      /\ k = hb => (u < lb <=> p + u < val)
  BY <1>1, <1>2, <1>4, <1>5, <1>6, <1>7 DEF p, q
<1> QED
  BY <1>2, <1>8 DEF hb, lb, p

LEMMA SoughtStands ==
    ASSUME bitmap \in Bitmaps, NEW i, Placed(i), NEW val \in 0..Top
    PROVE  StandingOf(Sought(i, val)) = Cursor!Up(val)
<1> DEFINE hb == val \div Lows
           lb == val % Lows
           j == Sought(i, val)
<1>1. Size \in Nat /\ Top \in Nat /\ i \in Iterators /\ val \in Nat /\ val <= Top
  BY BitmapType, TopType DEF Placed, HasPlace, HasNone
<1>2. ASSUME NEW m \in 1..Size, NEW u \in bitmap[m].vals
      PROVE  /\ bitmap[m].key < hb => High(bitmap[m]) + u < val
             /\ hb < bitmap[m].key => val < High(bitmap[m]) + u
             /\ bitmap[m].key = hb => (u < lb <=> High(bitmap[m]) + u < val)
  <2>1. bitmap[m].key \in Nat /\ u \in 0..(Lows - 1)
    BY <1>2, BitmapType, ContainerType DEF LowHalves
  <2> QED
    BY <1>1, <2>1, HalvesOrder DEF High
<1>3. \A m \in 1..Size : \A u \in bitmap[m].vals :
         /\ High(bitmap[m]) + u \in Int /\ u \in Int /\ High(bitmap[m]) \in Int
         /\ bitmap[m].key \in Int
  BY BitmapType, ContainerType, HighType, LowMembers
<1>4. lb \in Int /\ hb \in Int
  BY <1>1, HalvesOrder, TopType
<1> HIDE DEF lb, hb, j
<1>5. SUFFICES IsUp(val, StandingOf(j))
  BY <1>1, UpIs DEF j
<1>6. ASSUME NEW n \in 0..Size, j = LoadFirst(i, n),
             \A m \in 1..Size :
                IF m <= n
                THEN \/ bitmap[m].key < hb
                     \/ bitmap[m].key = hb /\ \A u \in bitmap[m].vals : u < lb
                ELSE hb < bitmap[m].key
      PROVE  IsUp(val, StandingOf(j))
  <2>1. ASSUME NEW m \in 1..Size, NEW x, ValueIn(x, m) PROVE x >= val <=> m > n
    <3>1. PICK u \in bitmap[m].vals : x = High(bitmap[m]) + u
      BY <2>1 DEF ValueIn
    <3>2. x \in Int
      BY <1>3, <3>1
    <3>3. CASE m <= n
      <4>1. x < val
        BY <1>2, <1>6, <3>1, <3>3
      <4> QED
        BY <1>1, <3>2, <3>3, <4>1
    <3>4. CASE ~(m <= n)
      <4>1. val < x
        BY <1>2, <1>6, <3>1, <3>4
      <4> QED
        BY <1>1, <3>2, <3>4, <4>1
    <3> QED
      BY <3>3, <3>4
  <2> QED
    BY <1>1, <1>6, <2>1, FirstStands
<1>7. ASSUME NEW n \in 0..(Size - 1), bitmap[n + 1].key = hb,
             NEW w \in bitmap[n + 1].vals, lb <= w,
             \A u \in bitmap[n + 1].vals : u < lb \/ w <= u,
             HasPlace(j), j.container_index = n, Low(j) = w
      PROVE  IsUp(val, StandingOf(j))
  <2> DEFINE m == n + 1
             x == High(bitmap[m]) + w
  <2>1. m \in 1..Size /\ n \in Int
    BY <1>1
  <2>2. StandingOf(j) = x /\ ValueIn(x, m)
    <3>1. j.container = bitmap[m] /\ j.current_value = x
      BY <1>7, PlaceFacts DEF HasPlace
    <3> QED
      BY <1>7, <3>1, PlaceStands
  <2>3. x >= val
    BY <1>1, <1>2, <1>3, <1>4, <1>7, <2>1
  <2>4. ASSUME NEW y, ValueIn(y, m), y >= val PROVE x <= y
    <3>1. PICK u \in bitmap[m].vals : y = High(bitmap[m]) + u
      BY <2>4 DEF ValueIn
    <3>2. ~(u < lb)
      BY <1>1, <1>2, <1>3, <1>7, <2>1, <2>4, <3>1
    <3>3. w <= u
      BY <1>7, <3>1, <3>2
    <3> QED
      BY <1>3, <2>1, <3>1, <3>3
  <2>5. ASSUME NEW k \in 1..Size, k < m, NEW y, ValueIn(y, k) PROVE y < val
    <3>1. PICK u \in bitmap[k].vals : y = High(bitmap[k]) + u
      BY <2>5 DEF ValueIn
    <3>2. bitmap[k].key < hb
      BY <1>7, <2>1, <2>5 DEF Bitmaps, Ordered, Size
    <3> QED
      BY <1>2, <3>1, <3>2
  <2> HIDE DEF m, x
  <2> QED
    BY <1>1, <2>1, <2>2, <2>3, <2>4, <2>5, UpWithin
<1> QED
  BY <1>6, <1>7, SoughtMoves DEF j, hb, lb
-------------------------------------------------------------------------------
\* The values from a on that are below b.
Between(a, b) == {x \in Values : a <= x /\ x < b}

LEMMA ListsJoin ==
    ASSUME NEW S, NEW T, NEW U, NEW b, NEW c, Lists(b, S), Lists(c, T), U = S \cup T,
           \A x \in S, y \in T : x < y
    PROVE  Lists(b \o c, U)
<1> DEFINE m == Len(b)
           d == b \o c
<1>1. b \in Seq(Nat) /\ c \in Seq(Nat) /\ m \in Nat /\ Len(c) \in Nat
  BY DEF Lists
<1>2. /\ d \in Seq(Nat) /\ Len(d) = m + Len(c)
      /\ \A j \in 1..Len(d) : d[j] = IF j <= m THEN b[j] ELSE c[j - m]
  BY <1>1
<1> HIDE DEF d, m
<1>3. \A j \in 1..m : b[j] \in S
  BY DEF Lists, m
<1>4. \A j \in 1..Len(c) : c[j] \in T
  BY DEF Lists
<1>5. ASSUME NEW j \in 1..Len(d)
      PROVE  \/ j \in 1..m /\ d[j] = b[j]
             \/ ~(j <= m) /\ j - m \in 1..Len(c) /\ d[j] = c[j - m]
  BY <1>1, <1>2
<1>6. \A j \in 1..Len(d) : d[j] \in U
  BY <1>3, <1>4, <1>5
<1>7. ASSUME NEW x \in U PROVE \E j \in 1..Len(d) : d[j] = x
  <2>1. CASE x \in S
    <3>1. PICK j \in 1..m : b[j] = x
      BY <2>1 DEF Lists, m
    <3>2. j \in 1..Len(d) /\ j <= m
      BY <1>1, <1>2
    <3>3. d[j] = b[j]
      BY <1>2, <3>2
    <3> QED
      BY <3>1, <3>2, <3>3
  <2>2. CASE x \in T
    <3>1. PICK j \in 1..Len(c) : c[j] = x
      BY <2>2 DEF Lists
    <3>2. m + j \in 1..Len(d) /\ ~(m + j <= m) /\ (m + j) - m = j
      BY <1>1, <1>2
    <3> QED
      BY <1>2, <3>1, <3>2
  <2> QED
    BY <2>1, <2>2
<1>8. ASSUME NEW j \in 1..Len(d), NEW k \in 1..Len(d), j < k PROVE d[j] < d[k]
  <2>1. CASE j \in 1..m /\ k \in 1..m
    <3>1. b[j] < b[k]
      BY <1>8, <2>1 DEF Lists, m
    <3> QED
      BY <1>2, <2>1, <3>1
  <2>2. CASE j \in 1..m /\ ~(k <= m)
    <3>1. d[j] \in S /\ d[k] \in T
      BY <1>3, <1>4, <1>5, <2>2
    <3> QED
      BY <3>1
  <2>3. CASE ~(j <= m)
    <3>1. /\ j - m \in 1..Len(c) /\ d[j] = c[j - m]
          /\ k - m \in 1..Len(c) /\ d[k] = c[k - m] /\ j - m < k - m
      BY <1>1, <1>2, <1>5, <1>8, <2>3
    <3> QED
      BY <3>1 DEF Lists
  <2> QED
    BY <1>1, <1>2, <1>8, <2>1, <2>2, <2>3
<1>9. Lists(d, U)
  BY <1>2, <1>6, <1>7, <1>8 DEF Lists
<1> QED
  BY <1>9 DEF d

\* A round copies the values from the iterator's on that are below the one it leaves
\* the iterator at, at most as many as are asked for.
LEMMA RoundShows ==
    ASSUME bitmap \in Bitmaps, NEW r, r \in Rounds, HasPlace(r.it), r.left # 0
    PROVE  LET a == StandingOf(r.it)
               b == StandingOf(ReadRound(r).it)
           IN  \E buf \in Seq(Nat) :
                  /\ Lists(buf, Between(a, b)) /\ Len(buf) \in 1..r.left
                  /\ ReadRound(r).buf = r.buf \o buf
                  /\ ReadRound(r).left = r.left - Len(buf)
                  /\ b \in Values \cup {Top + 1} /\ a < b
<1> DEFINE i == r.it
           s == ReadSome(i, r.left)
           c == i.container
           vals == c.vals
           n == i.container_index + 1
           j == IF s.it.has_value THEN s.it ELSE LoadFirst(s.it, n)
           a == StandingOf(i)
           b == StandingOf(j)
<1>1. /\ ReadRound(r).it = j /\ ReadRound(r).buf = r.buf \o s.buf
      /\ ReadRound(r).left = r.left - Len(s.buf)
  BY DEF ReadRound, HasPlace
<1>2. /\ Size \in Nat /\ Top \in Nat /\ Lows \in Nat /\ r.left \in Nat \ {0}
      /\ i \in Iterators
  BY BitmapType, TopType DEF Rounds
<1>3. /\ n \in 1..Size /\ c = bitmap[n] /\ a = i.current_value
      /\ ValueIn(a, n) /\ a \in 0..Top
  BY PlaceStands
<1>4. /\ vals \in SUBSET LowHalves /\ High(c) \in Nat
      /\ Low(i) \in Nat /\ Low(i) < Lows
      /\ a = High(c) + Low(i) /\ i.container_index = n - 1
      /\ \A u \in vals : u \in Nat /\ u < Lows
      /\ High(c) + Lows <= Top + 1
  <2>1. c \in AllContainers /\ vals \in SUBSET LowHalves
    BY PlaceFacts
  <2>2. High(c) + Lows <= Top + 1
    BY <2>1, HighType
  <2>3. \A u \in vals : u \in Nat /\ u < Lows
    BY <2>1, LowMembers
  <2>4. /\ High(c) \in Nat /\ Low(i) \in Nat /\ Low(i) < Lows
        /\ i.current_value = High(c) + Low(i)
    BY PlaceFacts
  <2>5. i.container_index \in Int
    BY <1>2 DEF Iterators
  <2>6. i.container_index = n - 1
    BY <2>5
  <2> HIDE DEF a, n
  <2> QED
    BY <1>3, <2>1, <2>2, <2>3, <2>4, <2>6
<1> HIDE DEF s, n, a
<1>5. /\ Len(s.buf) \in 1..r.left
      /\ \/ \E w \in vals :
               /\ Low(i) < w /\ MovesTo(i, s.it, w)
               /\ Lists(s.buf, Shown(c, {x \in vals : Low(i) <= x /\ x < w}))
         \/ /\ s.it \in Iterators /\ ~s.it.has_value
            /\ Lists(s.buf, Shown(c, {x \in vals : Low(i) <= x}))
  BY <1>2, ReadSomeMoves DEF s
<1>6. SUFFICES /\ Lists(s.buf, Between(a, b))
               /\ b \in Values \cup {Top + 1} /\ a < b
  <2>1. s.buf \in Seq(Nat)
    BY <1>6 DEF Lists
  <2> HIDE DEF j
  <2> QED
    BY <1>1, <1>5, <1>6, <2>1 DEF a
\* The values of this container from the iterator's on, below a bound.
<1>7. ASSUME NEW S \in SUBSET vals, NEW e \in Int,
             \A x \in vals : x \in S <=> Low(i) <= x /\ High(c) + x < e,
             \A m \in 1..Size : n < m => \A x : ValueIn(x, m) => ~(x < e)
      PROVE  Shown(c, S) = Between(a, e)
  <2>1. ASSUME NEW x \in Shown(c, S) PROVE x \in Between(a, e)
    <3>1. PICK u \in S : x = High(c) + u
      BY <2>1 DEF Shown
    <3>2. x \in Values /\ Low(i) <= u /\ x < e
      BY <1>3, <1>7, <3>1, ValuesIn DEF ValueIn
    <3> QED
      BY <1>4, <3>1, <3>2 DEF Between
  <2>2. ASSUME NEW x \in Between(a, e) PROVE x \in Shown(c, S)
    <3>1. x \in Values /\ a <= x /\ x < e
      BY <2>2 DEF Between
    <3>2. PICK m \in 1..Size : ValueIn(x, m)
      BY <3>1, ValuesIn
    <3>3. x \in Int
      BY <3>1, ValuesType
    <3>4. ~(n < m)
      BY <1>7, <3>1, <3>2
    <3>5. ~(m < n)
      BY <1>3, <3>1, <3>2, <3>3, ValuesApart
    <3>6. m = n
      BY <1>2, <1>3, <3>4, <3>5
    <3>7. PICK u \in vals : x = High(c) + u
      BY <1>3, <3>2, <3>6 DEF ValueIn
    <3>8. Low(i) <= u
      BY <1>4, <3>1, <3>7
    <3> QED
      BY <1>7, <3>1, <3>7, <3>8 DEF Shown
  <2> QED
    BY <2>1, <2>2
<1>8. ASSUME NEW w \in vals, Low(i) < w, MovesTo(i, s.it, w),
             Lists(s.buf, Shown(c, {x \in vals : Low(i) <= x /\ x < w}))
      PROVE  /\ Lists(s.buf, Between(a, b))
             /\ b \in Values \cup {Top + 1} /\ a < b
  <2>1. HasPlace(s.it) /\ s.it.container_index = n - 1 /\ s.it.current_value = High(c) + w
    BY <1>4, <1>8 DEF MovesTo
  <2>2. j = s.it
    BY <2>1 DEF HasPlace
  <2>3. b = High(c) + w /\ ValueIn(b, n) /\ b \in Values /\ b \in Int
    BY <1>2, <1>3, <2>1, <2>2, PlaceStands
  <2> HIDE DEF j
  <2> DEFINE S == {x \in vals : Low(i) <= x /\ x < w}
             e == b
  <2> HIDE DEF e
  <2>4. \A x \in vals : x \in S <=> Low(i) <= x /\ High(c) + x < e
    BY <1>4, <1>8, <2>3 DEF e
  <2>5. \A m \in 1..Size : n < m => \A x : ValueIn(x, m) => ~(x < e)
    <3>1. \A m \in 1..Size : \A x : ValueIn(x, m) => x \in Int
      BY ValueBounds
    <3>2. \A m \in 1..Size : n < m => \A x : ValueIn(x, m) => e < x
      BY <1>3, <2>3, ValuesApart DEF e
    <3> QED
      BY <2>3, <3>1, <3>2 DEF e
  <2>6. Shown(c, S) = Between(a, e)
    <3>1. S \in SUBSET vals /\ e \in Int
      BY <2>3 DEF e
    <3> HIDE DEF S
    <3> QED
      BY <1>7, <2>4, <2>5, <3>1
  <2>7. Lists(s.buf, Between(a, e))
    BY <1>8, <2>6
  <2>8. a < e
    BY <1>4, <1>8, <2>3 DEF e
  <2> QED
    BY <2>3, <2>7, <2>8 DEF e
<1>9. ASSUME s.it \in Iterators, ~s.it.has_value,
             Lists(s.buf, Shown(c, {x \in vals : Low(i) <= x}))
      PROVE  /\ Lists(s.buf, Between(a, b))
             /\ b \in Values \cup {Top + 1} /\ a < b
  <2> DEFINE v == High(c) + Lows
  <2>1. j = LoadFirst(s.it, n) /\ n \in 0..Size /\ v \in Int /\ v <= Top + 1 /\ a < v
    <3>1. j = LoadFirst(s.it, n) /\ n \in 0..Size
      BY <1>2, <1>3, <1>9
    <3>2. v \in Int /\ v <= Top + 1 /\ a < v
      BY <1>2, <1>4
    <3> QED
      BY <3>1, <3>2
  <2>2. ASSUME NEW m \in 1..Size, NEW x, ValueIn(x, m) PROVE x >= v <=> m > n
    <3>1. x \in Int /\ High(bitmap[m]) \in Int
      BY <2>2, ValueBounds, BitmapType, HighType
    <3>2. High(bitmap[m]) <= x /\ x < High(bitmap[m]) + Lows
      BY <2>2, ValueBounds
    <3>3. CASE m <= n
      <4>1. CASE m = n
        BY <1>3, <2>1, <3>1, <3>2, <4>1
      <4>2. CASE m # n
        <5>1. High(bitmap[m]) + Lows <= High(c)
          BY <1>3, <3>3, <4>2, KeysApart
        <5> QED
          BY <1>2, <1>3, <1>4, <2>1, <3>1, <3>2, <3>3, <5>1
      <4> QED
        BY <4>1, <4>2
    <3>4. CASE ~(m <= n)
      <4>1. v <= High(bitmap[m])
        BY <1>3, <3>4, KeysApart
      <4> QED
        BY <2>1, <3>1, <3>2, <3>4, <4>1
    <3> QED
      BY <3>3, <3>4
  <2> HIDE DEF v, j
  <2>3. IsUp(v, b)
    BY <1>9, <2>1, <2>2, FirstStands
  <2> DEFINE e == b
             S == {x \in vals : Low(i) <= x}
  <2> HIDE DEF e
  <2>4. e \in Values \cup {Top + 1} /\ e >= v /\ e \in Int
    <3>1. e \in Values \cup {Top + 1} /\ e >= v
      BY <2>3 DEF IsUp, e
    <3> QED
      BY <1>2, <3>1, ValuesType
  <2>5. \A x \in vals : x \in S <=> Low(i) <= x /\ High(c) + x < e
    BY <1>2, <1>4, <2>1, <2>4 DEF v
  <2>6. \A m \in 1..Size : n < m => \A x : ValueIn(x, m) => ~(x < e)
    <3>1. ASSUME NEW m \in 1..Size, n < m, NEW x, ValueIn(x, m) PROVE ~(x < e)
      <4>1. x \in Int /\ x \in Values /\ x >= v
        BY <1>2, <1>3, <2>2, <3>1, ValueBounds, ValuesIn
      <4>2. e <= x
        BY <2>3, <4>1 DEF IsUp, e
      <4> QED
        BY <2>4, <4>1, <4>2
    <3> QED
      BY <3>1
  <2>7. Shown(c, S) = Between(a, e)
    <3>1. S \in SUBSET vals
      OBVIOUS
    <3> HIDE DEF S
    <3> QED
      BY <1>7, <2>4, <2>5, <2>6, <3>1
  <2>8. Lists(s.buf, Between(a, e))
    BY <1>9, <2>7
  <2>9. a < e
    BY <1>3, <2>1, <2>4
  <2> QED
    BY <2>4, <2>8, <2>9 DEF e
<1> QED
  BY <1>5, <1>8, <1>9
-------------------------------------------------------------------------------
\* What a read has copied before a round, n values being asked for of an iterator
\* that stood for a: the values from there on that are below what it stands for now.
\* Each round copies at least one value, so k rounds leave at most n - k to copy.
Copied(r, a, n, k) ==
    LET b == StandingOf(r.it)
    IN  /\ r \in Rounds /\ Placed(r.it)
        /\ b \in Values \cup {Top + 1} /\ a <= b
        /\ Lists(r.buf, Between(a, b))
        /\ Len(r.buf) + r.left = n
        /\ ~r.it.has_value \/ r.left <= n - k

LEMMA RoundCopies ==
    ASSUME bitmap \in Bitmaps, NEW a \in Int, NEW n \in Nat, NEW k \in Nat, k < n,
           NEW r, Copied(r, a, n, k)
    PROVE  Copied(ReadRound(r), a, n, k + 1)
<1> DEFINE i == r.it
           b == StandingOf(i)
<1>1. /\ r \in Rounds /\ Placed(i) /\ b \in Values \cup {Top + 1} /\ a <= b
      /\ Lists(r.buf, Between(a, b)) /\ Len(r.buf) + r.left = n
      /\ ~i.has_value \/ r.left <= n - k
  BY DEF Copied
<1>2. r.left \in Nat /\ r.buf \in Seq(Nat) /\ Len(r.buf) \in Nat
  BY <1>1 DEF Rounds
<1>3. CASE ~i.has_value \/ r.left = 0
  <2>1. ReadRound(r) = r
    BY <1>3 DEF ReadRound
  <2>2. ~i.has_value \/ r.left <= n - (k + 1)
    BY <1>1, <1>2, <1>3
  <2> QED
    BY <1>1, <2>1, <2>2 DEF Copied
<1>4. CASE i.has_value /\ r.left # 0
  <2> DEFINE q == ReadRound(r)
             j == q.it
             e == StandingOf(j)
  <2>1. HasPlace(i)
    BY <1>1, <1>4 DEF Placed, HasNone
  <2>2. q \in Rounds /\ Placed(j)
    BY <1>1, ReadRoundPlaced
  <2>3. PICK buf \in Seq(Nat) :
               /\ Lists(buf, Between(b, e)) /\ Len(buf) \in 1..r.left
               /\ q.buf = r.buf \o buf
               /\ q.left = r.left - Len(buf)
               /\ e \in Values \cup {Top + 1} /\ b < e
    BY <1>1, <1>4, <2>1, RoundShows
  <2> HIDE DEF q, e, b
  <2>4. b \in Int /\ e \in Int /\ a <= e
    <3>1. Top \in Int /\ \A x \in Values : x \in Int
      BY TopType, ValuesType
    <3> QED
      BY <1>1, <2>3, <3>1
  <2>5. Lists(q.buf, Between(a, e))
    <3>1. \A x \in Values : x \in Int
      BY ValuesType
    <3>2. Between(a, e) = Between(a, b) \cup Between(b, e)
      <4>1. \A x \in Values :
               a <= x /\ x < e <=> (a <= x /\ x < b) \/ (b <= x /\ x < e)
        BY <1>1, <2>3, <2>4, <3>1 DEF b
      <4> QED
        BY <4>1 DEF Between
    <3>3. \A x \in Between(a, b), y \in Between(b, e) : x < y
      BY <2>4, <3>1 DEF Between
    <3> QED
      BY <1>1, <2>3, <3>2, <3>3, ListsJoin
  <2>6. Len(q.buf) = Len(r.buf) + Len(buf) /\ Len(buf) \in Nat
    BY <1>2, <2>3
  <2>7. Len(q.buf) + q.left = n /\ q.left <= n - (k + 1)
    <3>1. r.left <= n - k
      BY <1>1, <1>4
    <3>2. /\ q.left = r.left - Len(buf) /\ 1 <= Len(buf) /\ Len(buf) \in Int
          /\ Len(r.buf) + r.left = n
      BY <1>1, <1>2, <2>3
    <3> DEFINE l == Len(buf)
               m == Len(r.buf)
    <3> HIDE DEF l, m
    <3>3. m + l + q.left = n /\ q.left <= n - (k + 1)
      BY <1>2, <3>1, <3>2 DEF l, m
    <3> QED
      BY <2>6, <3>3 DEF l, m
  <2> QED
    BY <2>2, <2>3, <2>4, <2>5, <2>7 DEF Copied, q, e
<1> QED
  BY <1>3, <1>4

\* Reading from an iterator with a place copies the next n values, or all there are.
LEMMA ReadCopies ==
    ASSUME bitmap \in Bitmaps, NEW i, HasPlace(i), NEW n \in Nat
    PROVE  Copied(ReadFrom(i, n), StandingOf(i), n, n)
<1>1. PICK g : /\ g[0] = Begun(i, n)
               /\ \A k \in 1..n : g[k] = ReadRound(g[k - 1])
               /\ ReadFrom(i, n) = g[n]
  BY ReadFromRounds
<1> DEFINE a == StandingOf(i)
           Bad == {k \in Nat : k <= n /\ ~Copied(g[k], a, n, k)}
<1>2. a \in Values /\ a \in Int
  BY PlaceStands
<1> HIDE DEF a
<1>3. SUFFICES ASSUME Bad # {} PROVE FALSE
  BY <1>1 DEF a
<1>4. PICK x \in Bad : \A y \in Bad : x <= y
  BY <1>3, LeastOfNaturals
<1>5. x # 0
  <2> DEFINE r == Begun(i, n)
  <2>1. r.it = i /\ r.buf = <<>> /\ r.left = n /\ r \in Rounds
    BY DEF Begun, Rounds, HasPlace
  <2> HIDE DEF r
  <2>2. Between(a, a) = {}
    <3>1. \A y \in Values : ~(a <= y /\ y < a)
      BY <1>2, ValuesType
    <3> QED
      BY <3>1 DEF Between
  <2>3. Lists(<<>>, {})
    BY DEF Lists
  <2>4. Copied(r, a, n, 0)
    BY <1>2, <2>1, <2>2, <2>3 DEF Copied, Placed, a
  <2> QED
    BY <1>1, <1>4, <2>4 DEF r
<1>6. x \in 1..n /\ x - 1 \in Nat /\ x - 1 <= n /\ ~(x - 1 \in Bad) /\ (x - 1) + 1 = x
  BY <1>4, <1>5
<1>7. Copied(g[x - 1], a, n, x - 1)
  BY <1>6
<1>8. Copied(ReadRound(g[x - 1]), a, n, (x - 1) + 1)
  BY <1>2, <1>6, <1>7, RoundCopies
<1>9. Copied(g[x], a, n, x)
  BY <1>1, <1>6, <1>8
<1> QED
  BY <1>4, <1>9

\* Reading from an iterator without a value copies nothing.
LEMMA ReadNothing ==
    ASSUME NEW i, ~i.has_value, NEW n \in Nat
    PROVE  ReadFrom(i, n) = Begun(i, n)
<1>1. PICK g : /\ g[0] = Begun(i, n)
               /\ \A k \in 1..n : g[k] = ReadRound(g[k - 1])
               /\ ReadFrom(i, n) = g[n]
  BY ReadFromRounds
<1> DEFINE Bad == {k \in Nat : k <= n /\ g[k] # Begun(i, n)}
<1>2. SUFFICES ASSUME Bad # {} PROVE FALSE
  BY <1>1
<1>3. PICK x \in Bad : \A y \in Bad : x <= y
  BY <1>2, LeastOfNaturals
<1>4. x \in 1..n /\ x - 1 \in Nat /\ x - 1 <= n /\ ~(x - 1 \in Bad)
  BY <1>1, <1>3
<1>5. g[x - 1] = Begun(i, n)
  BY <1>4
<1>6. g[x] = ReadRound(Begun(i, n))
  BY <1>1, <1>4, <1>5
<1> QED
  BY <1>3, <1>6 DEF ReadRound, Begun

\* What a call of Read does is a read of the cursor.
LEMMA ReadStands ==
    ASSUME bitmap \in Bitmaps, NEW i, Placed(i), NEW n \in Nat
    PROVE  LET r == ReadFrom(i, n)
               a == StandingOf(i)
               b == StandingOf(r.it)
           IN  IF a \in Values
               THEN /\ b \in Values \cup {Top + 1}
                    /\ ToSet(r.buf) = {x \in Values : a <= x /\ x < b}
                    /\ \A j, k \in 1..Len(r.buf) : j < k => r.buf[j] < r.buf[k]
                    /\ Len(r.buf) = n \/ (Len(r.buf) < n /\ b = Top + 1)
               ELSE r.buf = <<>> /\ b = a
<1> DEFINE r == ReadFrom(i, n)
           a == StandingOf(i)
           b == StandingOf(r.it)
<1>1. CASE HasPlace(i)
  <2>1. Copied(r, a, n, n) /\ a \in Values /\ a \in Int
    BY <1>1, ReadCopies, PlaceStands
  <2> HIDE DEF r, a
  <2>2. /\ r \in Rounds /\ Placed(r.it) /\ b \in Values \cup {Top + 1}
        /\ Lists(r.buf, Between(a, b)) /\ Len(r.buf) + r.left = n
        /\ ~r.it.has_value \/ r.left <= n - n
    BY <2>1 DEF Copied
  <2>3. r.left \in Nat /\ r.buf \in Seq(Nat) /\ Len(r.buf) \in Nat
    BY <2>2 DEF Rounds
  <2>4. ~r.it.has_value => b = Top + 1
    <3>1. ~r.it.has_value => HasNone(r.it)
      BY <2>2 DEF Placed, HasPlace
    <3> QED
      BY <2>2, <3>1, NoneStands
  <2> HIDE DEF b
  <2>5. Len(r.buf) = n \/ (Len(r.buf) < n /\ b = Top + 1)
    BY <2>2, <2>3, <2>4
  <2>6. ToSet(r.buf) = Between(a, b)
    <3> DEFINE T == Between(a, b)
               f == r.buf
    <3>1. Lists(f, T) /\ f \in Seq(Nat)
      BY <2>2, <2>3
    <3> HIDE DEF T, f
    <3>2. ToSet(f) = {f[j] : j \in 1..Len(f)}
      BY <3>1 DEF ToSet
    <3>3. ToSet(f) = T
      BY <3>1, <3>2 DEF Lists
    <3> QED
      BY <3>3 DEF T, f
  <2>7. \A j, k \in 1..Len(r.buf) : j < k => r.buf[j] < r.buf[k]
    BY <2>2 DEF Lists
  <2> QED
    BY <2>1, <2>2, <2>5, <2>6, <2>7 DEF r, a, b, Between
<1>2. CASE HasNone(i)
  <2>1. a \notin Values /\ ~i.has_value
    BY <1>2, NoneStands DEF HasNone
  <2>2. r = Begun(i, n)
    BY <2>1, ReadNothing
  <2>3. r.buf = <<>> /\ r.it = i
    BY <2>2 DEF Begun
  <2> QED
    BY <2>1, <2>3
<1> QED
  BY <1>1, <1>2 DEF Placed
-------------------------------------------------------------------------------
\* What the iterator of the state stands for, before and after a call.
LEMMA StandingIs ==
    /\ Standing = StandingOf(it)
    /\ bitmap' = bitmap => /\ Values' = Values
                           /\ Standing' = StandingOf(it')
BY DEF Standing, StandingOf, StoppedInside, Stopped, Values, Size

LEMMA CursorStarts == Init => Cursor!Init
<1>1. SUFFICES ASSUME Init PROVE Cursor!Init
  OBVIOUS
<1>2. bitmap \in Bitmaps /\ it \in {LoadFirst(Raw, 0), LoadLast(Raw, Size - 1)}
      /\ call = [op |-> "init", arg |-> 0, buf |-> <<>>]
  BY <1>1 DEF Init
<1>3. Raw \in Iterators
  BY DEF Raw, Iterators
<1>4. Standing \in {Cursor!Up(0), Cursor!Down(Top)}
  BY <1>2, <1>3, StartStands, FinishStands, StandingIs
<1> QED
  BY <1>2, <1>4 DEF Cursor!Init

LEMMA CursorSteps == PlaceInv /\ [Next]_vars => [CursorNext]_<<Values, Standing, call>>
<1>1. SUFFICES ASSUME PlaceInv, [Next]_vars PROVE [CursorNext]_<<Values, Standing, call>>
  OBVIOUS
<1>2. bitmap \in Bitmaps /\ Placed(it) /\ it \in Iterators
  BY <1>1 DEF PlaceInv, Placed, HasPlace, HasNone
<1>3. ASSUME NEW op, NEW arg, NEW i, NEW buf, Called(op, arg, i, buf)
      PROVE  /\ Values' = Values /\ Standing' = StandingOf(i)
             /\ call' = [op |-> op, arg |-> arg, buf |-> buf]
  BY <1>3, StandingIs DEF Called
<1>4. CASE InitFirst
  <2>1. Cursor!Start
    BY <1>2, <1>3, <1>4, StartStands
       DEF InitFirst, Cursor!Start, Cursor!Calls, Cursor!Moved
  <2> QED
    BY <2>1 DEF CursorNext
<1>5. CASE InitLast
  <2>1. Cursor!Finish
    BY <1>2, <1>3, <1>5, FinishStands
       DEF InitLast, Cursor!Finish, Cursor!Calls, Cursor!Moved
  <2> QED
    BY <2>1 DEF CursorNext
<1>6. ASSUME NEW val \in 0..Top, MoveEqualOrLarger(val) PROVE CursorNext
  <2>1. Cursor!Seek(val)
    BY <1>2, <1>3, <1>6, SoughtStands
       DEF MoveEqualOrLarger, Cursor!Seek, Cursor!Calls, Cursor!Moved
  <2> QED
    BY <1>6, <2>1 DEF CursorNext
<1>7. ASSUME NEW n \in 0..MaxCount, Read(n) PROVE CursorNext
  <2> DEFINE r == ReadFrom(it, n)
             a == StandingOf(it)
             b == StandingOf(r.it)
  <2>1. Called("read", n, r.it, r.buf)
    BY <1>7 DEF Read
  <2>2. /\ Values' = Values /\ Standing' = b
        /\ call' = [op |-> "read", arg |-> n, buf |-> r.buf]
    BY <1>3, <2>1
  <2>3. IF a \in Values
        THEN /\ b \in Values \cup {Top + 1}
             /\ ToSet(r.buf) = {x \in Values : a <= x /\ x < b}
             /\ \A j, k \in 1..Len(r.buf) : j < k => r.buf[j] < r.buf[k]
             /\ Len(r.buf) = n \/ (Len(r.buf) < n /\ b = Top + 1)
        ELSE r.buf = <<>> /\ b = a
    BY <1>2, BoundAssumption, ReadStands
  <2>4. Standing = a
    BY StandingIs
  <2> HIDE DEF r, a, b
  <2>5. call'.buf = r.buf
    BY <2>2
  <2>6. call' = [op |-> "read", arg |-> n, buf |-> call'.buf]
    BY <2>2, <2>5
  <2>7. Cursor!ToSet(r.buf) = ToSet(r.buf)
    BY DEF Cursor!ToSet, ToSet
  <2>8. Cursor!Read(n)
    BY <2>2, <2>3, <2>4, <2>5, <2>6, <2>7 DEF Cursor!Read, Cursor!HasValue, Cursor!After
  <2> QED
    BY <1>7, <2>8 DEF CursorNext
<1>8. CASE Forward
  <2>1. Advance /\ ~(Stopped(it) /\ it.current_value = 0)
    BY <1>8 DEF Forward, Stopped, StoppedInside
  <2>2. AdvancedTo(it, StandingOf(Advanced(it)))
    BY <1>2, <2>1, AdvancedStands
  <2>3. Cursor!Advance
    BY <1>3, <2>1, <2>2, StandingIs
       DEF Advance, AdvancedTo, Cursor!Advance, Cursor!Calls, Cursor!Moved, Cursor!After
  <2> QED
    BY <2>3 DEF CursorNext
<1>9. CASE Backward
  <2>1. Previous /\ ~(Stopped(it) /\ it.current_value = Top)
    BY <1>9 DEF Backward, Stopped, StoppedInside
  <2>2. PrecededTo(it, StandingOf(Preceded(it)))
    BY <1>2, <2>1, PrecededStands
  <2>3. Cursor!Previous
    BY <1>3, <2>1, <2>2, StandingIs
       DEF Previous, PrecededTo, Cursor!Previous, Cursor!Calls, Cursor!Moved, Cursor!Before
  <2> QED
    BY <2>3 DEF CursorNext
<1>10. CASE UNCHANGED vars
  <2>1. bitmap' = bitmap /\ it' = it /\ call' = call
    BY <1>10 DEF vars
  <2> QED
    BY <2>1, StandingIs
<1> QED
  BY <1>1, <1>4, <1>5, <1>6, <1>7, <1>8, <1>9, <1>10 DEF Next, Jump

\* However the calls on an iterator are mixed, by a caller who does not turn round after
\* it has run out at zero or UINT32_MAX in a run, it behaves like a cursor on the
\* values of the bitmap: it starts at an end of them, goes to the next or the
\* previous one or to the first that is at least a number, and a read copies the
\* values from there on, in order, and goes behind them ("satisfies semantics of
\* iteration and can be used together with other iterator functions",
\* roaring.h:931).
THEOREM IteratorIsCursor == Spec => IsCursor
<1>1. Init => PlaceInv
  BY PlaceInvInit
<1>2. PlaceInv /\ [Next]_vars => PlaceInv'
  BY PlaceInvNext
<1>3. Init => Cursor!Init
  BY CursorStarts
<1>4. PlaceInv /\ [Next]_vars => [CursorNext]_<<Values, Standing, call>>
  BY CursorSteps
<1> QED
  BY <1>1, <1>2, <1>3, <1>4, PTL DEF Spec, IsCursor
===============================================================================
