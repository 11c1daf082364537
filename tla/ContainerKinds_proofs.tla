------------------------- MODULE ContainerKinds_proofs -------------------------
(* The operators of ContainerKinds, for every value of their constants: which   *)
(* numbers the result of an operation on containers has, and that the result is *)
(* again a container as the library makes them, Makes.                          *)
(*                                                                              *)
(* Runs, sets of numbers and sums come first.  Then the run containers: runs in *)
(* order with a gap between them, Tidy, and the loops that merge two of them,   *)
(* followed from each pair of places to the next.  Last, the operations by the  *)
(* kinds of their operands.                                                     *)
EXTENDS ContainerKinds, FiniteSetTheorems, WellFoundedInduction, TLAPS
-------------------------------------------------------------------------------
(* Runs *)

Run16 == [value : Int, length : Int]

LEMMA RunIs == ASSUME NEW v \in Int, NEW l \in Int PROVE Run(v, l) \in Run16
<1>1. v % U \in Int /\ l % U \in Int
  BY UAssumption
<1> QED
  BY <1>1 DEF Run, Run16

LEMMA RunFields ==
    ASSUME NEW run \in Run16 PROVE run.value \in Int /\ run.length \in Int /\ End(run) \in Int
  BY DEF Run16, End

LEMMA FullRunIs == FullRun \in Seq(Run16)
<1>1. Run(0, U - 1) \in Run16
  BY RunIs, UAssumption
<1> QED
  BY <1>1 DEF FullRun

\* Merged takes the first run of one or the other, and goes on with the rest.
MergeStep(r1, r2, f, p) ==
    IF p[1] > Len(r1) THEN SubSeq(r2, p[2], Len(r2))
    ELSE IF p[2] > Len(r2) THEN SubSeq(r1, p[1], Len(r1))
    ELSE IF r1[p[1]].value <= r2[p[2]].value THEN <<r1[p[1]]>> \o f[<<p[1] + 1, p[2]>>]
    ELSE <<r2[p[2]]>> \o f[<<p[1], p[2] + 1>>]
Places(r1, r2) == (1..(Len(r1) + 1)) \X (1..(Len(r2) + 1))
Left(r1, r2, p) == Len(r1) + Len(r2) + 2 - p[1] - p[2]

LEMMA LeastOfNaturals ==
    ASSUME NEW T \in SUBSET Nat, T # {}
    PROVE  \E x \in T : \A y \in T : x <= y
<1> DEFINE less == {p \in Nat \X Nat : p[1] < p[2]}
<1>1. IsWellFoundedOn(less, Nat)
  BY NatLessThanWellFounded DEF OpToRel
<1>2. \A x, y \in Nat : y < x => <<y, x>> \in less
  OBVIOUS
<1> HIDE DEF less
<1>3. PICK x \in T : \A y \in T : ~(<<y, x>> \in less)
  BY <1>1, WFMin
<1>4. ASSUME NEW y \in T PROVE x <= y
  <2>1. ~(y < x)
    BY <1>2, <1>3
  <2> QED
    BY <2>1
<1> QED
  BY <1>4

LEMMA LeftIs ==
    ASSUME NEW r1 \in Seq(Run16), NEW r2 \in Seq(Run16), NEW p \in Places(r1, r2)
    PROVE  /\ Left(r1, r2, p) \in Nat /\ p[1] \in Nat \ {0} /\ p[2] \in Nat \ {0}
           /\ p[1] <= Len(r1) + 1 /\ p[2] <= Len(r2) + 1
           /\ p[1] <= Len(r1) => /\ <<p[1] + 1, p[2]>> \in Places(r1, r2)
                                 /\ Left(r1, r2, <<p[1] + 1, p[2]>>) = Left(r1, r2, p) - 1
           /\ p[2] <= Len(r2) => /\ <<p[1], p[2] + 1>> \in Places(r1, r2)
                                 /\ Left(r1, r2, <<p[1], p[2] + 1>>) = Left(r1, r2, p) - 1
<1> DEFINE n == Len(r1)
           m == Len(r2)
           i == p[1]
           j == p[2]
           P == Places(r1, r2)
<1>1. n \in Nat /\ m \in Nat
  OBVIOUS
<1>2. i \in 1..(n + 1) /\ j \in 1..(m + 1)
  BY DEF Places
<1>3. \A a \in 1..(n + 1), b \in 1..(m + 1) : <<a, b>> \in P
  BY DEF Places
<1>4. Left(r1, r2, p) = n + m + 2 - i - j
  BY DEF Left
<1>5. \A a, b : Left(r1, r2, <<a, b>>) = n + m + 2 - a - b
  BY DEF Left
<1> HIDE DEF n, m, i, j, P
<1>6. i \in Nat \ {0} /\ j \in Nat \ {0} /\ i <= n + 1 /\ j <= m + 1
  BY <1>1, <1>2
<1>7. n + m + 2 - i - j \in Nat
  BY <1>1, <1>6
<1>8. ASSUME i <= n
      PROVE  <<i + 1, j>> \in P /\ Left(r1, r2, <<i + 1, j>>) = (n + m + 2 - i - j) - 1
  <2>1. i + 1 \in 1..(n + 1)
    BY <1>1, <1>6, <1>8
  <2>2. n + m + 2 - (i + 1) - j = (n + m + 2 - i - j) - 1
    BY <1>1, <1>6
  <2> QED
    BY <1>2, <1>3, <1>5, <2>1, <2>2
<1>9. ASSUME j <= m
      PROVE  <<i, j + 1>> \in P /\ Left(r1, r2, <<i, j + 1>>) = (n + m + 2 - i - j) - 1
  <2>1. j + 1 \in 1..(m + 1)
    BY <1>1, <1>6, <1>9
  <2>2. n + m + 2 - i - (j + 1) = (n + m + 2 - i - j) - 1
    BY <1>1, <1>6
  <2> QED
    BY <1>2, <1>3, <1>5, <2>1, <2>2
<1>10. /\ Left(r1, r2, p) \in Nat /\ i \in Nat \ {0} /\ j \in Nat \ {0}
       /\ i <= n + 1 /\ j <= m + 1
       /\ i <= n => /\ <<i + 1, j>> \in P
                    /\ Left(r1, r2, <<i + 1, j>>) = Left(r1, r2, p) - 1
       /\ j <= m => /\ <<i, j + 1>> \in P
                    /\ Left(r1, r2, <<i, j + 1>>) = Left(r1, r2, p) - 1
  <2> DEFINE l == Left(r1, r2, p)
             k == n + m + 2 - i - j
  <2>1. l = k /\ k \in Nat
    BY <1>4, <1>7
  <2>2. i <= n => <<i + 1, j>> \in P /\ Left(r1, r2, <<i + 1, j>>) = k - 1
    BY <1>8, Zenon
  <2>3. j <= m => <<i, j + 1>> \in P /\ Left(r1, r2, <<i, j + 1>>) = k - 1
    BY <1>9, Zenon
  <2> HIDE DEF l, k
  <2>4. l \in Nat
    BY <2>1
  <2>5. i <= n => <<i + 1, j>> \in P /\ Left(r1, r2, <<i + 1, j>>) = l - 1
    BY <2>1, <2>2, Zenon
  <2>6. j <= m => <<i, j + 1>> \in P /\ Left(r1, r2, <<i, j + 1>>) = l - 1
    BY <2>1, <2>3, Zenon
  <2> QED
    BY <1>6, <2>4, <2>5, <2>6, Zenon DEF l
<1> QED
  BY <1>10 DEF n, m, i, j, P

LEMMA RestIs ==
    ASSUME NEW S, NEW r \in Seq(S), NEW i \in Nat \ {0} PROVE SubSeq(r, i, Len(r)) \in Seq(S)
  OBVIOUS

LEMMA StepsAlike ==
    ASSUME NEW r1, NEW r2, Len(r1) \in Nat, Len(r2) \in Nat, NEW f, NEW g,
           NEW p, p[1] \in Nat, p[2] \in Nat,
           p[1] <= Len(r1) => f[<<p[1] + 1, p[2]>>] = g[<<p[1] + 1, p[2]>>],
           p[2] <= Len(r2) => f[<<p[1], p[2] + 1>>] = g[<<p[1], p[2] + 1>>]
    PROVE  MergeStep(r1, r2, f, p) = MergeStep(r1, r2, g, p)
<1>1. CASE p[1] > Len(r1)
  BY <1>1 DEF MergeStep
<1>2. CASE ~(p[1] > Len(r1)) /\ p[2] > Len(r2)
  BY <1>2 DEF MergeStep
<1>3. CASE ~(p[1] > Len(r1)) /\ ~(p[2] > Len(r2))
  <2>1. p[1] <= Len(r1) /\ p[2] <= Len(r2)
    BY <1>3
  <2>2. f[<<p[1] + 1, p[2]>>] = g[<<p[1] + 1, p[2]>>]
          /\ f[<<p[1], p[2] + 1>>] = g[<<p[1], p[2] + 1>>]
    BY <2>1
  <2> QED
    BY <1>3, <2>2 DEF MergeStep
<1> QED
  BY <1>1, <1>2, <1>3

LEMMA MergesUpTo ==
    ASSUME NEW r1 \in Seq(Run16), NEW r2 \in Seq(Run16), NEW n \in Nat
    PROVE  \E f : \A p \in Places(r1, r2) : Left(r1, r2, p) <= n => f[p] = MergeStep(r1, r2, f, p)
<1> DEFINE Good(m) == \E f : \A p \in Places(r1, r2) :
                                 Left(r1, r2, p) <= m => f[p] = MergeStep(r1, r2, f, p)
           Bad == {m \in Nat : ~Good(m)}
<1>1. SUFFICES ASSUME Bad # {} PROVE FALSE
  OBVIOUS
<1>2. PICK m \in Bad : \A j \in Bad : m <= j
  <2>1. Bad \subseteq Nat
    OBVIOUS
  <2> HIDE DEF Bad
  <2> QED
    BY <1>1, <2>1, LeastOfNaturals
<1>3. \E g : m = 0 \/ \A p \in Places(r1, r2) :
                          Left(r1, r2, p) <= m - 1 => g[p] = MergeStep(r1, r2, g, p)
  <2>1. CASE m # 0
    <3>1. m - 1 \in Nat /\ m - 1 \notin Bad
      BY <1>2, <2>1
    <3>2. Good(m - 1)
      BY <3>1
    <3> QED
      BY <3>2
  <2> QED
    BY <2>1
<1>4. PICK g : m = 0 \/ \A p \in Places(r1, r2) :
                            Left(r1, r2, p) <= m - 1 => g[p] = MergeStep(r1, r2, g, p)
  BY <1>3
<1> DEFINE Old(p) == m # 0 /\ Left(r1, r2, p) <= m - 1
           f == [p \in Places(r1, r2) |-> IF Old(p) THEN g[p] ELSE MergeStep(r1, r2, g, p)]
<1>5. m \in Nat
  BY <1>2
<1>6. ASSUME NEW p \in Places(r1, r2) PROVE f[p] = IF Old(p) THEN g[p] ELSE MergeStep(r1, r2, g, p)
  OBVIOUS
<1> HIDE DEF f
<1>7. ASSUME NEW p \in Places(r1, r2), Left(r1, r2, p) <= m PROVE f[p] = MergeStep(r1, r2, f, p)
  <2>1. f[p] = MergeStep(r1, r2, g, p)
    BY <1>4, <1>6
  <2>2. /\ Left(r1, r2, p) \in Nat
        /\ p[1] <= Len(r1) => f[<<p[1] + 1, p[2]>>] = g[<<p[1] + 1, p[2]>>]
        /\ p[2] <= Len(r2) => f[<<p[1], p[2] + 1>>] = g[<<p[1], p[2] + 1>>]
    <3>1. /\ Left(r1, r2, p) \in Nat
          /\ p[1] <= Len(r1) => /\ <<p[1] + 1, p[2]>> \in Places(r1, r2)
                                /\ Left(r1, r2, <<p[1] + 1, p[2]>>) = Left(r1, r2, p) - 1
          /\ p[2] <= Len(r2) => /\ <<p[1], p[2] + 1>> \in Places(r1, r2)
                                /\ Left(r1, r2, <<p[1], p[2] + 1>>) = Left(r1, r2, p) - 1
      BY LeftIs
    <3>2. ASSUME NEW q \in Places(r1, r2), Left(r1, r2, q) = Left(r1, r2, p) - 1 PROVE f[q] = g[q]
      <4>1. Left(r1, r2, q) \in Nat
        BY LeftIs
      <4>2. Old(q)
        BY <1>5, <1>7, <3>1, <3>2, <4>1
      <4> QED
        BY <1>6, <4>2
    <3> QED
      BY <3>1, <3>2
  <2>3. p[1] \in Nat /\ p[2] \in Nat
    BY LeftIs
  <2>4. Len(r1) \in Nat /\ Len(r2) \in Nat
    OBVIOUS
  <2>5. MergeStep(r1, r2, f, p) = MergeStep(r1, r2, g, p)
    <3> HIDE DEF Good, Bad, Old
    <3>1. p[1] <= Len(r1) => f[<<p[1] + 1, p[2]>>] = g[<<p[1] + 1, p[2]>>]
      BY <2>2
    <3>2. p[2] <= Len(r2) => f[<<p[1], p[2] + 1>>] = g[<<p[1], p[2] + 1>>]
      BY <2>2
    <3> QED
      BY <2>3, <2>4, <3>1, <3>2, StepsAlike
  <2> QED
    BY <2>1, <2>5
<1>8. Good(m)
  BY <1>7
<1> QED
  BY <1>2, <1>8

LEMMA MergedIs ==
    ASSUME NEW r1 \in Seq(Run16), NEW r2 \in Seq(Run16) PROVE Merged(r1, r2) \in Seq(Run16)
<1> DEFINE w == CHOOSE f : f = [p \in (1..(Len(r1) + 1)) \X (1..(Len(r2) + 1)) |->
                     IF p[1] > Len(r1) THEN SubSeq(r2, p[2], Len(r2))
                     ELSE IF p[2] > Len(r2) THEN SubSeq(r1, p[1], Len(r1))
                     ELSE IF r1[p[1]].value <= r2[p[2]].value THEN <<r1[p[1]]>> \o f[<<p[1] + 1, p[2]>>]
                     ELSE <<r2[p[2]]>> \o f[<<p[1], p[2] + 1>>]]
           P == Places(r1, r2)
<1>1. \E f : f = [p \in P |-> MergeStep(r1, r2, f, p)]
  <2> DEFINE n == Len(r1) + Len(r2) + 2
  <2>1. n \in Nat
    OBVIOUS
  <2>2. PICK f : \A p \in Places(r1, r2) : Left(r1, r2, p) <= n => f[p] = MergeStep(r1, r2, f, p)
    BY <2>1, MergesUpTo
  <2>3. \A p \in P : Left(r1, r2, p) <= n
    <3> SUFFICES ASSUME NEW p \in P PROVE Left(r1, r2, p) <= n
      OBVIOUS
    <3>1. p[1] \in Nat /\ p[2] \in Nat
      BY LeftIs
    <3> QED
      BY <2>1, <3>1 DEF Left
  <2> DEFINE u == [p \in P |-> f[p]]
  <2>4. ASSUME NEW p \in P PROVE f[p] = MergeStep(r1, r2, u, p)
    <3>1. p[1] <= Len(r1) => <<p[1] + 1, p[2]>> \in P
      BY LeftIs
    <3>2. p[2] <= Len(r2) => <<p[1], p[2] + 1>> \in P
      BY LeftIs
    <3>3. p[1] \in Nat /\ p[2] \in Nat
      BY LeftIs
    <3>4. f[p] = MergeStep(r1, r2, f, p)
      BY <2>2, <2>3
    <3>5. /\ p[1] <= Len(r1) => u[<<p[1] + 1, p[2]>>] = f[<<p[1] + 1, p[2]>>]
          /\ p[2] <= Len(r2) => u[<<p[1], p[2] + 1>>] = f[<<p[1], p[2] + 1>>]
      BY <3>1, <3>2
    <3>6. Len(r1) \in Nat /\ Len(r2) \in Nat
      OBVIOUS
    <3> HIDE DEF P, n, u
    <3>7. MergeStep(r1, r2, f, p) = MergeStep(r1, r2, u, p)
      BY <3>3, <3>5, <3>6, StepsAlike
    <3> QED
      BY <3>4, <3>7
  <2>5. u = [p \in P |-> MergeStep(r1, r2, u, p)]
    BY <2>4
  <2> QED
    BY <2>5
<1>2. w = [p \in P |-> MergeStep(r1, r2, w, p)]
  BY <1>1 DEF Places, MergeStep
<1>3. Merged(r1, r2) = w[<<1, 1>>]
  BY DEF Merged
<1> HIDE DEF w
<1>4. \A p \in P : w[p] = MergeStep(r1, r2, w, p)
  BY <1>2
<1> DEFINE Bad == {n \in Nat : \E p \in P : Left(r1, r2, p) = n /\ w[p] \notin Seq(Run16)}
<1>5. SUFFICES ASSUME Bad # {} PROVE FALSE
  <2>1. <<1, 1>> \in P
    BY DEF Places
  <2>2. Left(r1, r2, <<1, 1>>) \in Nat
    BY <2>1, LeftIs
  <2> QED
    BY <1>3, <2>1, <2>2
<1>6. PICK n \in Bad : \A j \in Bad : n <= j
  <2>1. Bad \subseteq Nat
    OBVIOUS
  <2> HIDE DEF Bad
  <2> QED
    BY <1>5, <2>1, LeastOfNaturals
<1>7. PICK p \in P : Left(r1, r2, p) = n /\ w[p] \notin Seq(Run16)
  BY <1>6
<1>8. /\ p[1] \in Nat \ {0} /\ p[2] \in Nat \ {0} /\ p[1] <= Len(r1) + 1 /\ p[2] <= Len(r2) + 1
      /\ Len(r1) \in Nat /\ Len(r2) \in Nat
      /\ p[1] <= Len(r1) => /\ <<p[1] + 1, p[2]>> \in P
                            /\ Left(r1, r2, <<p[1] + 1, p[2]>>) = n - 1
      /\ p[2] <= Len(r2) => /\ <<p[1], p[2] + 1>> \in P
                            /\ Left(r1, r2, <<p[1], p[2] + 1>>) = n - 1
  BY <1>7, LeftIs
<1>9. ASSUME NEW q \in P, Left(r1, r2, q) = n - 1 PROVE w[q] \in Seq(Run16)
  <2>1. Left(r1, r2, q) \in Nat
    BY LeftIs
  <2>2. n - 1 \in Nat /\ n - 1 \notin Bad
    BY <1>6, <1>9, <2>1
  <2> QED
    BY <1>9, <2>2
<1>10. w[p] \in Seq(Run16)
  <2>1. CASE p[1] > Len(r1)
    <3>1. w[p] = SubSeq(r2, p[2], Len(r2))
      BY <1>4, <2>1 DEF MergeStep
    <3> QED
      BY <1>8, <3>1, RestIs
  <2>2. CASE ~(p[1] > Len(r1)) /\ p[2] > Len(r2)
    <3>1. w[p] = SubSeq(r1, p[1], Len(r1))
      BY <1>4, <2>2 DEF MergeStep
    <3> QED
      BY <1>8, <3>1, RestIs
  <2>3. CASE ~(p[1] > Len(r1)) /\ ~(p[2] > Len(r2))
    <3>1. /\ w[<<p[1] + 1, p[2]>>] \in Seq(Run16) /\ w[<<p[1], p[2] + 1>>] \in Seq(Run16)
          /\ r1[p[1]] \in Run16 /\ r2[p[2]] \in Run16
      <4>1. p[1] \in 1..Len(r1) /\ p[2] \in 1..Len(r2)
        BY <1>8, <2>3
      <4>2. r1[p[1]] \in Run16 /\ r2[p[2]] \in Run16
        BY <4>1
      <4>3. p[1] <= Len(r1) /\ p[2] <= Len(r2)
        BY <1>8, <2>3
      <4> QED
        BY <1>8, <1>9, <4>2, <4>3
    <3> DEFINE a == w[<<p[1] + 1, p[2]>>]
               b == w[<<p[1], p[2] + 1>>]
    <3>2. w[p] = <<r1[p[1]]>> \o a \/ w[p] = <<r2[p[2]]>> \o b
      BY <1>4, <2>3 DEF MergeStep
    <3>3. a \in Seq(Run16) /\ b \in Seq(Run16)
      BY <3>1
    <3> HIDE DEF a, b
    <3>4. r1[p[1]] \in Run16 /\ r2[p[2]] \in Run16
      BY <3>1
    <3> DEFINE c == r1[p[1]]
               d == r2[p[2]]
    <3>5. c \in Run16 /\ d \in Run16 /\ (w[p] = <<c>> \o a \/ w[p] = <<d>> \o b)
      BY <3>2, <3>4
    <3> HIDE DEF c, d
    <3>6. <<c>> \o a \in Seq(Run16) /\ <<d>> \o b \in Seq(Run16)
      BY <3>3, <3>5
    <3> QED
      BY <3>5, <3>6
  <2> QED
    BY <2>1, <2>2, <2>3
<1> QED
  BY <1>7, <1>10

LEMMA OneOfTwo ==
    ASSUME NEW a \in Int, NEW b \in Int
    PROVE  Min({a, b}) \in Int /\ Max({a, b}) \in Int
<1>1. \E x \in {a, b} : \A y \in {a, b} : x <= y
  OBVIOUS
<1>2. \E x \in {a, b} : \A y \in {a, b} : x >= y
  OBVIOUS
<1>3. Min({a, b}) \in {a, b} /\ Max({a, b}) \in {a, b}
  BY <1>1, <1>2, Zenon DEF Min, Max
<1> QED
  BY <1>3

LEMMA LastRunSet ==
    ASSUME NEW runs \in Seq(Run16), NEW n, n = Len(runs), n # 0, NEW r \in Run16
    PROVE  [runs EXCEPT ![n] = r] \in Seq(Run16)
<1>1. n \in 1..Len(runs) /\ Len(runs) \in Nat
  OBVIOUS
<1> QED
  BY <1>1

LEMMA AppendRunIs ==
    ASSUME NEW runs \in Seq(Run16), NEW run \in Run16 PROVE AppendRun(runs, run) \in Seq(Run16)
<1> DEFINE n == Len(runs)
           last == runs[n]
           r == Run(last.value, End(run) - last.value)
<1>1. CASE n = 0 \/ run.value > End(last) + 1
  <2>1. AppendRun(runs, run) = Append(runs, run)
    BY <1>1 DEF AppendRun
  <2> QED
    BY <2>1
<1>2. CASE n # 0
  <2>1. last \in Run16
    BY <1>2
  <2>2. r \in Run16
    <3>1. last.value \in Int /\ End(run) - last.value \in Int
      BY <2>1, RunFields
    <3> QED
      BY <3>1, RunIs
  <2>3. [runs EXCEPT ![n] = r] \in Seq(Run16)
    BY <1>2, <2>2, LastRunSet
  <2>4. AppendRun(runs, run) \in {Append(runs, run), [runs EXCEPT ![n] = r], runs}
    BY <1>2 DEF AppendRun
  <2>5. Append(runs, run) \in Seq(Run16)
    OBVIOUS
  <2> HIDE DEF r, n
  <2> QED
    BY <2>3, <2>4, <2>5
<1> QED
  BY <1>1, <1>2

LEMMA AppendExclusiveIs ==
    ASSUME NEW runs \in Seq(Run16), NEW run \in Run16
    PROVE  AppendExclusive(runs, run) \in Seq(Run16)
<1> DEFINE n == Len(runs)
           last == runs[n]
           oldEnd == End(last) + 1
           newEnd == End(run) + 1
           from == Min({oldEnd, newEnd})
           to == Max({oldEnd, newEnd})
           r == Run(last.value, last.length + run.length + 1)
           a == Run(last.value, run.value - last.value - 1)
           b == Run(from, to - from - 1)
           before == SubSeq(runs, 1, n - 1)
           A == IF run.value = last.value THEN <<>> ELSE <<a>>
           B == IF from = to THEN <<>> ELSE <<b>>
<1>1. Append(runs, run) \in Seq(Run16)
  OBVIOUS
<1>2. CASE n = 0
  <2>1. AppendExclusive(runs, run) = Append(runs, run)
    BY <1>2 DEF AppendExclusive
  <2> QED
    BY <1>1, <2>1
<1>3. CASE n # 0
  <2>1. last \in Run16
    BY <1>3
  <2>2. /\ last.value \in Int /\ last.length \in Int /\ oldEnd \in Int /\ newEnd \in Int
        /\ run.value \in Int /\ run.length \in Int
    BY <2>1, RunFields
  <2>3. AppendExclusive(runs, run)
            \in {Append(runs, run), [runs EXCEPT ![n] = r], before \o A \o B}
    BY <1>3 DEF AppendExclusive
  <2>4. from \in Int /\ to \in Int
    <3> HIDE DEF oldEnd, newEnd
    <3> QED
      BY <2>2, OneOfTwo
  <2> HIDE DEF last, oldEnd, newEnd, from, to
  <2>5. r \in Run16 /\ a \in Run16 /\ b \in Run16
    BY <2>2, <2>4, RunIs
  <2>6. before \in Seq(Run16)
    <3>1. n - 1 \in Nat /\ n - 1 <= n
      BY <1>3
    <3> QED
      BY <3>1
  <2>7. [runs EXCEPT ![n] = r] \in Seq(Run16)
    <3> HIDE DEF r
    <3> QED
      BY <1>3, <2>5, LastRunSet
  <2>8. A \in Seq(Run16) /\ B \in Seq(Run16)
    <3> HIDE DEF a, b
    <3> QED
      BY <2>5
  <2>9. before \o A \o B \in Seq(Run16)
    <3> HIDE DEF before, A, B
    <3> QED
      BY <2>6, <2>8
  <2> HIDE DEF r, before, A, B, n
  <2> QED
    BY <1>1, <2>3, <2>7, <2>9
<1> QED
  BY <1>2, <1>3

\* Runs joined one after another to those of base, in the order of s.  The fold does it for
\* the places in a set; t[i] is what it has after the first i of them.
Joins(xor, runs, run) == IF xor THEN AppendExclusive(runs, run) ELSE AppendRun(runs, run)
Folds(xor, base, s, n, f) ==
    f = [T \in SUBSET (1..n) |-> IF T = {} THEN base ELSE Joins(xor, f[T \ {Max(T)}], s[Max(T)])]
Traced(xor, base, s, t) == t[0] = base /\ \A i \in 1..Len(s) : t[i] = Joins(xor, t[i - 1], s[i])

LEMMA MaxOfInterval ==
    ASSUME NEW m \in Nat, m > 0, NEW T \in SUBSET (1..m), m \in T
    PROVE  Max(T) = m
<1>1. \A y \in T : m >= y
  OBVIOUS
<1>2. Max(T) \in T /\ \A y \in T : Max(T) >= y
  BY <1>1, Zenon DEF Max
<1>3. Max(T) \in 1..m /\ Max(T) >= m
  BY <1>2
<1> QED
  BY <1>3

LEMMA FoldsExist ==
    ASSUME NEW xor, NEW base, NEW n \in Nat, NEW s
    PROVE  \E f : Folds(xor, base, s, n, f)
<1> DEFINE Bad == {m \in Nat : ~\E f : Folds(xor, base, s, m, f)}
<1>1. SUFFICES ASSUME Bad # {} PROVE FALSE
  OBVIOUS
<1>2. PICK x \in Bad : \A y \in Bad : x <= y
  <2>1. Bad \subseteq Nat
    OBVIOUS
  <2> HIDE DEF Bad
  <2> QED
    BY <1>1, <2>1, LeastOfNaturals
<1>3. x # 0
  <2>1. \A T \in SUBSET (1..0) : T = {}
    OBVIOUS
  <2>2. Folds(xor, base, s, 0, [T \in SUBSET (1..0) |-> base])
    BY <2>1 DEF Folds
  <2> QED
    BY <2>2, <1>2
<1>4. x - 1 \in Nat /\ x > 0 /\ ~(x - 1 \in Bad)
  BY <1>2, <1>3
<1>5. PICK g : Folds(xor, base, s, x - 1, g)
  BY <1>4
<1> DEFINE f == [T \in SUBSET (1..x) |-> IF x \in T THEN Joins(xor, g[T \ {x}], s[x]) ELSE g[T]]
<1>6. ASSUME NEW T \in SUBSET (1..x)
      PROVE  f[T] = IF T = {} THEN base ELSE Joins(xor, f[T \ {Max(T)}], s[Max(T)])
  <2>1. CASE x \in T
    <3>1. Max(T) = x
      BY <1>4, <2>1, MaxOfInterval
    <3>2. T \ {x} \in SUBSET (1..x) /\ ~(x \in T \ {x})
      OBVIOUS
    <3> QED
      BY <2>1, <3>1, <3>2
  <2>2. CASE ~(x \in T)
    <3>1. T \in SUBSET (1..x - 1)
      BY <1>4, <2>2
    <3>2. T \ {Max(T)} \in SUBSET (1..x) /\ ~(x \in T \ {Max(T)})
      BY <2>2
    <3>3. f[T] = g[T] /\ f[T \ {Max(T)}] = g[T \ {Max(T)}]
      BY <2>2, <3>2
    <3>4. g[T] = IF T = {} THEN base ELSE Joins(xor, g[T \ {Max(T)}], s[Max(T)])
      BY <1>5, <3>1 DEF Folds
    <3> QED
      BY <3>3, <3>4
  <2> QED
    BY <2>1, <2>2
<1>7. Folds(xor, base, s, x, f)
  BY <1>6 DEF Folds
<1> QED
  BY <1>2, <1>7

LEMMA FoldsTraced ==
    ASSUME NEW xor, NEW base, NEW s, Len(s) \in Nat, NEW f, Folds(xor, base, s, Len(s), f)
    PROVE  \E t : Traced(xor, base, s, t) /\ t[Len(s)] = f[1..Len(s)]
<1> DEFINE n == Len(s)
           t == [i \in 0..n |-> f[1..i]]
<1>1. t[0] = base
  <2>1. 1..0 = {} /\ 0 \in 0..n /\ {} \in SUBSET (1..n)
    OBVIOUS
  <2> QED
    BY <2>1 DEF Folds
<1>2. ASSUME NEW i \in 1..n PROVE t[i] = Joins(xor, t[i - 1], s[i])
  <2>1. i \in 0..n /\ i - 1 \in 0..n /\ i \in Nat /\ i > 0
    OBVIOUS
  <2>2. i \in 1..i /\ 1..i # {} /\ (1..i) \ {i} = 1..(i - 1) /\ 1..i \in SUBSET (1..n)
    <3>1. i \in 1..i
      BY <2>1
    <3>2. (1..i) \ {i} = 1..(i - 1)
      BY <2>1
    <3>3. 1..i \in SUBSET (1..n)
      <4>1. n \in Nat
        OBVIOUS
      <4> HIDE DEF n
      <4>2. \A j \in 1..i : j \in 1..n
        BY <2>1, <4>1
      <4> QED
        BY <4>2
    <3> QED
      BY <3>1, <3>2, <3>3
  <2>3. Max(1..i) = i
    BY <2>1, <2>2, MaxOfInterval
  <2>4. f[1..i] = Joins(xor, f[1..(i - 1)], s[i])
    BY <2>2, <2>3 DEF Folds
  <2> QED
    BY <2>1, <2>4
<1>3. n \in 0..n
  OBVIOUS
<1> QED
  BY <1>1, <1>2, <1>3 DEF Traced

LEMMA FoldedOr ==
    ASSUME NEW s, NEW base, Len(s) \in Nat, DOMAIN s = 1..Len(s)
    PROVE  \E t : Traced(FALSE, base, s, t) /\ t[Len(s)] = FoldLeft(AppendRun, base, s)
<1> DEFINE n == Len(s)
           g == CHOOSE f : f = [T \in SUBSET (DOMAIN s) |->
                                   IF T = {} THEN base ELSE AppendRun(f[T \ {Max(T)}], s[Max(T)])]
<1>1. FoldLeft(AppendRun, base, s) = g[1..Len(s)]
  BY DEF FoldLeft, MapThenFoldSet
<1>2. PICK f : Folds(FALSE, base, s, n, f)
  BY FoldsExist
<1>3. Folds(FALSE, base, s, Len(s), g)
  BY <1>2 DEF Folds, Joins
<1> HIDE DEF g, n
<1>4. PICK t : Traced(FALSE, base, s, t) /\ t[Len(s)] = g[1..Len(s)]
  BY <1>3, FoldsTraced
<1> QED
  BY <1>1, <1>4

LEMMA FoldedXor ==
    ASSUME NEW s, NEW base, Len(s) \in Nat, DOMAIN s = 1..Len(s)
    PROVE  \E t : Traced(TRUE, base, s, t) /\ t[Len(s)] = FoldLeft(AppendExclusive, base, s)
<1> DEFINE n == Len(s)
           g == CHOOSE f : f = [T \in SUBSET (DOMAIN s) |->
                                   IF T = {} THEN base ELSE AppendExclusive(f[T \ {Max(T)}], s[Max(T)])]
<1>1. FoldLeft(AppendExclusive, base, s) = g[1..Len(s)]
  BY DEF FoldLeft, MapThenFoldSet
<1>2. PICK f : Folds(TRUE, base, s, n, f)
  BY FoldsExist
<1>3. Folds(TRUE, base, s, Len(s), g)
  BY <1>2 DEF Folds, Joins
<1> HIDE DEF g, n
<1>4. PICK t : Traced(TRUE, base, s, t) /\ t[Len(s)] = g[1..Len(s)]
  BY <1>3, FoldsTraced
<1> QED
  BY <1>1, <1>4

LEMMA TracedIs ==
    ASSUME NEW xor, NEW s \in Seq(Run16), NEW t, Traced(xor, <<>>, s, t)
    PROVE  t[Len(s)] \in Seq(Run16)
<1> DEFINE n == Len(s)
           Bad == {m \in Nat : m <= n /\ t[m] \notin Seq(Run16)}
<1>1. SUFFICES ASSUME Bad # {} PROVE FALSE
  OBVIOUS
<1>2. PICK x \in Bad : \A y \in Bad : x <= y
  <2>1. Bad \subseteq Nat
    OBVIOUS
  <2> HIDE DEF Bad
  <2> QED
    BY <1>1, <2>1, LeastOfNaturals
<1>3. x # 0
  <2>1. t[0] \in Seq(Run16)
    BY DEF Traced
  <2> QED
    BY <1>2, <2>1
<1>4. x \in 1..n /\ x - 1 \in Nat /\ x - 1 <= n /\ x - 1 \notin Bad
  BY <1>2, <1>3
<1>5. t[x - 1] \in Seq(Run16) /\ s[x] \in Run16 /\ t[x] = Joins(xor, t[x - 1], s[x])
  BY <1>4 DEF Traced
<1>6. t[x] \in Seq(Run16)
  BY <1>5, AppendRunIs, AppendExclusiveIs DEF Joins
<1> QED
  BY <1>2, <1>6

LEMMA UnionRunsIs ==
    ASSUME NEW r1 \in Seq(Run16), NEW r2 \in Seq(Run16) PROVE UnionRuns(r1, r2) \in Seq(Run16)
<1> DEFINE s == Merged(r1, r2)
<1>1. s \in Seq(Run16)
  BY MergedIs
<1>2. UnionRuns(r1, r2) = FullRun \/ UnionRuns(r1, r2) = FoldLeft(AppendRun, <<>>, s)
  BY DEF UnionRuns
<1> HIDE DEF s
<1>3. FoldLeft(AppendRun, <<>>, s) \in Seq(Run16)
  <2>1. Len(s) \in Nat /\ DOMAIN s = 1..Len(s)
    BY <1>1
  <2> QED
    BY <1>1, <2>1, FoldedOr, TracedIs
<1> QED
  BY <1>2, <1>3, FullRunIs

LEMMA XorRunsIs ==
    ASSUME NEW r1 \in Seq(Run16), NEW r2 \in Seq(Run16) PROVE XorRuns(r1, r2) \in Seq(Run16)
<1> DEFINE s == Merged(r1, r2)
<1>1. s \in Seq(Run16)
  BY MergedIs
<1>2. XorRuns(r1, r2) = FoldLeft(AppendExclusive, <<>>, s)
  BY DEF XorRuns
<1> HIDE DEF s
<1>3. Len(s) \in Nat /\ DOMAIN s = 1..Len(s)
  BY <1>1
<1> QED
  BY <1>1, <1>2, <1>3, FoldedXor, TracedIs

-------------------------------------------------------------------------------
(* Sets of numbers *)

IsVals(S) == IsFiniteSet(S) /\ S \in SUBSET Int
Rank(S, v) == Cardinality({u \in S : u < v})

LEMMA ValsWithin ==
    ASSUME NEW S, IsVals(S), NEW T \in SUBSET S PROVE IsVals(T) /\ Cardinality(T) \in Nat
<1>1. IsFiniteSet(T)
  BY FS_Subset DEF IsVals
<1> QED
  BY <1>1, FS_CardinalityType DEF IsVals

LEMMA ValsJoined ==
    ASSUME NEW S, NEW T, IsVals(S), IsVals(T)
    PROVE  IsVals(S \cup T) /\ IsVals(S \ T) /\ IsVals(SymDiff(S, T))
<1>1. IsFiniteSet(S \cup T)
  BY FS_Union DEF IsVals
<1>2. IsVals(S \cup T)
  BY <1>1 DEF IsVals
<1>3. S \ T \in SUBSET (S \cup T) /\ SymDiff(S, T) \in SUBSET (S \cup T)
  BY DEF SymDiff
<1> HIDE DEF SymDiff
<1> QED
  BY <1>2, <1>3, ValsWithin

LEMMA NumbersAre == ASSUME NEW a \in Int, NEW b \in Int PROVE IsVals(a..b)
  BY FS_Interval DEF IsVals

LEMMA RankGrows ==
    ASSUME NEW S, IsVals(S), NEW v \in S, NEW w \in S, v < w PROVE Rank(S, v) < Rank(S, w)
<1> DEFINE A == {u \in S : u < v}
           B == {u \in S : u < w}
<1>1. v \in Int /\ w \in Int /\ S \in SUBSET Int
  BY DEF IsVals
<1>2. A \in SUBSET S /\ B \in SUBSET S /\ v \notin A
  BY <1>1
<1>3. A \cup {v} \in SUBSET B
  <2>1. \A u \in S : u < v => u < w
    BY <1>1
  <2> QED
    BY <2>1
<1> HIDE DEF A, B
<1>4. IsFiniteSet(A) /\ IsFiniteSet(B) /\ Cardinality(A) \in Nat /\ Cardinality(B) \in Nat
  BY <1>2, ValsWithin DEF IsVals
<1>5. Cardinality(A \cup {v}) = Cardinality(A) + 1
  BY <1>2, <1>4, FS_AddElement
<1>6. Cardinality(A \cup {v}) <= Cardinality(B)
  BY <1>3, <1>4, FS_Subset
<1>7. Cardinality(A) < Cardinality(B)
  BY <1>4, <1>5, <1>6
<1> QED
  BY <1>7 DEF Rank, A, B

LEMMA RankIs ==
    ASSUME NEW S, IsVals(S), NEW v \in S PROVE Rank(S, v) \in 0..(Cardinality(S) - 1)
<1> DEFINE A == {u \in S : u < v}
<1>1. v \in Int /\ S \in SUBSET Int /\ IsFiniteSet(S)
  BY DEF IsVals
<1>2. A \in SUBSET (S \ {v}) /\ A \in SUBSET S
  BY <1>1
<1> HIDE DEF A
<1>3. IsFiniteSet(S \ {v}) /\ Cardinality(S \ {v}) = Cardinality(S) - 1
  BY <1>1, FS_RemoveElement
<1>4. Cardinality(A) \in Nat /\ Cardinality(S) \in Nat
  BY <1>1, <1>2, ValsWithin, FS_CardinalityType
<1>5. Cardinality(A) <= Cardinality(S \ {v})
  BY <1>2, <1>3, FS_Subset
<1>6. Cardinality(A) \in 0..(Cardinality(S) - 1)
  BY <1>3, <1>4, <1>5
<1> QED
  BY <1>6 DEF Rank, A

\* No rank is left out: there are as many ranks as numbers, and no two have the same.
LEMMA NthIs ==
    ASSUME NEW S, IsVals(S), NEW i \in 0..(Cardinality(S) - 1)
    PROVE  \E v \in S : Rank(S, v) = i
<1> DEFINE n == Cardinality(S)
           f == [v \in S |-> Rank(S, v)]
           T == (0..(n - 1)) \ {i}
<1>1. SUFFICES ASSUME \A v \in S : Rank(S, v) # i PROVE FALSE
  OBVIOUS
<1>2. IsFiniteSet(S) /\ n \in Nat
  BY FS_CardinalityType DEF IsVals
<1>3. \A v \in S : Rank(S, v) \in 0..(n - 1)
  BY RankIs
<1>4. f \in [S -> T]
  BY <1>1, <1>3
<1> HIDE DEF f, n
<1>5. IsFiniteSet(0..(n - 1)) /\ Cardinality(0..(n - 1)) = n
  <2>1. 0 \in Int /\ n - 1 \in Int /\ i \in 0..(n - 1)
    BY <1>2 DEF n
  <2>2. ~(0 > n - 1) /\ n - 1 - 0 + 1 = n
    BY <1>2, <2>1
  <2> QED
    BY <2>1, <2>2, FS_Interval
<1>6. IsFiniteSet(T) /\ Cardinality(T) < n
  <2>1. i \in 0..(n - 1)
    BY DEF n
  <2>2. IsFiniteSet(T) /\ Cardinality(T) = Cardinality(0..(n - 1)) - 1
    BY <1>5, <2>1, FS_RemoveElement
  <2> QED
    BY <1>2, <1>5, <2>2
<1> HIDE DEF T
<1>7. PICK v \in S, w \in S : v # w /\ f[v] = f[w]
  BY <1>2, <1>4, <1>6, FS_PigeonHole DEF n
<1>8. Rank(S, v) = Rank(S, w) /\ v \in Int /\ w \in Int
  BY <1>7 DEF f, IsVals
<1>9. Rank(S, v) \in Int
  BY <1>3
<1>10. v < w \/ w < v
  BY <1>7, <1>8
<1> QED
  BY <1>8, <1>9, <1>10, RankGrows

LEMMA SortedIs ==
    ASSUME NEW S, IsVals(S)
    PROVE  /\ DOMAIN Sorted(S) = 1..Cardinality(S) /\ Cardinality(S) \in Nat
           /\ \A i \in 1..Cardinality(S) : Sorted(S)[i] \in S
<1> DEFINE n == Cardinality(S)
<1>1. n \in Nat
  BY FS_CardinalityType DEF IsVals
<1>2. DOMAIN Sorted(S) = 1..n
  BY DEF Sorted
<1>3. ASSUME NEW i \in 1..n PROVE Sorted(S)[i] \in S
  <2>1. i - 1 \in 0..(n - 1)
    BY <1>1
  <2>2. \E v \in S : Rank(S, v) = i - 1
    BY <2>1, NthIs
  <2>3. (CHOOSE v \in S : Rank(S, v) = i - 1) \in S
    BY <2>2
  <2> QED
    BY <2>3 DEF Sorted, Rank
<1> QED
  BY <1>1, <1>2, <1>3

LEMMA SinglesAre == ASSUME NEW S, IsVals(S) PROVE Singles(S) \in Seq(Run16)
<1> DEFINE n == Cardinality(S)
           s == Sorted(S)
<1>1. n \in Nat /\ DOMAIN s = 1..n /\ \A i \in 1..n : s[i] \in Int
  BY SortedIs DEF IsVals
<1>2. Singles(S) = [i \in 1..n |-> Run(s[i], 0)]
  BY <1>1 DEF Singles
<1> HIDE DEF n, s
<1>3. \A i \in 1..n : Run(s[i], 0) \in Run16
  BY <1>1, RunIs
<1> QED
  BY <1>1, <1>2, <1>3

\* As many runs begin as end.
LEMMA RunsOfAre == ASSUME NEW S, IsVals(S) PROVE RunsOf(S) \in Seq(Run16)
<1> DEFINE A == {v \in S : v - 1 \notin S}
           B == {v \in S : v + 1 \notin S}
           n == Cardinality(A)
           a == Sorted(A)
           b == Sorted(B)
           f == [v \in S \ A |-> v - 1]
<1>1. IsFiniteSet(S) /\ S \in SUBSET Int /\ Cardinality(S) \in Nat
  BY FS_CardinalityType DEF IsVals
<1>2. IsVals(A) /\ IsVals(B) /\ A \in SUBSET S /\ B \in SUBSET S
  BY ValsWithin
<1>3. f \in Injection(S \ A, S \ B) /\ f \in Surjection(S \ A, S \ B)
  <2>1. \A v \in S \ A : v \in Int /\ v - 1 \in S /\ v - 1 \notin B
    BY <1>1
  <2>2. f \in [S \ A -> S \ B]
    BY <2>1
  <2>3. \A v, w \in S \ A : f[v] = f[w] => v = w
    BY <2>1
  <2>4. ASSUME NEW w \in S \ B PROVE \E v \in S \ A : f[v] = w
    <3>1. w \in Int /\ w + 1 \in S /\ w + 1 \notin A /\ w + 1 - 1 = w
      BY <1>1
    <3> QED
      BY <3>1
  <2> DEFINE X == S \ A
             Y == S \ B
  <2>5. f \in [X -> Y] /\ (\A v, w \in X : f[v] = f[w] => v = w) /\ \A w \in Y : \E v \in X : f[v] = w
    BY <2>2, <2>3, <2>4
  <2> HIDE DEF f, X, Y
  <2>6. f \in Injection(X, Y) /\ f \in Surjection(X, Y)
    BY <2>5 DEF Injection, Surjection, IsInjective
  <2> QED
    BY <2>6 DEF X, Y
<1> HIDE DEF A, B, f
<1>4. Cardinality(S \ A) = Cardinality(S \ B)
  <2>1. IsFiniteSet(S \ A)
    BY <1>1, FS_Difference
  <2> QED
    BY <1>3, <2>1, FS_Surjection
<1>5. Cardinality(B) = n
  <2>1. S \cap A = A /\ S \cap B = B
    BY <1>2
  <2>2. Cardinality(S \ A) = Cardinality(S) - Cardinality(S \cap A)
    BY <1>1, FS_Difference
  <2>3. Cardinality(S \ B) = Cardinality(S) - Cardinality(S \cap B)
    BY <1>1, FS_Difference
  <2>4. Cardinality(A) \in Nat /\ Cardinality(B) \in Nat
    BY <1>2, SortedIs
  <2> DEFINE p == Cardinality(A)
             q == Cardinality(B)
             m == Cardinality(S)
  <2>5. m - p = m - q /\ p \in Nat /\ q \in Nat /\ m \in Nat
    BY <1>1, <1>4, <2>1, <2>2, <2>3, <2>4
  <2> HIDE DEF p, q, m
  <2>6. q = p
    BY <2>5
  <2> QED
    BY <2>6 DEF p, q
<1>6. n \in Nat /\ DOMAIN a = 1..n /\ (\A i \in 1..n : a[i] \in Int)
      /\ (\A i \in 1..n : b[i] \in Int)
  <2>1. Cardinality(A) = n
    OBVIOUS
  <2> HIDE DEF n
  <2>2. DOMAIN a = 1..n /\ n \in Nat /\ \A i \in 1..n : a[i] \in A
    BY <1>2, <2>1, SortedIs
  <2>3. \A i \in 1..n : b[i] \in B
    BY <1>2, <1>5, SortedIs
  <2> QED
    BY <1>2, <2>2, <2>3 DEF IsVals
<1>7. RunsOf(S) = [i \in 1..n |-> Run(a[i], b[i] - a[i])]
  BY <1>6 DEF RunsOf, A, B
<1> HIDE DEF n, a, b
<1>8. \A i \in 1..n : Run(a[i], b[i] - a[i]) \in Run16
  BY <1>6, RunIs
<1> QED
  BY <1>6, <1>7, <1>8

LEMMA RunValuesAre == ASSUME NEW r \in Seq(Run16) PROVE IsVals(RunValues(r))
<1> DEFINE n == Len(r)
           f == [i \in 1..n |-> r[i].value .. End(r[i])]
           T == {r[i].value .. End(r[i]) : i \in 1..n}
<1>1. n \in Nat /\ DOMAIN r = 1..n /\ \A i \in 1..n : r[i] \in Run16
  OBVIOUS
<1>2. RunValues(r) = UNION T
  BY <1>1 DEF RunValues
<1> HIDE DEF n
<1>3. \A i \in 1..n : r[i].value \in Int /\ End(r[i]) \in Int
  BY <1>1, RunFields
<1>4. \A t \in T : IsVals(t)
  <2> SUFFICES ASSUME NEW t \in T PROVE IsVals(t)
    OBVIOUS
  <2>1. PICK i \in 1..n : t = r[i].value .. End(r[i])
    OBVIOUS
  <2> DEFINE x == r[i].value
             y == End(r[i])
  <2>2. x \in Int /\ y \in Int /\ t = x..y
    BY <1>3, <2>1
  <2> HIDE DEF x, y
  <2> QED
    BY <2>2, NumbersAre
<1>5. f \in Surjection(1..n, T)
  BY DEF Surjection
<1>6. IsFiniteSet(1..n)
  BY <1>1, FS_Interval
<1> HIDE DEF f, T
<1>7. IsFiniteSet(T)
  BY <1>5, <1>6, FS_Surjection
<1>8. IsFiniteSet(UNION T)
  BY <1>4, <1>7, FS_UNION DEF IsVals
<1>9. UNION T \in SUBSET Int
  BY <1>4 DEF IsVals
<1> QED
  BY <1>2, <1>8, <1>9 DEF IsVals

-------------------------------------------------------------------------------
(* Sums *)

\* What MapThenSumSet does: a number of B for each member of the set.
Chosen(s) == CHOOSE x \in s : TRUE
AddStep(B, f, s) == IF s = {} THEN 0 ELSE B[Chosen(s)] + f[s \ {Chosen(s)}]

LEMMA ChosenLeft ==
    ASSUME NEW S, IsFiniteSet(S), NEW s \in SUBSET S, s # {}
    PROVE  /\ Chosen(s) \in s /\ s \ {Chosen(s)} \in SUBSET S
           /\ Cardinality(s) \in Nat /\ Cardinality(s \ {Chosen(s)}) \in Nat
           /\ Cardinality(s \ {Chosen(s)}) = Cardinality(s) - 1
<1> DEFINE x == Chosen(s)
<1>1. x \in s
  BY DEF Chosen
<1>2. IsFiniteSet(s)
  BY FS_Subset
<1> HIDE DEF x
<1>3. IsFiniteSet(s \ {x}) /\ Cardinality(s \ {x}) = Cardinality(s) - 1
  BY <1>1, <1>2, FS_RemoveElement
<1>4. Cardinality(s) \in Nat /\ Cardinality(s \ {x}) \in Nat
  BY <1>2, <1>3, FS_CardinalityType
<1>5. s \ {x} \in SUBSET S
  OBVIOUS
<1> QED
  BY <1>1, <1>3, <1>4, <1>5 DEF x

LEMMA AddsUpTo ==
    ASSUME NEW S, IsFiniteSet(S), NEW B, NEW n \in Nat
    PROVE  \E f : \A s \in SUBSET S : Cardinality(s) <= n => f[s] = AddStep(B, f, s)
<1> DEFINE Good(m) == \E f : \A s \in SUBSET S : Cardinality(s) <= m => f[s] = AddStep(B, f, s)
           Bad == {m \in Nat : ~Good(m)}
<1>1. SUFFICES ASSUME Bad # {} PROVE FALSE
  OBVIOUS
<1>2. PICK m \in Bad : \A j \in Bad : m <= j
  <2>1. Bad \subseteq Nat
    OBVIOUS
  <2> HIDE DEF Bad
  <2> QED
    BY <1>1, <2>1, LeastOfNaturals
<1>3. \E g : m = 0 \/ \A s \in SUBSET S : Cardinality(s) <= m - 1 => g[s] = AddStep(B, g, s)
  <2>1. CASE m # 0
    <3>1. m - 1 \in Nat /\ m - 1 \notin Bad
      BY <1>2, <2>1
    <3>2. Good(m - 1)
      BY <3>1
    <3> QED
      BY <3>2
  <2> QED
    BY <2>1
<1>4. PICK g : m = 0 \/ \A s \in SUBSET S : Cardinality(s) <= m - 1 => g[s] = AddStep(B, g, s)
  BY <1>3
<1> DEFINE Old(s) == m # 0 /\ Cardinality(s) <= m - 1
           f == [s \in SUBSET S |-> IF Old(s) THEN g[s] ELSE AddStep(B, g, s)]
<1>5. m \in Nat
  BY <1>2
<1>6. ASSUME NEW s \in SUBSET S PROVE f[s] = IF Old(s) THEN g[s] ELSE AddStep(B, g, s)
  OBVIOUS
<1> HIDE DEF f, Good, Bad
<1>7. ASSUME NEW s \in SUBSET S, Cardinality(s) <= m PROVE f[s] = AddStep(B, f, s)
  <2>1. f[s] = AddStep(B, g, s)
    BY <1>4, <1>6
  <2>2. CASE s = {}
    BY <2>1, <2>2 DEF AddStep
  <2>3. CASE s # {}
    <3> DEFINE r == s \ {Chosen(s)}
    <3>1. r \in SUBSET S /\ Cardinality(s) \in Nat /\ Cardinality(r) \in Nat
          /\ Cardinality(r) = Cardinality(s) - 1
      BY <2>3, ChosenLeft
    <3>2. AddStep(B, f, s) = B[Chosen(s)] + f[r] /\ AddStep(B, g, s) = B[Chosen(s)] + g[r]
      BY <2>3 DEF AddStep
    <3> HIDE DEF r
    <3>3. Old(r)
      BY <1>5, <1>7, <3>1
    <3>4. f[r] = g[r]
      BY <1>6, <3>1, <3>3
    <3> QED
      BY <2>1, <3>2, <3>4
  <2> QED
    BY <2>2, <2>3
<1>8. Good(m)
  BY <1>7 DEF Good
<1> QED
  BY <1>2, <1>8 DEF Bad

Adds(B, S, f) == f = [s \in SUBSET S |-> AddStep(B, f, s)]

LEMMA AddsExist == ASSUME NEW S, IsFiniteSet(S), NEW B PROVE \E f : Adds(B, S, f)
<1> DEFINE n == Cardinality(S)
<1>1. n \in Nat /\ \A s \in SUBSET S : Cardinality(s) <= n
  BY FS_CardinalityType, FS_Subset
<1> HIDE DEF n
<1>2. PICK f : \A s \in SUBSET S : Cardinality(s) <= n => f[s] = AddStep(B, f, s)
  BY <1>1, AddsUpTo
<1> DEFINE u == [s \in SUBSET S |-> f[s]]
<1>3. ASSUME NEW s \in SUBSET S PROVE f[s] = AddStep(B, u, s)
  <2>1. f[s] = AddStep(B, f, s)
    BY <1>1, <1>2
  <2>2. s # {} => s \ {Chosen(s)} \in SUBSET S
    OBVIOUS
  <2> QED
    BY <2>1, <2>2 DEF AddStep
<1>4. u = [s \in SUBSET S |-> AddStep(B, u, s)]
  BY <1>3
<1> QED
  BY <1>4 DEF Adds

LEMMA SumIs ==
    ASSUME NEW S, IsFiniteSet(S), NEW B, \A x \in S : B[x] \in Int, NEW f, Adds(B, S, f)
    PROVE  f[S] \in Int
<1> DEFINE Bad == {n \in Nat : \E s \in SUBSET S : Cardinality(s) = n /\ f[s] \notin Int}
<1>1. SUFFICES ASSUME Bad # {} PROVE FALSE
  <2>1. S \in SUBSET S /\ Cardinality(S) \in Nat
    BY FS_CardinalityType
  <2> QED
    BY <2>1
<1>2. PICK n \in Bad : \A j \in Bad : n <= j
  <2>1. Bad \subseteq Nat
    OBVIOUS
  <2> HIDE DEF Bad
  <2> QED
    BY <1>1, <2>1, LeastOfNaturals
<1>3. PICK s \in SUBSET S : Cardinality(s) = n /\ f[s] \notin Int
  BY <1>2
<1>4. f[s] = AddStep(B, f, s)
  BY DEF Adds
<1>5. s # {}
  BY <1>3, <1>4 DEF AddStep
<1> DEFINE x == Chosen(s)
           r == s \ {x}
<1>6. x \in S /\ r \in SUBSET S /\ Cardinality(r) \in Nat /\ Cardinality(r) = n - 1 /\ n \in Nat
  BY <1>3, <1>5, ChosenLeft
<1>7. f[s] = B[x] + f[r]
  BY <1>4, <1>5 DEF AddStep
<1> HIDE DEF x, r
<1>8. n - 1 \in Nat /\ n - 1 \notin Bad
  BY <1>2, <1>6
<1>9. f[r] \in Int
  BY <1>6, <1>8
<1>10. B[x] \in Int
  BY <1>6
<1>11. B[x] + f[r] \in Int
  BY <1>9, <1>10
<1> QED
  BY <1>3, <1>7, <1>11

-------------------------------------------------------------------------------
(* Runs in order *)

\* Runs of numbers below U, each beginning more than g after the end of the one before it.
\* The runs of a container do not touch: g is 1.  Those of one number, which stand for an
\* array, may.
Legal(run) == run \in Run16 /\ run.value \in Nat /\ run.length \in Nat /\ End(run) < U

Spaced(r, g) ==
    /\ r \in Seq(Run16)
    /\ \A i \in 1..Len(r) : Legal(r[i])
    /\ \A i, j \in 1..Len(r) : i < j => End(r[i]) + g < r[j].value

Tidy(r) == Spaced(r, 1)

LEMMA LegalIs ==
    ASSUME NEW run, Legal(run)
    PROVE  /\ run \in Run16 /\ run.value \in Nat /\ run.length \in Nat /\ End(run) \in Nat
           /\ run.value <= End(run) /\ End(run) < U /\ End(run) = run.value + run.length
           /\ Holds(run, run.value) /\ Holds(run, End(run))
  BY DEF Legal, End, Holds

LEMMA InRuns ==
    ASSUME NEW r \in Seq(Run16), NEW v
    PROVE  v \in RunValues(r) <=> v \in Int /\ \E i \in 1..Len(r) : Holds(r[i], v)
<1>1. Len(r) \in Nat /\ DOMAIN r = 1..Len(r)
  OBVIOUS
<1>2. \A i \in 1..Len(r) : r[i].value \in Int /\ End(r[i]) \in Int
  BY RunFields
<1>3. v \in RunValues(r) <=> \E i \in 1..Len(r) : v \in r[i].value .. End(r[i])
  BY <1>1 DEF RunValues
<1>4. ASSUME NEW i \in 1..Len(r)
      PROVE  v \in r[i].value .. End(r[i]) <=> v \in Int /\ Holds(r[i], v)
  <2> DEFINE a == r[i].value
             b == End(r[i])
  <2>1. a \in Int /\ b \in Int
    BY <1>2
  <2>2. Holds(r[i], v) <=> a <= v /\ v <= b
    BY DEF Holds
  <2> HIDE DEF a, b
  <2>3. v \in a..b <=> v \in Int /\ a <= v /\ v <= b
    BY <2>1
  <2> QED
    BY <2>2, <2>3 DEF a, b
<1> QED
  BY <1>3, <1>4

LEMMA SpacedValues ==
    ASSUME NEW r, NEW g, Spaced(r, g) PROVE RunValues(r) \in SUBSET Numbers
<1> SUFFICES ASSUME NEW v \in RunValues(r) PROVE v \in Numbers
  OBVIOUS
<1>1. r \in Seq(Run16)
  BY DEF Spaced
<1>2. PICK i \in 1..Len(r) : Holds(r[i], v)
  BY <1>1, InRuns
<1>3. v \in Int
  BY <1>1, InRuns
<1>4. Legal(r[i])
  BY DEF Spaced
<1>5. r[i].value \in Nat /\ End(r[i]) \in Nat /\ End(r[i]) < U
  BY <1>4, LegalIs
<1> QED
  BY <1>2, <1>3, <1>5, UAssumption DEF Holds, Numbers

LEMMA NoRuns == ASSUME NEW g PROVE Spaced(<<>>, g) /\ RunValues(<<>>) = {}
<1>1. Len(<<>>) = 0 /\ DOMAIN <<>> = {} /\ <<>> \in Seq(Run16)
  OBVIOUS
<1> QED
  BY <1>1 DEF Spaced, RunValues

\* No cast cuts anything off.
LEMMA RunFits ==
    ASSUME NEW v \in Nat, NEW l \in Nat, v + l < U
    PROVE  /\ Run(v, l) = [value |-> v, length |-> l] /\ Legal(Run(v, l))
           /\ Run(v, l).value = v /\ Run(v, l).length = l /\ End(Run(v, l)) = v + l
<1>1. v % U = v /\ l % U = l
  BY UAssumption
<1>2. Run(v, l) = [value |-> v, length |-> l]
  BY <1>1 DEF Run
<1> QED
  BY <1>2 DEF Legal, End, Run16

LEMMA OneRun ==
    ASSUME NEW run, Legal(run), NEW g
    PROVE  Spaced(<<run>>, g) /\ RunValues(<<run>>) = run.value..End(run)
<1>1. Len(<<run>>) = 1 /\ <<run>>[1] = run /\ <<run>> \in Seq(Run16) /\ DOMAIN <<run>> = {1}
  BY DEF Legal
<1>2. \A i \in 1..1 : i = 1
  OBVIOUS
<1>3. Spaced(<<run>>, g)
  BY <1>1, <1>2 DEF Spaced
<1>4. RunValues(<<run>>) = run.value..End(run)
  BY <1>1 DEF RunValues
<1> QED
  BY <1>3, <1>4

LEMMA PieceFields ==
    ASSUME NEW r \in Seq(Run16), NEW a \in Nat \ {0}, NEW b \in Nat, b <= Len(r)
    PROVE  /\ SubSeq(r, a, b) \in Seq(Run16)
           /\ Len(SubSeq(r, a, b)) = IF a <= b THEN b - a + 1 ELSE 0
           /\ \A i \in 1..Len(SubSeq(r, a, b)) :
                  SubSeq(r, a, b)[i] = r[a + i - 1] /\ a + i - 1 \in a..b /\ a + i - 1 \in 1..Len(r)
  OBVIOUS

LEMMA PieceOf ==
    ASSUME NEW r, NEW g \in Nat, Spaced(r, g), NEW a \in Nat \ {0}, NEW b \in Nat, b <= Len(r)
    PROVE  /\ Spaced(SubSeq(r, a, b), g)
           /\ \A v : v \in RunValues(SubSeq(r, a, b))
                     <=> v \in Int /\ \E i \in a..b : Holds(r[i], v)
<1> DEFINE s == SubSeq(r, a, b)
           n == Len(s)
<1>1. r \in Seq(Run16) /\ Len(r) \in Nat
  BY DEF Spaced
<1>2. /\ s \in Seq(Run16) /\ n = (IF a <= b THEN b - a + 1 ELSE 0)
      /\ \A i \in 1..n : s[i] = r[a + i - 1] /\ a + i - 1 \in a..b /\ a + i - 1 \in 1..Len(r)
  BY <1>1, PieceFields
<1>3. n \in Nat
  BY <1>2
<1> HIDE DEF s, n
<1>4. \A i \in 1..n : Legal(s[i])
  BY <1>2 DEF Spaced
<1>5. ASSUME NEW i \in 1..n, NEW j \in 1..n, i < j PROVE End(s[i]) + g < s[j].value
  <2>1. a + i - 1 < a + j - 1
    BY <1>3, <1>5
  <2>2. a + i - 1 \in 1..Len(r) /\ a + j - 1 \in 1..Len(r)
    BY <1>2
  <2>3. End(r[a + i - 1]) + g < r[a + j - 1].value
    BY <2>1, <2>2 DEF Spaced
  <2> QED
    BY <1>2, <2>3
<1>6. Spaced(s, g)
  BY <1>2, <1>4, <1>5 DEF Spaced, n
<1>7. ASSUME NEW v PROVE v \in RunValues(s) <=> v \in Int /\ \E i \in a..b : Holds(r[i], v)
  <2>1. v \in RunValues(s) <=> v \in Int /\ \E i \in 1..n : Holds(s[i], v)
    BY <1>2, InRuns DEF n
  <2>2. ASSUME NEW i \in a..b, Holds(r[i], v) PROVE \E j \in 1..n : Holds(s[j], v)
    <3>1. i - a + 1 \in 1..n /\ a + (i - a + 1) - 1 = i
      BY <1>2
    <3>2. s[i - a + 1] = r[i]
      BY <1>2, <3>1
    <3> QED
      BY <2>2, <3>1, <3>2
  <2> QED
    BY <1>2, <2>1, <2>2
<1> QED
  BY <1>6, <1>7 DEF s

LEMMA JoinedFields ==
    ASSUME NEW a \in Seq(Run16), NEW b \in Seq(Run16)
    PROVE  /\ a \o b \in Seq(Run16) /\ Len(a \o b) = Len(a) + Len(b)
           /\ Len(a) \in Nat /\ Len(b) \in Nat
           /\ \A i \in 1..Len(a) : (a \o b)[i] = a[i]
           /\ \A i \in 1..Len(b) : (a \o b)[Len(a) + i] = b[i]
           /\ \A i \in 1..(Len(a) + Len(b)) :
                  i > Len(a) => i - Len(a) \in 1..Len(b) /\ (a \o b)[i] = b[i - Len(a)]
  OBVIOUS

LEMMA JoinedValues ==
    ASSUME NEW a \in Seq(Run16), NEW b \in Seq(Run16)
    PROVE  a \o b \in Seq(Run16) /\ RunValues(a \o b) = RunValues(a) \cup RunValues(b)
<1> DEFINE s == a \o b
           n == Len(a)
           m == Len(b)
<1>1. /\ s \in Seq(Run16) /\ Len(s) = n + m /\ n \in Nat /\ m \in Nat
      /\ \A i \in 1..n : s[i] = a[i]
      /\ \A i \in 1..m : s[n + i] = b[i]
      /\ \A i \in 1..(n + m) : i > n => i - n \in 1..m /\ s[i] = b[i - n]
  BY JoinedFields
<1> HIDE DEF s
<1>2. ASSUME NEW v PROVE v \in RunValues(s) <=> v \in RunValues(a) \/ v \in RunValues(b)
  <2>1. /\ v \in RunValues(s) <=> v \in Int /\ \E i \in 1..(n + m) : Holds(s[i], v)
        /\ v \in RunValues(a) <=> v \in Int /\ \E i \in 1..n : Holds(a[i], v)
        /\ v \in RunValues(b) <=> v \in Int /\ \E i \in 1..m : Holds(b[i], v)
    BY <1>1, InRuns
  <2> HIDE DEF n, m
  <2>2. ASSUME NEW i \in 1..(n + m), Holds(s[i], v)
        PROVE  (\E j \in 1..n : Holds(a[j], v)) \/ \E j \in 1..m : Holds(b[j], v)
    <3>1. CASE i > n
      BY <1>1, <2>2, <3>1
    <3>2. CASE ~(i > n)
      <4>1. i \in 1..n
        BY <1>1, <3>2
      <4> QED
        BY <1>1, <2>2, <4>1
    <3> QED
      BY <3>1, <3>2
  <2>3. ASSUME NEW i \in 1..n, Holds(a[i], v) PROVE \E j \in 1..(n + m) : Holds(s[j], v)
    <3>1. i \in 1..(n + m)
      BY <1>1
    <3> QED
      BY <1>1, <2>3, <3>1
  <2>4. ASSUME NEW i \in 1..m, Holds(b[i], v) PROVE \E j \in 1..(n + m) : Holds(s[j], v)
    <3>1. n + i \in 1..(n + m)
      BY <1>1
    <3> QED
      BY <1>1, <2>4, <3>1
  <2> QED
    BY <2>1, <2>2, <2>3, <2>4
<1> QED
  BY <1>1, <1>2 DEF s

LEMMA EndsHeld ==
    ASSUME NEW r, NEW g, Spaced(r, g), NEW i \in 1..Len(r)
    PROVE  /\ r[i].value \in RunValues(r) /\ End(r[i]) \in RunValues(r)
           /\ \A v \in Int : Holds(r[i], v) => v \in RunValues(r)
<1>1. r \in Seq(Run16) /\ Legal(r[i])
  BY DEF Spaced
<1>2. /\ Holds(r[i], r[i].value) /\ Holds(r[i], End(r[i]))
      /\ r[i].value \in Int /\ End(r[i]) \in Int
  BY <1>1, LegalIs
<1> QED
  BY <1>1, <1>2, InRuns

LEMMA JoinedIs ==
    ASSUME NEW a, NEW b, NEW g \in Nat, Spaced(a, g), Spaced(b, g),
           \A x \in RunValues(a), y \in RunValues(b) : x + g < y
    PROVE  Spaced(a \o b, g) /\ RunValues(a \o b) = RunValues(a) \cup RunValues(b)
<1> DEFINE s == a \o b
           n == Len(a)
           m == Len(b)
<1>1. a \in Seq(Run16) /\ b \in Seq(Run16)
  BY DEF Spaced
<1>2. /\ s \in Seq(Run16) /\ Len(s) = n + m /\ n \in Nat /\ m \in Nat
      /\ \A i \in 1..n : s[i] = a[i]
      /\ \A i \in 1..(n + m) : i > n => i - n \in 1..m /\ s[i] = b[i - n]
  BY <1>1, JoinedFields
<1>3. RunValues(s) = RunValues(a) \cup RunValues(b)
  BY <1>1, JoinedValues
<1> HIDE DEF s, n, m
<1>4. ASSUME NEW i \in 1..(n + m) PROVE Legal(s[i])
  <2>1. CASE i > n
    BY <1>2, <2>1 DEF Spaced, m
  <2>2. CASE ~(i > n)
    <3>1. i \in 1..n
      BY <1>2, <2>2
    <3> QED
      BY <1>2, <3>1 DEF Spaced, n
  <2> QED
    BY <2>1, <2>2
<1>5. ASSUME NEW i \in 1..(n + m), NEW j \in 1..(n + m), i < j PROVE End(s[i]) + g < s[j].value
  <2>1. CASE i > n
    <3>1. j > n
      BY <1>2, <1>5, <2>1
    <3>2. i - n \in 1..m /\ j - n \in 1..m /\ i - n < j - n /\ s[i] = b[i - n] /\ s[j] = b[j - n]
      BY <1>2, <1>5, <2>1, <3>1
    <3> QED
      BY <3>2 DEF Spaced, m
  <2>2. CASE ~(j > n)
    <3>1. i \in 1..n /\ j \in 1..n
      BY <1>2, <1>5, <2>2
    <3>2. s[i] = a[i] /\ s[j] = a[j]
      BY <1>2, <3>1
    <3> QED
      BY <1>5, <3>1, <3>2 DEF Spaced, n
  <2>3. CASE ~(i > n) /\ j > n
    <3>1. i \in 1..n
      BY <1>2, <2>3
    <3>2. j - n \in 1..m /\ s[j] = b[j - n] /\ s[i] = a[i]
      BY <1>2, <2>3, <3>1
    <3>3. End(a[i]) \in RunValues(a)
      BY <3>1, EndsHeld DEF n
    <3>4. b[j - n].value \in RunValues(b)
      BY <3>2, EndsHeld DEF m
    <3> QED
      BY <3>2, <3>3, <3>4
  <2> QED
    BY <2>1, <2>2, <2>3
<1>6. Spaced(s, g)
  BY <1>2, <1>4, <1>5 DEF Spaced
<1> QED
  BY <1>3, <1>6 DEF s

LEMMA SplitFields ==
    ASSUME NEW r \in Seq(Run16), NEW k \in 0..Len(r)
    PROVE  r = SubSeq(r, 1, k) \o SubSeq(r, k + 1, Len(r))
<1> DEFINE a == SubSeq(r, 1, k)
           b == SubSeq(r, k + 1, Len(r))
           n == Len(r)
<1>1. n \in Nat /\ k \in Nat /\ k <= n /\ k + 1 \in Nat \ {0}
  OBVIOUS
<1>2. /\ a \in Seq(Run16) /\ Len(a) = (IF 1 <= k THEN k - 1 + 1 ELSE 0)
      /\ \A i \in 1..Len(a) : a[i] = r[1 + i - 1]
  BY <1>1, PieceFields
<1>3. /\ b \in Seq(Run16) /\ Len(b) = (IF k + 1 <= n THEN n - (k + 1) + 1 ELSE 0)
      /\ \A i \in 1..Len(b) : b[i] = r[k + 1 + i - 1]
  BY <1>1, PieceFields
<1> HIDE DEF a, b
<1>4. Len(a) = k /\ Len(b) = n - k
  BY <1>1, <1>2, <1>3
<1>5. /\ a \o b \in Seq(Run16) /\ Len(a \o b) = n
      /\ \A i \in 1..k : (a \o b)[i] = a[i]
      /\ \A i \in 1..n : i > k => i - k \in 1..(n - k) /\ (a \o b)[i] = b[i - k]
  <2>1. /\ a \o b \in Seq(Run16) /\ Len(a \o b) = Len(a) + Len(b)
        /\ \A i \in 1..Len(a) : (a \o b)[i] = a[i]
        /\ \A i \in 1..(Len(a) + Len(b)) :
               i > Len(a) => i - Len(a) \in 1..Len(b) /\ (a \o b)[i] = b[i - Len(a)]
    BY <1>2, <1>3, JoinedFields
  <2>2. Len(a) + Len(b) = n
    BY <1>1, <1>4
  <2> QED
    BY <1>4, <2>1, <2>2
<1>6. ASSUME NEW i \in 1..n PROVE (a \o b)[i] = r[i]
  <2>1. CASE i > k
    <3>1. k + 1 + (i - k) - 1 = i
      BY <1>1
    <3> QED
      BY <1>3, <1>4, <1>5, <2>1, <3>1
  <2>2. CASE ~(i > k)
    <3>1. i \in 1..k /\ 1 + i - 1 = i
      BY <1>1, <2>2
    <3> QED
      BY <1>2, <1>4, <1>5, <3>1
  <2> QED
    BY <2>1, <2>2
<1> HIDE DEF n
<1>7. a \o b = r
  <2> DEFINE s == a \o b
  <2> HIDE DEF s
  <2>1. s \in Seq(Run16) /\ Len(s) = Len(r) /\ \A i \in 1..Len(r) : s[i] = r[i]
    BY <1>5, <1>6 DEF s, n
  <2>2. s = r
    BY <2>1
  <2> QED
    BY <2>2 DEF s
<1> QED
  BY <1>7 DEF a, b

\* The runs up to the k-th one and the ones after it.
LEMMA SplitAt ==
    ASSUME NEW r, NEW g \in Nat, Spaced(r, g), NEW k \in 0..Len(r)
    PROVE  /\ Spaced(SubSeq(r, 1, k), g) /\ Spaced(SubSeq(r, k + 1, Len(r)), g)
           /\ r = SubSeq(r, 1, k) \o SubSeq(r, k + 1, Len(r))
           /\ RunValues(r) = RunValues(SubSeq(r, 1, k)) \cup RunValues(SubSeq(r, k + 1, Len(r)))
           /\ \A x \in RunValues(SubSeq(r, 1, k)), y \in RunValues(SubSeq(r, k + 1, Len(r))) :
                  x + g < y
<1> DEFINE a == SubSeq(r, 1, k)
           b == SubSeq(r, k + 1, Len(r))
<1>1. r \in Seq(Run16) /\ Len(r) \in Nat /\ k \in Nat /\ k <= Len(r)
  BY DEF Spaced
<1>2. r = a \o b
  BY <1>1, SplitFields
<1>3. Spaced(a, g) /\ \A v : v \in RunValues(a) <=> v \in Int /\ \E i \in 1..k : Holds(r[i], v)
  BY <1>1, PieceOf
<1>4. /\ Spaced(b, g)
      /\ \A v : v \in RunValues(b) <=> v \in Int /\ \E i \in (k + 1)..Len(r) : Holds(r[i], v)
  BY <1>1, PieceOf
<1> HIDE DEF a, b
<1>5. RunValues(r) = RunValues(a) \cup RunValues(b)
  BY <1>2, <1>3, <1>4, JoinedValues DEF Spaced
<1>6. ASSUME NEW x \in RunValues(a), NEW y \in RunValues(b) PROVE x + g < y
  <2>1. PICK i \in 1..k : Holds(r[i], x)
    BY <1>3
  <2>2. PICK j \in (k + 1)..Len(r) : Holds(r[j], y)
    BY <1>4
  <2>3. i \in 1..Len(r) /\ j \in 1..Len(r) /\ i < j
    BY <1>1
  <2>4. End(r[i]) + g < r[j].value /\ Legal(r[i]) /\ Legal(r[j])
    BY <2>3 DEF Spaced
  <2>5. x \in Int /\ y \in Int
    BY <1>3, <1>4
  <2>6. x <= End(r[i]) /\ r[j].value <= y
    BY <2>1, <2>2 DEF Holds
  <2>7. End(r[i]) \in Nat /\ r[j].value \in Nat
    BY <2>4, LegalIs
  <2> QED
    BY <2>4, <2>5, <2>6, <2>7
<1> QED
  BY <1>2, <1>3, <1>4, <1>5, <1>6 DEF a, b

\* A run written over another one.
LEMMA ReplacedAt ==
    ASSUME NEW r \in Seq(Run16), NEW p \in 1..Len(r), NEW run \in Run16
    PROVE  [r EXCEPT ![p] = run] = SubSeq(r, 1, p - 1) \o <<run>> \o SubSeq(r, p + 1, Len(r))
<1> DEFINE n == Len(r)
           a == SubSeq(r, 1, p - 1)
           b == SubSeq(r, p + 1, Len(r))
           c == a \o <<run>>
           s == c \o b
<1>1. n \in Nat /\ p \in Nat \ {0} /\ p <= n /\ p - 1 \in Nat /\ p - 1 <= n /\ p + 1 \in Nat \ {0}
  OBVIOUS
<1>2. /\ a \in Seq(Run16) /\ Len(a) = (IF 1 <= p - 1 THEN p - 1 - 1 + 1 ELSE 0)
      /\ \A i \in 1..Len(a) : a[i] = r[1 + i - 1]
  BY <1>1, PieceFields
<1>3. /\ b \in Seq(Run16) /\ Len(b) = (IF p + 1 <= n THEN n - (p + 1) + 1 ELSE 0)
      /\ \A i \in 1..Len(b) : b[i] = r[p + 1 + i - 1]
  BY <1>1, PieceFields
<1> HIDE DEF a, b
<1>4. Len(a) = p - 1 /\ Len(b) = n - p
  BY <1>1, <1>2, <1>3
<1>5. c \in Seq(Run16) /\ Len(c) = p /\ c[p] = run /\ \A i \in 1..(p - 1) : c[i] = a[i]
  <2>1. <<run>> \in Seq(Run16) /\ Len(<<run>>) = 1 /\ <<run>>[1] = run
    OBVIOUS
  <2>2. /\ a \o <<run>> \in Seq(Run16) /\ Len(a \o <<run>>) = Len(a) + 1
        /\ \A i \in 1..Len(a) : (a \o <<run>>)[i] = a[i]
        /\ \A i \in 1..1 : (a \o <<run>>)[Len(a) + i] = <<run>>[i]
    BY <1>2, <2>1, JoinedFields
  <2>3. Len(a) + 1 = p
    BY <1>1, <1>4
  <2>4. 1 \in 1..1
    OBVIOUS
  <2> QED
    BY <1>4, <2>1, <2>2, <2>3, <2>4
<1> HIDE DEF c
<1>6. /\ s \in Seq(Run16) /\ Len(s) = n /\ \A i \in 1..p : s[i] = c[i]
      /\ \A i \in 1..n : i > p => i - p \in 1..(n - p) /\ s[i] = b[i - p]
  <2>1. /\ s \in Seq(Run16) /\ Len(s) = Len(c) + Len(b)
        /\ \A i \in 1..Len(c) : s[i] = c[i]
        /\ \A i \in 1..(Len(c) + Len(b)) :
               i > Len(c) => i - Len(c) \in 1..Len(b) /\ s[i] = b[i - Len(c)]
    BY <1>3, <1>5, JoinedFields
  <2>2. Len(c) + Len(b) = n
    BY <1>1, <1>4, <1>5
  <2> QED
    BY <1>4, <1>5, <2>1, <2>2
<1> DEFINE t == [r EXCEPT ![p] = run]
<1>7. t \in Seq(Run16) /\ Len(t) = n /\ \A i \in 1..n : t[i] = IF i = p THEN run ELSE r[i]
  OBVIOUS
<1> HIDE DEF s, t, n
<1>8. ASSUME NEW i \in 1..n PROVE s[i] = t[i]
  <2>1. CASE i > p
    <3>1. p + 1 + (i - p) - 1 = i /\ i # p
      BY <1>1, <2>1
    <3> QED
      BY <1>3, <1>4, <1>6, <1>7, <2>1, <3>1
  <2>2. CASE i = p
    <3>1. i \in 1..p
      BY <1>1, <2>2
    <3> QED
      BY <1>5, <1>6, <1>7, <2>2, <3>1
  <2>3. CASE i < p
    <3>1. i \in 1..(p - 1) /\ i \in 1..p /\ i # p /\ 1 + i - 1 = i
      BY <1>1, <2>3
    <3> QED
      BY <1>2, <1>4, <1>5, <1>6, <1>7, <3>1
  <2> QED
    BY <1>1, <2>1, <2>2, <2>3
<1>9. s = t
  BY <1>6, <1>7, <1>8
<1> QED
  BY <1>9 DEF s, t, c, a, b

\* Positions counted by a condition that holds up to some place only.
LEMMA UpToPlace ==
    ASSUME NEW n \in Nat, NEW T \in SUBSET (1..n), \A i \in T, j \in 1..n : j < i => j \in T
    PROVE  Cardinality(T) \in 0..n /\ T = 1..Cardinality(T)
<1> DEFINE Out == {m \in Nat : m + 1 \notin T}
<1>1. n + 1 \notin T /\ n \in Out
  OBVIOUS
<1>2. PICK k \in Out : \A m \in Out : k <= m
  <2>1. Out \subseteq Nat /\ Out # {}
    BY <1>1
  <2> HIDE DEF Out
  <2> QED
    BY <2>1, LeastOfNaturals
<1>3. k \in Nat /\ k <= n /\ k + 1 \notin T
  BY <1>1, <1>2
<1>4. ASSUME NEW i \in 1..k PROVE i \in T
  <2>1. i - 1 \in Nat /\ ~(k <= i - 1)
    BY <1>3
  <2>2. i - 1 \notin Out
    BY <1>2, <2>1
  <2> QED
    BY <2>1, <2>2
<1>5. ASSUME NEW i \in T PROVE i \in 1..k
  <2>1. SUFFICES ASSUME i > k PROVE FALSE
    BY <1>3
  <2>2. i = k + 1 \/ k + 1 < i
    BY <1>3, <2>1
  <2>3. k + 1 \in 1..n
    BY <1>3, <2>1
  <2> QED
    BY <1>3, <2>2, <2>3
<1>6. T = 1..k
  BY <1>4, <1>5
<1>7. Cardinality(1..k) = k
  <2>1. 1 \in Int /\ k \in Int /\ k - 1 + 1 = k
    BY <1>3
  <2>2. Cardinality(1..k) = IF 1 > k THEN 0 ELSE k - 1 + 1
    BY <2>1, FS_Interval
  <2> QED
    BY <1>3, <2>1, <2>2
<1> QED
  BY <1>3, <1>6, <1>7

-------------------------------------------------------------------------------
(* A run appended to the last run of a container, or made one with it *)

LEMMA LastApart ==
    ASSUME NEW r, NEW g \in Nat, Spaced(r, g), NEW n, n = Len(r), n # 0
    PROVE  /\ n \in Nat \ {0} /\ Legal(r[n]) /\ n \in 1..Len(r)
           /\ Spaced(SubSeq(r, 1, n - 1), g)
           /\ RunValues(r) = RunValues(SubSeq(r, 1, n - 1)) \cup (r[n].value..End(r[n]))
           /\ \A x \in RunValues(SubSeq(r, 1, n - 1)) : x + g < r[n].value
           /\ \A x \in RunValues(r) : x <= End(r[n])
           /\ \A run \in Run16 : [r EXCEPT ![n] = run] = SubSeq(r, 1, n - 1) \o <<run>>
<1> DEFINE a == SubSeq(r, 1, n - 1)
<1>1. r \in Seq(Run16)
  BY DEF Spaced
<1>2. n \in Nat \ {0} /\ n \in 1..Len(r) /\ n - 1 \in Nat /\ n - 1 <= Len(r) /\ n - 1 + 1 = n
      /\ n - 1 \in 0..Len(r)
  BY <1>1
<1>3. Legal(r[n])
  BY <1>2 DEF Spaced
<1> DEFINE b == SubSeq(r, n, Len(r))
<1>4. /\ Spaced(a, g) /\ Spaced(b, g)
      /\ RunValues(r) = RunValues(a) \cup RunValues(b)
      /\ \A x \in RunValues(a), y \in RunValues(b) : x + g < y
  <2> DEFINE k == n - 1
  <2>1. k \in 0..Len(r) /\ k + 1 = n
    BY <1>2
  <2> HIDE DEF k
  <2>2. /\ Spaced(SubSeq(r, 1, k), g) /\ Spaced(SubSeq(r, k + 1, Len(r)), g)
        /\ RunValues(r) = RunValues(SubSeq(r, 1, k)) \cup RunValues(SubSeq(r, k + 1, Len(r)))
        /\ \A x \in RunValues(SubSeq(r, 1, k)), y \in RunValues(SubSeq(r, k + 1, Len(r))) :
                  x + g < y
    BY <2>1, SplitAt
  <2> QED
    BY <2>1, <2>2 DEF k
<1>5. b = <<r[n]>>
  <2>1. /\ b \in Seq(Run16) /\ Len(b) = IF n <= Len(r) THEN Len(r) - n + 1 ELSE 0
        /\ \A i \in 1..Len(b) : b[i] = r[n + i - 1]
    BY <1>1, <1>2, PieceFields
  <2> HIDE DEF b
  <2>2. Len(b) = 1
    BY <1>1, <1>2, <2>1
  <2>3. b[1] = r[n]
    <3>1. 1 \in 1..Len(b) /\ n + 1 - 1 = n
      BY <1>2, <2>2
    <3> QED
      BY <2>1, <3>1
  <2> QED
    BY <2>1, <2>2, <2>3
<1>6. RunValues(b) = r[n].value..End(r[n])
  BY <1>3, <1>5, OneRun
<1>7. r[n].value \in RunValues(b) /\ r[n].value \in Nat /\ End(r[n]) \in Nat /\ r[n].value <= End(r[n])
  BY <1>3, <1>6, LegalIs
<1>8. \A x \in RunValues(a) : x + g < r[n].value
  BY <1>4, <1>7
<1>9. \A x \in RunValues(r) : x <= End(r[n])
  <2>1. \A x \in RunValues(r) : x \in Int
    BY <1>1, InRuns
  <2> HIDE DEF a, b
  <2> SUFFICES ASSUME NEW x \in RunValues(r) PROVE x <= End(r[n])
    OBVIOUS
  <2>2. CASE x \in RunValues(a)
    BY <1>7, <1>8, <2>1, <2>2
  <2>3. CASE x \in RunValues(b)
    BY <1>6, <1>7, <2>3
  <2> QED
    BY <1>4, <2>2, <2>3
<1>10. ASSUME NEW run \in Run16 PROVE [r EXCEPT ![n] = run] = a \o <<run>>
  <2>1. [r EXCEPT ![n] = run] = a \o <<run>> \o SubSeq(r, n + 1, Len(r))
    BY <1>1, <1>2, ReplacedAt
  <2>2. SubSeq(r, n + 1, Len(r)) = <<>>
    BY <1>1
  <2>3. a \o <<run>> \in Seq(Run16)
    <3>1. a \in Seq(Run16)
      BY <1>4 DEF Spaced
    <3> HIDE DEF a
    <3> QED
      BY <3>1
  <2> DEFINE s == a \o <<run>>
  <2>4. s \o <<>> = s
    <3> HIDE DEF s
    <3> QED
      BY <2>3 DEF s
  <2> QED
    BY <2>1, <2>2, <2>4
<1> QED
  BY <1>2, <1>3, <1>4, <1>6, <1>8, <1>9, <1>10

\* The last run begins at v or before it.
BeginsBy(r, v) == Len(r) # 0 => r[Len(r)].value <= v

LEMMA AppendIs ==
    ASSUME NEW r, NEW g \in Nat, Spaced(r, g), NEW run, Legal(run),
           \A x \in RunValues(r) : x + g < run.value
    PROVE  /\ Append(r, run) = r \o <<run>> /\ Spaced(r \o <<run>>, g)
           /\ RunValues(r \o <<run>>) = RunValues(r) \cup (run.value..End(run))
<1>1. r \in Seq(Run16) /\ run \in Run16
  BY DEF Spaced, Legal
<1>2. Append(r, run) = r \o <<run>>
  BY <1>1
<1>3. Spaced(<<run>>, g) /\ RunValues(<<run>>) = run.value..End(run)
  BY OneRun
<1>4. \A x \in RunValues(r) : x \in Int
  BY <1>1, InRuns
<1>5. \A x \in RunValues(r), y \in RunValues(<<run>>) : x + g < y
  <2>1. run.value \in Nat /\ End(run) \in Nat
    BY LegalIs
  <2> QED
    BY <1>3, <1>4, <2>1
<1> QED
  BY <1>2, <1>3, <1>5, JoinedIs

LEMMA AppendRunStep ==
    ASSUME NEW r, Tidy(r), NEW run, Legal(run), BeginsBy(r, run.value)
    PROVE  /\ Tidy(AppendRun(r, run))
           /\ RunValues(AppendRun(r, run)) = RunValues(r) \cup (run.value..End(run))
<1> DEFINE n == Len(r)
           last == r[n]
           a == SubSeq(r, 1, n - 1)
           l == Run(last.value, End(run) - last.value)
<1>1. r \in Seq(Run16) /\ Spaced(r, 1)
  BY DEF Tidy, Spaced
<1>2. /\ run.value \in Nat /\ End(run) \in Nat /\ run.value <= End(run) /\ End(run) < U
      /\ run \in Run16
  BY LegalIs
<1>3. CASE n = 0
  <2>1. r = <<>>
    BY <1>1, <1>3
  <2>2. RunValues(r) = {}
    BY <2>1, NoRuns
  <2>3. AppendRun(r, run) = Append(r, run)
    BY <1>3 DEF AppendRun
  <2>4. /\ Append(r, run) = r \o <<run>> /\ Spaced(r \o <<run>>, 1)
        /\ RunValues(r \o <<run>>) = RunValues(r) \cup (run.value..End(run))
    <3>1. \A x \in RunValues(r) : x + 1 < run.value
      BY <2>2
    <3> QED
      BY <1>1, <3>1, AppendIs
  <2> QED
    BY <2>3, <2>4 DEF Tidy
<1>4. CASE n # 0
  <2>1. /\ Legal(last) /\ Spaced(a, 1)
        /\ RunValues(r) = RunValues(a) \cup (last.value..End(last))
        /\ \A x \in RunValues(a) : x + 1 < last.value
        /\ \A x \in RunValues(r) : x <= End(last)
        /\ \A x \in Run16 : [r EXCEPT ![n] = x] = a \o <<x>>
    BY <1>1, <1>4, LastApart
  <2>2. last.value \in Nat /\ End(last) \in Nat /\ last.value <= End(last)
    BY <2>1, LegalIs
  <2>3. last.value <= run.value
    BY <1>4 DEF BeginsBy
  <2>4. AppendRun(r, run) = IF run.value > End(last) + 1 THEN Append(r, run)
                            ELSE IF End(run) + 1 > End(last) THEN [r EXCEPT ![n] = l] ELSE r
    BY <1>4 DEF AppendRun
  <2>5. \A x \in RunValues(r) : x \in Int
    BY <1>1, InRuns
  <2> HIDE DEF last, a, n
  <2>6. CASE run.value > End(last) + 1
    <3>1. \A x \in RunValues(r) : x + 1 < run.value
      BY <1>2, <2>1, <2>2, <2>5, <2>6
    <3> QED
      BY <1>1, <2>4, <2>6, <3>1, AppendIs DEF Tidy
  <2>7. CASE ~(run.value > End(last) + 1) /\ End(run) + 1 > End(last)
    <3>1. End(run) - last.value \in Nat /\ last.value + (End(run) - last.value) = End(run)
      BY <1>2, <2>2, <2>3
    <3>2. Legal(l) /\ l.value = last.value /\ End(l) = End(run)
      BY <1>2, <2>2, <3>1, RunFits
    <3>3. l \in Run16
      BY <3>2 DEF Legal
    <3> HIDE DEF l
    <3>4. /\ Spaced(a \o <<l>>, 1)
          /\ RunValues(a \o <<l>>) = RunValues(a) \cup (last.value..End(run))
      BY <2>1, <3>2, AppendIs
    <3>5. AppendRun(r, run) = a \o <<l>>
      BY <2>1, <2>4, <2>7, <3>3
    <3>6. last.value..End(run) = (last.value..End(last)) \cup (run.value..End(run))
      BY <1>2, <2>2, <2>3, <2>7
    <3> QED
      BY <2>1, <3>4, <3>5, <3>6 DEF Tidy
  <2>8. CASE ~(run.value > End(last) + 1) /\ ~(End(run) + 1 > End(last))
    <3>1. (run.value..End(run)) \subseteq (last.value..End(last))
      BY <1>2, <2>2, <2>3, <2>8
    <3> QED
      BY <2>1, <2>4, <2>8, <3>1
  <2> QED
    BY <2>6, <2>7, <2>8
<1> QED
  BY <1>3, <1>4

LEMMA TwoAre ==
    ASSUME NEW a \in Int, NEW b \in Int
    PROVE  /\ Min({a, b}) = IF a <= b THEN a ELSE b
           /\ Max({a, b}) = IF a <= b THEN b ELSE a
<1>1. \E x \in {a, b} : \A y \in {a, b} : x <= y
  OBVIOUS
<1>2. \E x \in {a, b} : \A y \in {a, b} : x >= y
  OBVIOUS
<1> DEFINE x == Min({a, b})
           y == Max({a, b})
<1>3. x \in {a, b} /\ (\A z \in {a, b} : x <= z) /\ y \in {a, b} /\ \A z \in {a, b} : y >= z
  BY <1>1, <1>2, Zenon DEF Min, Max
<1> HIDE DEF x, y
<1>4. x = (IF a <= b THEN a ELSE b) /\ y = IF a <= b THEN b ELSE a
  BY <1>3
<1> QED
  BY <1>4 DEF x, y

LEMMA AppendExclusiveStep ==
    ASSUME NEW r, Tidy(r), NEW run, Legal(run), BeginsBy(r, run.value)
    PROVE  /\ Tidy(AppendExclusive(r, run))
           /\ RunValues(AppendExclusive(r, run)) = SymDiff(RunValues(r), run.value..End(run))
<1> DEFINE n == Len(r)
           last == r[n]
           a == SubSeq(r, 1, n - 1)
           oldEnd == End(last) + 1
           newEnd == End(run) + 1
           from == Min({oldEnd, newEnd})
           to == Max({oldEnd, newEnd})
           l == Run(last.value, last.length + run.length + 1)
           b == Run(last.value, run.value - last.value - 1)
           c == Run(from, to - from - 1)
           B == IF run.value = last.value THEN <<>> ELSE <<b>>
           C == IF from = to THEN <<>> ELSE <<c>>
<1>1. r \in Seq(Run16) /\ Spaced(r, 1)
  BY DEF Tidy, Spaced
<1>2. /\ run.value \in Nat /\ End(run) \in Nat /\ run.value <= End(run) /\ End(run) < U
      /\ run \in Run16 /\ run.length \in Nat /\ End(run) = run.value + run.length
  BY LegalIs
<1>3. CASE n = 0
  <2>1. r = <<>>
    BY <1>1, <1>3
  <2>2. RunValues(r) = {}
    BY <2>1, NoRuns
  <2>3. AppendExclusive(r, run) = Append(r, run)
    BY <1>3 DEF AppendExclusive
  <2>4. SymDiff({}, run.value..End(run)) = {} \cup (run.value..End(run))
    BY DEF SymDiff
  <2>5. /\ Append(r, run) = r \o <<run>> /\ Spaced(r \o <<run>>, 1)
        /\ RunValues(r \o <<run>>) = RunValues(r) \cup (run.value..End(run))
    <3>1. \A x \in RunValues(r) : x + 1 < run.value
      BY <2>2
    <3> QED
      BY <1>1, <3>1, AppendIs
  <2> QED
    BY <2>2, <2>3, <2>4, <2>5 DEF Tidy
<1>4. CASE n # 0
  <2>1. /\ Legal(last) /\ Spaced(a, 1)
        /\ RunValues(r) = RunValues(a) \cup (last.value..End(last))
        /\ \A x \in RunValues(a) : x + 1 < last.value
        /\ \A x \in RunValues(r) : x <= End(last)
        /\ \A x \in Run16 : [r EXCEPT ![n] = x] = a \o <<x>>
    BY <1>1, <1>4, LastApart
  <2>2. /\ last.value \in Nat /\ End(last) \in Nat /\ last.value <= End(last) /\ End(last) < U
        /\ last.length \in Nat /\ End(last) = last.value + last.length
    BY <2>1, LegalIs
  <2>3. last.value <= run.value
    BY <1>4 DEF BeginsBy
  <2>4. AppendExclusive(r, run) = IF run.value > oldEnd THEN Append(r, run)
                                  ELSE IF run.value = oldEnd THEN [r EXCEPT ![n] = l]
                                  ELSE a \o B \o C
    BY <1>4 DEF AppendExclusive
  <2>5. /\ \A x \in RunValues(r) : x \in Int
        /\ \A x \in RunValues(a) : x \in Int
    BY <1>1, <2>1, InRuns DEF Spaced
  <2> HIDE DEF last, a, n
  <2> DEFINE R == run.value..End(run)
             D == last.value..End(last)
             A == RunValues(a)
  <2>6. CASE run.value > oldEnd
    <3>1. \A x \in RunValues(r) : x + 1 < run.value
      BY <1>2, <2>1, <2>2, <2>5, <2>6
    <3>2. RunValues(r) \cap R = {}
      BY <1>2, <2>5, <3>1
    <3>3. SymDiff(RunValues(r), R) = RunValues(r) \cup R
      BY <3>2 DEF SymDiff
    <3> QED
      BY <1>1, <2>4, <2>6, <3>1, <3>3, AppendIs DEF Tidy
  <2>7. CASE run.value = oldEnd
    <3>1. last.length + run.length + 1 \in Nat
          /\ last.value + (last.length + run.length + 1) = End(run)
      BY <1>2, <2>2, <2>7
    <3>2. Legal(l) /\ l.value = last.value /\ End(l) = End(run)
      BY <1>2, <2>2, <3>1, RunFits
    <3>3. l \in Run16
      BY <3>2 DEF Legal
    <3> HIDE DEF l
    <3>4. /\ Spaced(a \o <<l>>, 1)
          /\ RunValues(a \o <<l>>) = RunValues(a) \cup (last.value..End(run))
      BY <2>1, <3>2, AppendIs
    <3>5. AppendExclusive(r, run) = a \o <<l>>
      BY <1>2, <2>1, <2>2, <2>4, <2>7, <3>3
    <3>6. \A x \in A : x \notin R
      BY <1>2, <2>1, <2>2, <2>3, <2>5
    <3>7. last.value..End(run) = D \cup R /\ D \cap R = {}
      BY <1>2, <2>2, <2>3, <2>7
    <3>8. SymDiff(A \cup D, R) = A \cup (D \cup R)
      BY <3>6, <3>7 DEF SymDiff
    <3> QED
      BY <2>1, <3>4, <3>5, <3>7, <3>8 DEF Tidy
  <2>8. CASE run.value < oldEnd
    <3>1. /\ AppendExclusive(r, run) = a \o B \o C
          /\ run.value <= End(last)
      <4>1. ~(run.value > oldEnd) /\ run.value # oldEnd /\ run.value <= End(last)
        BY <1>2, <2>2, <2>8
      <4> QED
        BY <2>4, <4>1, Zenon
    <3>2. /\ oldEnd \in Nat /\ newEnd \in Nat
          /\ from = (IF oldEnd <= newEnd THEN oldEnd ELSE newEnd)
          /\ to = (IF oldEnd <= newEnd THEN newEnd ELSE oldEnd)
      <4>1. oldEnd \in Nat /\ newEnd \in Nat
        BY <1>2, <2>2
      <4> HIDE DEF oldEnd, newEnd
      <4>2. oldEnd \in Int /\ newEnd \in Int
        BY <4>1
      <4> QED
        BY <4>1, <4>2, TwoAre, Zenon
    <3> HIDE DEF from, to
    <3>3. from \in Nat /\ to \in Nat /\ from <= to /\ run.value < from /\ to <= U
      <4>1. End(last) \in Int /\ End(run) \in Int /\ run.value \in Int /\ U \in Int
        BY <1>2, <2>2, UAssumption
      <4>2. End(last) + 1 <= U /\ End(run) + 1 <= U
        BY <1>2, <2>2, <4>1
      <4>3. run.value < End(last) + 1 /\ run.value < End(run) + 1
        BY <1>2, <3>1, <4>1
      <4>4. oldEnd <= U /\ newEnd <= U /\ run.value < oldEnd /\ run.value < newEnd
        BY <4>2, <4>3
      <4> HIDE DEF oldEnd, newEnd
      <4> QED
        BY <3>2, <4>1, <4>4
    <3>4. /\ Spaced(B, 1) /\ RunValues(B) = last.value..(run.value - 1)
      <4>1. CASE run.value = last.value
        <5>1. last.value..(run.value - 1) = {}
          BY <1>2, <4>1
        <5> QED
          BY <4>1, <5>1, NoRuns
      <4>2. CASE run.value # last.value
        <5>1. run.value - last.value - 1 \in Nat
              /\ last.value + (run.value - last.value - 1) = run.value - 1 /\ run.value - 1 < U
          BY <1>2, <2>2, <2>3, <4>2, UAssumption
        <5>2. Legal(b) /\ b.value = last.value /\ End(b) = run.value - 1
          BY <2>2, <5>1, RunFits
        <5> HIDE DEF b
        <5> QED
          BY <4>2, <5>2, OneRun
      <4> QED
        BY <4>1, <4>2
    <3>5. Spaced(C, 1) /\ RunValues(C) = from..(to - 1)
      <4>1. CASE from = to
        <5>1. from..(to - 1) = {}
          BY <3>3, <4>1
        <5> QED
          BY <4>1, <5>1, NoRuns
      <4>2. CASE from # to
        <5>1. to - from - 1 \in Nat /\ from + (to - from - 1) = to - 1 /\ to - 1 < U
          BY <3>3, <4>2, UAssumption
        <5>2. Legal(c) /\ c.value = from /\ End(c) = to - 1
          BY <3>3, <5>1, RunFits
        <5> HIDE DEF c
        <5> QED
          BY <4>2, <5>2, OneRun
      <4> QED
        BY <4>1, <4>2
    <3> HIDE DEF B, C, oldEnd, newEnd
    <3>6. /\ Spaced(a \o B, 1)
          /\ RunValues(a \o B) = RunValues(a) \cup (last.value..(run.value - 1))
      <4>1. \A x \in RunValues(a), y \in RunValues(B) : x + 1 < y
        BY <1>2, <2>1, <2>2, <2>5, <3>4
      <4> QED
        BY <2>1, <3>4, <4>1, JoinedIs
    <3>7. /\ Spaced(a \o B \o C, 1)
          /\ RunValues(a \o B \o C)
                = RunValues(a) \cup (last.value..(run.value - 1)) \cup (from..(to - 1))
      <4>1. \A x \in RunValues(a \o B) : x < run.value /\ x \in Int
        BY <1>2, <2>1, <2>2, <2>3, <2>5, <3>6
      <4>2. \A x \in RunValues(a \o B), y \in RunValues(C) : x + 1 < y
        BY <1>2, <3>3, <3>5, <4>1
      <4> QED
        BY <3>5, <3>6, <4>2, JoinedIs
    <3>8. SymDiff(RunValues(a) \cup (last.value..End(last)), run.value..End(run))
             = RunValues(a) \cup (last.value..(run.value - 1)) \cup (from..(to - 1))
      <4>1. \A x \in A : x \notin R /\ x \in Int
        BY <1>2, <2>1, <2>2, <2>3, <2>5
      <4>2. ASSUME NEW x \in Int
            PROVE  (x \in D /\ x \notin R) \/ (x \in R /\ x \notin D)
                   <=> x \in last.value..(run.value - 1) \/ x \in from..(to - 1)
        <5> DEFINE p == last.value
                   q == End(last)
                   v == run.value
                   w == End(run)
        <5>1. p \in Nat /\ q \in Nat /\ v \in Nat /\ w \in Nat /\ p <= v /\ v <= q /\ v <= w
          BY <1>2, <2>2, <2>3, <3>1
        <5>2. /\ from = (IF q + 1 <= w + 1 THEN q + 1 ELSE w + 1)
              /\ to = (IF q + 1 <= w + 1 THEN w + 1 ELSE q + 1)
          BY <3>2 DEF oldEnd, newEnd
        <5>3. D = p..q /\ R = v..w
          OBVIOUS
        <5> HIDE DEF p, q, v, w, D, R
        <5>4. (x \in D /\ x \notin R) \/ (x \in R /\ x \notin D)
                <=> x \in p..(v - 1) \/ x \in from..(to - 1)
          BY <5>1, <5>2, <5>3
        <5> QED
          BY <5>4 DEF p, v
      <4>3. ASSUME NEW x
            PROVE  x \in SymDiff(A \cup D, R)
                   <=> x \in A \cup (last.value..(run.value - 1)) \cup (from..(to - 1))
        <5>1. x \in SymDiff(A \cup D, R) <=> x \in A \/ (x \in D /\ x \notin R) \/ (x \in R /\ x \notin D /\ x \notin A)
          BY <4>1 DEF SymDiff
        <5>2. x \in D \/ x \in R \/ x \in last.value..(run.value - 1) \/ x \in from..(to - 1) => x \in Int
          OBVIOUS
        <5> HIDE DEF A, D, R
        <5> QED
          BY <4>1, <4>2, <5>1, <5>2
      <4> QED
        BY <4>3
    <3> QED
      BY <2>1, <3>1, <3>7, <3>8 DEF Tidy
  <2> QED
    BY <1>2, <2>2, <2>6, <2>7, <2>8
<1> QED
  BY <1>3, <1>4

-------------------------------------------------------------------------------
(* Runs of two containers in the order of the merge loops *)

\* tag says which of the two each run is of.
Woven(s, tag) ==
    /\ s \in Seq(Run16)
    /\ \A i \in 1..Len(s) : Legal(s[i]) /\ tag[i] \in {1, 2}
    /\ \A i, j \in 1..Len(s) : i < j => /\ s[i].value <= s[j].value
                                        /\ tag[i] = tag[j] => End(s[i]) < s[j].value

Part(s, tag, which, k) == {v \in Int : \E i \in 1..k : tag[i] = which /\ Holds(s[i], v)}

Both(xor, X, Y) == IF xor THEN SymDiff(X, Y) ELSE X \cup Y

\* What was joined before, A of one and B of the other: the runs of s are after it, or begin
\* within it.
After(s, tag, A, B) ==
    \A i \in 1..Len(s) :
        /\ tag[i] = 1 => \A v \in A : v < s[i].value
        /\ tag[i] = 2 => \A v \in B : v < s[i].value
        /\ \A v \in A : v > s[i].value => v - 1 \in A
        /\ \A v \in B : v > s[i].value => v - 1 \in B

LEMMA PartOn ==
    ASSUME NEW s, NEW tag, Woven(s, tag), NEW which, NEW k \in 1..Len(s)
    PROVE  Part(s, tag, which, k)
             = Part(s, tag, which, k - 1)
               \cup (IF tag[k] = which THEN s[k].value..End(s[k]) ELSE {})
<1>1. s \in Seq(Run16) /\ Legal(s[k]) /\ Len(s) \in Nat
  BY DEF Woven
<1>2. s[k].value \in Int /\ End(s[k]) \in Int
  BY <1>1, LegalIs
<1>3. \A i : i \in 1..k <=> i \in 1..(k - 1) \/ i = k
  BY <1>1
<1>4. ASSUME NEW v
      PROVE  Holds(s[k], v) /\ v \in Int <=> v \in s[k].value..End(s[k])
  <2> DEFINE a == s[k].value
             b == End(s[k])
  <2>1. Holds(s[k], v) <=> a <= v /\ v <= b
    BY DEF Holds
  <2> HIDE DEF a, b
  <2>2. v \in a..b <=> v \in Int /\ a <= v /\ v <= b
    BY <1>2 DEF a, b
  <2> QED
    BY <2>1, <2>2 DEF a, b
<1> QED
  BY <1>3, <1>4 DEF Part

LEMMA NoPart == ASSUME NEW s, NEW tag, NEW which PROVE Part(s, tag, which, 0) = {}
<1>1. 1..0 = {}
  OBVIOUS
<1> QED
  BY <1>1 DEF Part

LEMMA FirstOfRun ==
    ASSUME NEW r, Tidy(r), NEW n, n = Len(r), n # 0
    PROVE  r[n].value \in RunValues(r) /\ r[n].value - 1 \notin RunValues(r) /\ r[n].value \in Nat
<1>1. r \in Seq(Run16) /\ n \in 1..Len(r) /\ Legal(r[n])
  BY DEF Tidy, Spaced
<1>2. r[n].value \in RunValues(r) /\ r[n].value \in Nat
  BY <1>1, EndsHeld, LegalIs DEF Tidy
<1>3. ASSUME r[n].value - 1 \in RunValues(r) PROVE FALSE
  <2>1. PICK i \in 1..Len(r) : Holds(r[i], r[n].value - 1)
    BY <1>1, <1>3, InRuns
  <2>2. Legal(r[i])
    BY DEF Tidy, Spaced
  <2>3. r[i].value \in Nat /\ End(r[i]) \in Nat
    BY <2>2, LegalIs
  <2>4. i # n
    BY <1>2, <2>1, <2>3 DEF Holds
  <2>5. End(r[i]) + 1 < r[n].value
    BY <1>1, <2>4 DEF Tidy, Spaced
  <2> QED
    BY <1>2, <2>1, <2>3, <2>5 DEF Holds
<1> QED
  BY <1>2, <1>3

\* The last run begins by the place where the next one does: what is beyond that is of one of
\* the two only, in a run that began before.
LEMMA LastBegins ==
    ASSUME NEW xor \in BOOLEAN, NEW r, Tidy(r), NEW x \in Nat, NEW X, NEW Y,
           RunValues(r) = Both(xor, X, Y),
           \A v \in X : v \in Int /\ v < x,
           \A v \in Y : v > x => v - 1 \in Y
    PROVE  BeginsBy(r, x)
<1> SUFFICES ASSUME Len(r) # 0, ~(r[Len(r)].value <= x) PROVE FALSE
  BY DEF BeginsBy
<1> DEFINE l == r[Len(r)].value
<1>1. l \in RunValues(r) /\ l - 1 \notin RunValues(r) /\ l \in Nat
  BY FirstOfRun
<1> HIDE DEF l
<1>2. l > x /\ l - 1 >= x /\ l - 1 \in Int
  BY <1>1 DEF l
<1>3. l \notin X /\ l - 1 \notin X
  BY <1>2
<1>4. l \in Y
  BY <1>1, <1>3 DEF Both, SymDiff
<1>5. l - 1 \in Y
  BY <1>2, <1>4
<1>6. l - 1 \in RunValues(r)
  BY <1>3, <1>5 DEF Both, SymDiff
<1> QED
  BY <1>1, <1>6

LEMMA JoinStep ==
    ASSUME NEW xor \in BOOLEAN, NEW r, Tidy(r), NEW run, Legal(run), BeginsBy(r, run.value)
    PROVE  /\ Tidy(Joins(xor, r, run))
           /\ RunValues(Joins(xor, r, run)) = Both(xor, RunValues(r), run.value..End(run))
<1>1. CASE xor = TRUE
  <2>1. Joins(xor, r, run) = AppendExclusive(r, run)
    BY <1>1 DEF Joins
  <2> QED
    BY <1>1, <2>1, AppendExclusiveStep DEF Both
<1>2. CASE xor = FALSE
  <2>1. Joins(xor, r, run) = AppendRun(r, run)
    BY <1>2 DEF Joins
  <2> QED
    BY <1>2, <2>1, AppendRunStep DEF Both
<1> QED
  BY <1>1, <1>2

LEMMA BothOn ==
    ASSUME NEW xor \in BOOLEAN, NEW X, NEW Y, NEW S, \A v \in X : v \notin S
    PROVE  /\ Both(xor, Both(xor, X, Y), S) = Both(xor, X \cup S, Y)
           /\ Both(xor, Both(xor, Y, X), S) = Both(xor, Y, X \cup S)
  BY DEF Both, SymDiff

LEMMA WovenFold ==
    ASSUME NEW xor \in BOOLEAN, NEW base, Tidy(base), NEW s, NEW tag, Woven(s, tag),
           NEW A \in SUBSET Int, NEW B \in SUBSET Int, After(s, tag, A, B),
           RunValues(base) = Both(xor, A, B), NEW t, Traced(xor, base, s, t)
    PROVE  \A k \in 0..Len(s) :
               /\ Tidy(t[k])
               /\ RunValues(t[k]) = Both(xor, A \cup Part(s, tag, 1, k), B \cup Part(s, tag, 2, k))
<1> DEFINE X(k) == A \cup Part(s, tag, 1, k)
           Y(k) == B \cup Part(s, tag, 2, k)
           Fine(k) == Tidy(t[k]) /\ RunValues(t[k]) = Both(xor, X(k), Y(k))
           Bad == {k \in Nat : k <= Len(s) /\ ~Fine(k)}
<1>1. s \in Seq(Run16) /\ Len(s) \in Nat
  BY DEF Woven
<1> SUFFICES \A k \in 0..Len(s) : Fine(k)
  OBVIOUS
<1> HIDE DEF Fine
<1>2. SUFFICES ASSUME Bad # {} PROVE FALSE
  BY <1>1
<1>3. PICK k \in Bad : \A y \in Bad : k <= y
  <2>1. Bad \subseteq Nat
    OBVIOUS
  <2> HIDE DEF Bad
  <2> QED
    BY <1>2, <2>1, LeastOfNaturals
<1>4. k # 0
  <2>1. Fine(0)
    BY NoPart DEF Traced, Fine
  <2> QED
    BY <1>3, <2>1
<1>5. k \in 1..Len(s) /\ k - 1 \in Nat /\ k - 1 <= Len(s) /\ k - 1 \notin Bad
  BY <1>1, <1>3, <1>4
<1>6. Fine(k - 1)
  BY <1>5
<1> DEFINE r == t[k - 1]
           run == s[k]
           x == run.value
           S == x..End(run)
<1>7. t[k] = Joins(xor, r, run) /\ Legal(run)
  BY <1>5 DEF Traced, Woven
<1>8. x \in Nat /\ End(run) \in Nat
  BY <1>7, LegalIs
<1>9. ASSUME NEW which \in {1, 2}, NEW v \in Part(s, tag, which, k - 1)
      PROVE  /\ v \in Int /\ (v > x => v - 1 \in Part(s, tag, which, k - 1))
             /\ tag[k] = which => v < x
  <2>1. PICK i \in 1..(k - 1) : tag[i] = which /\ Holds(s[i], v)
    BY DEF Part
  <2>2. v \in Int
    BY DEF Part
  <2>3. i \in 1..Len(s) /\ i < k
    BY <1>1, <1>5
  <2>4. Legal(s[i]) /\ s[i].value <= x /\ (tag[i] = tag[k] => End(s[i]) < x)
    BY <1>5, <2>3 DEF Woven
  <2>5. s[i].value \in Nat /\ End(s[i]) \in Nat
    BY <2>4, LegalIs
  <2>6. v > x => v - 1 \in Int /\ Holds(s[i], v - 1)
    BY <1>8, <2>1, <2>2, <2>4, <2>5 DEF Holds
  <2>7. v > x => v - 1 \in Part(s, tag, which, k - 1)
    BY <2>1, <2>6 DEF Part
  <2>8. tag[k] = which => v < x
    BY <1>8, <2>1, <2>2, <2>4, <2>5 DEF Holds
  <2> QED
    BY <2>2, <2>7, <2>8
<1>10. tag[k] \in {1, 2}
  BY <1>5 DEF Woven
<1>11. /\ tag[k] = 1 => \A v \in A : v < x
       /\ tag[k] = 2 => \A v \in B : v < x
       /\ \A v \in A : v > x => v - 1 \in A
       /\ \A v \in B : v > x => v - 1 \in B
  BY <1>5 DEF After
<1> HIDE DEF r, run, x, Bad
<1>12. CASE tag[k] = 1
  <2>1. \A v \in X(k - 1) : v \in Int /\ v < x
    BY <1>9, <1>11, <1>12
  <2>2. \A v \in Y(k - 1) : v > x => v - 1 \in Y(k - 1)
    BY <1>9, <1>11
  <2>3. X(k) = X(k - 1) \cup S /\ Y(k) = Y(k - 1)
    <3>1. /\ Part(s, tag, 1, k) = Part(s, tag, 1, k - 1) \cup S
          /\ Part(s, tag, 2, k) = Part(s, tag, 2, k - 1)
      <4>1. \A which : Part(s, tag, which, k)
                          = Part(s, tag, which, k - 1) \cup (IF tag[k] = which THEN S ELSE {})
        BY <1>5, PartOn DEF x, run
      <4> HIDE DEF S
      <4>2. 1 # 2
        OBVIOUS
      <4> QED
        BY <1>12, <4>1, <4>2
    <3> QED
      BY <3>1
  <2>4. \A v \in X(k - 1) : v \notin S
    BY <1>8, <2>1
  <2>5. Tidy(r) /\ RunValues(r) = Both(xor, X(k - 1), Y(k - 1))
    BY <1>6 DEF r, Fine
  <2> DEFINE P == X(k - 1)
             Q == Y(k - 1)
  <2> HIDE DEF X, Y, S, P, Q
  <2>6. BeginsBy(r, x)
    <3>1. \A v \in P : v \in Int /\ v < x
      BY <2>1 DEF P
    <3>2. \A v \in Q : v > x => v - 1 \in Q
      BY <2>2 DEF Q
    <3>3. Tidy(r) /\ RunValues(r) = Both(xor, P, Q)
      BY <2>5 DEF P, Q
    <3> QED
      BY <1>8, <3>1, <3>2, <3>3, LastBegins
  <2>7. Tidy(t[k]) /\ RunValues(t[k]) = Both(xor, Both(xor, P, Q), S)
    BY <1>7, <2>5, <2>6, JoinStep DEF x, S, P, Q
  <2>8. Both(xor, Both(xor, P, Q), S) = Both(xor, X(k), Y(k))
    BY <2>3, <2>4, BothOn DEF P, Q
  <2>9. Fine(k)
    BY <2>7, <2>8 DEF Fine
  <2> QED
    BY <1>3, <2>9 DEF Bad
<1>13. CASE tag[k] = 2
  <2>1. \A v \in Y(k - 1) : v \in Int /\ v < x
    BY <1>9, <1>11, <1>13
  <2>2. \A v \in X(k - 1) : v > x => v - 1 \in X(k - 1)
    BY <1>9, <1>11
  <2>3. Y(k) = Y(k - 1) \cup S /\ X(k) = X(k - 1)
    <3>1. /\ Part(s, tag, 2, k) = Part(s, tag, 2, k - 1) \cup S
          /\ Part(s, tag, 1, k) = Part(s, tag, 1, k - 1)
      <4>1. \A which : Part(s, tag, which, k)
                          = Part(s, tag, which, k - 1) \cup (IF tag[k] = which THEN S ELSE {})
        BY <1>5, PartOn DEF x, run
      <4> HIDE DEF S
      <4>2. 2 # 1
        OBVIOUS
      <4> QED
        BY <1>13, <4>1, <4>2
    <3> QED
      BY <3>1
  <2>4. \A v \in Y(k - 1) : v \notin S
    BY <1>8, <2>1
  <2>5. Tidy(r) /\ RunValues(r) = Both(xor, X(k - 1), Y(k - 1))
    BY <1>6 DEF r, Fine
  <2> DEFINE P == X(k - 1)
             Q == Y(k - 1)
  <2> HIDE DEF X, Y, S, P, Q
  <2>6. BeginsBy(r, x)
    <3>1. \A v \in Q : v \in Int /\ v < x
      BY <2>1 DEF Q
    <3>2. \A v \in P : v > x => v - 1 \in P
      BY <2>2 DEF P
    <3>3. Tidy(r) /\ RunValues(r) = Both(xor, Q, P)
      BY <2>5 DEF P, Q, Both, SymDiff
    <3> QED
      BY <1>8, <3>1, <3>2, <3>3, LastBegins
  <2>7. Tidy(t[k]) /\ RunValues(t[k]) = Both(xor, Both(xor, P, Q), S)
    BY <1>7, <2>5, <2>6, JoinStep DEF x, S, P, Q
  <2>8. Both(xor, Both(xor, P, Q), S) = Both(xor, X(k), Y(k))
    BY <2>3, <2>4, BothOn DEF P, Q
  <2>9. Fine(k)
    BY <2>7, <2>8 DEF Fine
  <2> QED
    BY <1>3, <2>9 DEF Bad
<1> QED
  BY <1>10, <1>12, <1>13

-------------------------------------------------------------------------------
(* Functions that put a sequence together place by place *)

\* What is added at a place, whether anything is, whether it is the last one, and the place
\* where it goes on.
\* left says how far it is from the end.
Linked(P, left, stop, nx) ==
    \A p \in P : left[p] \in Nat /\ (~stop[p] => nx[p] \in P /\ left[nx[p]] < left[p])

LinkStep(stop, add, pre, nx, f, p) ==
    IF stop[p] THEN pre[p] ELSE IF add[p] THEN pre[p] \o f[nx[p]] ELSE f[nx[p]]

LinkedUpTo(P, left, stop, add, pre, nx, n) ==
    \E f : \A p \in P : left[p] <= n => f[p] = LinkStep(stop, add, pre, nx, f, p)

LinkedAll(P, stop, add, pre, nx) == \E f : f = [p \in P |-> LinkStep(stop, add, pre, nx, f, p)]

LEMMA LinksUpTo ==
    ASSUME NEW P, NEW left, NEW stop, NEW add, NEW pre, NEW nx, Linked(P, left, stop, nx), NEW n \in Nat
    PROVE  LinkedUpTo(P, left, stop, add, pre, nx, n)
<1> DEFINE Good(m) == \E f : \A p \in P : left[p] <= m => f[p] = LinkStep(stop, add, pre, nx, f, p)
           Bad == {m \in Nat : ~Good(m)}
<1>1. SUFFICES ASSUME Bad # {} PROVE FALSE
  BY DEF LinkedUpTo
<1>2. PICK m \in Bad : \A j \in Bad : m <= j
  <2>1. Bad \subseteq Nat
    OBVIOUS
  <2> HIDE DEF Bad
  <2> QED
    BY <1>1, <2>1, LeastOfNaturals
<1>3. \E g : m = 0 \/ \A p \in P : left[p] <= m - 1 => g[p] = LinkStep(stop, add, pre, nx, g, p)
  <2>1. CASE m # 0
    <3>1. m - 1 \in Nat /\ m - 1 \notin Bad
      BY <1>2, <2>1
    <3>2. Good(m - 1)
      BY <3>1
    <3> QED
      BY <3>2
  <2> QED
    BY <2>1
<1>4. PICK g : m = 0 \/ \A p \in P : left[p] <= m - 1 => g[p] = LinkStep(stop, add, pre, nx, g, p)
  BY <1>3
<1> DEFINE Old(p) == m # 0 /\ left[p] <= m - 1
           f == [p \in P |-> IF Old(p) THEN g[p] ELSE LinkStep(stop, add, pre, nx, g, p)]
<1>5. m \in Nat
  BY <1>2
<1>6. ASSUME NEW p \in P
      PROVE  f[p] = IF Old(p) THEN g[p] ELSE LinkStep(stop, add, pre, nx, g, p)
  OBVIOUS
<1> HIDE DEF f, Good, Bad
<1>7. ASSUME NEW p \in P, left[p] <= m PROVE f[p] = LinkStep(stop, add, pre, nx, f, p)
  <2>1. f[p] = LinkStep(stop, add, pre, nx, g, p)
    BY <1>4, <1>6
  <2>2. CASE stop[p]
    BY <2>1, <2>2 DEF LinkStep
  <2>3. CASE ~stop[p]
    <3>1. nx[p] \in P /\ left[nx[p]] < left[p] /\ left[p] \in Nat /\ left[nx[p]] \in Nat
      BY <2>3 DEF Linked
    <3>2. Old(nx[p])
      BY <1>5, <1>7, <3>1
    <3>3. f[nx[p]] = g[nx[p]]
      BY <1>6, <3>1, <3>2
    <3> QED
      BY <2>1, <2>3, <3>3 DEF LinkStep
  <2> QED
    BY <2>2, <2>3
<1>8. Good(m)
  BY <1>7 DEF Good
<1> QED
  BY <1>2, <1>8 DEF Bad

LEMMA LinksExist ==
    ASSUME NEW P, NEW left, NEW stop, NEW add, NEW pre, NEW nx, Linked(P, left, stop, nx),
           NEW n \in Nat, \A p \in P : left[p] <= n
    PROVE  LinkedAll(P, stop, add, pre, nx)
<1>1. PICK f : \A p \in P : f[p] = LinkStep(stop, add, pre, nx, f, p)
  <2>1. LinkedUpTo(P, left, stop, add, pre, nx, n)
    BY LinksUpTo
  <2> QED
    BY <2>1 DEF LinkedUpTo
<1> DEFINE u == [p \in P |-> f[p]]
<1>2. ASSUME NEW p \in P PROVE f[p] = LinkStep(stop, add, pre, nx, u, p)
  <2>1. f[p] = LinkStep(stop, add, pre, nx, f, p)
    BY <1>1
  <2>2. ~stop[p] => nx[p] \in P
    BY DEF Linked
  <2>3. ~stop[p] => u[nx[p]] = f[nx[p]]
    BY <2>2
  <2> QED
    BY <2>1, <2>3 DEF LinkStep
<1>3. u = [p \in P |-> LinkStep(stop, add, pre, nx, u, p)]
  BY <1>2
<1> QED
  BY <1>3 DEF LinkedAll
MergeStep2(r1, r2, f, p) ==
    IF p[1] > Len(r1) THEN SubSeq(r2, p[2], Len(r2))
    ELSE IF p[2] > Len(r2) THEN SubSeq(r1, p[1], Len(r1))
    ELSE IF r1[p[1]].value <= r2[p[2]].value THEN <<r1[p[1]]>> \o f[<<p[1] + 1, p[2]>>]
    ELSE <<r2[p[2]]>> \o f[<<p[1], p[2] + 1>>]

LEMMA MergedSteps ==
    ASSUME NEW r1 \in Seq(Run16), NEW r2 \in Seq(Run16)
    PROVE  \E f : /\ Merged(r1, r2) = f[<<1, 1>>]
                  /\ \A p \in Places(r1, r2) : f[p] = MergeStep2(r1, r2, f, p)
<1> DEFINE P == Places(r1, r2)
           First(p) == r1[p[1]].value <= r2[p[2]].value
           left == [p \in P |-> Left(r1, r2, p)]
           stop == [p \in P |-> p[1] > Len(r1) \/ p[2] > Len(r2)]
           add == [p \in P |-> TRUE]
           pre == [p \in P |-> IF p[1] > Len(r1) THEN SubSeq(r2, p[2], Len(r2))
                               ELSE IF p[2] > Len(r2) THEN SubSeq(r1, p[1], Len(r1))
                               ELSE IF First(p) THEN <<r1[p[1]]>> ELSE <<r2[p[2]]>>]
           nx == [p \in P |-> IF First(p) THEN <<p[1] + 1, p[2]>> ELSE <<p[1], p[2] + 1>>]
           w == CHOOSE f : f = [p \in (1..(Len(r1) + 1)) \X (1..(Len(r2) + 1)) |->
                     IF p[1] > Len(r1) THEN SubSeq(r2, p[2], Len(r2))
                     ELSE IF p[2] > Len(r2) THEN SubSeq(r1, p[1], Len(r1))
                     ELSE IF r1[p[1]].value <= r2[p[2]].value THEN <<r1[p[1]]>> \o f[<<p[1] + 1, p[2]>>]
                     ELSE <<r2[p[2]]>> \o f[<<p[1], p[2] + 1>>]]
           n == Len(r1) + Len(r2) + 2
<1>1. n \in Nat /\ Len(r1) \in Nat /\ Len(r2) \in Nat
  OBVIOUS
<1>2. ASSUME NEW p \in P
      PROVE  /\ left[p] \in Nat /\ left[p] <= n
             /\ ~stop[p] => nx[p] \in P /\ left[nx[p]] < left[p]
  <2>1. /\ Left(r1, r2, p) \in Nat /\ p[1] \in Nat \ {0} /\ p[2] \in Nat \ {0}
        /\ p[1] <= Len(r1) => /\ <<p[1] + 1, p[2]>> \in P
                              /\ Left(r1, r2, <<p[1] + 1, p[2]>>) = Left(r1, r2, p) - 1
        /\ p[2] <= Len(r2) => /\ <<p[1], p[2] + 1>> \in P
                              /\ Left(r1, r2, <<p[1], p[2] + 1>>) = Left(r1, r2, p) - 1
    BY LeftIs
  <2>2. left[p] = Left(r1, r2, p) /\ \A q \in P : left[q] = Left(r1, r2, q)
    BY Zenon
  <2>3. Left(r1, r2, p) <= n
    <3> DEFINE i == p[1]
               j == p[2]
               a == Len(r1)
               b == Len(r2)
    <3>1. i \in Nat /\ j \in Nat /\ a \in Nat /\ b \in Nat /\ Left(r1, r2, p) = a + b + 2 - i - j
      BY <1>1, <2>1 DEF Left
    <3> HIDE DEF i, j, a, b
    <3>2. a + b + 2 - i - j <= a + b + 2
      BY <3>1
    <3> QED
      BY <3>1, <3>2 DEF a, b
  <2>4. ~stop[p] => p[1] <= Len(r1) /\ p[2] <= Len(r2)
    <3>1. stop[p] <=> p[1] > Len(r1) \/ p[2] > Len(r2)
      BY Zenon
    <3> HIDE DEF stop
    <3> QED
      BY <1>1, <2>1, <3>1
  <2>5. nx[p] = <<p[1] + 1, p[2]>> \/ nx[p] = <<p[1], p[2] + 1>>
    BY Zenon
  <2> HIDE DEF left, stop, nx, n, P
  <2>6. left[p] \in Nat /\ left[p] <= n
    BY <2>1, <2>2, <2>3
  <2>7. ASSUME ~stop[p] PROVE nx[p] \in P /\ left[nx[p]] < left[p]
    <3> DEFINE q == nx[p]
    <3>1. q \in P /\ Left(r1, r2, q) = Left(r1, r2, p) - 1
      BY <2>1, <2>4, <2>5, <2>7, Zenon
    <3> HIDE DEF q
    <3>2. left[q] = Left(r1, r2, q)
      BY <2>2, <3>1
    <3>3. left[q] < left[p]
      BY <2>1, <2>2, <3>1, <3>2
    <3> QED
      BY <3>1, <3>3 DEF q
  <2> QED
    BY <2>6, <2>7
<1>3. ASSUME NEW f, NEW p \in P PROVE MergeStep2(r1, r2, f, p) = LinkStep(stop, add, pre, nx, f, p)
  <2>1. stop[p] <=> p[1] > Len(r1) \/ p[2] > Len(r2)
    BY Zenon
  <2>2. pre[p] = IF p[1] > Len(r1) THEN SubSeq(r2, p[2], Len(r2))
                 ELSE IF p[2] > Len(r2) THEN SubSeq(r1, p[1], Len(r1))
                 ELSE IF First(p) THEN <<r1[p[1]]>> ELSE <<r2[p[2]]>>
    OBVIOUS
  <2>3. nx[p] = IF First(p) THEN <<p[1] + 1, p[2]>> ELSE <<p[1], p[2] + 1>>
    OBVIOUS
  <2>8. add[p]
    OBVIOUS
  <2> HIDE DEF stop, add, pre, nx, P
  <2>4. CASE p[1] > Len(r1)
    BY <2>1, <2>2, <2>4 DEF MergeStep2, LinkStep
  <2>5. CASE ~(p[1] > Len(r1)) /\ p[2] > Len(r2)
    BY <2>1, <2>2, <2>5 DEF MergeStep2, LinkStep
  <2>6. CASE ~(p[1] > Len(r1)) /\ ~(p[2] > Len(r2)) /\ First(p)
    BY <2>1, <2>2, <2>3, <2>6, <2>8, Zenon DEF MergeStep2, LinkStep
  <2>7. CASE ~(p[1] > Len(r1)) /\ ~(p[2] > Len(r2)) /\ ~First(p)
    BY <2>1, <2>2, <2>3, <2>7, <2>8, Zenon DEF MergeStep2, LinkStep
  <2> QED
    BY <2>4, <2>5, <2>6, <2>7
<1> HIDE DEF left, stop, add, pre, nx
<1>4. \E f : f = [p \in P |-> MergeStep2(r1, r2, f, p)]
  <2> HIDE DEF P, n
  <2>1. Linked(P, left, stop, nx) /\ \A p \in P : left[p] <= n
    BY <1>2 DEF Linked
  <2>2. PICK f : f = [p \in P |-> LinkStep(stop, add, pre, nx, f, p)]
    <3>1. n \in Nat
      BY <1>1 DEF n
    <3>2. LinkedAll(P, stop, add, pre, nx)
      BY <2>1, <3>1, LinksExist
    <3> QED
      BY <3>2 DEF LinkedAll
  <2>3. f = [p \in P |-> MergeStep2(r1, r2, f, p)]
    BY <1>3, <2>2
  <2> QED
    BY <2>3
<1>5. w = [p \in P |-> MergeStep2(r1, r2, w, p)]
  BY <1>4 DEF Places, MergeStep2
<1>6. Merged(r1, r2) = w[<<1, 1>>]
  BY DEF Merged
<1> HIDE DEF w
<1>7. \A p \in P : w[p] = MergeStep2(r1, r2, w, p)
  BY <1>5
<1> QED
  BY <1>6, <1>7

-------------------------------------------------------------------------------
(* What is left of a sequence of runs from some place on *)

Rest(r, i) == RunValues(SubSeq(r, i, Len(r)))

LEMMA RestOf ==
    ASSUME NEW r, NEW g \in Nat, Spaced(r, g), NEW i \in 1..Len(r)
    PROVE  /\ Legal(r[i]) /\ Rest(r, i) = (r[i].value..End(r[i])) \cup Rest(r, i + 1)
           /\ \A v \in Rest(r, i + 1) : v \in Int /\ End(r[i]) + g < v
           /\ \A v \in Rest(r, i) : v \in Int /\ r[i].value <= v
<1> DEFINE n == Len(r)
           a == r[i].value
           b == End(r[i])
<1>1. n \in Nat /\ r \in Seq(Run16) /\ Legal(r[i]) /\ i \in Nat \ {0} /\ i <= n
  BY DEF Spaced
<1>2. a \in Nat /\ b \in Nat /\ a <= b
  BY <1>1, LegalIs
<1>3. \A v : v \in Rest(r, i) <=> v \in Int /\ \E j \in i..n : Holds(r[j], v)
  BY <1>1, PieceOf DEF Rest
<1>4. \A v : v \in Rest(r, i + 1) <=> v \in Int /\ \E j \in (i + 1)..n : Holds(r[j], v)
  BY <1>1, PieceOf DEF Rest
<1>5. \A v : v \in a..b <=> v \in Int /\ Holds(r[i], v)
  <2>1. \A v : Holds(r[i], v) <=> a <= v /\ v <= b
    BY DEF Holds
  <2> HIDE DEF a, b
  <2> QED
    BY <1>2, <2>1
<1>6. \A j : j \in i..n <=> j = i \/ j \in (i + 1)..n
  BY <1>1
<1>7. ASSUME NEW v \in Rest(r, i + 1) PROVE v \in Int /\ b + g < v
  <2>1. PICK j \in (i + 1)..n : Holds(r[j], v)
    BY <1>4
  <2>2. j \in 1..n /\ i < j /\ v \in Int
    BY <1>1, <1>4
  <2>3. Legal(r[j]) /\ b + g < r[j].value
    BY <2>2 DEF Spaced
  <2>4. r[j].value \in Nat /\ r[j].value <= v
    BY <2>1, <2>3, LegalIs DEF Holds
  <2> HIDE DEF b
  <2> QED
    BY <1>2, <2>2, <2>3, <2>4
<1>8. Rest(r, i) = (a..b) \cup Rest(r, i + 1)
  <2> HIDE DEF a, b, n
  <2>1. ASSUME NEW v PROVE v \in Rest(r, i) <=> v \in a..b \/ v \in Rest(r, i + 1)
    BY <1>3, <1>4, <1>5, <1>6
  <2> QED
    BY <2>1
<1>9. ASSUME NEW v \in Rest(r, i) PROVE v \in Int /\ a <= v
  <2> HIDE DEF a, b
  <2>1. v \in a..b \/ v \in Rest(r, i + 1)
    BY <1>8
  <2> QED
    BY <1>2, <1>7, <2>1
<1> QED
  BY <1>1, <1>7, <1>8, <1>9

LEMMA RestAll ==
    ASSUME NEW r, NEW g \in Nat, Spaced(r, g)
    PROVE  /\ SubSeq(r, 1, Len(r)) = r /\ Rest(r, 1) = RunValues(r)
           /\ SubSeq(r, Len(r) + 1, Len(r)) = <<>> /\ Rest(r, Len(r) + 1) = {}
           /\ \A i \in 1..(Len(r) + 1) : Spaced(SubSeq(r, i, Len(r)), g)
<1>1. r \in Seq(Run16) /\ Len(r) \in Nat
  BY DEF Spaced
<1>2. SubSeq(r, 1, Len(r)) = r /\ SubSeq(r, Len(r) + 1, Len(r)) = <<>>
  BY <1>1
<1>3. \A i \in 1..(Len(r) + 1) : Spaced(SubSeq(r, i, Len(r)), g)
  BY <1>1, PieceOf
<1> QED
  BY <1>2, <1>3, NoRuns DEF Rest

LEMMA WovenFirst ==
    ASSUME NEW s, NEW tag, Woven(s, tag), NEW run, Legal(run), NEW w \in {1, 2},
           \A which \in {1, 2} : \A v \in Part(s, tag, which, Len(s)) : run.value <= v,
           \A v \in Part(s, tag, w, Len(s)) : End(run) < v
    PROVE  \E new :
              /\ Woven(<<run>> \o s, new)
              /\ \A which : Part(<<run>> \o s, new, which, Len(<<run>> \o s))
                              = Part(s, tag, which, Len(s))
                                \cup (IF which = w THEN run.value..End(run) ELSE {})
<1> DEFINE t == <<run>> \o s
           n == Len(s)
           new == [i \in 1..(n + 1) |-> IF i = 1 THEN w ELSE tag[i - 1]]
<1>1. s \in Seq(Run16) /\ n \in Nat
  BY DEF Woven
<1>2. t \in Seq(Run16) /\ Len(t) = n + 1
  BY <1>1 DEF Legal
<1>3. t[1] = run /\ new[1] = w
  BY <1>1 DEF Legal
<1>4. ASSUME NEW i \in 1..n PROVE t[i + 1] = s[i] /\ new[i + 1] = tag[i]
  BY <1>1 DEF Legal
<1>5. \A i \in 1..(n + 1) : i = 1 \/ (i - 1 \in 1..n /\ i = (i - 1) + 1)
  BY <1>1
<1>6. ASSUME NEW i \in 1..n
      PROVE  /\ Legal(s[i]) /\ tag[i] \in {1, 2} /\ run.value <= s[i].value
             /\ tag[i] = w => End(run) < s[i].value
  <2>1. Legal(s[i]) /\ tag[i] \in {1, 2}
    BY DEF Woven
  <2>2. s[i].value \in Part(s, tag, tag[i], n)
    BY <2>1, LegalIs DEF Part
  <2> QED
    BY <2>1, <2>2
<1> HIDE DEF t, new, n
<1>7. \A i \in 1..(n + 1) : Legal(t[i]) /\ new[i] \in {1, 2}
  <2> TAKE i \in 1..(n + 1)
  <2>1. CASE i = 1
    BY <1>3, <2>1
  <2>2. CASE i # 1
    <3> DEFINE j == i - 1
    <3>1. j \in 1..n /\ i = j + 1
      BY <1>5, <2>2
    <3> HIDE DEF j
    <3> QED
      BY <1>4, <1>6, <3>1
  <2> QED
    BY <2>1, <2>2
<1>8. ASSUME NEW i \in 1..(n + 1), NEW j \in 1..(n + 1), i < j
      PROVE  /\ t[i].value <= t[j].value
             /\ new[i] = new[j] => End(t[i]) < t[j].value
  <2> DEFINE k == j - 1
             l == i - 1
  <2>1. k \in 1..n /\ j = k + 1
    BY <1>1, <1>8
  <2>2. i # 1 => l \in 1..n /\ i = l + 1 /\ l < k
    BY <1>1, <1>8
  <2> HIDE DEF k, l
  <2>3. CASE i = 1
    BY <1>3, <1>4, <1>6, <2>1, <2>3
  <2>4. CASE i # 1
    <3>1. t[i] = s[l] /\ new[i] = tag[l] /\ t[j] = s[k] /\ new[j] = tag[k]
      BY <1>4, <2>1, <2>2, <2>4
    <3> QED
      BY <2>1, <2>2, <2>4, <3>1 DEF Woven, n
  <2> QED
    BY <2>3, <2>4
<1>9. Woven(t, new)
  BY <1>2, <1>7, <1>8 DEF Woven
<1>10. ASSUME NEW which
       PROVE  Part(t, new, which, n + 1)
                = Part(s, tag, which, n) \cup (IF which = w THEN run.value..End(run) ELSE {})
  <2> DEFINE a == run.value
             b == End(run)
  <2>1. a \in Int /\ b \in Int
    BY LegalIs
  <2>2. ASSUME NEW v PROVE v \in a..b <=> v \in Int /\ Holds(run, v)
    <3>1. Holds(run, v) <=> a <= v /\ v <= b
      BY DEF Holds
    <3> HIDE DEF a, b
    <3> QED
      BY <2>1, <3>1
  <2> HIDE DEF a, b
  <2>3. ASSUME NEW v, NEW i \in 1..(n + 1), new[i] = which, Holds(t[i], v), v \in Int
        PROVE  v \in Part(s, tag, which, n) \/ (which = w /\ v \in a..b)
    <3> DEFINE j == i - 1
    <3>1. i # 1 => j \in 1..n /\ i = j + 1
      BY <1>5
    <3> HIDE DEF j
    <3> QED
      BY <1>3, <1>4, <2>2, <2>3, <3>1 DEF Part
  <2>4. ASSUME NEW v, NEW i \in 1..n, tag[i] = which, Holds(s[i], v), v \in Int
        PROVE  v \in Part(t, new, which, n + 1)
    <3>1. i + 1 \in 1..(n + 1)
      BY <1>1
    <3> QED
      BY <1>4, <2>4, <3>1 DEF Part
  <2>5. ASSUME NEW v \in a..b, which = w PROVE v \in Part(t, new, which, n + 1)
    <3>1. 1 \in 1..(n + 1)
      BY <1>1
    <3> QED
      BY <1>3, <2>2, <2>5, <3>1 DEF Part
  <2>6. ASSUME NEW v \in Part(t, new, which, n + 1)
        PROVE  v \in Part(s, tag, which, n) \/ (which = w /\ v \in a..b)
    BY <2>3 DEF Part
  <2>7. ASSUME NEW v \in Part(s, tag, which, n) PROVE v \in Part(t, new, which, n + 1)
    BY <2>4 DEF Part
  <2> QED
    BY <2>5, <2>6, <2>7 DEF a, b
<1>11. Part(t, new, w, n + 1) = Part(t, new, w, Len(t))
  BY <1>2
<1> QED
  BY <1>2, <1>9, <1>10 DEF t, n

LEMMA WovenOne ==
    ASSUME NEW r, Spaced(r, 0), NEW w \in {1, 2}
    PROVE  \E tag : /\ Woven(r, tag)
                    /\ \A which : Part(r, tag, which, Len(r)) = IF which = w THEN RunValues(r) ELSE {}
<1> DEFINE n == Len(r)
           tag == [i \in 1..n |-> w]
<1>1. r \in Seq(Run16) /\ n \in Nat
  BY DEF Spaced
<1>2. \A i \in 1..n : tag[i] = w /\ Legal(r[i])
  BY DEF Spaced
<1>3. ASSUME NEW i \in 1..n, NEW j \in 1..n, i < j
      PROVE  r[i].value <= r[j].value /\ End(r[i]) < r[j].value
  <2>1. Legal(r[i]) /\ Legal(r[j]) /\ End(r[i]) + 0 < r[j].value
    BY <1>3 DEF Spaced
  <2>2. /\ r[i].value \in Nat /\ End(r[i]) \in Nat /\ r[j].value \in Nat
        /\ r[i].value <= End(r[i])
    BY <2>1, LegalIs
  <2> QED
    BY <2>1, <2>2
<1> HIDE DEF tag, n
<1>4. Woven(r, tag)
  BY <1>1, <1>2, <1>3 DEF Woven, n
<1>5. ASSUME NEW which PROVE Part(r, tag, which, n) = IF which = w THEN RunValues(r) ELSE {}
  <2>1. \A v : v \in RunValues(r) <=> v \in Int /\ \E i \in 1..n : Holds(r[i], v)
    BY <1>1, InRuns DEF n
  <2>2. CASE which = w
    <3>1. Part(r, tag, which, n) = RunValues(r)
      BY <1>2, <2>1, <2>2 DEF Part
    <3> QED
      BY <2>2, <3>1
  <2>3. CASE which # w
    BY <1>2, <2>3 DEF Part
  <2> QED
    BY <2>2, <2>3
<1> QED
  BY <1>4, <1>5 DEF n

-------------------------------------------------------------------------------
(* The merge loops of the union and of the symmetric difference *)

\* The weave s of what is left of r1 and r2 from the places p on.
Weaves(s, r1, r2, p) ==
    \E tag : /\ Woven(s, tag)
             /\ Part(s, tag, 1, Len(s)) = Rest(r1, p[1])
             /\ Part(s, tag, 2, Len(s)) = Rest(r2, p[2])

LEMMA WeavesFirst ==
    ASSUME NEW s, NEW r1, NEW r2, Spaced(r1, 0), Spaced(r2, 0), NEW i \in 1..Len(r1),
           NEW j \in 1..(Len(r2) + 1), \A v \in Rest(r2, j) : r1[i].value <= v,
           Weaves(s, r1, r2, <<i + 1, j>>)
    PROVE  Weaves(<<r1[i]>> \o s, r1, r2, <<i, j>>)
<1> DEFINE run == r1[i]
           m == Len(s)
           t == <<run>> \o s
<1>1. PICK tag : /\ Woven(s, tag)
                 /\ Part(s, tag, 1, m) = Rest(r1, i + 1)
                 /\ Part(s, tag, 2, m) = Rest(r2, j)
  BY DEF Weaves
<1>2. /\ Legal(run) /\ Rest(r1, i) = (run.value..End(run)) \cup Rest(r1, i + 1)
      /\ \A v \in Rest(r1, i + 1) : v \in Int /\ End(run) + 0 < v
  BY RestOf
<1>3. run.value \in Nat /\ End(run) \in Nat /\ run.value <= End(run)
  BY <1>2, LegalIs
<1>4. \A v \in Rest(r1, i + 1) : run.value <= v /\ End(run) < v
  BY <1>2, <1>3
<1> HIDE DEF run, m, t
<1>5. PICK new : /\ Woven(t, new)
                 /\ \A which : Part(t, new, which, Len(t))
                                 = Part(s, tag, which, m)
                                   \cup (IF which = 1 THEN run.value..End(run) ELSE {})
  <2>1. /\ \A which \in {1, 2} : \A v \in Part(s, tag, which, m) : run.value <= v
        /\ \A v \in Part(s, tag, 1, m) : End(run) < v
    BY <1>1, <1>4 DEF run
  <2> QED
    BY <1>1, <1>2, <2>1, WovenFirst DEF t, m
<1>6. /\ Part(t, new, 1, Len(t)) = Part(s, tag, 1, m) \cup (run.value..End(run))
      /\ Part(t, new, 2, Len(t)) = Part(s, tag, 2, m)
  <2> DEFINE S == run.value..End(run)
  <2>1. \A which : Part(t, new, which, Len(t))
                     = Part(s, tag, which, m) \cup (IF which = 1 THEN S ELSE {})
    BY <1>5
  <2> HIDE DEF S
  <2>2. 1 # 2
    OBVIOUS
  <2> QED
    BY <2>1, <2>2 DEF S
<1>7. Part(t, new, 1, Len(t)) = Rest(r1, i) /\ Part(t, new, 2, Len(t)) = Rest(r2, j)
  BY <1>1, <1>2, <1>6
<1>8. Weaves(t, r1, r2, <<i, j>>)
  BY <1>5, <1>7 DEF Weaves
<1> QED
  BY <1>8 DEF t, run

LEMMA WeavesSwapped ==
    ASSUME NEW s, NEW r1, NEW r2, NEW i, NEW j, Weaves(s, r1, r2, <<i, j>>)
    PROVE  Weaves(s, r2, r1, <<j, i>>)
<1> DEFINE m == Len(s)
<1>1. PICK tag : /\ Woven(s, tag)
                 /\ Part(s, tag, 1, m) = Rest(r1, i)
                 /\ Part(s, tag, 2, m) = Rest(r2, j)
  BY DEF Weaves
<1> DEFINE new == [k \in 1..m |-> IF tag[k] = 1 THEN 2 ELSE 1]
<1>2. \A k \in 1..m : /\ tag[k] \in {1, 2} /\ new[k] = IF tag[k] = 1 THEN 2 ELSE 1
  BY <1>1 DEF Woven
<1> HIDE DEF new, m
<1>3. \A k \in 1..m : /\ new[k] \in {1, 2} /\ (new[k] = 1 <=> tag[k] = 2)
                      /\ (new[k] = 2 <=> tag[k] = 1)
  BY <1>2
<1>4. ASSUME NEW k \in 1..m, NEW l \in 1..m, new[k] = new[l] PROVE tag[k] = tag[l]
  BY <1>2, <1>3, <1>4
<1>5. Woven(s, new)
  BY <1>1, <1>3, <1>4 DEF Woven, m
<1>6. Part(s, new, 1, m) = Part(s, tag, 2, m) /\ Part(s, new, 2, m) = Part(s, tag, 1, m)
  BY <1>3 DEF Part
<1> QED
  BY <1>1, <1>5, <1>6 DEF Weaves, m

LEMMA WeavesRest ==
    ASSUME NEW r1, NEW r2, Spaced(r1, 0), Spaced(r2, 0), NEW j \in 1..(Len(r2) + 1)
    PROVE  Weaves(SubSeq(r2, j, Len(r2)), r1, r2, <<Len(r1) + 1, j>>)
<1> DEFINE s == SubSeq(r2, j, Len(r2))
<1>1. Spaced(s, 0) /\ Rest(r1, Len(r1) + 1) = {}
  BY RestAll
<1>2. Rest(r2, j) = RunValues(s)
  BY DEF Rest
<1> HIDE DEF s
<1>3. PICK tag : /\ Woven(s, tag)
                 /\ \A which : Part(s, tag, which, Len(s)) = IF which = 2 THEN RunValues(s) ELSE {}
  BY <1>1, WovenOne
<1>4. Part(s, tag, 1, Len(s)) = {} /\ Part(s, tag, 2, Len(s)) = RunValues(s)
  BY <1>3
<1>5. Weaves(s, r1, r2, <<Len(r1) + 1, j>>)
  BY <1>1, <1>2, <1>3, <1>4 DEF Weaves
<1> QED
  BY <1>5 DEF s

LEMMA MergedWeaves ==
    ASSUME NEW r1, NEW r2, Spaced(r1, 0), Spaced(r2, 0)
    PROVE  Weaves(Merged(r1, r2), r1, r2, <<1, 1>>)
<1> DEFINE n == Len(r1)
           m == Len(r2)
           P == Places(r1, r2)
<1>1. r1 \in Seq(Run16) /\ r2 \in Seq(Run16) /\ n \in Nat /\ m \in Nat
  BY DEF Spaced
<1>2. PICK f : /\ Merged(r1, r2) = f[<<1, 1>>]
               /\ \A p \in P : f[p] = MergeStep2(r1, r2, f, p)
  BY <1>1, MergedSteps
<1> DEFINE Bad == {l \in Nat : \E p \in P : Left(r1, r2, p) = l /\ ~Weaves(f[p], r1, r2, p)}
<1>3. SUFFICES ASSUME Bad # {} PROVE FALSE
  <2>1. <<1, 1>> \in P
    BY <1>1 DEF Places
  <2>2. Left(r1, r2, <<1, 1>>) \in Nat
    BY <1>1, <2>1, LeftIs
  <2> QED
    BY <1>2, <2>1, <2>2
<1>4. PICK l \in Bad : \A y \in Bad : l <= y
  <2>1. Bad \subseteq Nat
    OBVIOUS
  <2> HIDE DEF Bad
  <2> QED
    BY <1>3, <2>1, LeastOfNaturals
<1>5. PICK p \in P : Left(r1, r2, p) = l /\ ~Weaves(f[p], r1, r2, p)
  BY <1>4
<1> DEFINE i == p[1]
           j == p[2]
<1>6. /\ l \in Nat /\ i \in Nat \ {0} /\ j \in Nat \ {0} /\ i <= n + 1 /\ j <= m + 1
      /\ i <= n => <<i + 1, j>> \in P /\ Left(r1, r2, <<i + 1, j>>) = l - 1
      /\ j <= m => <<i, j + 1>> \in P /\ Left(r1, r2, <<i, j + 1>>) = l - 1
  BY <1>1, <1>5, LeftIs
<1>7. p = <<i, j>>
  BY <1>5 DEF Places
<1>8. ASSUME NEW q \in P, Left(r1, r2, q) = l - 1 PROVE Weaves(f[q], r1, r2, q)
  <2>1. l - 1 \in Nat
    <3>1. Left(r1, r2, q) \in Nat
      BY <1>1, LeftIs
    <3> QED
      BY <1>8, <3>1
  <2>2. l - 1 \notin Bad
    BY <1>4, <1>6, <2>1
  <2> QED
    BY <1>8, <2>1, <2>2
<1>9. f[p] = IF i > n THEN SubSeq(r2, j, m)
             ELSE IF j > m THEN SubSeq(r1, i, n)
             ELSE IF r1[i].value <= r2[j].value THEN <<r1[i]>> \o f[<<i + 1, j>>]
             ELSE <<r2[j]>> \o f[<<i, j + 1>>]
  BY <1>2, <1>5 DEF MergeStep2
<1> HIDE DEF i, j, Bad, P
<1>10. CASE i > n
  <2>1. i = n + 1 /\ j \in 1..(m + 1)
    BY <1>1, <1>6, <1>10
  <2>2. f[p] = SubSeq(r2, j, m)
    BY <1>9, <1>10
  <2> QED
    BY <1>5, <1>7, <2>1, <2>2, WeavesRest
<1>11. CASE ~(i > n) /\ j > m
  <2>1. j = m + 1 /\ i \in 1..(n + 1)
    BY <1>1, <1>6, <1>11
  <2>2. f[p] = SubSeq(r1, i, n)
    BY <1>9, <1>11
  <2>3. Weaves(f[p], r2, r1, <<j, i>>)
    BY <2>1, <2>2, WeavesRest
  <2> QED
    BY <1>5, <1>7, <2>3, WeavesSwapped
<1>12. CASE ~(i > n) /\ ~(j > m)
  <2>1. i \in 1..n /\ j \in 1..m /\ i <= n /\ j <= m
    BY <1>1, <1>6, <1>12
  <2>2. /\ Legal(r1[i]) /\ \A v \in Rest(r1, i) : v \in Int /\ r1[i].value <= v
        /\ Legal(r2[j]) /\ \A v \in Rest(r2, j) : v \in Int /\ r2[j].value <= v
    BY <2>1, RestOf
  <2>3. r1[i].value \in Nat /\ r2[j].value \in Nat
    BY <2>2, LegalIs
  <2>4. CASE r1[i].value <= r2[j].value
    <3>1. f[p] = <<r1[i]>> \o f[<<i + 1, j>>]
      BY <1>9, <1>12, <2>4
    <3>2. Weaves(f[<<i + 1, j>>], r1, r2, <<i + 1, j>>)
      BY <1>6, <1>8, <2>1
    <3>3. \A v \in Rest(r2, j) : r1[i].value <= v
      BY <2>2, <2>3, <2>4
    <3>4. j \in 1..(m + 1)
      BY <1>1, <2>1
    <3>5. Weaves(f[p], r1, r2, <<i, j>>)
      BY <2>1, <3>1, <3>2, <3>3, <3>4, WeavesFirst
    <3> QED
      BY <1>5, <1>7, <3>5
  <2>5. CASE ~(r1[i].value <= r2[j].value)
    <3>1. f[p] = <<r2[j]>> \o f[<<i, j + 1>>]
      BY <1>9, <1>12, <2>5
    <3>2. Weaves(f[<<i, j + 1>>], r1, r2, <<i, j + 1>>)
      BY <1>6, <1>8, <2>1
    <3>3. \A v \in Rest(r1, i) : r2[j].value <= v
      BY <2>2, <2>3, <2>5
    <3>4. i \in 1..(n + 1)
      BY <1>1, <2>1
    <3>5. Weaves(f[<<i, j + 1>>], r2, r1, <<j + 1, i>>)
      BY <3>2, WeavesSwapped
    <3>6. Weaves(f[p], r2, r1, <<j, i>>)
      BY <2>1, <3>1, <3>3, <3>4, <3>5, WeavesFirst
    <3> QED
      BY <1>5, <1>7, <3>6, WeavesSwapped
  <2> QED
    BY <2>4, <2>5
<1> QED
  BY <1>10, <1>11, <1>12

\* The merge loops, whatever they do with a run.
LEMMA MergeFold ==
    ASSUME NEW xor \in BOOLEAN, NEW r1, NEW r2, Spaced(r1, 0), Spaced(r2, 0),
           NEW t, Traced(xor, <<>>, Merged(r1, r2), t)
    PROVE  LET r == t[Len(Merged(r1, r2))]
           IN  Tidy(r) /\ RunValues(r) = Both(xor, RunValues(r1), RunValues(r2))
<1> DEFINE s == Merged(r1, r2)
           r == t[Len(s)]
<1>1. Rest(r1, 1) = RunValues(r1) /\ Rest(r2, 1) = RunValues(r2)
  BY RestAll
<1>2. PICK tag : /\ Woven(s, tag)
                 /\ Part(s, tag, 1, Len(s)) = RunValues(r1)
                 /\ Part(s, tag, 2, Len(s)) = RunValues(r2)
  BY <1>1, MergedWeaves DEF Weaves
<1> HIDE DEF s
<1>3. After(s, tag, {}, {}) /\ Tidy(<<>>) /\ RunValues(<<>>) = Both(xor, {}, {})
  BY NoRuns DEF After, Tidy, Both, SymDiff
<1>4. Len(s) \in Nat /\ Len(s) \in 0..Len(s)
  BY <1>2 DEF Woven
<1>5. Tidy(t[Len(s)]) /\ RunValues(t[Len(s)]) = Both(xor, {} \cup Part(s, tag, 1, Len(s)), {} \cup Part(s, tag, 2, Len(s)))
  <2>1. Traced(xor, <<>>, s, t)
    BY DEF s
  <2>2. {} \in SUBSET Int
    OBVIOUS
  <2> QED
    BY <1>2, <1>3, <1>4, <2>1, <2>2, WovenFold
<1>6. Tidy(r) /\ RunValues(r) = Both(xor, RunValues(r1), RunValues(r2))
  BY <1>2, <1>5
<1> QED
  BY <1>6 DEF s

LEMMA MergedIsSeq ==
    ASSUME NEW r1, NEW r2, Spaced(r1, 0), Spaced(r2, 0)
    PROVE  Len(Merged(r1, r2)) \in Nat /\ DOMAIN Merged(r1, r2) = 1..Len(Merged(r1, r2))
<1>1. Merged(r1, r2) \in Seq(Run16)
  BY MergedIs DEF Spaced
<1> QED
  BY <1>1

LEMMA XorRunsExact ==
    ASSUME NEW r1, NEW r2, Spaced(r1, 0), Spaced(r2, 0)
    PROVE  /\ Tidy(XorRuns(r1, r2))
           /\ RunValues(XorRuns(r1, r2)) = SymDiff(RunValues(r1), RunValues(r2))
<1> DEFINE s == Merged(r1, r2)
<1>1. PICK t : Traced(TRUE, <<>>, s, t) /\ t[Len(s)] = FoldLeft(AppendExclusive, <<>>, s)
  BY MergedIsSeq, FoldedXor
<1>2. Tidy(t[Len(s)]) /\ RunValues(t[Len(s)]) = Both(TRUE, RunValues(r1), RunValues(r2))
  BY <1>1, MergeFold
<1> QED
  BY <1>1, <1>2 DEF XorRuns, Both

\* The run of all numbers.
LEMMA FullRunAll == Tidy(FullRun) /\ RunValues(FullRun) = Numbers /\ FullRun # <<>>
<1>1. U - 1 \in Nat /\ 0 + (U - 1) < U /\ U \in Nat
  BY UAssumption
<1> DEFINE run == Run(0, U - 1)
<1>2. Legal(run) /\ run.value = 0 /\ End(run) = 0 + (U - 1)
  BY <1>1, RunFits
<1>3. Tidy(<<run>>) /\ RunValues(<<run>>) = run.value..End(run)
  BY <1>2, OneRun DEF Tidy
<1>4. run.value..End(run) = Numbers
  BY <1>1, <1>2 DEF Numbers
<1> QED
  BY <1>3, <1>4 DEF FullRun

LEMMA UnionRunsExact ==
    ASSUME NEW r1, NEW r2, Spaced(r1, 0), Spaced(r2, 0)
    PROVE  /\ Tidy(UnionRuns(r1, r2))
           /\ RunValues(UnionRuns(r1, r2)) = RunValues(r1) \cup RunValues(r2)
<1> DEFINE s == Merged(r1, r2)
<1>1. CASE IsFullRun(r1) \/ IsFullRun(r2)
  <2>1. UnionRuns(r1, r2) = FullRun
    BY <1>1 DEF UnionRuns
  <2>2. RunValues(r1) \in SUBSET Numbers /\ RunValues(r2) \in SUBSET Numbers
    BY SpacedValues
  <2>3. RunValues(r1) \cup RunValues(r2) = Numbers
    BY <1>1, <2>2, FullRunAll DEF IsFullRun
  <2> QED
    BY <2>1, <2>3, FullRunAll
<1>2. CASE ~(IsFullRun(r1) \/ IsFullRun(r2))
  <2>1. PICK t : Traced(FALSE, <<>>, s, t) /\ t[Len(s)] = FoldLeft(AppendRun, <<>>, s)
    BY MergedIsSeq, FoldedOr
  <2>2. Tidy(t[Len(s)]) /\ RunValues(t[Len(s)]) = Both(FALSE, RunValues(r1), RunValues(r2))
    BY <2>1, MergeFold
  <2> QED
    BY <1>2, <2>1, <2>2 DEF UnionRuns, Both
<1> QED
  BY <1>1, <1>2

-------------------------------------------------------------------------------
(* Union and symmetric difference of two run containers *)

LEMMA Looser == ASSUME NEW r, Tidy(r) PROVE Spaced(r, 0)
<1>1. r \in Seq(Run16) /\ \A i \in 1..Len(r) : Legal(r[i])
  BY DEF Tidy, Spaced
<1>2. ASSUME NEW i \in 1..Len(r), NEW j \in 1..Len(r), i < j PROVE End(r[i]) + 0 < r[j].value
  <2>1. End(r[i]) + 1 < r[j].value
    BY <1>2 DEF Tidy, Spaced
  <2>2. End(r[i]) \in Nat /\ r[j].value \in Nat
    BY <1>1, LegalIs
  <2> QED
    BY <2>1, <2>2
<1> QED
  BY <1>1, <1>2 DEF Spaced

\* Runs begin, and end, in the order they are in.
LEMMA InOrder ==
    ASSUME NEW r, NEW g \in Nat, Spaced(r, g), NEW i \in 1..Len(r), NEW j \in 1..Len(r), j < i
    PROVE  /\ r[j].value < r[i].value /\ End(r[j]) < End(r[i]) /\ End(r[j]) + g < r[i].value
           /\ r[j].value \in Nat /\ r[i].value \in Nat /\ End(r[j]) \in Nat /\ End(r[i]) \in Nat
<1>1. Legal(r[j]) /\ Legal(r[i]) /\ End(r[j]) + g < r[i].value
  BY DEF Spaced
<1>2. /\ r[j].value \in Nat /\ End(r[j]) \in Nat /\ r[j].value <= End(r[j])
      /\ r[i].value \in Nat /\ End(r[i]) \in Nat /\ r[i].value <= End(r[i])
  BY <1>1, LegalIs
<1> QED
  BY <1>1, <1>2

\* How many runs begin before v, or end before it: the ones up to that place.
LEMMA BeginsBefore ==
    ASSUME NEW r, NEW g \in Nat, Spaced(r, g), NEW v \in Int
    PROVE  LET k == Cardinality({i \in DOMAIN r : r[i].value < v})
           IN  k \in 0..Len(r) /\ \A i \in 1..Len(r) : i <= k <=> r[i].value < v
<1> DEFINE T == {i \in DOMAIN r : r[i].value < v}
           n == Len(r)
<1>1. n \in Nat /\ DOMAIN r = 1..n
  BY DEF Spaced
<1>2. T \in SUBSET (1..n)
  BY <1>1
<1>3. ASSUME NEW i \in T, NEW j \in 1..n, j < i PROVE j \in T
  <2>1. r[j].value < r[i].value /\ r[j].value \in Nat /\ r[i].value \in Nat
    BY <1>1, <1>3, InOrder
  <2> QED
    BY <1>1, <2>1
<1>4. \A i \in 1..n : i \in T <=> r[i].value < v
  BY <1>1
<1> HIDE DEF T, n
<1>5. Cardinality(T) \in 0..n /\ T = 1..Cardinality(T)
  BY <1>1, <1>2, <1>3, UpToPlace
<1>6. \A i \in 1..n : i <= Cardinality(T) <=> r[i].value < v
  BY <1>1, <1>4, <1>5
<1> QED
  BY <1>5, <1>6 DEF T, n

\* How many runs begin before the range, the ones after these, and what the negation has
\* before it comes to them.
BegunBefore(r, low) == Cardinality({i \in DOMAIN r : r[i].value < low})
NotBegun(r, low) == SubSeq(r, BegunBefore(r, low) + 1, Len(r))
NegationBase(r, low, high) ==
    AppendExclusive(SubSeq(r, 1, BegunBefore(r, low)), Run(low, high - low - 1))

\* What there is when the first i runs from k + 1 on have been taken over.
NegatedUpTo(r, k, i, low, high) ==
    SymDiff({v \in Int : \E j \in 1..(k + i) : Holds(r[j], v)}, low..(high - 1))

NegatedAlong(r, k, n, low, high, t) ==
    \A i \in 0..n : Tidy(t[i]) /\ RunValues(t[i]) = NegatedUpTo(r, k, i, low, high)

LEMMA NegationSteps ==
    ASSUME NEW r, Tidy(r), NEW low \in Nat, NEW high \in Nat, low < high, high <= U,
           NEW t, Traced(TRUE, NegationBase(r, low, high), NotBegun(r, low), t)
    PROVE  NegatedAlong(r, BegunBefore(r, low), Len(NotBegun(r, low)), low, high, t)
<1> DEFINE k == BegunBefore(r, low)
           s == NotBegun(r, low)
           base == NegationBase(r, low, high)
           head == SubSeq(r, 1, k)
           run == Run(low, high - low - 1)
           A == RunValues(head)
           B == low..(high - 1)
<1>1. k \in 0..Len(r) /\ \A i \in 1..Len(r) : i <= k <=> r[i].value < low
  <2>1. Spaced(r, 1) /\ low \in Int /\ 1 \in Nat
    BY DEF Tidy
  <2> QED
    BY <2>1, BeginsBefore DEF BegunBefore
<1>2. r \in Seq(Run16) /\ Len(r) \in Nat
  BY DEF Tidy, Spaced
<1>3. /\ Tidy(head) /\ Tidy(s) /\ RunValues(r) = A \cup RunValues(s)
      /\ \A x \in A, y \in RunValues(s) : x + 1 < y
  <2>1. s = SubSeq(r, k + 1, Len(r))
    BY DEF NotBegun
  <2> HIDE DEF k, s
  <2> QED
    BY <1>1, <2>1, SplitAt DEF Tidy
<1>4. /\ Len(head) = k /\ \A i \in 1..k : head[i] = r[i]
      /\ \A i \in 1..Len(s) : s[i] = r[k + i] /\ k + i \in 1..Len(r) /\ ~(k + i <= k)
      /\ DOMAIN s = 1..Len(s) /\ Len(s) \in Nat
  <2>1. s = SubSeq(r, k + 1, Len(r))
    BY DEF NotBegun
  <2> HIDE DEF k, s
  <2>2. Len(head) = k /\ \A i \in 1..k : head[i] = r[i]
    BY <1>1, <1>2
  <2> DEFINE piece == SubSeq(r, k + 1, Len(r))
  <2>3. Len(piece) = Len(r) - k /\ DOMAIN piece = 1..(Len(r) - k)
    BY <1>1, <1>2
  <2>4. \A i \in 1..(Len(r) - k) : piece[i] = r[k + i] /\ k + i \in 1..Len(r) /\ ~(k + i <= k)
    BY <1>1, <1>2
  <2>5. Len(r) - k \in Nat
    BY <1>1, <1>2
  <2> HIDE DEF piece, head
  <2>6. s = piece
    BY <2>1 DEF piece
  <2> QED
    BY <2>2, <2>3, <2>4, <2>5, <2>6
<1>5. Legal(run) /\ run.value = low /\ run.value..End(run) = B
  <2>1. high - low - 1 \in Nat /\ low + (high - low - 1) < U
    BY UAssumption
  <2>2. Legal(run) /\ run.value = low /\ End(run) = low + (high - low - 1)
    BY <2>1, RunFits
  <2> HIDE DEF run
  <2>3. low + (high - low - 1) = high - 1
    OBVIOUS
  <2> QED
    BY <2>2, <2>3
<1>6. BeginsBy(head, low)
  <2>1. k # 0 => k \in 1..Len(r) /\ k \in 1..k /\ k <= k
    BY <1>1
  <2>2. k # 0 => head[k] = r[k] /\ r[k].value < low /\ r[k].value \in Int
    <3>1. k # 0 => Legal(r[k])
      BY <2>1 DEF Tidy, Spaced
    <3> QED
      BY <1>1, <1>4, <2>1, <3>1, LegalIs
  <2>3. Len(head) = k
    BY <1>4
  <2> HIDE DEF head
  <2>4. k # 0 => head[k].value <= low
    BY <2>2
  <2> QED
    BY <2>3, <2>4 DEF BeginsBy
<1>7. base = AppendExclusive(head, run)
  BY DEF NegationBase
<1>8. Traced(TRUE, base, s, t)
  OBVIOUS
<1> HIDE DEF run, head, k, s, base
<1>9. Tidy(base) /\ RunValues(base) = SymDiff(A, B)
  BY <1>3, <1>5, <1>6, <1>7, AppendExclusiveStep
<1>10. PICK tag : /\ Woven(s, tag)
                 /\ \A which : Part(s, tag, which, Len(s)) = IF which = 1 THEN RunValues(s) ELSE {}
  BY <1>3, Looser, WovenOne
<1>11. A \in SUBSET Int /\ B \in SUBSET Int
  <2>1. A \in SUBSET Numbers
    BY <1>3, SpacedValues DEF Tidy
  <2> QED
    BY <2>1 DEF Numbers
<1>12. Woven(s, tag) /\ \A i \in 1..Len(s) : tag[i] # 2
  <2>1. Woven(s, tag)
    BY <1>10
  <2> SUFFICES ASSUME NEW i \in 1..Len(s), tag[i] = 2 PROVE FALSE
    BY <2>1
  <2> DEFINE x == s[i].value
  <2>2. Legal(s[i]) /\ x \in Nat /\ Holds(s[i], x)
    <3>1. Legal(s[i])
      BY <2>1 DEF Woven
    <3> QED
      BY <3>1, LegalIs
  <2>3. x \in Part(s, tag, 2, Len(s))
    BY <2>2 DEF Part
  <2> QED
    BY <1>10, <2>3
<1>13. After(s, tag, A, B)
  <2> SUFFICES ASSUME NEW i \in 1..Len(s)
               PROVE  /\ \A v \in A : v < s[i].value
                      /\ \A v \in B : v > s[i].value => v - 1 \in B
                      /\ \A v \in A : v > s[i].value => v - 1 \in A
    BY <1>12 DEF After
  <2> DEFINE x == s[i].value
  <2>1. Legal(s[i]) /\ tag[i] \in {1, 2}
    BY <1>10 DEF Woven
  <2>2. x \in Nat /\ x \in RunValues(s)
    BY <1>3, <2>1, LegalIs, EndsHeld DEF Tidy
  <2>3. low <= x
    <3>1. r[k + i].value = x /\ ~(r[k + i].value < low)
      BY <1>1, <1>4
    <3> QED
      BY <2>2, <3>1
  <2> HIDE DEF x, A
  <2>4. \A v \in A : v \in Int /\ v < x
    BY <1>3, <1>11, <2>2
  <2> QED
    BY <2>2, <2>3, <2>4 DEF x
<1>14. \A i \in 0..Len(s) :
          /\ Tidy(t[i])
          /\ RunValues(t[i]) = Both(TRUE, A \cup Part(s, tag, 1, i), B \cup Part(s, tag, 2, i))
  <2>1. RunValues(base) = Both(TRUE, A, B) /\ Tidy(base) /\ Woven(s, tag)
    BY <1>9, <1>10 DEF Both
  <2> HIDE DEF A, B
  <2>2. ASSUME NEW xor \in BOOLEAN, xor = TRUE
        PROVE  \A i \in 0..Len(s) :
                  /\ Tidy(t[i])
                  /\ RunValues(t[i]) = Both(xor, A \cup Part(s, tag, 1, i), B \cup Part(s, tag, 2, i))
    <3>1. Traced(xor, base, s, t) /\ RunValues(base) = Both(xor, A, B)
      BY <1>8, <2>1, <2>2
    <3> QED
      BY <1>11, <1>13, <2>1, <3>1, WovenFold
  <2> QED
    BY <2>2, Zenon
<1>15. ASSUME NEW i \in 0..Len(s)
       PROVE  /\ A \cup Part(s, tag, 1, i) = {v \in Int : \E j \in 1..(k + i) : Holds(r[j], v)}
              /\ Part(s, tag, 2, i) = {}
  <2>1. k \in Nat /\ i \in Nat /\ i <= Len(s) /\ Len(s) \in Nat
    BY <1>1, <1>2, <1>4
  <2>2. \A j \in 1..i : j \in 1..Len(s) /\ s[j] = r[k + j] /\ tag[j] = 1
    <3>1. \A j \in 1..i : j \in 1..Len(s)
      BY <2>1
    <3>2. \A j \in 1..Len(s) : tag[j] # 2 /\ tag[j] \in {1, 2}
      BY <1>12 DEF Woven
    <3> QED
      BY <1>4, <3>1, <3>2
  <2>3. Part(s, tag, 2, i) = {}
    BY <2>2 DEF Part
  <2>4. ASSUME NEW v
        PROVE  v \in A \cup Part(s, tag, 1, i)
               <=> v \in Int /\ \E j \in 1..(k + i) : Holds(r[j], v)
    <3>1. v \in A <=> v \in Int /\ \E j \in 1..k : Holds(r[j], v)
      BY <1>3, <1>4, InRuns DEF Tidy, Spaced
    <3>2. v \in Part(s, tag, 1, i) <=> v \in Int /\ \E j \in 1..i : Holds(r[k + j], v)
      BY <2>2 DEF Part
    <3>3. \A j \in 1..(k + i) : j \in 1..k \/ (j - k \in 1..i /\ k + (j - k) = j)
      BY <2>1
    <3>4. (\A j \in 1..k : j \in 1..(k + i)) /\ \A j \in 1..i : k + j \in 1..(k + i)
      BY <2>1
    <3> HIDE DEF A
    <3> QED
      BY <3>1, <3>2, <3>3, <3>4
  <2> QED
    BY <2>3, <2>4
<1> QED
  BY <1>14, <1>15 DEF NegatedAlong, NegatedUpTo, Both, B, k, s

LEMMA NegatedExact ==
    ASSUME NEW r, Tidy(r), NEW low \in Nat, NEW high \in Nat, high <= U
    PROVE  /\ Tidy(Negated(r, low, high))
           /\ RunValues(Negated(r, low, high)) = SymDiff(RunValues(r), low..(high - 1))
<1> DEFINE k == BegunBefore(r, low)
           s == NotBegun(r, low)
           base == NegationBase(r, low, high)
<1>1. CASE high <= low
  <2>1. low..(high - 1) = {} /\ SymDiff(RunValues(r), low..(high - 1)) = RunValues(r)
    BY <1>1 DEF SymDiff
  <2> QED
    BY <1>1, <2>1 DEF Negated
<1>2. CASE ~(high <= low)
  <2>1. k \in 0..Len(r)
    <3>1. Spaced(r, 1) /\ low \in Int /\ 1 \in Nat
      BY DEF Tidy
    <3> QED
      BY <3>1, BeginsBefore DEF BegunBefore
  <2>2. r \in Seq(Run16) /\ Len(r) \in Nat
    BY DEF Tidy, Spaced
  <2>3. Len(s) \in Nat /\ DOMAIN s = 1..Len(s) /\ k + Len(s) = Len(r)
    <3>1. s = SubSeq(r, k + 1, Len(r))
      BY DEF NotBegun
    <3> HIDE DEF k, s
    <3> QED
      BY <2>1, <2>2, <3>1
  <2>4. PICK t : Traced(TRUE, base, s, t) /\ t[Len(s)] = FoldLeft(AppendExclusive, base, s)
    <3> HIDE DEF s, base
    <3> QED
      BY <2>3, FoldedXor
  <2>5. Negated(r, low, high) = t[Len(s)]
    BY <1>2, <2>4 DEF Negated, NegationBase, NotBegun, BegunBefore
  <2>6. low < high
    BY <1>2
  <2>7. NegatedAlong(r, k, Len(s), low, high, t)
    BY <2>4, <2>6, NegationSteps
  <2> HIDE DEF k, s
  <2>8. Len(s) \in 0..Len(s)
    BY <2>3
  <2>9. {v \in Int : \E j \in 1..(k + Len(s)) : Holds(r[j], v)} = RunValues(r)
    <3>1. \A v : v \in RunValues(r) <=> v \in Int /\ \E j \in 1..Len(r) : Holds(r[j], v)
      BY <2>2, InRuns
    <3> QED
      BY <2>3, <3>1
  <2> QED
    BY <2>5, <2>7, <2>8, <2>9 DEF NegatedAlong, NegatedUpTo
<1> QED
  BY <1>1, <1>2

-------------------------------------------------------------------------------
(* A run container with some of its runs replaced *)

LEMMA SameRuns ==
    ASSUME NEW s \in Seq(Run16), NEW t \in Seq(Run16), Len(s) = Len(t),
           \A i \in 1..Len(s) : s[i] = t[i]
    PROVE  s = t
  OBVIOUS

LEMMA EditedPieces ==
    ASSUME NEW r \in Seq(Run16), NEW p \in 1..Len(r), NEW run \in Run16
    PROVE  LET t == [r EXCEPT ![p] = run]
           IN  /\ Len(t) = Len(r) /\ t \in Seq(Run16)
               /\ SubSeq(t, 1, p) = SubSeq(r, 1, p - 1) \o <<run>>
               /\ \A c \in (p + 1)..(Len(r) + 1) : SubSeq(t, c, Len(r)) = SubSeq(r, c, Len(r))
<1> DEFINE t == [r EXCEPT ![p] = run]
           n == Len(r)
           a == SubSeq(r, 1, p - 1)
<1>1. t \in Seq(Run16) /\ Len(t) = n /\ n \in Nat /\ \A i \in 1..n : t[i] = IF i = p THEN run ELSE r[i]
  OBVIOUS
<1>2. p \in Nat \ {0} /\ p <= n /\ p - 1 \in Nat /\ p - 1 <= n /\ p + 1 \in Nat \ {0} /\ p - 1 < p
  OBVIOUS
<1> HIDE DEF t
<1>3. SubSeq(t, 1, p) = a \o <<run>>
  <2> DEFINE s == SubSeq(t, 1, p)
             c == a \o <<run>>
  <2>1. /\ s \in Seq(Run16) /\ Len(s) = (IF 1 <= p THEN p - 1 + 1 ELSE 0)
        /\ \A i \in 1..Len(s) : s[i] = t[1 + i - 1]
    BY <1>1, <1>2, PieceFields
  <2>2. /\ a \in Seq(Run16) /\ Len(a) = (IF 1 <= p - 1 THEN p - 1 - 1 + 1 ELSE 0)
        /\ \A i \in 1..Len(a) : a[i] = r[1 + i - 1]
    BY <1>2, PieceFields
  <2> HIDE DEF a, s
  <2>3. Len(a) = p - 1 /\ Len(s) = p
    BY <1>2, <2>1, <2>2
  <2>4. <<run>> \in Seq(Run16) /\ Len(<<run>>) = 1 /\ <<run>>[1] = run
    OBVIOUS
  <2>5. /\ c \in Seq(Run16) /\ Len(c) = Len(a) + 1
        /\ \A i \in 1..Len(a) : c[i] = a[i]
        /\ \A i \in 1..1 : c[Len(a) + i] = <<run>>[i]
    BY <2>2, <2>4, JoinedFields
  <2> HIDE DEF c
  <2>6. Len(c) = p /\ c[p] = run
    <3>1. p - 1 + 1 = p /\ 1 \in 1..1
      BY <1>2
    <3> QED
      BY <2>3, <2>4, <2>5, <3>1
  <2>7. ASSUME NEW i \in 1..Len(s) PROVE s[i] = c[i]
    <3>1. CASE i = p
      BY <1>1, <1>2, <2>1, <2>6, <3>1
    <3>2. CASE i # p
      <4>1. i \in 1..Len(a) /\ i \in 1..n /\ 1 + i - 1 = i
        BY <1>2, <2>3, <3>2
      <4> QED
        BY <1>1, <2>1, <2>2, <2>5, <3>2, <4>1
    <3> QED
      BY <3>1, <3>2
  <2>8. s = c
    BY <2>1, <2>3, <2>5, <2>6, <2>7, SameRuns
  <2> QED
    BY <2>8 DEF s, c
<1>4. ASSUME NEW c \in (p + 1)..(n + 1) PROVE SubSeq(t, c, n) = SubSeq(r, c, n)
  <2> DEFINE s == SubSeq(t, c, n)
             u == SubSeq(r, c, n)
  <2>0. c \in Nat \ {0} /\ c > p
    BY <1>2
  <2>1. /\ s \in Seq(Run16) /\ Len(s) = (IF c <= n THEN n - c + 1 ELSE 0)
        /\ \A i \in 1..Len(s) : s[i] = t[c + i - 1] /\ c + i - 1 \in 1..n
    BY <1>1, <2>0, PieceFields
  <2>2. /\ u \in Seq(Run16) /\ Len(u) = (IF c <= n THEN n - c + 1 ELSE 0)
        /\ \A i \in 1..Len(u) : u[i] = r[c + i - 1]
    BY <1>1, <2>0, PieceFields
  <2> HIDE DEF s, u
  <2>3. Len(s) \in Nat
    BY <2>1
  <2>4. ASSUME NEW i \in 1..Len(s) PROVE s[i] = u[i]
    <3>1. c + i - 1 \in 1..n /\ c + i - 1 # p
      BY <1>2, <2>0, <2>1, <2>3
    <3>2. t[c + i - 1] = r[c + i - 1]
      BY <1>1, <3>1
    <3> QED
      BY <2>1, <2>2, <3>2
  <2>5. s = u
    BY <2>1, <2>2, <2>4, SameRuns
  <2> QED
    BY <2>5 DEF s, u
<1> QED
  BY <1>1, <1>3, <1>4 DEF t

LEMMA JoinedTwice ==
    ASSUME NEW a \in Seq(Run16), NEW b \in Seq(Run16), NEW c \in Seq(Run16)
    PROVE  (a \o b) \o c = a \o (b \o c)
  OBVIOUS

Rows(r, a, b) == RunValues(SubSeq(r, a, b))

\* The runs after the a-th one up to the b-th one go and those of mid come in their place.
Spliced(r, a, b, mid) == SubSeq(r, 1, a) \o mid \o SubSeq(r, b + 1, Len(r))

FitsIn(r, a, b, mid) ==
    \A v \in RunValues(mid) : /\ a # 0 => End(r[a]) + 1 < v
                              /\ b # Len(r) => v + 1 < r[b + 1].value

LEMMA SplicedIs ==
    ASSUME NEW r, Tidy(r), NEW a \in 0..Len(r), NEW b \in a..Len(r), NEW mid, Tidy(mid),
           FitsIn(r, a, b, mid)
    PROVE  /\ Tidy(Spliced(r, a, b, mid))
           /\ \A v : v \in RunValues(Spliced(r, a, b, mid))
                     <=> \/ v \in RunValues(mid)
                         \/ v \in Int /\ \E i \in 1..Len(r) : (i <= a \/ i > b) /\ Holds(r[i], v)
<1> DEFINE n == Len(r)
           head == SubSeq(r, 1, a)
           tail == SubSeq(r, b + 1, n)
           M == RunValues(mid)
<1>1. n \in Nat /\ a \in Nat /\ b \in Nat /\ a <= b /\ b <= n /\ a <= n
  BY DEF Tidy, Spaced
<1>2. Spaced(r, 1) /\ Spaced(mid, 1) /\ 1 \in Nat \ {0} /\ b + 1 \in Nat \ {0} /\ n <= n
  BY <1>1 DEF Tidy
<1>3. /\ Spaced(head, 1)
      /\ \A v : v \in RunValues(head) <=> v \in Int /\ \E i \in 1..a : Holds(r[i], v)
  BY <1>1, <1>2, PieceOf
<1>4. /\ Spaced(tail, 1)
      /\ \A v : v \in RunValues(tail) <=> v \in Int /\ \E i \in (b + 1)..n : Holds(r[i], v)
  BY <1>1, <1>2, PieceOf
<1>5. ASSUME NEW i \in 1..n
      PROVE  Legal(r[i]) /\ r[i].value \in Nat /\ End(r[i]) \in Nat /\ r[i].value <= End(r[i])
  <2>1. Legal(r[i])
    BY DEF Tidy, Spaced
  <2> QED
    BY <2>1, LegalIs
<1> HIDE DEF n, head, tail, M
<1>6. M \in SUBSET Int
  BY <1>2, SpacedValues DEF M, Numbers
<1>7. ASSUME NEW x \in RunValues(head)
      PROVE  a # 0 /\ x \in Int /\ x <= End(r[a]) /\ End(r[a]) \in Nat
  <2>1. PICK i \in 1..a : Holds(r[i], x)
    BY <1>3
  <2>2. a # 0 /\ a \in 1..n /\ i \in 1..n /\ (i = a \/ i < a) /\ x \in Int
    BY <1>1, <1>3
  <2>3. i < a => End(r[i]) < End(r[a])
    BY <1>2, <2>2, InOrder DEF n
  <2>4. x <= End(r[i]) /\ End(r[i]) \in Nat /\ End(r[a]) \in Nat
    BY <1>5, <2>1, <2>2 DEF Holds
  <2> QED
    BY <2>2, <2>3, <2>4
<1>8. ASSUME NEW y \in RunValues(tail)
      PROVE  b # n /\ y \in Int /\ r[b + 1].value <= y /\ r[b + 1].value \in Nat
  <2>1. PICK i \in (b + 1)..n : Holds(r[i], y)
    BY <1>4
  <2>2. b # n /\ b + 1 \in 1..n /\ i \in 1..n /\ (i = b + 1 \/ b + 1 < i) /\ y \in Int
    BY <1>1, <1>4
  <2>3. b + 1 < i => r[b + 1].value < r[i].value
    BY <1>2, <2>2, InOrder DEF n
  <2>4. r[i].value <= y /\ r[i].value \in Nat /\ r[b + 1].value \in Nat
    BY <1>5, <2>1, <2>2 DEF Holds
  <2> QED
    BY <2>2, <2>3, <2>4
<1>9. /\ Spaced(head \o mid, 1) /\ RunValues(head \o mid) = RunValues(head) \cup M
  <2>1. ASSUME NEW x \in RunValues(head), NEW y \in M PROVE x + 1 < y
    <3>1. End(r[a]) + 1 < y /\ y \in Int
      BY <1>6, <1>7 DEF FitsIn, M
    <3> QED
      BY <1>7, <3>1
  <2> QED
    BY <1>2, <1>3, <2>1, JoinedIs DEF M
<1>10. ASSUME NEW x \in RunValues(head \o mid), NEW y \in RunValues(tail) PROVE x + 1 < y
  <2>1. CASE x \in M
    <3>1. x + 1 < r[b + 1].value /\ x \in Int
      BY <1>6, <1>8, <2>1 DEF FitsIn, M, n
    <3> QED
      BY <1>8, <3>1
  <2>2. CASE x \in RunValues(head)
    <3>1. a \in 1..n /\ b + 1 \in 1..n /\ a < b + 1
      BY <1>1, <1>7, <1>8, <2>2
    <3>2. End(r[a]) + 1 < r[b + 1].value
      BY <1>2, <3>1, InOrder DEF n
    <3> QED
      BY <1>7, <1>8, <2>2, <3>2
  <2> QED
    BY <1>9, <2>1, <2>2
<1>11. /\ Spaced((head \o mid) \o tail, 1)
       /\ RunValues((head \o mid) \o tail) = RunValues(head \o mid) \cup RunValues(tail)
  BY <1>2, <1>4, <1>9, <1>10, JoinedIs
<1>12. Spliced(r, a, b, mid) = (head \o mid) \o tail
  BY DEF Spliced, head, tail, n
<1>13. ASSUME NEW v
       PROVE  v \in RunValues(head) \/ v \in RunValues(tail)
              <=> v \in Int /\ \E i \in 1..n : (i <= a \/ i > b) /\ Holds(r[i], v)
  <2>1. \A i : i \in 1..a <=> i \in 1..n /\ i <= a
    BY <1>1
  <2>2. \A i : i \in (b + 1)..n <=> i \in 1..n /\ i > b
    BY <1>1
  <2> QED
    BY <1>3, <1>4, <2>1, <2>2
<1>14. ASSUME NEW v
       PROVE  v \in RunValues((head \o mid) \o tail)
              <=> v \in M \/ (v \in RunValues(head) \/ v \in RunValues(tail))
  BY <1>9, <1>11
<1> QED
  BY <1>11, <1>12, <1>13, <1>14 DEF Tidy, M, n

-------------------------------------------------------------------------------
(* The runs around a place *)

LEMMA RunsLegal ==
    ASSUME NEW r, Tidy(r)
    PROVE  /\ r \in Seq(Run16) /\ Len(r) \in Nat /\ DOMAIN r = 1..Len(r)
           /\ \A i \in 1..Len(r) :
                 /\ Legal(r[i]) /\ r[i] \in Run16 /\ r[i].value \in Nat /\ r[i].length \in Nat
                 /\ End(r[i]) \in Nat
                 /\ r[i].value <= End(r[i]) /\ End(r[i]) < U /\ End(r[i]) = r[i].value + r[i].length
           /\ \A i, j \in 1..Len(r) : i < j => /\ End(r[i]) + 1 < r[j].value
                                               /\ End(r[i]) < End(r[j])
<1>1. r \in Seq(Run16) /\ \A i \in 1..Len(r) : Legal(r[i])
  BY DEF Tidy, Spaced
<1>2. \A i, j \in 1..Len(r) : i < j => End(r[i]) + 1 < r[j].value /\ End(r[i]) < End(r[j])
  BY InOrder DEF Tidy
<1> QED
  BY <1>1, <1>2, LegalIs

LEMMA PlaceIs ==
    ASSUME NEW r, Tidy(r), NEW v \in Int
    PROVE  LET p == PlaceOf(r, v)
           IN  /\ p \in 0..Len(r) /\ \A i \in 1..Len(r) : i <= p <=> r[i].value <= v
               /\ \A i \in 1..Len(r) : Holds(r[i], v) => i = p
               /\ v \in RunValues(r) <=> p > 0 /\ Holds(r[p], v)
<1> DEFINE n == Len(r)
           p == PlaceOf(r, v)
           k == Cardinality({i \in DOMAIN r : r[i].value < v + 1})
<1>1. /\ r \in Seq(Run16) /\ n \in Nat /\ DOMAIN r = 1..n
      /\ \A i \in 1..n : r[i].value \in Nat /\ End(r[i]) \in Nat
      /\ \A i, j \in 1..n : i < j => End(r[i]) + 1 < r[j].value
  BY RunsLegal
<1>2. Spaced(r, 1) /\ v + 1 \in Int /\ 1 \in Nat
  BY DEF Tidy
<1>3. k \in 0..n /\ \A i \in 1..n : i <= k <=> r[i].value < v + 1
  BY <1>2, BeginsBefore
<1>4. p = k
  <2>1. \A i \in DOMAIN r : r[i].value <= v <=> r[i].value < v + 1
    BY <1>1
  <2>2. {i \in DOMAIN r : r[i].value <= v} = {i \in DOMAIN r : r[i].value < v + 1}
    BY <2>1
  <2> QED
    BY <2>2 DEF PlaceOf
<1> HIDE DEF p, k, n
<1>5. p \in 0..n /\ \A i \in 1..n : i <= p <=> r[i].value <= v
  BY <1>1, <1>3, <1>4
<1>6. ASSUME NEW i \in 1..n, Holds(r[i], v) PROVE i = p
  <2>1. r[i].value <= v /\ v <= End(r[i])
    BY <1>6 DEF Holds
  <2>2. i <= p /\ p \in 1..n
    BY <1>1, <1>5, <2>1
  <2>3. r[p].value <= v
    BY <1>5, <2>2
  <2>4. i < p => End(r[i]) + 1 < r[p].value
    BY <1>1, <2>2
  <2> QED
    BY <1>1, <2>1, <2>2, <2>3, <2>4
<1>7. v \in RunValues(r) <=> \E i \in 1..n : Holds(r[i], v)
  BY <1>1, InRuns DEF n
<1>8. p > 0 => p \in 1..n
  BY <1>1, <1>5
<1>9. \A i \in 1..n : i > 0
  BY <1>1
<1>10. v \in RunValues(r) <=> p > 0 /\ Holds(r[p], v)
  BY <1>6, <1>7, <1>8, <1>9
<1> QED
  BY <1>5, <1>6, <1>10 DEF p, n

LEMMA OneMid ==
    ASSUME NEW v \in Nat, NEW l \in Nat, v + l < U
    PROVE  /\ Tidy(<<Run(v, l)>>) /\ Run(v, l) \in Run16 /\ Run(v, l) = [value |-> v, length |-> l]
           /\ \A u : u \in RunValues(<<Run(v, l)>>) <=> u \in Int /\ v <= u /\ u <= v + l
<1> DEFINE run == Run(v, l)
<1>1. Legal(run) /\ run.value = v /\ End(run) = v + l /\ run = [value |-> v, length |-> l]
  BY RunFits
<1> HIDE DEF run
<1>2. Tidy(<<run>>) /\ RunValues(<<run>>) = v..(v + l)
  BY <1>1, OneRun DEF Tidy
<1>3. \A u : u \in v..(v + l) <=> u \in Int /\ v <= u /\ u <= v + l
  OBVIOUS
<1> QED
  BY <1>1, <1>2, <1>3 DEF run, Legal

\* The numbers of the runs after the a-th one up to the b-th one.
InMiddle(r, a, b, v) == \E i \in 1..Len(r) : a < i /\ i <= b /\ Holds(r[i], v)

LEMMA SplicedValues ==
    ASSUME NEW r, Tidy(r), NEW a \in 0..Len(r), NEW b \in a..Len(r), NEW mid, Tidy(mid),
           FitsIn(r, a, b, mid)
    PROVE  /\ Tidy(Spliced(r, a, b, mid))
           /\ \A v : v \in RunValues(Spliced(r, a, b, mid))
                     <=> v \in RunValues(mid) \/ (v \in RunValues(r) /\ ~InMiddle(r, a, b, v))
<1> DEFINE n == Len(r)
           new == Spliced(r, a, b, mid)
<1>1. /\ n \in Nat /\ DOMAIN r = 1..n /\ r \in Seq(Run16)
      /\ \A i \in 1..n : r[i].value \in Nat /\ End(r[i]) \in Nat
      /\ \A i, j \in 1..n : i < j => End(r[i]) + 1 < r[j].value
  BY RunsLegal
<1>2. /\ Tidy(new)
      /\ \A v : v \in RunValues(new)
                <=> \/ v \in RunValues(mid)
                    \/ v \in Int /\ \E i \in 1..n : (i <= a \/ i > b) /\ Holds(r[i], v)
  BY SplicedIs
<1>3. \A v : v \in RunValues(r) <=> v \in Int /\ \E i \in 1..n : Holds(r[i], v)
  BY <1>1, InRuns
<1>4. ASSUME NEW v \in Int, NEW i \in 1..n, NEW j \in 1..n, Holds(r[i], v), Holds(r[j], v)
      PROVE  i = j
  <2>1. r[i].value <= v /\ v <= End(r[i]) /\ r[j].value <= v /\ v <= End(r[j])
    BY <1>4 DEF Holds
  <2>2. i < j => FALSE
    BY <1>1, <2>1
  <2>3. j < i => FALSE
    BY <1>1, <2>1
  <2> QED
    BY <1>1, <2>2, <2>3
<1>5. a \in Nat /\ b \in Nat
  BY <1>1
<1> HIDE DEF n, new
<1>6. ASSUME NEW v \in Int
      PROVE  (\E i \in 1..n : (i <= a \/ i > b) /\ Holds(r[i], v))
             <=> (\E i \in 1..n : Holds(r[i], v)) /\ ~InMiddle(r, a, b, v)
  <2>1. InMiddle(r, a, b, v) <=> \E i \in 1..n : a < i /\ i <= b /\ Holds(r[i], v)
    BY DEF InMiddle, n
  <2>2. \A i \in 1..n : (i <= a \/ i > b) <=> ~(a < i /\ i <= b)
    BY <1>1, <1>5
  <2> QED
    BY <1>4, <2>1, <2>2
<1>7. ASSUME NEW v
      PROVE  v \in RunValues(new)
             <=> v \in RunValues(mid) \/ (v \in RunValues(r) /\ ~InMiddle(r, a, b, v))
  BY <1>2, <1>3, <1>6
<1> QED
  BY <1>2, <1>7 DEF new

\* One run, from lo to hi, comes in the place of some.
LEMMA OneSpliced ==
    ASSUME NEW r, Tidy(r), NEW a \in 0..Len(r), NEW b \in a..Len(r),
           NEW lo \in Nat, NEW hi \in Nat, lo <= hi, hi < U, NEW run, run = Run(lo, hi - lo),
           a > 0 => End(r[a]) + 1 < lo, b < Len(r) => hi + 1 < r[b + 1].value
    PROVE  /\ Tidy(Spliced(r, a, b, <<run>>)) /\ run \in Run16
           /\ \A v : v \in RunValues(Spliced(r, a, b, <<run>>))
                     <=> \/ v \in Int /\ lo <= v /\ v <= hi
                         \/ v \in RunValues(r) /\ ~InMiddle(r, a, b, v)
<1>1. hi - lo \in Nat /\ lo + (hi - lo) = hi
  OBVIOUS
<1>2. /\ Tidy(<<run>>) /\ run \in Run16
      /\ \A v : v \in RunValues(<<run>>) <=> v \in Int /\ lo <= v /\ v <= hi
  BY <1>1, OneMid
<1>3. FitsIn(r, a, b, <<run>>)
  <2>1. Len(r) \in Nat /\ \A i \in 1..Len(r) : r[i].value \in Nat /\ End(r[i]) \in Nat
    BY RunsLegal
  <2>2. a # 0 => a > 0 /\ a \in 1..Len(r)
    BY <2>1
  <2>3. b # Len(r) => b < Len(r) /\ b + 1 \in 1..Len(r)
    BY <2>1
  <2>4. ASSUME NEW v \in RunValues(<<run>>), a # 0 PROVE End(r[a]) + 1 < v
    <3>1. End(r[a]) + 1 < lo /\ End(r[a]) \in Nat /\ v \in Int /\ lo <= v
      BY <1>2, <2>1, <2>2, <2>4
    <3> QED
      BY <3>1
  <2>5. ASSUME NEW v \in RunValues(<<run>>), b # Len(r) PROVE v + 1 < r[b + 1].value
    <3>1. hi + 1 < r[b + 1].value /\ r[b + 1].value \in Nat /\ v \in Int /\ v <= hi
      BY <1>2, <2>1, <2>3, <2>5
    <3> QED
      BY <3>1
  <2> QED
    BY <2>4, <2>5 DEF FitsIn
<1>4. /\ Tidy(Spliced(r, a, b, <<run>>))
      /\ \A v : v \in RunValues(Spliced(r, a, b, <<run>>))
                <=> v \in RunValues(<<run>>) \/ (v \in RunValues(r) /\ ~InMiddle(r, a, b, v))
  BY <1>2, <1>3, SplicedValues
<1> QED
  BY <1>2, <1>4

LEMMA NoneInMiddle ==
    ASSUME NEW r, Tidy(r), NEW a \in 0..Len(r), NEW v
    PROVE  ~InMiddle(r, a, a, v)
  BY RunsLegal DEF InMiddle

LEMMA OneInMiddle ==
    ASSUME NEW r, Tidy(r), NEW p \in 1..Len(r), NEW v
    PROVE  InMiddle(r, p - 1, p, v) <=> Holds(r[p], v)
<1>1. Len(r) \in Nat
  BY RunsLegal
<1>2. \A i \in 1..Len(r) : p - 1 < i /\ i <= p <=> i = p
  BY <1>1
<1> QED
  BY <1>2 DEF InMiddle

LEMMA TwoInMiddle ==
    ASSUME NEW r, Tidy(r), NEW p \in 1..Len(r), p + 1 <= Len(r), NEW v
    PROVE  InMiddle(r, p - 1, p + 1, v) <=> Holds(r[p], v) \/ Holds(r[p + 1], v)
<1>1. Len(r) \in Nat /\ p + 1 \in 1..Len(r)
  BY RunsLegal
<1>2. \A i \in 1..Len(r) : p - 1 < i /\ i <= p + 1 <=> i = p \/ i = p + 1
  BY <1>1
<1> QED
  BY <1>1, <1>2 DEF InMiddle

\* A run written at place p, and the run after it taken away.
LEMMA OneWritten ==
    ASSUME NEW r, Tidy(r), NEW p \in 1..Len(r), NEW run \in Run16
    PROVE  /\ [r EXCEPT ![p] = run] = Spliced(r, p - 1, p, <<run>>)
           /\ p + 1 <= Len(r)
              => RemoveAt([r EXCEPT ![p] = run], p + 1) = Spliced(r, p - 1, p + 1, <<run>>)
<1> DEFINE n == Len(r)
           t == [r EXCEPT ![p] = run]
<1>1. r \in Seq(Run16) /\ n \in Nat /\ p \in Nat /\ 1 <= p /\ p <= n
  BY RunsLegal
<1>2. Len(t) = n /\ SubSeq(t, 1, p) = SubSeq(r, 1, p - 1) \o <<run>>
      /\ \A c \in (p + 1)..(n + 1) : SubSeq(t, c, n) = SubSeq(r, c, n)
  BY <1>1, EditedPieces
<1>3. t = Spliced(r, p - 1, p, <<run>>)
  BY <1>1, ReplacedAt DEF Spliced
<1> HIDE DEF t
<1>4. ASSUME p + 1 <= n PROVE RemoveAt(t, p + 1) = Spliced(r, p - 1, p + 1, <<run>>)
  <2>1. p + 2 \in (p + 1)..(n + 1) /\ p + 1 - 1 = p /\ p + 1 + 1 = p + 2
    BY <1>1, <1>4
  <2>2. RemoveAt(t, p + 1) = SubSeq(t, 1, p) \o SubSeq(t, p + 2, n)
    BY <1>2, <2>1 DEF RemoveAt
  <2>3. SubSeq(t, p + 2, n) = SubSeq(r, p + 2, n)
    BY <1>2, <2>1
  <2> QED
    BY <1>2, <2>1, <2>2, <2>3 DEF Spliced
<1> QED
  BY <1>3, <1>4 DEF t

-------------------------------------------------------------------------------
(* One number added *)

\* What is known of the place p of a number, and of the runs beside it.
PlacedAt(r, v, p) ==
    /\ p \in 0..Len(r) /\ p \in Nat
    /\ p > 0 => /\ p \in 1..Len(r) /\ r[p].value \in Nat /\ r[p].value <= v
                /\ Holds(r[p], v) <=> v <= End(r[p])
    /\ p < Len(r) => p + 1 \in 1..Len(r) /\ v < r[p + 1].value
    /\ v \in RunValues(r) <=> p > 0 /\ Holds(r[p], v)

LEMMA PlacedThere ==
    ASSUME NEW r, Tidy(r), NEW v \in Int, NEW p, p = PlaceOf(r, v)
    PROVE  PlacedAt(r, v, p)
<1>1. /\ p \in 0..Len(r) /\ \A i \in 1..Len(r) : i <= p <=> r[i].value <= v
      /\ v \in RunValues(r) <=> p > 0 /\ Holds(r[p], v)
  BY PlaceIs
<1>2. Len(r) \in Nat /\ \A i \in 1..Len(r) : r[i].value \in Nat
  BY RunsLegal
<1>3. p \in Nat /\ (p > 0 => p \in 1..Len(r)) /\ (p < Len(r) => p + 1 \in 1..Len(r) /\ ~(p + 1 <= p))
  BY <1>1, <1>2
<1>4. p > 0 => r[p].value <= v
  BY <1>1, <1>3
<1>5. p < Len(r) => v < r[p + 1].value
  BY <1>1, <1>2, <1>3
<1> QED
  BY <1>1, <1>2, <1>3, <1>4, <1>5 DEF PlacedAt, Holds

\* The run at a place and the ones beside it.
LEMMA Beside ==
    ASSUME NEW r, Tidy(r), NEW p \in 1..Len(r)
    PROVE  /\ r[p] \in Run16 /\ r[p].value \in Nat /\ r[p].length \in Nat /\ End(r[p]) \in Nat
           /\ r[p].value <= End(r[p]) /\ End(r[p]) < U /\ End(r[p]) = r[p].value + r[p].length
           /\ p - 1 \in 0..Len(r) /\ p \in (p - 1)..Len(r) /\ p \in 0..Len(r)
           /\ p - 1 > 0 => End(r[p - 1]) \in Nat /\ End(r[p - 1]) + 1 < r[p].value
           /\ p < Len(r) => /\ p + 1 \in 1..Len(r) /\ p + 1 \in (p - 1)..Len(r)
                            /\ r[p + 1].value \in Nat /\ End(r[p]) + 1 < r[p + 1].value
<1>1. Len(r) \in Nat /\ p \in Nat
  BY RunsLegal
<1>2. p - 1 > 0 => p - 1 \in 1..Len(r) /\ p - 1 < p
  BY <1>1
<1>3. p < Len(r) => p + 1 \in 1..Len(r) /\ p < p + 1 /\ p + 1 \in (p - 1)..Len(r)
  BY <1>1
<1>4. p - 1 \in 0..Len(r) /\ p \in (p - 1)..Len(r) /\ p \in 0..Len(r)
  BY <1>1
<1> QED
  BY <1>2, <1>3, <1>4, RunsLegal

LEMMA AddBoth ==
    ASSUME NEW r, Tidy(r), NEW pos \in Numbers, NEW p, PlacedAt(r, pos, p),
           p > 0, p < Len(r), pos = End(r[p]) + 1, r[p + 1].value = pos + 1,
           NEW new, new = RemoveAt([r EXCEPT ![p] = Run(@.value, End(r[p + 1]) - @.value)], p + 1)
    PROVE  Tidy(new) /\ RunValues(new) = RunValues(r) \cup {pos}
<1> DEFINE lo == r[p].value
           hi == End(r[p + 1])
           mid == End(r[p])
           run == Run(lo, hi - lo)
<1>1. p \in 1..Len(r) /\ p + 1 \in 1..Len(r) /\ p + 1 <= Len(r) /\ p - 1 \in 0..Len(r)
      /\ p + 1 \in (p - 1)..Len(r)
  BY Beside, RunsLegal DEF PlacedAt
<1>2. /\ lo \in Nat /\ hi \in Nat /\ mid \in Nat /\ lo <= mid /\ hi < U
      /\ pos = mid + 1 /\ r[p + 1].value = pos + 1 /\ pos + 1 <= hi /\ pos \in Nat
      /\ p - 1 > 0 => End(r[p - 1]) + 1 < lo
  <2>1. lo \in Nat /\ mid \in Nat /\ lo <= mid /\ (p - 1 > 0 => End(r[p - 1]) + 1 < lo)
    BY <1>1, Beside
  <2>2. hi \in Nat /\ hi < U /\ r[p + 1].value <= hi
    BY <1>1, Beside
  <2>3. pos \in Nat
    BY UAssumption DEF Numbers
  <2> QED
    BY <2>1, <2>2, <2>3
<1>3. p + 1 < Len(r) => hi + 1 < r[p + 1 + 1].value
  BY <1>1, Beside
<1>4. new = RemoveAt([r EXCEPT ![p] = run], p + 1)
  OBVIOUS
<1>5. \A v : /\ Holds(r[p], v) <=> lo <= v /\ v <= mid
             /\ Holds(r[p + 1], v) <=> r[p + 1].value <= v /\ v <= hi
  BY DEF Holds
<1> HIDE DEF lo, hi, mid, run
<1>6. lo <= hi
  BY <1>2
<1>7. /\ Tidy(Spliced(r, p - 1, p + 1, <<run>>)) /\ run \in Run16
      /\ \A v : v \in RunValues(Spliced(r, p - 1, p + 1, <<run>>))
                <=> \/ v \in Int /\ lo <= v /\ v <= hi
                    \/ v \in RunValues(r) /\ ~InMiddle(r, p - 1, p + 1, v)
  <2>1. run = Run(lo, hi - lo)
    BY DEF run
  <2> QED
    BY <1>1, <1>2, <1>3, <1>6, <2>1, OneSpliced, Zenon
<1>8. new = Spliced(r, p - 1, p + 1, <<run>>)
  BY <1>1, <1>4, <1>7, OneWritten
<1>9. \A v : InMiddle(r, p - 1, p + 1, v)
             <=> (lo <= v /\ v <= mid) \/ (r[p + 1].value <= v /\ v <= hi)
  BY <1>1, <1>5, TwoInMiddle
<1>10. \A v : v \in RunValues(r)
              <=> v \in Int /\ \E i \in 1..Len(r) : Holds(r[i], v)
  BY RunsLegal, InRuns
<1>11. \A v \in Int : (lo <= v /\ v <= mid) \/ (r[p + 1].value <= v /\ v <= hi) => v \in RunValues(r)
  BY <1>1, <1>5, <1>10
<1>12. ASSUME NEW v \in Int
       PROVE  lo <= v /\ v <= hi
              <=> (lo <= v /\ v <= mid) \/ v = pos \/ (r[p + 1].value <= v /\ v <= hi)
  BY <1>2
<1>13. RunValues(r) \subseteq Int /\ pos \in Int
  BY <1>2, <1>10
<1>14. ASSUME NEW v PROVE v \in RunValues(new) <=> v \in RunValues(r) \/ v = pos
  BY <1>7, <1>8, <1>9, <1>11, <1>12, <1>13
<1> QED
  BY <1>7, <1>8, <1>14

\* A run container with the run at p stretched or shrunk, to the numbers from lo to hi.
Changed(r, p, lo, hi, new) ==
    /\ Tidy(new)
    /\ \A v : v \in RunValues(new)
              <=> v \in Int /\ ((lo <= v /\ v <= hi) \/ (v \in RunValues(r) /\ ~Holds(r[p], v)))
    /\ \A v \in Int : Holds(r[p], v) => v \in RunValues(r)

LEMMA OneChanged ==
    ASSUME NEW r, Tidy(r), NEW p \in 1..Len(r), NEW lo \in Nat, NEW hi \in Nat,
           lo <= hi, hi < U, NEW run, run = Run(lo, hi - lo),
           p - 1 > 0 => End(r[p - 1]) + 1 < lo, p < Len(r) => hi + 1 < r[p + 1].value,
           NEW new, new = [r EXCEPT ![p] = run]
    PROVE  Changed(r, p, lo, hi, new)
<1>1. p - 1 \in 0..Len(r) /\ p \in (p - 1)..Len(r)
  BY Beside
<1>2. /\ Tidy(Spliced(r, p - 1, p, <<run>>)) /\ run \in Run16
      /\ \A v : v \in RunValues(Spliced(r, p - 1, p, <<run>>))
                <=> \/ v \in Int /\ lo <= v /\ v <= hi
                    \/ v \in RunValues(r) /\ ~InMiddle(r, p - 1, p, v)
  BY <1>1, OneSpliced, Zenon
<1>3. new = Spliced(r, p - 1, p, <<run>>)
  <2>1. [r EXCEPT ![p] = run] = Spliced(r, p - 1, p, <<run>>)
    BY <1>2, RunsLegal, ReplacedAt DEF Spliced
  <2> QED
    BY <2>1, Zenon
<1>4. \A v : InMiddle(r, p - 1, p, v) <=> Holds(r[p], v)
  BY OneInMiddle
<1>5. \A v : v \in RunValues(r) <=> v \in Int /\ \E i \in 1..Len(r) : Holds(r[i], v)
  BY RunsLegal, InRuns
<1> QED
  BY <1>2, <1>3, <1>4, <1>5 DEF Changed

LEMMA AddAfter ==
    ASSUME NEW r, Tidy(r), NEW pos \in Numbers, NEW p, PlacedAt(r, pos, p),
           p > 0, pos = End(r[p]) + 1, p < Len(r) => r[p + 1].value # pos + 1,
           NEW new, new = [r EXCEPT ![p].length = @ + 1]
    PROVE  Tidy(new) /\ RunValues(new) = RunValues(r) \cup {pos}
<1> DEFINE lo == r[p].value
           mid == End(r[p])
           run == Run(lo, pos - lo)
<1>1. p \in 1..Len(r)
  BY DEF PlacedAt
<1>2. pos \in Nat /\ pos < U
  BY UAssumption DEF Numbers
<1>3. /\ lo \in Nat /\ mid \in Nat /\ lo <= mid /\ mid = lo + r[p].length
      /\ r[p] \in Run16 /\ r[p].length \in Nat
      /\ p - 1 > 0 => End(r[p - 1]) + 1 < lo
      /\ p < Len(r) => r[p + 1].value \in Nat
  BY <1>1, Beside
<1>4. p < Len(r) => pos + 1 < r[p + 1].value
  <2>1. p < Len(r) => pos < r[p + 1].value
    BY DEF PlacedAt
  <2> QED
    BY <1>2, <1>3, <2>1
<1>5. new = [r EXCEPT ![p] = run]
  <2>1. pos - lo = r[p].length + 1 /\ pos - lo \in Nat /\ lo + (pos - lo) = pos
    BY <1>2, <1>3
  <2>2. run = [value |-> lo, length |-> pos - lo]
    BY <1>2, <1>3, <2>1, RunFits
  <2>3. [r[p] EXCEPT !.length = @ + 1] = [value |-> lo, length |-> r[p].length + 1]
    BY <1>3 DEF Run16
  <2>4. new = [r EXCEPT ![p] = [r[p] EXCEPT !.length = @ + 1]]
    OBVIOUS
  <2> QED
    BY <2>1, <2>2, <2>3, <2>4, Zenon
<1>6. \A v : Holds(r[p], v) <=> lo <= v /\ v <= mid
  BY DEF Holds
<1>7. lo <= pos
  BY <1>2, <1>3
<1>8. run = Run(lo, pos - lo) /\ pos = mid + 1
  OBVIOUS
<1> HIDE DEF lo, mid, run
<1>9. Changed(r, p, lo, pos, new)
  BY <1>1, <1>2, <1>3, <1>4, <1>5, <1>7, <1>8, OneChanged
<1>10. \A v \in Int : lo <= v /\ v <= pos <=> (lo <= v /\ v <= mid) \/ v = pos
  BY <1>2, <1>3, <1>8
<1>11. RunValues(r) \subseteq Int /\ pos \in Int
  BY <1>2, SpacedValues, UAssumption DEF Tidy, Numbers
<1>12. ASSUME NEW v PROVE v \in RunValues(new) <=> v \in RunValues(r) \/ v = pos
  BY <1>6, <1>9, <1>10, <1>11 DEF Changed
<1> QED
  BY <1>9, <1>12 DEF Changed

LEMMA AddBefore ==
    ASSUME NEW r, Tidy(r), NEW pos \in Numbers, NEW p, PlacedAt(r, pos, p),
           p < Len(r), p > 0 => End(r[p]) < pos /\ pos # End(r[p]) + 1, r[p + 1].value = pos + 1,
           NEW new, new = [r EXCEPT ![p + 1] = Run(pos, @.length + 1)]
    PROVE  Tidy(new) /\ RunValues(new) = RunValues(r) \cup {pos}
<1> DEFINE q == p + 1
           lo == r[q].value
           hi == End(r[q])
           run == Run(pos, hi - pos)
<1>1. q \in 1..Len(r) /\ q - 1 = p /\ p \in Nat
  BY DEF PlacedAt
<1>2. pos \in Nat /\ pos < U
  BY UAssumption DEF Numbers
<1>3. /\ lo \in Nat /\ hi \in Nat /\ lo <= hi /\ hi < U /\ hi = lo + r[q].length
      /\ r[q].length \in Nat
      /\ q < Len(r) => hi + 1 < r[q + 1].value
  BY <1>1, Beside
<1>4. q - 1 > 0 => End(r[q - 1]) + 1 < pos
  <2>1. p > 0 => p \in 1..Len(r)
    BY DEF PlacedAt
  <2>2. p > 0 => End(r[p]) \in Nat
    BY <2>1, Beside
  <2> QED
    BY <1>1, <1>2, <2>2
<1>5. new = [r EXCEPT ![q] = run]
  <2>1. hi - pos = r[q].length + 1
    BY <1>2, <1>3
  <2> QED
    BY <2>1, Zenon
<1>6. \A v : Holds(r[q], v) <=> lo <= v /\ v <= hi
  BY DEF Holds
<1>7. run = Run(pos, hi - pos) /\ lo = pos + 1
  OBVIOUS
<1> HIDE DEF lo, hi, run, q
<1>8. pos <= hi
  BY <1>2, <1>3, <1>7
<1>9. Changed(r, q, pos, hi, new)
  BY <1>1, <1>2, <1>3, <1>4, <1>5, <1>7, <1>8, OneChanged
<1>10. \A v \in Int : pos <= v /\ v <= hi <=> (lo <= v /\ v <= hi) \/ v = pos
  BY <1>2, <1>3, <1>7
<1>11. RunValues(r) \subseteq Int /\ pos \in Int
  BY <1>2, SpacedValues, UAssumption DEF Tidy, Numbers
<1>12. ASSUME NEW v PROVE v \in RunValues(new) <=> v \in RunValues(r) \/ v = pos
  BY <1>6, <1>9, <1>10, <1>11 DEF Changed
<1> QED
  BY <1>9, <1>12 DEF Changed

LEMMA AddAlone ==
    ASSUME NEW r, Tidy(r), NEW pos \in Numbers, NEW p, PlacedAt(r, pos, p),
           p > 0 => End(r[p]) < pos /\ pos # End(r[p]) + 1,
           p < Len(r) => r[p + 1].value # pos + 1,
           NEW new, new = InsertAt(r, p + 1, Run(pos, 0))
    PROVE  Tidy(new) /\ RunValues(new) = RunValues(r) \cup {pos}
<1> DEFINE run == Run(pos, pos - pos)
<1>1. p \in 0..Len(r) /\ p \in p..Len(r) /\ p \in Nat /\ p + 1 - 1 = p
  <2>1. p \in 0..Len(r) /\ p \in Nat
    BY DEF PlacedAt
  <2>2. Len(r) \in Nat
    BY RunsLegal
  <2> QED
    BY <2>1, <2>2
<1>2. pos \in Nat /\ pos < U /\ pos <= pos /\ pos - pos = 0
  BY UAssumption DEF Numbers
<1>3. p > 0 => End(r[p]) + 1 < pos
  <2>1. p > 0 => p \in 1..Len(r)
    BY DEF PlacedAt
  <2>2. p > 0 => End(r[p]) \in Nat
    BY <2>1, Beside
  <2> QED
    BY <1>2, <2>2
<1>4. p < Len(r) => pos + 1 < r[p + 1].value
  <2>1. p < Len(r) => p + 1 \in 1..Len(r) /\ pos < r[p + 1].value
    BY DEF PlacedAt
  <2>2. p < Len(r) => r[p + 1].value \in Nat
    BY <2>1, Beside
  <2> QED
    BY <1>2, <2>1, <2>2
<1>5. new = Spliced(r, p, p, <<run>>)
  <2>1. (p + 1) - 1 = p
    BY <1>1
  <2>2. InsertAt(r, p + 1, Run(pos, 0))
        = SubSeq(r, 1, (p + 1) - 1) \o <<Run(pos, 0)>> \o SubSeq(r, p + 1, Len(r))
    BY Zenon DEF InsertAt
  <2> QED
    BY <1>2, <2>1, <2>2, Zenon DEF Spliced
<1>6. run = Run(pos, pos - pos)
  OBVIOUS
<1> HIDE DEF run
<1>7. /\ Tidy(Spliced(r, p, p, <<run>>))
      /\ \A v : v \in RunValues(Spliced(r, p, p, <<run>>))
                <=> \/ v \in Int /\ pos <= v /\ v <= pos
                    \/ v \in RunValues(r) /\ ~InMiddle(r, p, p, v)
  BY <1>1, <1>2, <1>3, <1>4, <1>6, OneSpliced, Zenon
<1>8. \A v : ~InMiddle(r, p, p, v)
  BY <1>1, NoneInMiddle
<1>9. \A v : v \in Int /\ pos <= v /\ v <= pos <=> v = pos
  BY <1>2
<1>10. ASSUME NEW v PROVE v \in RunValues(new) <=> v \in RunValues(r) \/ v = pos
  BY <1>5, <1>7, <1>8, <1>9
<1> QED
  BY <1>5, <1>7, <1>10

LEMMA AddValueExact ==
    ASSUME NEW r, Tidy(r), NEW pos \in Numbers
    PROVE  Tidy(AddValue(r, pos)) /\ RunValues(AddValue(r, pos)) = RunValues(r) \cup {pos}
<1> DEFINE p == PlaceOf(r, pos)
           after == p > 0 /\ pos = End(r[p]) + 1
           before == p < Len(r) /\ r[p + 1].value = pos + 1
           held == p > 0 /\ Holds(r[p], pos)
           new == AddValue(r, pos)
<1>1. /\ held => new = r
      /\ ~held /\ after /\ before
         => new = RemoveAt([r EXCEPT ![p] = Run(@.value, End(r[p + 1]) - @.value)], p + 1)
      /\ ~held /\ after /\ ~before => new = [r EXCEPT ![p].length = @ + 1]
      /\ ~held /\ ~after /\ before => new = [r EXCEPT ![p + 1] = Run(pos, @.length + 1)]
      /\ ~held /\ ~after /\ ~before => new = InsertAt(r, p + 1, Run(pos, 0))
  BY Zenon DEF AddValue
<1>2. pos \in Int
  BY UAssumption DEF Numbers
<1>3. PlacedAt(r, pos, p)
  BY <1>2, PlacedThere
<1> HIDE DEF p, new
<1>4. p > 0 /\ ~held => End(r[p]) < pos
  <2>1. p > 0 => p \in 1..Len(r)
    BY <1>3 DEF PlacedAt
  <2>2. p > 0 => End(r[p]) \in Nat
    BY <2>1, Beside
  <2> QED
    BY <1>2, <1>3, <2>2 DEF PlacedAt
<1>5. CASE held
  BY <1>1, <1>3, <1>5, Zenon DEF PlacedAt, new
<1>6. CASE ~held /\ after /\ before
  <2>1. new = RemoveAt([r EXCEPT ![p] = Run(@.value, End(r[p + 1]) - @.value)], p + 1)
    BY <1>1, <1>6, Zenon
  <2>2. Tidy(new) /\ RunValues(new) = RunValues(r) \cup {pos}
    BY <1>3, <1>4, <1>6, <2>1, AddBoth
  <2> QED
    BY <2>2 DEF new
<1>7. CASE ~held /\ after /\ ~before
  <2>1. new = [r EXCEPT ![p].length = @ + 1]
    BY <1>1, <1>7, Zenon
  <2>2. Tidy(new) /\ RunValues(new) = RunValues(r) \cup {pos}
    BY <1>3, <1>4, <1>7, <2>1, AddAfter
  <2> QED
    BY <2>2 DEF new
<1>8. CASE ~held /\ ~after /\ before
  <2>1. new = [r EXCEPT ![p + 1] = Run(pos, @.length + 1)]
    BY <1>1, <1>8, Zenon
  <2>2. Tidy(new) /\ RunValues(new) = RunValues(r) \cup {pos}
    BY <1>3, <1>4, <1>8, <2>1, AddBefore
  <2> QED
    BY <2>2 DEF new
<1>9. CASE ~held /\ ~after /\ ~before
  <2>1. new = InsertAt(r, p + 1, Run(pos, 0))
    BY <1>1, <1>9, Zenon
  <2>2. Tidy(new) /\ RunValues(new) = RunValues(r) \cup {pos}
    BY <1>3, <1>4, <1>9, <2>1, AddAlone
  <2> QED
    BY <2>2 DEF new
<1> QED
  BY <1>5, <1>6, <1>7, <1>8, <1>9

-------------------------------------------------------------------------------
(* How many numbers runs have *)

OfRuns(r, s) == {v \in Numbers : \E i \in s : Holds(r[i], v)}

LEMMA OfRunsMore ==
    ASSUME NEW r, Spaced(r, 0), NEW s \in SUBSET (1..Len(r)), NEW x \in 1..Len(r), x \notin s
    PROVE  /\ OfRuns(r, s \cup {x}) = OfRuns(r, s) \cup (r[x].value .. End(r[x]))
           /\ OfRuns(r, s) \cap (r[x].value .. End(r[x])) = {}
<1> DEFINE lo == r[x].value
           hi == End(r[x])
<1>1. Len(r) \in Nat /\ lo \in Nat /\ hi \in Nat /\ lo <= hi /\ hi < U
  <2>1. Legal(r[x]) /\ Len(r) \in Nat
    BY DEF Spaced
  <2> QED
    BY <2>1, LegalIs DEF Legal
<1>2. \A v : Holds(r[x], v) <=> lo <= v /\ v <= hi
  BY DEF Holds
<1>3. ASSUME NEW v \in Int, lo <= v, v <= hi, NEW i \in s, Holds(r[i], v) PROVE FALSE
  <2>1. i \in 1..Len(r) /\ i # x /\ (i < x \/ x < i)
    BY <1>1
  <2>2. Legal(r[i]) /\ r[i].value <= v /\ v <= End(r[i])
    BY <1>3, <2>1 DEF Spaced, Holds
  <2>3. r[i].value \in Nat /\ End(r[i]) \in Nat
    BY <2>2, LegalIs
  <2>4. i < x => End(r[i]) + 0 < lo
    BY <2>1, InOrder
  <2>5. x < i => hi + 0 < r[i].value
    BY <2>1, InOrder
  <2> HIDE DEF lo, hi
  <2> QED
    BY <1>1, <1>3, <2>1, <2>2, <2>3, <2>4, <2>5
<1> HIDE DEF lo, hi
<1>4. \A v : v \in lo..hi <=> v \in Numbers /\ lo <= v /\ v <= hi
  BY <1>1, UAssumption DEF Numbers
<1>5. \A v \in Numbers : v \in Int
  BY DEF Numbers
<1>6. OfRuns(r, s \cup {x}) = OfRuns(r, s) \cup (lo..hi)
  BY <1>2, <1>4 DEF OfRuns
<1>7. OfRuns(r, s) \cap (lo..hi) = {}
  BY <1>3, <1>4, <1>5 DEF OfRuns
<1> QED
  BY <1>6, <1>7 DEF lo, hi

LEMMA AddsHeld ==
    ASSUME NEW r, Spaced(r, 0), NEW B, \A i \in 1..Len(r) : B[i] = r[i].length,
           NEW f, Adds(B, 1..Len(r), f), NEW s \in SUBSET (1..Len(r))
    PROVE  f[s] \in Nat /\ Cardinality(s) \in Nat /\ f[s] + Cardinality(s) = Cardinality(OfRuns(r, s))
<1> DEFINE S == 1..Len(r)
           Good(t) == f[t] \in Nat /\ f[t] + Cardinality(t) = Cardinality(OfRuns(r, t))
           Bad == {n \in Nat : \E t \in SUBSET S : Cardinality(t) = n /\ ~Good(t)}
<1>1. IsFiniteSet(S) /\ IsFiniteSet(Numbers) /\ \A t \in SUBSET S : Cardinality(t) \in Nat
  <2>1. Len(r) \in Int /\ U - 1 \in Int
    BY UAssumption DEF Spaced
  <2>2. IsFiniteSet(S) /\ IsFiniteSet(Numbers)
    BY <2>1, FS_Interval DEF Numbers
  <2> QED
    BY <2>2, FS_Subset, FS_CardinalityType
<1>2. SUFFICES ASSUME Bad # {} PROVE FALSE
  BY <1>1
<1>3. PICK n \in Bad : \A j \in Bad : n <= j
  <2>1. Bad \subseteq Nat
    OBVIOUS
  <2> HIDE DEF Bad
  <2> QED
    BY <1>2, <2>1, LeastOfNaturals
<1>4. PICK t \in SUBSET S : Cardinality(t) = n /\ ~Good(t)
  BY <1>3
<1>5. f[t] = AddStep(B, f, t)
  BY DEF Adds
<1>6. t # {}
  <2> SUFFICES ASSUME t = {} PROVE FALSE
    OBVIOUS
  <2>1. f[t] = 0 /\ OfRuns(r, t) = {} /\ Cardinality(t) = 0
    BY <1>5, FS_EmptySet DEF AddStep, OfRuns
  <2>2. Cardinality(OfRuns(r, t)) = 0
    BY <2>1, FS_EmptySet
  <2>3. Good(t)
    BY <2>1, <2>2
  <2> QED
    BY <1>4, <2>3
<1> DEFINE x == Chosen(t)
           q == t \ {x}
<1>7. /\ x \in t /\ q \in SUBSET S /\ Cardinality(q) \in Nat /\ Cardinality(q) = Cardinality(t) - 1
      /\ Cardinality(t) = n /\ n \in Nat
  <2>1. n \in Nat /\ Cardinality(t) = n
    BY <1>3, <1>4
  <2> HIDE DEF Bad, Good, S
  <2> QED
    BY <1>1, <1>6, <2>1, ChosenLeft
<1>8. f[t] = B[x] + f[q]
  BY <1>5, <1>6 DEF AddStep
<1>9. t = q \cup {x} /\ x \notin q /\ x \in S
  BY <1>7
<1> HIDE DEF x, q
<1>10. Good(q)
  <2>1. n - 1 \in Nat /\ n - 1 \notin Bad
    BY <1>3, <1>7
  <2> QED
    BY <1>7, <2>1
<1> DEFINE H == OfRuns(r, q)
           lo == r[x].value
           hi == End(r[x])
<1>11. lo \in Nat /\ hi \in Nat /\ lo <= hi /\ hi - lo = r[x].length /\ r[x].length \in Nat
  <2>1. Legal(r[x])
    BY <1>9 DEF Spaced
  <2> QED
    BY <2>1, LegalIs DEF Legal
<1>12. OfRuns(r, t) = H \cup (lo..hi) /\ H \cap (lo..hi) = {}
  BY <1>7, <1>9, OfRunsMore
<1>13. IsFiniteSet(H) /\ Cardinality(H) \in Nat
  <2>1. H \in SUBSET Numbers
    BY DEF OfRuns
  <2> QED
    BY <1>1, <2>1, FS_Subset, FS_CardinalityType
<1>14. f[q] \in Nat /\ f[q] + Cardinality(q) = Cardinality(H)
  BY <1>10
<1>15. B[x] = r[x].length
  BY <1>9
<1> HIDE DEF H, lo, hi, Good
<1>16. IsFiniteSet(lo..hi) /\ Cardinality(lo..hi) = hi - lo + 1
  <2>1. lo \in Int /\ hi \in Int /\ ~(lo > hi)
    BY <1>11
  <2> QED
    BY <2>1, FS_Interval
<1>17. Cardinality(H \cup (lo..hi)) = Cardinality(H) + Cardinality(lo..hi) - Cardinality(H \cap (lo..hi))
  BY <1>13, <1>16, FS_Union
<1>18. Cardinality(H \cap (lo..hi)) = 0
  BY <1>12, FS_EmptySet
<1>19. Cardinality(OfRuns(r, t)) = Cardinality(H) + (r[x].length + 1)
  BY <1>11, <1>12, <1>13, <1>16, <1>17, <1>18
<1>20. f[t] \in Nat /\ f[t] + Cardinality(t) = Cardinality(OfRuns(r, t))
  BY <1>7, <1>8, <1>11, <1>14, <1>15, <1>19
<1> QED
  BY <1>4, <1>20 DEF Good

LEMMA CardIs ==
    ASSUME NEW r, Spaced(r, 0)
    PROVE  Card(r) = Cardinality(RunValues(r)) /\ Card(r) \in Nat
<1> DEFINE S == DOMAIN r
           B == [i \in S |-> r[i].length]
           f == CHOOSE f : f = [s \in SUBSET S |->
                                   IF s = {} THEN 0
                                   ELSE r[CHOOSE x \in s : TRUE].length
                                        + f[s \ {CHOOSE x \in s : TRUE}]]
<1>1. Card(r) = Len(r) + f[S]
  BY DEF Card, MapThenSumSet, MapThenFoldSet
<1>2. S = 1..Len(r) /\ Len(r) \in Nat
  BY DEF Spaced
<1>3. IsFiniteSet(S) /\ Cardinality(S) = Len(r)
  <2> DEFINE n == Len(r)
  <2>1. n \in Nat /\ S = 1..n
    BY <1>2
  <2> HIDE DEF n, S
  <2>2. IsFiniteSet(1..n) /\ Cardinality(1..n) = IF 1 > n THEN 0 ELSE n - 1 + 1
    BY <2>1, FS_Interval
  <2>3. Cardinality(1..n) = n
    BY <2>1, <2>2
  <2> QED
    BY <2>1, <2>2, <2>3 DEF n
<1>4. \A i \in S : B[i] = r[i].length
  OBVIOUS
<1> HIDE DEF B, S
<1>5. Adds(B, S, f)
  <2>1. PICK g : Adds(B, S, g)
    BY <1>3, AddsExist
  <2>2. \A h : \A s \in SUBSET S :
           AddStep(B, h, s) = IF s = {} THEN 0
                              ELSE r[CHOOSE x \in s : TRUE].length
                                   + h[s \ {CHOOSE x \in s : TRUE}]
    BY <1>4 DEF AddStep, Chosen
  <2>3. g = [s \in SUBSET S |-> IF s = {} THEN 0
                                ELSE r[CHOOSE x \in s : TRUE].length
                                     + g[s \ {CHOOSE x \in s : TRUE}]]
    BY <2>1, <2>2 DEF Adds
  <2>4. f = [s \in SUBSET S |-> IF s = {} THEN 0
                                ELSE r[CHOOSE x \in s : TRUE].length
                                     + f[s \ {CHOOSE x \in s : TRUE}]]
    BY <2>3
  <2> HIDE DEF f
  <2> QED
    BY <2>2, <2>4 DEF Adds
<1> HIDE DEF f
<1>6. f[S] \in Nat /\ f[S] + Cardinality(S) = Cardinality(OfRuns(r, S))
  <2>1. S \in SUBSET (1..Len(r))
    BY <1>2
  <2> QED
    BY <1>2, <1>4, <1>5, <2>1, AddsHeld
<1>7. OfRuns(r, S) = RunValues(r)
  <2>1. \A v : v \in RunValues(r) <=> v \in Int /\ \E i \in S : Holds(r[i], v)
    BY <1>2, InRuns DEF Spaced
  <2>2. RunValues(r) \in SUBSET Numbers /\ Numbers \subseteq Int
    BY SpacedValues DEF Numbers
  <2> QED
    BY <2>1, <2>2 DEF OfRuns
<1> QED
  BY <1>1, <1>2, <1>3, <1>6, <1>7

LEMMA NoRunIsTidy == Tidy(<<>>) /\ RunValues(<<>>) = {}
  BY NoRuns DEF Tidy

-------------------------------------------------------------------------------
(* The numbers of a set in order, and the runs they form *)

LEMMA SortedRank ==
    ASSUME NEW S, IsVals(S)
    PROVE  /\ Cardinality(S) \in Nat /\ DOMAIN Sorted(S) = 1..Cardinality(S)
           /\ Sorted(S) = [i \in 1..Cardinality(S) |-> Sorted(S)[i]]
           /\ \A i \in 1..Cardinality(S) : /\ Sorted(S)[i] \in S /\ Sorted(S)[i] \in Int
                                           /\ Rank(S, Sorted(S)[i]) = i - 1
<1> DEFINE n == Cardinality(S)
<1>1. n \in Nat /\ DOMAIN Sorted(S) = 1..n /\ \A i \in 1..n : Sorted(S)[i] \in S
  BY SortedIs
<1>2. ASSUME NEW i \in 1..n PROVE Rank(S, Sorted(S)[i]) = i - 1
  <2>1. i - 1 \in 0..(n - 1)
    BY <1>1
  <2>2. \E v \in S : Rank(S, v) = i - 1
    BY <2>1, NthIs
  <2>3. Rank(S, CHOOSE v \in S : Rank(S, v) = i - 1) = i - 1
    BY <2>2
  <2>4. Sorted(S)[i] = CHOOSE v \in S : Rank(S, v) = i - 1
    BY DEF Sorted, Rank
  <2> QED
    BY <2>3, <2>4
<1>3. Sorted(S) = [i \in 1..n |-> Sorted(S)[i]]
  BY DEF Sorted
<1> QED
  BY <1>1, <1>2, <1>3 DEF IsVals

LEMMA SameRank ==
    ASSUME NEW S, IsVals(S), NEW v \in S, NEW w \in S, Rank(S, v) = Rank(S, w)
    PROVE  v = w
<1>1. v \in Int /\ w \in Int
  BY DEF IsVals
<1>3. Rank(S, v) \in Int
  <2>1. Rank(S, v) \in 0..(Cardinality(S) - 1) /\ Cardinality(S) \in Nat
    BY RankIs, ValsWithin
  <2> QED
    BY <2>1
<1>2. ~(v < w) /\ ~(w < v)
  BY <1>3, RankGrows
<1> QED
  BY <1>1, <1>2

LEMMA SortedGrows ==
    ASSUME NEW S, IsVals(S)
    PROVE  /\ \A i, j \in 1..Cardinality(S) : i < j => Sorted(S)[i] < Sorted(S)[j]
           /\ \A v \in S : \E i \in 1..Cardinality(S) : Sorted(S)[i] = v
<1> DEFINE n == Cardinality(S)
<1>1. /\ n \in Nat
      /\ \A i \in 1..n : /\ Sorted(S)[i] \in S /\ Sorted(S)[i] \in Int
                         /\ Rank(S, Sorted(S)[i]) = i - 1
  BY SortedRank
<1>2. ASSUME NEW i \in 1..n, NEW j \in 1..n, i < j PROVE Sorted(S)[i] < Sorted(S)[j]
  <2> DEFINE v == Sorted(S)[i]
             w == Sorted(S)[j]
  <2>1. v \in S /\ w \in S /\ v \in Int /\ w \in Int /\ Rank(S, v) = i - 1 /\ Rank(S, w) = j - 1
    BY <1>1
  <2> HIDE DEF v, w
  <2>2. v # w
    BY <1>1, <1>2, <2>1
  <2>3. ~(w < v)
    <3> SUFFICES ASSUME w < v PROVE FALSE
      OBVIOUS
    <3>1. Rank(S, w) < Rank(S, v)
      BY <2>1, RankGrows
    <3> QED
      BY <1>1, <1>2, <2>1, <3>1
  <2>4. v < w
    BY <2>1, <2>2, <2>3
  <2> QED
    BY <2>4 DEF v, w
<1>3. ASSUME NEW v \in S PROVE \E i \in 1..n : Sorted(S)[i] = v
  <2> DEFINE i == Rank(S, v) + 1
  <2>1. Rank(S, v) \in 0..(n - 1)
    BY RankIs
  <2>2. i \in 1..n /\ i - 1 = Rank(S, v)
    BY <1>1, <2>1
  <2>3. Sorted(S)[i] \in S /\ Rank(S, Sorted(S)[i]) = Rank(S, v)
    BY <1>1, <2>2
  <2>4. Sorted(S)[i] = v
    BY <2>3, SameRank
  <2> QED
    BY <2>2, <2>4
<1> QED
  BY <1>2, <1>3

\* A sequence of numbers that grows is that of the numbers it has in order.
Grows(n, g, A) ==
    /\ \A i \in 1..n : g[i] \in Int
    /\ \A i, j \in 1..n : i < j => g[i] < g[j]
    /\ A = {g[i] : i \in 1..n}

InOrderOf(n, g, A) == IsVals(A) /\ Cardinality(A) = n /\ \A i \in 1..n : Sorted(A)[i] = g[i]

LEMMA SortedOf ==
    ASSUME NEW n \in Nat, NEW g, NEW A, Grows(n, g, A)
    PROVE  InOrderOf(n, g, A)
<1>0. /\ \A i \in 1..n : g[i] \in Int
      /\ \A i, j \in 1..n : i < j => g[i] < g[j]
      /\ A = {g[i] : i \in 1..n}
  BY DEF Grows
<1> DEFINE Low(i) == {g[j] : j \in 1..i}
           Good(i) == IsFiniteSet(Low(i)) /\ Cardinality(Low(i)) = i
           Bad == {i \in 0..n : ~Good(i)}
<1>1. ASSUME Bad # {} PROVE FALSE
  <2>1. PICK i \in Bad : \A j \in Bad : i <= j
    <3>1. Bad \subseteq Nat
      OBVIOUS
    <3> HIDE DEF Bad
    <3> QED
      BY <1>1, <3>1, LeastOfNaturals
  <2>2. i \in 0..n /\ ~Good(i)
    BY <2>1
  <2>3. i # 0
    <3>1. Low(0) = {}
      OBVIOUS
    <3>2. Good(0)
      BY <3>1, FS_EmptySet
    <3> QED
      BY <2>2, <3>2
  <2>4. i - 1 \in 0..n /\ Good(i - 1)
    <3>1. i - 1 \in 0..n /\ i - 1 < i /\ i - 1 \in Int /\ i \in Int
      BY <2>2, <2>3
    <3>2. i - 1 \notin Bad
      BY <2>1, <3>1
    <3> QED
      BY <3>1, <3>2
  <2>5. Low(i) = Low(i - 1) \cup {g[i]}
    <3>1. 1..i = (1..(i - 1)) \cup {i}
      BY <2>2, <2>3
    <3> QED
      BY <3>1
  <2>6. g[i] \notin Low(i - 1)
    <3> SUFFICES ASSUME NEW j \in 1..(i - 1), g[j] = g[i] PROVE FALSE
      OBVIOUS
    <3>1. j \in 1..n /\ i \in 1..n /\ j < i
      BY <2>2
    <3>2. g[j] < g[i] /\ g[i] \in Int
      BY <1>0, <3>1
    <3> QED
      BY <3>2
  <2> HIDE DEF Low
  <2>7. IsFiniteSet(Low(i)) /\ Cardinality(Low(i)) = i - 1 + 1
    BY <2>4, <2>5, <2>6, FS_AddElement
  <2> QED
    BY <2>2, <2>7
<1>2. \A i \in 0..n : IsFiniteSet(Low(i)) /\ Cardinality(Low(i)) = i
  BY <1>1
<1>3. IsVals(A) /\ Cardinality(A) = n
  <2>1. A = Low(n) /\ n \in 0..n /\ A \in SUBSET Int
    BY <1>0
  <2> HIDE DEF Low
  <2> QED
    BY <1>2, <2>1 DEF IsVals
<1>4. ASSUME NEW i \in 1..n PROVE Sorted(A)[i] = g[i]
  <2>1. g[i] \in A
    BY <1>0
  <2>2. {u \in A : u < g[i]} = Low(i - 1)
    <3>1. ASSUME NEW j \in 1..n PROVE g[j] < g[i] <=> j \in 1..(i - 1)
      <4>1. g[i] \in Int /\ g[j] \in Int /\ (j < i => g[j] < g[i]) /\ (i < j => g[i] < g[j])
        BY <1>0
      <4>2. g[j] < g[i] <=> j < i
        BY <4>1
      <4> QED
        BY <4>2
    <3>2. \A j \in 1..(i - 1) : j \in 1..n
      OBVIOUS
    <3> QED
      BY <1>0, <3>1, <3>2
  <2>3. i - 1 \in 0..n
    OBVIOUS
  <2> HIDE DEF Low
  <2>4. Rank(A, g[i]) = i - 1
    BY <1>2, <2>2, <2>3 DEF Rank
  <2>5. Sorted(A)[i] \in A /\ Rank(A, Sorted(A)[i]) = i - 1
    BY <1>3, SortedRank
  <2> QED
    BY <1>3, <2>1, <2>4, <2>5, SameRank
<1> QED
  BY <1>3, <1>4 DEF InOrderOf

LEMMA SinglesExact ==
    ASSUME NEW S \in SUBSET Numbers
    PROVE  Spaced(Singles(S), 0) /\ RunValues(Singles(S)) = S
<1> DEFINE n == Cardinality(S)
           r == Singles(S)
<1>1. Numbers \subseteq Int /\ IsVals(Numbers) /\ \A v \in Numbers : v \in Nat /\ v < U
  BY NumbersAre, UAssumption DEF Numbers
<1>2. IsVals(S)
  BY <1>1, ValsWithin
<1>3. /\ n \in Nat /\ DOMAIN Sorted(S) = 1..n
      /\ \A i \in 1..n : Sorted(S)[i] \in S
      /\ \A i, j \in 1..n : i < j => Sorted(S)[i] < Sorted(S)[j]
      /\ \A v \in S : \E i \in 1..n : Sorted(S)[i] = v
  BY <1>2, SortedRank, SortedGrows
<1>4. r \in Seq(Run16)
  BY <1>2, SinglesAre
<1>5. r = [i \in 1..n |-> Run(Sorted(S)[i], 0)]
  BY <1>3 DEF Singles
<1> HIDE DEF r, n
<1>6. Len(r) = n
  BY <1>3, <1>4, <1>5
<1>7. ASSUME NEW i \in 1..n
      PROVE  /\ Legal(r[i]) /\ r[i].value = Sorted(S)[i] /\ End(r[i]) = Sorted(S)[i]
             /\ Sorted(S)[i] \in Nat
  <2> DEFINE v == Sorted(S)[i]
  <2>1. v \in Nat /\ v < U /\ r[i] = Run(v, 0)
    BY <1>1, <1>3, <1>5
  <2> HIDE DEF v
  <2>2. 0 \in Nat /\ v + 0 < U /\ v + 0 = v
    BY <2>1
  <2>3. Legal(r[i]) /\ r[i].value = v /\ End(r[i]) = v + 0
    BY <2>1, <2>2, RunFits
  <2> QED
    BY <2>1, <2>2, <2>3 DEF v
<1>8. Spaced(r, 0)
  <2>1. ASSUME NEW i \in 1..n, NEW j \in 1..n, i < j PROVE End(r[i]) + 0 < r[j].value
    <3>1. Sorted(S)[i] < Sorted(S)[j] /\ Sorted(S)[i] \in Nat
      BY <1>3, <1>7, <2>1
    <3> QED
      BY <1>7, <3>1
  <2> QED
    BY <1>3, <1>4, <1>6, <1>7, <2>1 DEF Spaced
<1>9. ASSUME NEW v PROVE v \in RunValues(r) <=> v \in S
  <2>1. v \in RunValues(r) <=> v \in Int /\ \E i \in 1..n : Holds(r[i], v)
    BY <1>4, <1>6, InRuns
  <2>2. \A i \in 1..n : v \in Int => (Holds(r[i], v) <=> v = Sorted(S)[i])
    BY <1>7 DEF Holds
  <2>3. v \in S => v \in Int
    BY <1>1
  <2> QED
    BY <1>3, <2>1, <2>2, <2>3
<1> QED
  BY <1>8, <1>9 DEF r

\* A run begins where a number does not follow another one, and ends likewise.
LEMMA EndsOfRuns ==
    ASSUME NEW r, Tidy(r)
    PROVE  /\ {v \in RunValues(r) : v - 1 \notin RunValues(r)} = {r[i].value : i \in 1..Len(r)}
           /\ {v \in RunValues(r) : v + 1 \notin RunValues(r)} = {End(r[i]) : i \in 1..Len(r)}
<1> DEFINE n == Len(r)
           S == RunValues(r)
<1>1. /\ n \in Nat /\ r \in Seq(Run16)
      /\ \A i \in 1..n : r[i].value \in Nat /\ End(r[i]) \in Nat /\ r[i].value <= End(r[i])
      /\ \A i, j \in 1..n : i < j => End(r[i]) + 1 < r[j].value
  BY RunsLegal
<1>2. ASSUME NEW v PROVE v \in S <=> v \in Int /\ \E i \in 1..n : r[i].value <= v /\ v <= End(r[i])
  BY <1>1, InRuns DEF Holds
<1> HIDE DEF S, n
<1>3. ASSUME NEW i \in 1..n, NEW j \in 1..n PROVE i = j \/ i < j \/ j < i
  BY <1>1
<1>4. ASSUME NEW i \in 1..n PROVE r[i].value \in S /\ r[i].value - 1 \notin S
  <2> DEFINE v == r[i].value
  <2>1. v \in S
    BY <1>1, <1>2
  <2>2. ASSUME v - 1 \in S PROVE FALSE
    <3>1. PICK j \in 1..n : r[j].value <= v - 1 /\ v - 1 <= End(r[j])
      BY <1>2, <2>2
    <3>2. v \in Nat /\ r[j].value \in Nat /\ End(r[j]) \in Nat /\ v <= End(r[i]) /\ End(r[i]) \in Nat
      BY <1>1
    <3>3. i # j
      BY <3>1, <3>2
    <3>4. i < j => End(r[i]) + 1 < r[j].value
      BY <1>1
    <3>5. j < i => End(r[j]) + 1 < v
      BY <1>1
    <3> HIDE DEF v
    <3> QED
      BY <1>3, <3>1, <3>2, <3>3, <3>4, <3>5
  <2> QED
    BY <2>1, <2>2
<1>5. ASSUME NEW i \in 1..n PROVE End(r[i]) \in S /\ End(r[i]) + 1 \notin S
  <2> DEFINE v == End(r[i])
  <2>1. v \in S
    BY <1>1, <1>2
  <2>2. ASSUME v + 1 \in S PROVE FALSE
    <3>1. PICK j \in 1..n : r[j].value <= v + 1 /\ v + 1 <= End(r[j])
      BY <1>2, <2>2
    <3>2. v \in Nat /\ r[j].value \in Nat /\ End(r[j]) \in Nat /\ r[i].value <= v /\ r[i].value \in Nat
      BY <1>1
    <3>3. i # j
      BY <3>1, <3>2
    <3>4. i < j => v + 1 < r[j].value
      BY <1>1
    <3>5. j < i => End(r[j]) + 1 < r[i].value
      BY <1>1
    <3> HIDE DEF v
    <3> QED
      BY <1>3, <3>1, <3>2, <3>3, <3>4, <3>5
  <2> QED
    BY <2>1, <2>2
<1>6. ASSUME NEW v \in S, v - 1 \notin S PROVE \E i \in 1..n : v = r[i].value
  <2>1. PICK i \in 1..n : r[i].value <= v /\ v <= End(r[i])
    BY <1>2
  <2>2. v \in Int /\ r[i].value \in Nat /\ End(r[i]) \in Nat
    BY <1>1, <1>2
  <2>3. r[i].value < v => r[i].value <= v - 1 /\ v - 1 <= End(r[i]) /\ v - 1 \in Int
    BY <2>1, <2>2
  <2>4. ~(r[i].value < v)
    BY <1>2, <1>6, <2>3
  <2> QED
    BY <2>1, <2>2, <2>4
<1>7. ASSUME NEW v \in S, v + 1 \notin S PROVE \E i \in 1..n : v = End(r[i])
  <2>1. PICK i \in 1..n : r[i].value <= v /\ v <= End(r[i])
    BY <1>2
  <2>2. v \in Int /\ r[i].value \in Nat /\ End(r[i]) \in Nat
    BY <1>1, <1>2
  <2>3. v < End(r[i]) => r[i].value <= v + 1 /\ v + 1 <= End(r[i]) /\ v + 1 \in Int
    BY <2>1, <2>2
  <2>4. ~(v < End(r[i]))
    BY <1>2, <1>7, <2>3
  <2> QED
    BY <2>1, <2>2, <2>4
<1>8. {v \in S : v - 1 \notin S} = {r[i].value : i \in 1..n}
  BY <1>4, <1>6
<1>9. {v \in S : v + 1 \notin S} = {End(r[i]) : i \in 1..n}
  BY <1>5, <1>7
<1> QED
  BY <1>8, <1>9 DEF S, n

\* A run container is made of the runs that its numbers form.
LEMMA RunsOfValues ==
    ASSUME NEW r, Tidy(r)
    PROVE  RunsOf(RunValues(r)) = r
<1> DEFINE n == Len(r)
           S == RunValues(r)
           A == {v \in S : v - 1 \notin S}
           B == {v \in S : v + 1 \notin S}
           g == [i \in 1..n |-> r[i].value]
           h == [i \in 1..n |-> End(r[i])]
<1>1. /\ n \in Nat /\ r \in Seq(Run16)
      /\ \A i \in 1..n : /\ r[i].value \in Nat /\ End(r[i]) \in Nat /\ r[i].length \in Nat
                         /\ End(r[i]) < U /\ End(r[i]) = r[i].value + r[i].length
                         /\ r[i].value <= End(r[i]) /\ r[i] \in Run16
      /\ \A i, j \in 1..n : i < j => End(r[i]) + 1 < r[j].value /\ End(r[i]) < End(r[j])
  BY RunsLegal
<1>4. \A i \in 1..n : g[i] = r[i].value /\ h[i] = End(r[i])
  OBVIOUS
<1>2. Grows(n, g, A)
  <2>1. A = {r[i].value : i \in 1..n}
    BY EndsOfRuns
  <2>2. ASSUME NEW i \in 1..n, NEW j \in 1..n, i < j PROVE r[i].value < r[j].value
    <3>1. r[i].value <= End(r[i]) /\ r[i].value \in Nat /\ End(r[i]) \in Nat /\ r[j].value \in Nat
          /\ End(r[i]) + 1 < r[j].value
      BY <1>1, <2>2
    <3> QED
      BY <3>1
  <2> HIDE DEF A, n, g
  <2>3. ASSUME NEW i \in 1..n PROVE g[i] \in Int
    <3>1. g[i] = r[i].value /\ r[i].value \in Nat
      BY <1>1, <1>4
    <3> QED
      BY <3>1
  <2>4. ASSUME NEW i \in 1..n, NEW j \in 1..n, i < j PROVE g[i] < g[j]
    <3>1. g[i] = r[i].value /\ g[j] = r[j].value
      BY <1>4
    <3>2. r[i].value < r[j].value
      BY <2>2, <2>4
    <3> QED
      BY <3>1, <3>2
  <2>5. A = {g[i] : i \in 1..n}
    BY <1>4, <2>1
  <2> QED
    BY <2>3, <2>4, <2>5 DEF Grows
<1>3. Grows(n, h, B)
  <2>1. B = {End(r[i]) : i \in 1..n}
    BY EndsOfRuns
  <2> HIDE DEF B, n, h
  <2>3. \A i \in 1..n : h[i] \in Int
    BY <1>1, <1>4
  <2>4. ASSUME NEW i \in 1..n, NEW j \in 1..n, i < j PROVE h[i] < h[j]
    <3>1. h[i] = End(r[i]) /\ h[j] = End(r[j])
      BY <1>4
    <3>2. End(r[i]) < End(r[j])
      BY <1>1, <2>4
    <3> QED
      BY <3>1, <3>2
  <2>5. B = {h[i] : i \in 1..n}
    BY <1>4, <2>1
  <2> QED
    BY <2>3, <2>4, <2>5 DEF Grows
<1>5. RunsOf(S) = [i \in DOMAIN Sorted(A) |-> Run(Sorted(A)[i], Sorted(B)[i] - Sorted(A)[i])]
  BY Zenon DEF RunsOf
<1> HIDE DEF A, B, g, h, S, n
<1>6. IsVals(A) /\ Cardinality(A) = n /\ \A i \in 1..n : Sorted(A)[i] = g[i]
  BY <1>1, <1>2, SortedOf DEF InOrderOf
<1>7. \A i \in 1..n : Sorted(B)[i] = h[i]
  BY <1>1, <1>3, SortedOf DEF InOrderOf
<1>8. DOMAIN Sorted(A) = 1..n
  BY <1>6, SortedRank
<1>9. ASSUME NEW i \in 1..n PROVE Run(Sorted(A)[i], Sorted(B)[i] - Sorted(A)[i]) = r[i]
  <2>1. Sorted(A)[i] = r[i].value /\ Sorted(B)[i] - Sorted(A)[i] = r[i].length
    <3>1. Sorted(A)[i] = r[i].value /\ Sorted(B)[i] = End(r[i])
      BY <1>4, <1>6, <1>7
    <3>2. r[i].value \in Nat /\ r[i].length \in Nat /\ End(r[i]) = r[i].value + r[i].length
      BY <1>1
    <3> QED
      BY <3>1, <3>2
  <2>2. Run(r[i].value, r[i].length) = [value |-> r[i].value, length |-> r[i].length]
    BY <1>1, RunFits
  <2>3. [value |-> r[i].value, length |-> r[i].length] = r[i]
    BY <1>1 DEF Run16
  <2> QED
    BY <2>1, <2>2, <2>3, Zenon
<1>10. RunsOf(S) = [i \in 1..n |-> r[i]]
  BY <1>5, <1>8, <1>9
<1>11. r = [i \in 1..n |-> r[i]]
  BY <1>1 DEF n
<1> QED
  BY <1>10, <1>11 DEF S

LEMMA SetHasRuns ==
    ASSUME NEW S \in SUBSET Numbers
    PROVE  \E r : Tidy(r) /\ RunValues(r) = S
<1> DEFINE Good(T) == \E r : Tidy(r) /\ RunValues(r) = T
           Bad == {n \in Nat : \E T \in SUBSET Numbers : Cardinality(T) = n /\ ~Good(T)}
<1>1. IsFiniteSet(Numbers) /\ \A T \in SUBSET Numbers : IsFiniteSet(T) /\ Cardinality(T) \in Nat
  <2>1. IsVals(Numbers)
    BY NumbersAre, UAssumption DEF Numbers
  <2> QED
    BY <2>1, ValsWithin DEF IsVals
<1>2. ASSUME Bad # {} PROVE FALSE
  <2>1. PICK n \in Bad : \A j \in Bad : n <= j
    <3>1. Bad \subseteq Nat
      OBVIOUS
    <3> HIDE DEF Bad
    <3> QED
      BY <1>2, <3>1, LeastOfNaturals
  <2>2. PICK T \in SUBSET Numbers : Cardinality(T) = n /\ ~Good(T)
    BY <2>1
  <2>3. T # {}
    BY <2>2, NoRunIsTidy
  <2>4. PICK x : x \in T
    BY <2>3
  <2>5. /\ T \ {x} \in SUBSET Numbers /\ Cardinality(T \ {x}) = n - 1 /\ n \in Nat
        /\ Cardinality(T \ {x}) \in Nat /\ x \in Numbers
    BY <1>1, <2>1, <2>2, <2>4, FS_RemoveElement
  <2>6. Good(T \ {x})
    <3>1. n - 1 \notin Bad
      BY <2>1, <2>5
    <3> QED
      BY <2>5, <3>1
  <2>7. PICK r : Tidy(r) /\ RunValues(r) = T \ {x}
    BY <2>6
  <2>8. Tidy(AddValue(r, x)) /\ RunValues(AddValue(r, x)) = (T \ {x}) \cup {x}
    BY <2>5, <2>7, AddValueExact
  <2>9. (T \ {x}) \cup {x} = T
    BY <2>4
  <2> QED
    BY <2>2, <2>8, <2>9
<1> QED
  BY <1>1, <1>2

\* The runs of a set of numbers are in order, do not touch and have its numbers.
LEMMA RunsOfExact ==
    ASSUME NEW S \in SUBSET Numbers
    PROVE  Tidy(RunsOf(S)) /\ RunValues(RunsOf(S)) = S
  BY SetHasRuns, RunsOfValues

-------------------------------------------------------------------------------
(* How many numbers sets have *)

LEMMA SizeIs ==
    ASSUME NEW S \in SUBSET Numbers
    PROVE  IsFiniteSet(S) /\ Cardinality(S) \in Nat /\ Cardinality(S) <= U
<1>1. IsFiniteSet(Numbers) /\ Cardinality(Numbers) = U
  BY UAssumption, FS_Interval DEF Numbers
<1> QED
  BY <1>1, FS_Subset, FS_CardinalityType

LEMMA AllNumbers ==
    /\ IsFiniteSet(Numbers) /\ Cardinality(Numbers) = U
    /\ \A S \in SUBSET Numbers : Cardinality(S) = U => S = Numbers
<1>1. IsFiniteSet(Numbers) /\ Cardinality(Numbers) = U
  BY UAssumption, FS_Interval DEF Numbers
<1> QED
  BY <1>1, FS_Subset

LEMMA SizeOfUnion ==
    ASSUME NEW S \in SUBSET Numbers, NEW T \in SUBSET Numbers
    PROVE  /\ Cardinality(S \cup T) = Cardinality(S) + Cardinality(T) - Cardinality(S \cap T)
           /\ Cardinality(S \cup T) = SetListCard(Cardinality(S), S, T)
           /\ Cardinality(S) <= Cardinality(S \cup T)
           /\ Cardinality(S \cup T) <= Cardinality(S) + Cardinality(T)
<1>1. /\ IsFiniteSet(S) /\ IsFiniteSet(T) /\ IsFiniteSet(T \ S) /\ IsFiniteSet(S \cap T)
      /\ Cardinality(S) \in Nat /\ Cardinality(T) \in Nat /\ Cardinality(T \ S) \in Nat
      /\ Cardinality(S \cap T) \in Nat
  <2>1. T \ S \in SUBSET Numbers /\ S \cap T \in SUBSET Numbers
    OBVIOUS
  <2> QED
    BY <2>1, SizeIs
<1>2. Cardinality(S \cup T) = Cardinality(S) + Cardinality(T) - Cardinality(S \cap T)
  BY <1>1, FS_Union
<1>3. S \cup T = S \cup (T \ S) /\ S \cap (T \ S) = {}
  OBVIOUS
<1>4. Cardinality(S \cup T) = Cardinality(S) + Cardinality(T \ S) - Cardinality({})
  BY <1>1, <1>3, FS_Union
<1>5. Cardinality({}) = 0
  BY FS_EmptySet
<1> QED
  BY <1>1, <1>2, <1>4, <1>5 DEF SetListCard

LEMMA SizeOfRest ==
    ASSUME NEW S \in SUBSET Numbers, NEW T \in SUBSET Numbers
    PROVE  /\ Cardinality(S \ T) = Cardinality(S) - Cardinality(S \cap T)
           /\ Cardinality(S \ T) = ClearListCard(Cardinality(S), S, T)
           /\ Cardinality(S \ T) <= Cardinality(S)
<1>1. /\ Cardinality(S) \in Nat /\ Cardinality(S \ T) \in Nat /\ Cardinality(S \cap T) \in Nat
      /\ S \ T \in SUBSET Numbers /\ S \cap T \in SUBSET Numbers
  <2>1. S \ T \in SUBSET Numbers /\ S \cap T \in SUBSET Numbers
    OBVIOUS
  <2> QED
    BY <2>1, SizeIs
<1>2. Cardinality((S \ T) \cup (S \cap T))
        = Cardinality(S \ T) + Cardinality(S \cap T) - Cardinality((S \ T) \cap (S \cap T))
  BY <1>1, SizeOfUnion
<1>3. (S \ T) \cup (S \cap T) = S /\ (S \ T) \cap (S \cap T) = {} /\ T \cap S = S \cap T
  OBVIOUS
<1>4. Cardinality({}) = 0
  BY FS_EmptySet
<1>5. Cardinality(S) = Cardinality(S \ T) + Cardinality(S \cap T)
  BY <1>1, <1>2, <1>3, <1>4
<1>6. ClearListCard(Cardinality(S), S, T) = Cardinality(S) - Cardinality(S \cap T)
  BY <1>3, Zenon DEF ClearListCard
<1> QED
  BY <1>1, <1>5, <1>6

LEMMA SizeOfDifference ==
    ASSUME NEW S \in SUBSET Numbers, NEW T \in SUBSET Numbers
    PROVE  /\ SymDiff(S, T) \in SUBSET Numbers
           /\ Cardinality(SymDiff(S, T)) = FlipListCard(Cardinality(S), S, T)
           /\ Cardinality(SymDiff(S, T)) = Cardinality(S) + Cardinality(T) - 2 * Cardinality(S \cap T)
           /\ Cardinality(SymDiff(S, T)) <= Cardinality(S) + Cardinality(T)
<1>1. /\ S \ T \in SUBSET Numbers /\ T \ S \in SUBSET Numbers /\ S \cap T \in SUBSET Numbers
      /\ SymDiff(S, T) = (S \ T) \cup (T \ S) /\ (S \ T) \cap (T \ S) = {}
      /\ SymDiff(S, T) \in SUBSET Numbers /\ S \cap T = T \cap S
  BY DEF SymDiff
<1>2. /\ Cardinality(S) \in Nat /\ Cardinality(T) \in Nat /\ Cardinality(S \ T) \in Nat
      /\ Cardinality(T \ S) \in Nat /\ Cardinality(S \cap T) \in Nat
  BY <1>1, SizeIs
<1>3. Cardinality(SymDiff(S, T)) = Cardinality(S \ T) + Cardinality(T \ S)
  <2>1. Cardinality((S \ T) \cup (T \ S))
          = Cardinality(S \ T) + Cardinality(T \ S) - Cardinality((S \ T) \cap (T \ S))
    BY <1>1, SizeOfUnion
  <2>2. Cardinality({}) = 0
    BY FS_EmptySet
  <2> QED
    BY <1>1, <1>2, <2>1, <2>2
<1>4. Cardinality(S \ T) = Cardinality(S) - Cardinality(S \cap T)
  BY SizeOfRest
<1>5. Cardinality(T \ S) = Cardinality(T) - Cardinality(S \cap T)
  BY <1>1, SizeOfRest
<1>6. FlipListCard(Cardinality(S), S, T) = Cardinality(S) + Cardinality(T \ S) - Cardinality(S \cap T)
  BY <1>1, Zenon DEF FlipListCard
<1> QED
  BY <1>1, <1>2, <1>3, <1>4, <1>5, <1>6

-------------------------------------------------------------------------------
(* Containers that are as the library makes them *)

\* The container d has the numbers S, says how many they are and is, unless there are
\* none, of a kind and of a size the library makes.
Makes(d, S) ==
    /\ S \in SUBSET Numbers
    /\ d # Null
    /\ ValuesOf(d) = S
    /\ CardOf(d) = Cardinality(S)
    /\ S # {} => d \in Operands

LEMMA MakesArray ==
    ASSUME NEW S \in SUBSET Numbers, Cardinality(S) <= MaxArray
    PROVE  Makes(ArrayOf(S), S)
<1>1. IsFiniteSet(S) /\ Cardinality(S) \in Nat
  BY SizeIs
<1>2. ArrayOf(S).kind = "array" /\ ArrayOf(S).vals = S /\ ArrayOf(S) # Null
  BY DEF ArrayOf, Null
<1>3. ValuesOf(ArrayOf(S)) = S /\ CardOf(ArrayOf(S)) = Cardinality(S)
  BY <1>2 DEF ValuesOf, CardOf
<1>4. ASSUME S # {} PROVE ArrayOf(S) \in Operands
  <2>1. Cardinality(S) # 0
    BY <1>1, <1>4, FS_EmptySet
  <2>2. Cardinality(S) \in 1..MaxArray
    BY <1>1, <2>1, SizesAssumption
  <2> QED
    BY <2>2 DEF Operands
<1> QED
  BY <1>2, <1>3, <1>4 DEF Makes

LEMMA MakesBitset ==
    ASSUME NEW S \in SUBSET Numbers, Cardinality(S) > MaxArray
    PROVE  Makes(BitsetOf(S, Cardinality(S)), S)
<1> DEFINE d == BitsetOf(S, Cardinality(S))
<1>2. d.kind = "bitset" /\ d.vals = S /\ d.card = Cardinality(S) /\ d # Null
  BY DEF BitsetOf, Null
<1>3. ValuesOf(d) = S /\ CardOf(d) = Cardinality(S)
  <2> HIDE DEF d
  <2> QED
    BY <1>2 DEF ValuesOf, CardOf
<1>4. d \in Operands
  BY DEF Operands
<1> QED
  BY <1>2, <1>3, <1>4 DEF Makes

LEMMA MakesByCard ==
    ASSUME NEW S \in SUBSET Numbers
    PROVE  Makes(ByCard(S, Cardinality(S)), S)
<1>1. Cardinality(S) \in Nat /\ MaxArray \in Nat
  BY SizeIs, SizesAssumption
<1>2. CASE Cardinality(S) <= MaxArray
  BY <1>2, MakesArray DEF ByCard
<1>3. CASE Cardinality(S) > MaxArray
  <2>1. ~(Cardinality(S) <= MaxArray)
    BY <1>1, <1>3
  <2> QED
    BY <1>3, <2>1, MakesBitset DEF ByCard
<1> QED
  BY <1>1, <1>2, <1>3

LEMMA MakesRuns ==
    ASSUME NEW r, Tidy(r)
    PROVE  Makes(RunsAs(r), RunValues(r))
<1> DEFINE d == RunsAs(r)
<1>1. RunValues(r) \in SUBSET Numbers
  BY SpacedValues DEF Tidy
<1>2. d.kind = "run" /\ d.runs = r /\ d # Null
  BY DEF RunsAs, Null
<1>3. ValuesOf(d) = RunValues(r)
  <2> HIDE DEF d
  <2> QED
    BY <1>2 DEF ValuesOf
<1>4. CardOf(d) = Cardinality(RunValues(r))
  <2>1. CardOf(d) = Card(r)
    <3> HIDE DEF d
    <3> QED
      BY <1>2 DEF CardOf
  <2> QED
    BY <2>1, Looser, CardIs
<1>5. ASSUME RunValues(r) # {} PROVE d \in Operands
  <2>1. RunsOf(RunValues(r)) = r
    BY RunsOfValues
  <2>2. \E S \in (SUBSET Numbers) \ {{}} : RunsAs(RunsOf(S)) = d
    <3>1. RunValues(r) \in SUBSET Numbers
      BY <1>1
    <3>2. RunValues(r) \notin {{}}
      BY <1>5
    <3> QED
      BY <2>1, <3>1, <3>2, Zenon
  <2>3. d \in {RunsAs(RunsOf(S)) : S \in (SUBSET Numbers) \ {{}}}
    <3> HIDE DEF d
    <3> QED
      BY <2>2
  <2> QED
    BY <2>3, Zenon DEF Operands
<1> QED
  BY <1>1, <1>2, <1>3, <1>4, <1>5 DEF Makes

LEMMA MakesEfficient ==
    ASSUME NEW r, Tidy(r)
    PROVE  Makes(Efficient(r), RunValues(r))
<1>1. RunValues(r) \in SUBSET Numbers
  BY SpacedValues DEF Tidy
<1>2. Card(r) = Cardinality(RunValues(r))
  BY Looser, CardIs
<1>3. Makes(RunsAs(r), RunValues(r))
  BY MakesRuns
<1>4. Makes(ByCard(RunValues(r), Card(r)), RunValues(r))
  BY <1>1, <1>2, MakesByCard, Zenon
<1> QED
  BY <1>3, <1>4, Zenon DEF Efficient

\* What a container that the library makes is.
AnArray(d) == /\ d.kind = "array" /\ d.vals \in SUBSET Numbers /\ Cardinality(d.vals) \in 1..MaxArray
              /\ ValuesOf(d) = d.vals /\ CardOf(d) = Cardinality(d.vals)

ABitset(d) == /\ d.kind = "bitset" /\ d.vals \in SUBSET Numbers /\ Cardinality(d.vals) > MaxArray
              /\ d.card = Cardinality(d.vals) /\ ValuesOf(d) = d.vals /\ CardOf(d) = d.card

SomeRuns(d) == /\ d.kind = "run" /\ Tidy(d.runs) /\ d.runs # <<>>
               /\ ValuesOf(d) = RunValues(d.runs) /\ CardOf(d) = Card(d.runs)
               /\ RunValues(d.runs) \in SUBSET Numbers /\ Card(d.runs) = Cardinality(RunValues(d.runs))

LEMMA KindsAre ==
    ASSUME NEW d \in Operands
    PROVE  d # Null /\ (AnArray(d) \/ ABitset(d) \/ SomeRuns(d))
<1>1. CASE \E S \in SUBSET Numbers : Cardinality(S) \in 1..MaxArray /\ d = ArrayOf(S)
  <2>1. PICK S \in SUBSET Numbers : Cardinality(S) \in 1..MaxArray /\ d = ArrayOf(S)
    BY <1>1
  <2>2. d.kind = "array" /\ d.vals = S /\ d # Null
    BY <2>1 DEF ArrayOf, Null
  <2> QED
    BY <2>1, <2>2 DEF AnArray, ValuesOf, CardOf
<1>2. CASE \E S \in SUBSET Numbers : Cardinality(S) > MaxArray /\ d = BitsetOf(S, Cardinality(S))
  <2>1. PICK S \in SUBSET Numbers : Cardinality(S) > MaxArray /\ d = BitsetOf(S, Cardinality(S))
    BY <1>2
  <2>2. d.kind = "bitset" /\ d.vals = S /\ d.card = Cardinality(S) /\ d # Null
    BY <2>1 DEF BitsetOf, Null
  <2> QED
    BY <2>1, <2>2 DEF ABitset, ValuesOf, CardOf
<1>3. CASE \E S \in SUBSET Numbers : S # {} /\ d = RunsAs(RunsOf(S))
  <2>1. PICK S \in SUBSET Numbers : S # {} /\ d = RunsAs(RunsOf(S))
    BY <1>3
  <2>2. d.kind = "run" /\ d.runs = RunsOf(S) /\ d # Null
    BY <2>1 DEF RunsAs, Null
  <2>3. Tidy(d.runs) /\ RunValues(d.runs) = S
    BY <2>2, RunsOfExact
  <2>4. d.runs # <<>>
    BY <2>1, <2>3, NoRunIsTidy
  <2>5. Card(d.runs) = Cardinality(RunValues(d.runs))
    BY <2>3, Looser, CardIs
  <2>6. ValuesOf(d) = RunValues(d.runs) /\ CardOf(d) = Card(d.runs)
    BY <2>2 DEF ValuesOf, CardOf
  <2> QED
    BY <2>2, <2>3, <2>4, <2>5, <2>6 DEF SomeRuns
<1>4. \/ \E S \in SUBSET Numbers : Cardinality(S) \in 1..MaxArray /\ d = ArrayOf(S)
      \/ \E S \in SUBSET Numbers : Cardinality(S) > MaxArray /\ d = BitsetOf(S, Cardinality(S))
      \/ \E S \in SUBSET Numbers : S # {} /\ d = RunsAs(RunsOf(S))
  <2> DEFINE A == {ArrayOf(S) : S \in {S \in SUBSET Numbers : Cardinality(S) \in 1..MaxArray}}
             B == {BitsetOf(S, Cardinality(S)) :
                     S \in {S \in SUBSET Numbers : Cardinality(S) > MaxArray}}
             R == {RunsAs(RunsOf(S)) : S \in (SUBSET Numbers) \ {{}}}
  <2>1. d \in A \/ d \in B \/ d \in R
    BY Zenon DEF Operands
  <2>2. CASE d \in A
    <3>1. PICK S \in {S \in SUBSET Numbers : Cardinality(S) \in 1..MaxArray} : d = ArrayOf(S)
      BY <2>2
    <3> QED
      BY <3>1
  <2>3. CASE d \in B
    <3>1. PICK S \in {S \in SUBSET Numbers : Cardinality(S) > MaxArray} :
              d = BitsetOf(S, Cardinality(S))
      BY <2>3
    <3> QED
      BY <3>1
  <2>4. CASE d \in R
    <3>1. PICK S \in (SUBSET Numbers) \ {{}} : d = RunsAs(RunsOf(S))
      BY <2>4
    <3> QED
      BY <3>1
  <2> QED
    BY <2>1, <2>2, <2>3, <2>4
<1> QED
  BY <1>1, <1>2, <1>3, <1>4

LEMMA OperandMakes ==
    ASSUME NEW d \in Operands
    PROVE  Makes(d, ValuesOf(d)) /\ ValuesOf(d) # {}
<1>0. d # Null /\ (AnArray(d) \/ ABitset(d) \/ SomeRuns(d))
  BY KindsAre
<1>1. ValuesOf(d) \in SUBSET Numbers /\ CardOf(d) = Cardinality(ValuesOf(d))
  BY <1>0 DEF AnArray, ABitset, SomeRuns
<1>2. ValuesOf(d) # {}
  <2>1. CASE AnArray(d) \/ ABitset(d)
    <3>1. Cardinality(ValuesOf(d)) # 0
      BY <2>1, <1>1, SizeIs, SizesAssumption DEF AnArray, ABitset
    <3> QED
      BY <3>1, FS_EmptySet
  <2>2. CASE SomeRuns(d)
    <3>1. d.runs # <<>> /\ Tidy(d.runs) /\ ValuesOf(d) = RunValues(d.runs)
      BY <2>2 DEF SomeRuns
    <3>2. RunsOf(RunValues(d.runs)) = d.runs /\ RunsOf(RunValues(<<>>)) = <<>>
      BY <3>1, RunsOfValues, NoRunIsTidy
    <3> QED
      BY <3>1, <3>2, NoRunIsTidy
  <2> QED
    BY <1>0, <2>1, <2>2
<1> QED
  BY <1>0, <1>1, <1>2 DEF Makes

-------------------------------------------------------------------------------
(* What each operation makes of containers that the library makes *)

LEMMA OperandFits ==
    ASSUME NEW d \in Operands
    PROVE  /\ d # Null /\ ValuesOf(d) \in SUBSET Numbers /\ ValuesOf(d) # {}
           /\ CardOf(d) = Cardinality(ValuesOf(d)) /\ CardOf(d) \in Nat
<1>1. Makes(d, ValuesOf(d)) /\ ValuesOf(d) # {}
  BY OperandMakes
<1>2. Cardinality(ValuesOf(d)) \in Nat
  BY <1>1, SizeIs DEF Makes
<1> QED
  BY <1>1, <1>2 DEF Makes

LEMMA HasIs ==
    ASSUME NEW d \in Operands, NEW v \in Numbers
    PROVE  Has(d, v) <=> v \in ValuesOf(d)
<1>0. AnArray(d) \/ ABitset(d) \/ SomeRuns(d)
  BY KindsAre
<1>1. CASE AnArray(d) \/ ABitset(d)
  BY <1>1 DEF AnArray, ABitset, Has
<1>2. CASE SomeRuns(d)
  <2>1. d.kind = "run" /\ Tidy(d.runs) /\ ValuesOf(d) = RunValues(d.runs)
    BY <1>2 DEF SomeRuns
  <2>2. d.runs \in Seq(Run16) /\ DOMAIN d.runs = 1..Len(d.runs)
    BY <2>1, RunsLegal
  <2>3. Has(d, v) <=> \E i \in 1..Len(d.runs) : Holds(d.runs[i], v)
    BY <2>1, <2>2, Zenon DEF Has, HasValue
  <2>4. v \in Int
    BY UAssumption DEF Numbers
  <2> QED
    BY <2>1, <2>2, <2>3, <2>4, InRuns
<1> QED
  BY <1>0, <1>1, <1>2

LEMMA OfEfficient ==
    ASSUME NEW r, Tidy(r), NEW S, RunValues(r) = S
    PROVE  Makes(Efficient(r), S)
  BY MakesEfficient

LEMMA OfCard ==
    ASSUME NEW S \in SUBSET Numbers, NEW card, card = Cardinality(S)
    PROVE  Makes(ByCard(S, card), S)
  BY MakesByCard

LEMMA OfBitset ==
    ASSUME NEW S \in SUBSET Numbers, NEW card, card = Cardinality(S), Cardinality(S) > MaxArray
    PROVE  Makes(BitsetOf(S, card), S)
  BY MakesBitset

LEMMA PairOfKinds ==
    ASSUME NEW d, NEW e
    PROVE  /\ Kinds(d, e) = {"run"} <=> d.kind = "run" /\ e.kind = "run"
           /\ Kinds(d, e) = {"array"} <=> d.kind = "array" /\ e.kind = "array"
           /\ Kinds(d, e) = {"bitset"} <=> d.kind = "bitset" /\ e.kind = "bitset"
           /\ Kinds(d, e) = {"run", "array"}
                <=> (d.kind = "run" /\ e.kind = "array") \/ (d.kind = "array" /\ e.kind = "run")
           /\ Kinds(d, e) = {"run", "bitset"}
                <=> (d.kind = "run" /\ e.kind = "bitset") \/ (d.kind = "bitset" /\ e.kind = "run")
           /\ Kinds(d, e) = {"bitset", "array"}
                <=> (d.kind = "bitset" /\ e.kind = "array") \/ (d.kind = "array" /\ e.kind = "bitset")
           /\ "array" \in Kinds(d, e) <=> d.kind = "array" \/ e.kind = "array"
<1>1. Kinds(d, e) = {d.kind, e.kind}
  BY DEF Kinds
<1>2. /\ "run" # "array" /\ "run" # "bitset" /\ "array" # "bitset"
  OBVIOUS
<1> DEFINE x == d.kind
           y == e.kind
<1> HIDE DEF x, y
<1>3. Kinds(d, e) = {x, y}
  BY <1>1 DEF x, y
<1>4. {x, y} = {"run"} <=> x = "run" /\ y = "run"
  OBVIOUS
<1>5. {x, y} = {"array"} <=> x = "array" /\ y = "array"
  OBVIOUS
<1>6. {x, y} = {"bitset"} <=> x = "bitset" /\ y = "bitset"
  OBVIOUS
<1>7. {x, y} = {"run", "array"} <=> (x = "run" /\ y = "array") \/ (x = "array" /\ y = "run")
  BY <1>2
<1>8. {x, y} = {"run", "bitset"} <=> (x = "run" /\ y = "bitset") \/ (x = "bitset" /\ y = "run")
  BY <1>2
<1>9. {x, y} = {"bitset", "array"} <=> (x = "bitset" /\ y = "array") \/ (x = "array" /\ y = "bitset")
  BY <1>2
<1>10. "array" \in {x, y} <=> x = "array" \/ y = "array"
  OBVIOUS
<1> QED
  BY <1>3, <1>4, <1>5, <1>6, <1>7, <1>8, <1>9, <1>10, Zenon DEF x, y

\* What the facts about one container give.
LEMMA ArrayFacts ==
    ASSUME NEW d, AnArray(d)
    PROVE  /\ d.kind = "array" /\ d.kind # "run" /\ d.kind # "bitset"
           /\ d.vals \in SUBSET Numbers /\ ValuesOf(d) = d.vals
           /\ Cardinality(d.vals) \in Nat /\ Cardinality(d.vals) <= MaxArray
  BY SizesAssumption DEF AnArray

LEMMA BitsetFacts ==
    ASSUME NEW d, ABitset(d)
    PROVE  /\ d.kind = "bitset" /\ d.kind # "run" /\ d.kind # "array"
           /\ d.vals \in SUBSET Numbers /\ ValuesOf(d) = d.vals /\ d.card = Cardinality(d.vals)
           /\ Cardinality(d.vals) \in Nat /\ Cardinality(d.vals) > MaxArray
  BY SizeIs DEF ABitset

LEMMA RunFacts ==
    ASSUME NEW d, SomeRuns(d)
    PROVE  /\ d.kind = "run" /\ d.kind # "array" /\ d.kind # "bitset"
           /\ Tidy(d.runs) /\ ValuesOf(d) = RunValues(d.runs) /\ RunValues(d.runs) \in SUBSET Numbers
           /\ Card(d.runs) = Cardinality(RunValues(d.runs)) /\ Card(d.runs) \in Nat
  BY SizeIs DEF SomeRuns

LEMMA FullRunHasAll ==
    ASSUME NEW r, IsFullRun(r)
    PROVE  RunValues(r) = Numbers
<1>1. r = FullRun
  BY Zenon DEF IsFullRun
<1> QED
  BY <1>1, FullRunAll, Zenon

LEMMA OfArray ==
    ASSUME NEW S, NEW T \in SUBSET Numbers, Cardinality(T) <= MaxArray, S \in SUBSET T
    PROVE  Makes(ArrayOf(S), S)
<1>1. IsFiniteSet(T) /\ Cardinality(T) \in Nat /\ S \in SUBSET Numbers
  BY SizeIs
<1>2. Cardinality(S) <= Cardinality(T) /\ Cardinality(S) \in Nat
  BY <1>1, FS_Subset, SizeIs
<1>3. Cardinality(S) <= MaxArray
  BY <1>1, <1>2, SizesAssumption
<1> QED
  BY <1>1, <1>3, MakesArray

-------------------------------------------------------------------------------
(* The union and the symmetric difference of two containers *)

LEMMA OfMore ==
    ASSUME NEW S \in SUBSET Numbers, NEW T \in SUBSET S, Cardinality(T) > MaxArray,
           NEW card, card = Cardinality(S)
    PROVE  Makes(BitsetOf(S, card), S)
<1>1. IsFiniteSet(S) /\ Cardinality(S) \in Nat /\ T \in SUBSET Numbers
  BY SizeIs
<1>2. Cardinality(T) <= Cardinality(S) /\ Cardinality(T) \in Nat
  BY <1>1, FS_Subset, SizeIs
<1>3. Cardinality(S) > MaxArray
  BY <1>1, <1>2, SizesAssumption
<1> QED
  BY <1>3, OfBitset

\* array_array_container_union.
LEMMA ArraysOrMakes ==
    ASSUME NEW S \in SUBSET Numbers, NEW T \in SUBSET Numbers
    PROVE  Makes(ArraysOr(S, T), S \cup T)
<1>1. /\ Cardinality(S \cup T) = SetListCard(Cardinality(S), S, T)
      /\ Cardinality(S \cup T) <= Cardinality(S) + Cardinality(T)
  BY SizeOfUnion
<1>2. S \cup T \in SUBSET Numbers /\ Cardinality(S) \in Nat /\ Cardinality(T) \in Nat
  BY SizeIs
<1>3. Cardinality(S \cup T) \in Nat
  BY <1>2, SizeIs
<1>4. ASSUME Cardinality(S) + Cardinality(T) <= MaxArray PROVE Makes(ArrayOf(S \cup T), S \cup T)
  <2>1. Cardinality(S \cup T) <= MaxArray
    BY <1>1, <1>2, <1>3, <1>4, SizesAssumption
  <2> QED
    BY <1>2, <2>1, MakesArray
<1>5. Makes(ByCard(S \cup T, SetListCard(Cardinality(S), S, T)), S \cup T)
  BY <1>1, <1>2, OfCard
<1> QED
  BY <1>4, <1>5, Zenon DEF ArraysOr

\* container_or.
LEMMA OrMakes ==
    ASSUME NEW d \in Operands, NEW e \in Operands
    PROVE  Makes(Or(d, e), ValuesOf(d) \cup ValuesOf(e))
<1> DEFINE all == ValuesOf(d) \cup ValuesOf(e)
           run == OfKind(d, e, "run")
           bits == OfKind(d, e, "bitset")
           arr == OfKind(d, e, "array")
<1>0. (AnArray(d) \/ ABitset(d) \/ SomeRuns(d)) /\ (AnArray(e) \/ ABitset(e) \/ SomeRuns(e))
  BY KindsAre
<1>1. Or(d, e) =
        CASE Kinds(d, e) = {"run"} -> Efficient(UnionRuns(d.runs, e.runs))
          [] Kinds(d, e) = {"run", "array"} ->
                Efficient(UnionRuns(run.runs, Singles(arr.vals)))
          [] Kinds(d, e) = {"run", "bitset"} ->
                IF IsFullRun(run.runs) THEN run ELSE BitsetOf(all, Cardinality(all))
          [] Kinds(d, e) = {"bitset"} -> BitsetOf(all, Cardinality(all))
          [] Kinds(d, e) = {"bitset", "array"} ->
                BitsetOf(all, SetListCard(bits.card, bits.vals, arr.vals))
          [] Kinds(d, e) = {"array"} -> ArraysOr(d.vals, e.vals)
  BY Zenon DEF Or
<1>2. all \in SUBSET Numbers /\ ValuesOf(d) \in SUBSET Numbers /\ ValuesOf(e) \in SUBSET Numbers
      /\ ValuesOf(d) \in SUBSET all /\ ValuesOf(e) \in SUBSET all
  BY OperandFits
<1> HIDE DEF all, run, bits, arr
<1>3. CASE SomeRuns(d) /\ SomeRuns(e)
  <2>1. Or(d, e) = Efficient(UnionRuns(d.runs, e.runs))
    BY <1>1, <1>3, RunFacts, PairOfKinds
  <2>2. Tidy(UnionRuns(d.runs, e.runs)) /\ RunValues(UnionRuns(d.runs, e.runs)) = all
    BY <1>3, RunFacts, Looser, UnionRunsExact DEF all
  <2> QED
    BY <2>1, <2>2, OfEfficient DEF all
<1>4. CASE ABitset(d) /\ ABitset(e)
  <2>1. Or(d, e) = BitsetOf(all, Cardinality(all))
    BY <1>1, <1>4, BitsetFacts, PairOfKinds
  <2>2. Cardinality(ValuesOf(d)) > MaxArray
    BY <1>4, BitsetFacts
  <2> QED
    BY <1>2, <2>1, <2>2, OfMore DEF all
<1>5. CASE AnArray(d) /\ AnArray(e)
  <2>1. Or(d, e) = ArraysOr(d.vals, e.vals)
    BY <1>1, <1>5, ArrayFacts, PairOfKinds
  <2>2. d.vals \in SUBSET Numbers /\ e.vals \in SUBSET Numbers /\ all = d.vals \cup e.vals
    BY <1>5, ArrayFacts DEF all
  <2> QED
    BY <2>1, <2>2, ArraysOrMakes DEF all
<1>6. CASE (SomeRuns(d) /\ AnArray(e)) \/ (AnArray(d) /\ SomeRuns(e))
  <2>1. Or(d, e) = Efficient(UnionRuns(run.runs, Singles(arr.vals)))
    <3>1. (d.kind = "run" /\ e.kind = "array") \/ (d.kind = "array" /\ e.kind = "run")
      BY <1>6, ArrayFacts, RunFacts
    <3>2. Kinds(d, e) # {"run"} /\ Kinds(d, e) = {"run", "array"}
      BY <3>1, PairOfKinds
    <3> QED
      BY <1>1, <3>2
  <2>2. SomeRuns(run) /\ AnArray(arr) /\ all = ValuesOf(run) \cup ValuesOf(arr)
    <3>1. CASE SomeRuns(d) /\ AnArray(e)
      <4>1. run = d /\ arr = e
        BY <3>1, RunFacts, ArrayFacts DEF run, arr, OfKind
      <4> QED
        BY <3>1, <4>1 DEF all
    <3>2. CASE AnArray(d) /\ SomeRuns(e)
      <4>1. run = e /\ arr = d
        BY <3>2, RunFacts, ArrayFacts DEF run, arr, OfKind
      <4> QED
        BY <3>2, <4>1 DEF all
    <3> QED
      BY <1>6, <3>1, <3>2
  <2>3. /\ Tidy(run.runs) /\ arr.vals \in SUBSET Numbers /\ all = RunValues(run.runs) \cup arr.vals
    BY <2>2, RunFacts, ArrayFacts
  <2>4. Spaced(Singles(arr.vals), 0) /\ RunValues(Singles(arr.vals)) = arr.vals
    BY <2>3, SinglesExact
  <2>5. /\ Tidy(UnionRuns(run.runs, Singles(arr.vals)))
        /\ RunValues(UnionRuns(run.runs, Singles(arr.vals))) = all
    BY <2>3, <2>4, Looser, UnionRunsExact
  <2> QED
    BY <2>1, <2>5, OfEfficient DEF all
<1>7. CASE (SomeRuns(d) /\ ABitset(e)) \/ (ABitset(d) /\ SomeRuns(e))
  <2>1. Or(d, e) = IF IsFullRun(run.runs) THEN run ELSE BitsetOf(all, Cardinality(all))
    <3>1. (d.kind = "run" /\ e.kind = "bitset") \/ (d.kind = "bitset" /\ e.kind = "run")
      BY <1>7, BitsetFacts, RunFacts
    <3>2. Kinds(d, e) # {"run"} /\ Kinds(d, e) # {"run", "array"} /\ Kinds(d, e) = {"run", "bitset"}
      BY <3>1, PairOfKinds
    <3> QED
      BY <1>1, <3>2
  <2>2. SomeRuns(run) /\ ABitset(bits) /\ all = ValuesOf(run) \cup ValuesOf(bits) /\ run \in Operands
    <3>1. CASE SomeRuns(d) /\ ABitset(e)
      <4>1. run = d /\ bits = e
        BY <3>1, RunFacts, BitsetFacts DEF run, bits, OfKind
      <4> QED
        BY <3>1, <4>1 DEF all
    <3>2. CASE ABitset(d) /\ SomeRuns(e)
      <4>1. run = e /\ bits = d
        BY <3>2, RunFacts, BitsetFacts DEF run, bits, OfKind
      <4> QED
        BY <3>2, <4>1 DEF all
    <3> QED
      BY <1>7, <3>1, <3>2
  <2>3. CASE IsFullRun(run.runs)
    <3>1. RunValues(run.runs) = Numbers
      BY <2>3, FullRunHasAll
    <3>2. all = ValuesOf(run)
      BY <2>2, <3>1, RunFacts, BitsetFacts
    <3> QED
      BY <2>1, <2>2, <2>3, <3>2, OperandMakes DEF all
  <2>4. CASE ~IsFullRun(run.runs)
    <3>1. Or(d, e) = BitsetOf(all, Cardinality(all))
      BY <2>1, <2>4
    <3>2. ValuesOf(bits) \in SUBSET all /\ Cardinality(ValuesOf(bits)) > MaxArray
      BY <2>2, BitsetFacts
    <3> QED
      BY <1>2, <3>1, <3>2, OfMore DEF all
  <2> QED
    BY <2>3, <2>4
<1>8. CASE (ABitset(d) /\ AnArray(e)) \/ (AnArray(d) /\ ABitset(e))
  <2>1. Or(d, e) = BitsetOf(all, SetListCard(bits.card, bits.vals, arr.vals))
    <3>1. (d.kind = "bitset" /\ e.kind = "array") \/ (d.kind = "array" /\ e.kind = "bitset")
      BY <1>8, BitsetFacts, ArrayFacts
    <3>2. /\ Kinds(d, e) # {"run"} /\ Kinds(d, e) # {"run", "array"} /\ Kinds(d, e) # {"run", "bitset"}
          /\ Kinds(d, e) # {"bitset"} /\ Kinds(d, e) = {"bitset", "array"}
      BY <3>1, PairOfKinds
    <3> QED
      BY <1>1, <3>2
  <2>2. ABitset(bits) /\ AnArray(arr) /\ all = ValuesOf(bits) \cup ValuesOf(arr)
    <3>1. CASE ABitset(d) /\ AnArray(e)
      <4>1. bits = d /\ arr = e
        BY <3>1, BitsetFacts, ArrayFacts DEF bits, arr, OfKind
      <4> QED
        BY <3>1, <4>1 DEF all
    <3>2. CASE AnArray(d) /\ ABitset(e)
      <4>1. bits = e /\ arr = d
        BY <3>2, BitsetFacts, ArrayFacts DEF bits, arr, OfKind
      <4> QED
        BY <3>2, <4>1 DEF all
    <3> QED
      BY <1>8, <3>1, <3>2
  <2>3. /\ all = bits.vals \cup arr.vals /\ bits.vals \in SUBSET Numbers /\ arr.vals \in SUBSET Numbers
        /\ bits.card = Cardinality(bits.vals) /\ Cardinality(bits.vals) > MaxArray
        /\ bits.vals \in SUBSET all
    BY <2>2, BitsetFacts, ArrayFacts
  <2>4. SetListCard(bits.card, bits.vals, arr.vals) = Cardinality(all)
    BY <2>3, SizeOfUnion
  <2> QED
    BY <1>2, <2>1, <2>3, <2>4, OfMore DEF all
<1> QED
  BY <1>0, <1>3, <1>4, <1>5, <1>6, <1>7, <1>8

\* container_ior.
LEMMA InPlaceOrMakes ==
    ASSUME NEW d \in Operands, NEW e \in Operands
    PROVE  Makes(InPlaceOr(d, e), ValuesOf(d) \cup ValuesOf(e))
<1> DEFINE all == ValuesOf(d) \cup ValuesOf(e)
           or == Or(d, e)
<1>1. Makes(or, all)
  BY OrMakes
<1>2. InPlaceOr(d, e) = IF Kinds(d, e) = {"bitset"} /\ or.card = U THEN RunsAs(FullRun) ELSE or
  BY Zenon DEF InPlaceOr
<1>3. CASE Kinds(d, e) = {"bitset"} /\ or.card = U
  <2>1. d.kind = "bitset" /\ e.kind = "bitset"
    BY <1>3, PairOfKinds
  <2>2. or = BitsetOf(all, Cardinality(all))
    <3>1. Kinds(d, e) # {"run"} /\ Kinds(d, e) # {"run", "array"} /\ Kinds(d, e) # {"run", "bitset"}
      BY <2>1, PairOfKinds
    <3> QED
      BY <1>3, <3>1 DEF Or
  <2>3. or.card = Cardinality(all)
    BY <2>2 DEF BitsetOf
  <2>4. all \in SUBSET Numbers
    BY OperandFits
  <2>5. all = Numbers
    <3> HIDE DEF all, or
    <3> QED
      BY <1>3, <2>3, <2>4, AllNumbers
  <2>6. Makes(RunsAs(FullRun), all)
    BY <2>5, FullRunAll, MakesRuns
  <2> QED
    BY <1>2, <1>3, <2>6
<1>4. CASE ~(Kinds(d, e) = {"bitset"} /\ or.card = U)
  BY <1>1, <1>2, <1>4, Zenon
<1> QED
  BY <1>3, <1>4

\* array_array_container_xor and bitset_array_container_ixor.
LEMMA XorArraysMakes ==
    ASSUME NEW S \in SUBSET Numbers, NEW T \in SUBSET Numbers
    PROVE  Makes(XorArrays(S, T), SymDiff(S, T))
<1>1. /\ SymDiff(S, T) \in SUBSET Numbers
      /\ Cardinality(SymDiff(S, T)) = FlipListCard(Cardinality(S), S, T)
      /\ Cardinality(SymDiff(S, T)) <= Cardinality(S) + Cardinality(T)
  BY SizeOfDifference
<1>2. Cardinality(S) \in Nat /\ Cardinality(T) \in Nat /\ Cardinality(SymDiff(S, T)) \in Nat
  BY <1>1, SizeIs
<1>4. ASSUME Cardinality(S) + Cardinality(T) <= MaxArray
      PROVE  Makes(ArrayOf(SymDiff(S, T)), SymDiff(S, T))
  <2>1. Cardinality(SymDiff(S, T)) <= MaxArray
    BY <1>1, <1>2, <1>4, SizesAssumption
  <2> QED
    BY <1>1, <2>1, MakesArray
<1>5. Makes(ByCard(SymDiff(S, T), FlipListCard(Cardinality(S), S, T)), SymDiff(S, T))
  BY <1>1, OfCard
<1> QED
  BY <1>4, <1>5, Zenon DEF XorArrays

LEMMA XorBitsetArrayMakes ==
    ASSUME NEW S \in SUBSET Numbers, NEW T \in SUBSET Numbers, NEW card, card = Cardinality(S)
    PROVE  Makes(XorBitsetArray(S, card, T), SymDiff(S, T))
<1>1. /\ SymDiff(S, T) \in SUBSET Numbers
      /\ Cardinality(SymDiff(S, T)) = FlipListCard(card, S, T)
  BY SizeOfDifference
<1> QED
  BY <1>1, OfCard DEF XorBitsetArray

\* array_run_container_xor.
LEMMA ArrayRunXorMakes ==
    ASSUME NEW vals \in SUBSET Numbers, NEW runs, Tidy(runs)
    PROVE  Makes(ArrayRunXor(vals, runs), SymDiff(RunValues(runs), vals))
<1> DEFINE one == SymDiff(RunValues(runs), vals)
<1>1. RunValues(runs) \in SUBSET Numbers /\ Card(runs) = Cardinality(RunValues(runs))
  BY SpacedValues, Looser, CardIs DEF Tidy
<1>2. Makes(Efficient(XorRuns(runs, Singles(vals))), one)
  <2>1. Spaced(Singles(vals), 0) /\ RunValues(Singles(vals)) = vals
    BY SinglesExact
  <2>2. Tidy(XorRuns(runs, Singles(vals))) /\ RunValues(XorRuns(runs, Singles(vals))) = one
    BY <2>1, Looser, XorRunsExact
  <2> QED
    BY <2>2, OfEfficient
<1>3. Makes(XorArrays(RunValues(runs), vals), one)
  BY <1>1, XorArraysMakes
<1>4. Makes(XorBitsetArray(RunValues(runs), Card(runs), vals), one)
  BY <1>1, XorBitsetArrayMakes
<1> QED
  BY <1>2, <1>3, <1>4, Zenon DEF ArrayRunXor

\* container_xor.
LEMMA XorMakes ==
    ASSUME NEW d \in Operands, NEW e \in Operands
    PROVE  Makes(Xor(d, e), SymDiff(ValuesOf(d), ValuesOf(e)))
<1> DEFINE one == SymDiff(ValuesOf(d), ValuesOf(e))
           run == OfKind(d, e, "run")
           bits == OfKind(d, e, "bitset")
           arr == OfKind(d, e, "array")
<1>0. (AnArray(d) \/ ABitset(d) \/ SomeRuns(d)) /\ (AnArray(e) \/ ABitset(e) \/ SomeRuns(e))
  BY KindsAre
<1>1. Xor(d, e) =
        CASE Kinds(d, e) = {"run"} -> Efficient(XorRuns(d.runs, e.runs))
          [] Kinds(d, e) = {"run", "array"} -> ArrayRunXor(arr.vals, run.runs)
          [] Kinds(d, e) \in {{"bitset"}, {"run", "bitset"}} -> ByCard(one, Cardinality(one))
          [] Kinds(d, e) = {"bitset", "array"} ->
                XorBitsetArray(bits.vals, bits.card, arr.vals)
          [] Kinds(d, e) = {"array"} -> XorArrays(d.vals, e.vals)
  BY Zenon DEF Xor
<1>2. one \in SUBSET Numbers
  BY OperandFits DEF SymDiff
<1>20. \A A, B : SymDiff(A, B) = SymDiff(B, A)
  BY DEF SymDiff
<1> HIDE DEF one, run, bits, arr
<1>3. CASE SomeRuns(d) /\ SomeRuns(e)
  <2>1. Xor(d, e) = Efficient(XorRuns(d.runs, e.runs))
    BY <1>1, <1>3, RunFacts, PairOfKinds
  <2>2. Tidy(XorRuns(d.runs, e.runs)) /\ RunValues(XorRuns(d.runs, e.runs)) = one
    BY <1>3, RunFacts, Looser, XorRunsExact DEF one
  <2> QED
    BY <2>1, <2>2, OfEfficient DEF one
<1>4. CASE (ABitset(d) \/ SomeRuns(d)) /\ (ABitset(e) \/ SomeRuns(e)) /\ ~(SomeRuns(d) /\ SomeRuns(e))
  <2>1. Xor(d, e) = ByCard(one, Cardinality(one))
    <3>1. \/ d.kind = "bitset" /\ e.kind = "bitset"
          \/ d.kind = "run" /\ e.kind = "bitset"
          \/ d.kind = "bitset" /\ e.kind = "run"
      BY <1>4, BitsetFacts, RunFacts
    <3>2. /\ Kinds(d, e) # {"run"} /\ Kinds(d, e) # {"run", "array"}
          /\ Kinds(d, e) \in {{"bitset"}, {"run", "bitset"}}
      BY <3>1, PairOfKinds
    <3> QED
      BY <1>1, <3>2
  <2> QED
    BY <1>2, <2>1, MakesByCard DEF one
<1>5. CASE AnArray(d) /\ AnArray(e)
  <2>1. Xor(d, e) = XorArrays(d.vals, e.vals)
    <3>1. d.kind = "array" /\ e.kind = "array"
      BY <1>5, ArrayFacts
    <3>2. /\ Kinds(d, e) # {"run"} /\ Kinds(d, e) # {"run", "array"} /\ Kinds(d, e) # {"run", "bitset"}
          /\ Kinds(d, e) # {"bitset"} /\ Kinds(d, e) # {"bitset", "array"} /\ Kinds(d, e) = {"array"}
      BY <3>1, PairOfKinds
    <3> QED
      BY <1>1, <3>2
  <2>2. d.vals \in SUBSET Numbers /\ e.vals \in SUBSET Numbers /\ one = SymDiff(d.vals, e.vals)
    BY <1>5, ArrayFacts DEF one
  <2> QED
    BY <2>1, <2>2, XorArraysMakes DEF one
<1>6. CASE (SomeRuns(d) /\ AnArray(e)) \/ (AnArray(d) /\ SomeRuns(e))
  <2>1. Xor(d, e) = ArrayRunXor(arr.vals, run.runs)
    <3>1. (d.kind = "run" /\ e.kind = "array") \/ (d.kind = "array" /\ e.kind = "run")
      BY <1>6, ArrayFacts, RunFacts
    <3>2. Kinds(d, e) # {"run"} /\ Kinds(d, e) = {"run", "array"}
      BY <3>1, PairOfKinds
    <3> QED
      BY <1>1, <3>2
  <2>2. SomeRuns(run) /\ AnArray(arr) /\ one = SymDiff(ValuesOf(run), ValuesOf(arr))
    <3>1. CASE SomeRuns(d) /\ AnArray(e)
      <4>1. run = d /\ arr = e
        BY <3>1, RunFacts, ArrayFacts DEF run, arr, OfKind
      <4> QED
        BY <3>1, <4>1 DEF one
    <3>2. CASE AnArray(d) /\ SomeRuns(e)
      <4>1. run = e /\ arr = d
        BY <3>2, RunFacts, ArrayFacts DEF run, arr, OfKind
      <4> QED
        BY <3>2, <4>1, <1>20 DEF one
    <3> QED
      BY <1>6, <3>1, <3>2
  <2>3. /\ Tidy(run.runs) /\ arr.vals \in SUBSET Numbers /\ one = SymDiff(RunValues(run.runs), arr.vals)
    BY <2>2, RunFacts, ArrayFacts
  <2> QED
    BY <2>1, <2>3, ArrayRunXorMakes DEF one
<1>8. CASE (ABitset(d) /\ AnArray(e)) \/ (AnArray(d) /\ ABitset(e))
  <2>1. Xor(d, e) = XorBitsetArray(bits.vals, bits.card, arr.vals)
    <3>1. (d.kind = "bitset" /\ e.kind = "array") \/ (d.kind = "array" /\ e.kind = "bitset")
      BY <1>8, BitsetFacts, ArrayFacts
    <3>2. /\ Kinds(d, e) # {"run"} /\ Kinds(d, e) # {"run", "array"} /\ Kinds(d, e) # {"run", "bitset"}
          /\ Kinds(d, e) # {"bitset"} /\ Kinds(d, e) = {"bitset", "array"}
      BY <3>1, PairOfKinds
    <3> QED
      BY <1>1, <3>2
  <2>2. ABitset(bits) /\ AnArray(arr) /\ one = SymDiff(ValuesOf(bits), ValuesOf(arr))
    <3>1. CASE ABitset(d) /\ AnArray(e)
      <4>1. bits = d /\ arr = e
        BY <3>1, BitsetFacts, ArrayFacts DEF bits, arr, OfKind
      <4> QED
        BY <3>1, <4>1 DEF one
    <3>2. CASE AnArray(d) /\ ABitset(e)
      <4>1. bits = e /\ arr = d
        BY <3>2, BitsetFacts, ArrayFacts DEF bits, arr, OfKind
      <4> QED
        BY <3>2, <4>1, <1>20 DEF one
    <3> QED
      BY <1>8, <3>1, <3>2
  <2>3. /\ one = SymDiff(bits.vals, arr.vals) /\ bits.vals \in SUBSET Numbers
        /\ arr.vals \in SUBSET Numbers /\ bits.card = Cardinality(bits.vals)
    BY <2>2, BitsetFacts, ArrayFacts
  <2> QED
    BY <2>1, <2>3, XorBitsetArrayMakes DEF one
<1> QED
  BY <1>0, <1>3, <1>4, <1>5, <1>6, <1>8
===============================================================================
