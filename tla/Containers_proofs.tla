--------------------------- MODULE Containers_proofs ---------------------------
(* The container in the slot of a key is always one that the library makes, and *)
(* every operation on it gives the numbers that the set operation gives.        *)
EXTENDS Containers, ContainerKinds_proofs

-------------------------------------------------------------------------------
(* The intersection of two run containers *)

Meeting(a, b) == Run(Max({a.value, b.value}), Min({End(a), End(b)}) - Max({a.value, b.value}))

MeetNext(r1, r2, p) ==
    IF End(r1[p[1]]) < r2[p[2]].value THEN <<p[1] + 1, p[2]>>
    ELSE IF End(r2[p[2]]) < r1[p[1]].value THEN <<p[1], p[2] + 1>>
    ELSE <<IF End(r1[p[1]]) <= End(r2[p[2]]) THEN p[1] + 1 ELSE p[1],
           IF End(r2[p[2]]) <= End(r1[p[1]]) THEN p[2] + 1 ELSE p[2]>>

MeetStep(r1, r2, f, p) ==
    IF p[1] > Len(r1) \/ p[2] > Len(r2) THEN <<>>
    ELSE IF End(r1[p[1]]) < r2[p[2]].value THEN f[<<p[1] + 1, p[2]>>]
    ELSE IF End(r2[p[2]]) < r1[p[1]].value THEN f[<<p[1], p[2] + 1>>]
    ELSE <<Meeting(r1[p[1]], r2[p[2]])>>
         \o f[<<IF End(r1[p[1]]) <= End(r2[p[2]]) THEN p[1] + 1 ELSE p[1],
                IF End(r2[p[2]]) <= End(r1[p[1]]) THEN p[2] + 1 ELSE p[2]>>]

LEMMA MeetGoesOn ==
    ASSUME NEW r1 \in Seq(Run16), NEW r2 \in Seq(Run16), NEW p \in Places(r1, r2),
           ~(p[1] > Len(r1) \/ p[2] > Len(r2))
    PROVE  /\ MeetNext(r1, r2, p) \in Places(r1, r2)
           /\ Left(r1, r2, MeetNext(r1, r2, p)) < Left(r1, r2, p)
           /\ Left(r1, r2, p) \in Nat /\ Left(r1, r2, p) <= Len(r1) + Len(r2) + 2
<1> DEFINE i == p[1]
           j == p[2]
           n == Len(r1)
           m == Len(r2)
           q == MeetNext(r1, r2, p)
<1>1. /\ i \in Nat \ {0} /\ j \in Nat \ {0} /\ n \in Nat /\ m \in Nat /\ i <= n /\ j <= m
      /\ Left(r1, r2, p) \in Nat
  <2>1. /\ Left(r1, r2, p) \in Nat /\ p[1] \in Nat \ {0} /\ p[2] \in Nat \ {0}
        /\ p[1] <= Len(r1) + 1 /\ p[2] <= Len(r2) + 1
    BY LeftIs, Zenon
  <2>2. ~(i > n) /\ ~(j > m) /\ n \in Nat /\ m \in Nat
    OBVIOUS
  <2>3. i \in Nat \ {0} /\ j \in Nat \ {0}
    BY <2>1
  <2> HIDE DEF i, j, n, m
  <2>4. i <= n /\ j <= m
    BY <2>2, <2>3
  <2> QED
    BY <2>1, <2>2, <2>3, <2>4
<1>2. r1[i] \in Run16 /\ r2[j] \in Run16
  BY <1>1
<1>3. End(r1[i]) \in Int /\ End(r2[j]) \in Int
  BY <1>2, RunFields
<1>4. \/ q = <<i + 1, j>> \/ q = <<i, j + 1>> \/ q = <<i + 1, j + 1>>
  <2> DEFINE x == End(r1[i])
             y == End(r2[j])
  <2>1. x \in Int /\ y \in Int
    BY <1>3
  <2>2. q = IF x < r2[j].value THEN <<i + 1, j>>
            ELSE IF y < r1[i].value THEN <<i, j + 1>>
            ELSE <<IF x <= y THEN i + 1 ELSE i, IF y <= x THEN j + 1 ELSE j>>
    BY DEF MeetNext
  <2> HIDE DEF x, y, q, i, j
  <2>3. x <= y \/ y <= x
    BY <2>1
  <2> QED
    BY <2>2, <2>3, Zenon
<1>5. ASSUME NEW a \in {i, i + 1}, NEW b \in {j, j + 1}, a # i \/ b # j
      PROVE  <<a, b>> \in Places(r1, r2) /\ Left(r1, r2, <<a, b>>) < Left(r1, r2, p)
  <2>1. a \in 1..(n + 1) /\ b \in 1..(m + 1) /\ a + b > i + j
    <3> HIDE DEF i, j, n, m
    <3>1. a = i \/ a = i + 1
      BY <1>5
    <3>2. b = j \/ b = j + 1
      BY <1>5
    <3> QED
      BY <1>1, <1>5, <3>1, <3>2
  <2>2. <<a, b>> \in Places(r1, r2)
    BY <2>1 DEF Places
  <2>3. Left(r1, r2, <<a, b>>) = n + m + 2 - a - b /\ Left(r1, r2, p) = n + m + 2 - i - j
    BY DEF Left
  <2> HIDE DEF i, j, n, m
  <2> QED
    BY <1>1, <2>1, <2>2, <2>3
<1>6. Left(r1, r2, p) <= n + m + 2
  <2>1. Left(r1, r2, p) = n + m + 2 - i - j
    BY DEF Left
  <2> HIDE DEF i, j, n, m
  <2> QED
    BY <1>1, <2>1
<1>7. i # i + 1 /\ j # j + 1
  BY <1>1
<1> HIDE DEF i, j, n, m, q
<1>8. q \in Places(r1, r2) /\ Left(r1, r2, q) < Left(r1, r2, p)
  BY <1>4, <1>5, <1>7
<1> QED
  BY <1>1, <1>6, <1>8 DEF n, m, q

LEMMA MeetSteps ==
    ASSUME NEW r1 \in Seq(Run16), NEW r2 \in Seq(Run16)
    PROVE  \E f : /\ IntersectRuns(r1, r2) = IF IsFullRun(r1) THEN r2
                                             ELSE IF IsFullRun(r2) THEN r1 ELSE f[<<1, 1>>]
                  /\ \A p \in Places(r1, r2) : f[p] = MeetStep(r1, r2, f, p)
<1> DEFINE P == Places(r1, r2)
           Skips(p) == End(r1[p[1]]) < r2[p[2]].value \/ End(r2[p[2]]) < r1[p[1]].value
           Ends(p) == p[1] > Len(r1) \/ p[2] > Len(r2)
           left == [p \in P |-> Left(r1, r2, p)]
           stop == [p \in P |-> Ends(p)]
           add == [p \in P |-> ~Skips(p)]
           pre == [p \in P |-> IF Ends(p) THEN <<>> ELSE <<Meeting(r1[p[1]], r2[p[2]])>>]
           nx == [p \in P |-> MeetNext(r1, r2, p)]
           w == CHOOSE f : f = [p \in (1..(Len(r1) + 1)) \X (1..(Len(r2) + 1)) |->
                    IF p[1] > Len(r1) \/ p[2] > Len(r2) THEN <<>>
                    ELSE IF End(r1[p[1]]) < r2[p[2]].value THEN f[<<p[1] + 1, p[2]>>]
                    ELSE IF End(r2[p[2]]) < r1[p[1]].value THEN f[<<p[1], p[2] + 1>>]
                    ELSE <<Run(Max({r1[p[1]].value, r2[p[2]].value}),
                               Min({End(r1[p[1]]), End(r2[p[2]])})
                               - Max({r1[p[1]].value, r2[p[2]].value}))>>
                         \o f[<<IF End(r1[p[1]]) <= End(r2[p[2]]) THEN p[1] + 1 ELSE p[1],
                                IF End(r2[p[2]]) <= End(r1[p[1]]) THEN p[2] + 1 ELSE p[2]>>]]
           n == Len(r1) + Len(r2) + 2
<1>1. n \in Nat /\ Len(r1) \in Nat /\ Len(r2) \in Nat
  OBVIOUS
<1>2. ASSUME NEW p \in P
      PROVE  /\ left[p] \in Nat /\ left[p] <= n
             /\ ~stop[p] => nx[p] \in P /\ left[nx[p]] < left[p]
  <2>1. Left(r1, r2, p) \in Nat /\ p[1] \in Nat /\ p[2] \in Nat
    BY LeftIs
  <2>2. Left(r1, r2, p) <= n
    <3> DEFINE i == p[1]
               j == p[2]
               a == Len(r1)
               b == Len(r2)
    <3>1. i \in Nat /\ j \in Nat /\ a \in Nat /\ b \in Nat /\ Left(r1, r2, p) = a + b + 2 - i - j
      BY <1>1, <2>1 DEF Left
    <3> HIDE DEF i, j, a, b
    <3>2. a + b + 2 - i - j <= a + b + 2
      BY <3>1
    <3> QED
      BY <3>1, <3>2 DEF a, b
  <2>3. \A q \in P : left[q] = Left(r1, r2, q)
    BY Zenon
  <2>4. stop[p] <=> Ends(p)
    BY Zenon
  <2>5. nx[p] = MeetNext(r1, r2, p)
    BY Zenon
  <2> HIDE DEF left, stop, nx, n
  <2>6. ASSUME ~stop[p] PROVE nx[p] \in P /\ left[nx[p]] < left[p]
    <3>1. /\ MeetNext(r1, r2, p) \in P
          /\ Left(r1, r2, MeetNext(r1, r2, p)) < Left(r1, r2, p)
      BY <2>4, <2>6, MeetGoesOn
    <3> QED
      BY <2>3, <2>5, <3>1
  <2> QED
    BY <2>1, <2>2, <2>3, <2>6
<1>3. ASSUME NEW f, NEW p \in P PROVE MeetStep(r1, r2, f, p) = LinkStep(stop, add, pre, nx, f, p)
  <2>1. (stop[p] <=> Ends(p)) /\ (add[p] <=> ~Skips(p))
    BY Zenon
  <2>2. pre[p] = IF Ends(p) THEN <<>> ELSE <<Meeting(r1[p[1]], r2[p[2]])>>
    OBVIOUS
  <2>3. nx[p] = MeetNext(r1, r2, p)
    OBVIOUS
  <2> HIDE DEF stop, add, pre, nx, P
  <2>4. CASE Ends(p)
    BY <2>1, <2>2, <2>4, Zenon DEF MeetStep, LinkStep
  <2>5. CASE ~Ends(p) /\ End(r1[p[1]]) < r2[p[2]].value
    <3>1. nx[p] = <<p[1] + 1, p[2]>>
      BY <2>3, <2>5, Zenon DEF MeetNext
    <3> QED
      BY <2>1, <2>5, <3>1, Zenon DEF MeetStep, LinkStep
  <2>6. CASE ~Ends(p) /\ ~(End(r1[p[1]]) < r2[p[2]].value) /\ End(r2[p[2]]) < r1[p[1]].value
    <3>1. nx[p] = <<p[1], p[2] + 1>>
      BY <2>3, <2>6, Zenon DEF MeetNext
    <3> QED
      BY <2>1, <2>6, <3>1, Zenon DEF MeetStep, LinkStep
  <2>7. CASE ~Ends(p) /\ ~Skips(p)
    <3> DEFINE q == <<IF End(r1[p[1]]) <= End(r2[p[2]]) THEN p[1] + 1 ELSE p[1],
                      IF End(r2[p[2]]) <= End(r1[p[1]]) THEN p[2] + 1 ELSE p[2]>>
    <3>1. nx[p] = q
      BY <2>3, <2>7, Zenon DEF MeetNext
    <3>2. pre[p] = <<Meeting(r1[p[1]], r2[p[2]])>>
      BY <2>2, <2>7, Zenon
    <3>3. MeetStep(r1, r2, f, p) = <<Meeting(r1[p[1]], r2[p[2]])>> \o f[q]
      BY <2>7, Zenon DEF MeetStep
    <3> HIDE DEF q
    <3> QED
      BY <2>1, <2>7, <3>1, <3>2, <3>3, Zenon DEF LinkStep
  <2> QED
    BY <2>4, <2>5, <2>6, <2>7
<1> HIDE DEF left, stop, add, pre, nx
<1>4. \E f : f = [p \in P |-> MeetStep(r1, r2, f, p)]
  <2> HIDE DEF P, n
  <2>1. Linked(P, left, stop, nx) /\ \A p \in P : left[p] <= n
    BY <1>2 DEF Linked
  <2>2. PICK f : f = [p \in P |-> LinkStep(stop, add, pre, nx, f, p)]
    <3>1. n \in Nat
      BY <1>1 DEF n
    <3>2. LinkedAll(P, stop, add, pre, nx)
      BY <2>1, <3>1, LinksExist
    <3> QED
      BY <3>2 DEF LinkedAll
  <2>3. f = [p \in P |-> MeetStep(r1, r2, f, p)]
    BY <1>3, <2>2
  <2> QED
    BY <2>3
<1>5. w = [p \in P |-> MeetStep(r1, r2, w, p)]
  BY <1>4 DEF Places, MeetStep, Meeting
<1>6. IntersectRuns(r1, r2) = IF IsFullRun(r1) THEN r2
                              ELSE IF IsFullRun(r2) THEN r1 ELSE w[<<1, 1>>]
  BY DEF IntersectRuns
<1> HIDE DEF w
<1>7. \A p \in P : w[p] = MeetStep(r1, r2, w, p)
  BY <1>5
<1> QED
  BY <1>6, <1>7

\* Two intervals and what follows each.
MeetsAre(a, b, x, y, A, X) ==
    /\ b < x => ((a..b) \cup A) \cap ((x..y) \cup X) = A \cap ((x..y) \cup X)
    /\ y < a => ((a..b) \cup A) \cap ((x..y) \cup X) = ((a..b) \cup A) \cap X
    /\ ~(b < x) /\ ~(y < a) =>
         LET lo == IF a <= x THEN x ELSE a
             hi == IF b <= y THEN b ELSE y
             A2 == IF b <= y THEN A ELSE (a..b) \cup A
             X2 == IF y <= b THEN X ELSE (x..y) \cup X
         IN  /\ lo <= hi
             /\ ((a..b) \cup A) \cap ((x..y) \cup X) = (lo..hi) \cup (A2 \cap X2)
             /\ \A v \in A2 \cap X2 : v \in Int /\ hi + 1 < v

LEMMA MeetOfTwo ==
    ASSUME NEW a \in Nat, NEW b \in Nat, NEW x \in Nat, NEW y \in Nat, a <= b, x <= y,
           NEW A, NEW X, \A v \in A : v \in Int /\ b + 1 < v, \A v \in X : v \in Int /\ y + 1 < v
    PROVE  MeetsAre(a, b, x, y, A, X)
<1> DEFINE I == a..b
           J == x..y
<1>1. (\A v : v \in I <=> v \in Int /\ a <= v /\ v <= b) /\ \A v : v \in J <=> v \in Int /\ x <= v /\ v <= y
  OBVIOUS
<1>2. ASSUME b < x PROVE (I \cup A) \cap (J \cup X) = A \cap (J \cup X)
  <2> HIDE DEF I, J
  <2>1. \A v \in I : v \notin J /\ v \notin X
    BY <1>1, <1>2
  <2> QED
    BY <2>1
<1>3. ASSUME y < a PROVE (I \cup A) \cap (J \cup X) = (I \cup A) \cap X
  <2> HIDE DEF I, J
  <2>1. \A v \in J : v \notin I /\ v \notin A
    BY <1>1, <1>3
  <2> QED
    BY <2>1
<1>4. ASSUME ~(b < x), ~(y < a)
      PROVE  LET lo == IF a <= x THEN x ELSE a
                 hi == IF b <= y THEN b ELSE y
                 A2 == IF b <= y THEN A ELSE I \cup A
                 X2 == IF y <= b THEN X ELSE J \cup X
             IN  /\ lo <= hi
                 /\ (I \cup A) \cap (J \cup X) = (lo..hi) \cup (A2 \cap X2)
                 /\ \A v \in A2 \cap X2 : v \in Int /\ hi + 1 < v
  <2> DEFINE lo == IF a <= x THEN x ELSE a
             hi == IF b <= y THEN b ELSE y
             A2 == IF b <= y THEN A ELSE I \cup A
             X2 == IF y <= b THEN X ELSE J \cup X
  <2>1. /\ lo \in Nat /\ hi \in Nat /\ lo <= hi /\ a <= lo /\ x <= lo /\ hi <= b /\ hi <= y
        /\ lo = a \/ lo = x
        /\ hi = b \/ hi = y
    BY <1>4
  <2> DEFINE K == lo..hi
  <2>2. \A v : v \in K <=> v \in Int /\ lo <= v /\ v <= hi
    BY <2>1
  <2>3. \A v : v \in K <=> v \in I /\ v \in J
    BY <1>1, <2>1, <2>2
  <2>4. /\ b <= y => hi = b /\ A2 = A
        /\ ~(b <= y) => hi = y /\ X2 = X /\ A2 = I \cup A /\ y < b
        /\ y <= b => hi = y /\ X2 = X
        /\ ~(y <= b) => hi = b /\ A2 = A /\ X2 = J \cup X /\ b < y
    BY <1>4
  <2> HIDE DEF I, J, K, lo, hi, A2, X2
  <2>5. ASSUME NEW v \in A2 \cap X2 PROVE v \in Int /\ hi + 1 < v
    <3>1. CASE b <= y
      BY <2>4, <2>5, <3>1
    <3>2. CASE ~(b <= y)
      BY <2>4, <2>5, <3>2
    <3> QED
      BY <3>1, <3>2
  <2>6. ASSUME NEW v
        PROVE  (v \in I \/ v \in A) /\ (v \in J \/ v \in X) <=> v \in K \/ (v \in A2 /\ v \in X2)
    <3>1. CASE b <= y /\ y <= b
      <4>1. b = y /\ A2 = A /\ X2 = X
        BY <2>4, <3>1
      <4> QED
        BY <1>1, <2>3, <4>1
    <3>2. CASE b <= y /\ ~(y <= b)
      <4>1. b < y /\ A2 = A /\ X2 = J \cup X
        BY <2>4, <3>2
      <4> QED
        BY <1>1, <2>3, <4>1
    <3>3. CASE ~(b <= y)
      <4>1. y < b /\ X2 = X /\ A2 = I \cup A
        BY <2>4, <3>3
      <4> QED
        BY <1>1, <2>3, <4>1
    <3> QED
      BY <3>1, <3>2, <3>3
  <2>7. (I \cup A) \cap (J \cup X) = K \cup (A2 \cap X2)
    BY <2>6
  <2> QED
    BY <2>1, <2>5, <2>7 DEF K, lo, hi, A2, X2
<1> QED
  BY <1>2, <1>3, <1>4 DEF MeetsAre

\* A run before runs that all begin beyond its end and the number after it.
LEMMA RunBefore ==
    ASSUME NEW v \in Nat, NEW w \in Nat, v <= w, w < U, NEW r, Tidy(r),
           \A u \in RunValues(r) : w + 1 < u
    PROVE  /\ Tidy(<<Run(v, w - v)>> \o r)
           /\ RunValues(<<Run(v, w - v)>> \o r) = (v..w) \cup RunValues(r)
<1> DEFINE run == Run(v, w - v)
<1>1. w - v \in Nat /\ v + (w - v) = w /\ v + (w - v) < U
  OBVIOUS
<1>2. Legal(run) /\ run.value = v /\ End(run) = w
  BY <1>1, RunFits
<1> HIDE DEF run
<1>3. Tidy(<<run>>) /\ RunValues(<<run>>) = v..w
  BY <1>2, OneRun DEF Tidy
<1>4. \A u \in v..w : u \in Int /\ u <= w
  OBVIOUS
<1>5. \A u \in RunValues(r) : u \in Int
  BY SpacedValues DEF Tidy, Numbers
<1>6. \A u \in RunValues(<<run>>), z \in RunValues(r) : u + 1 < z
  BY <1>3, <1>4, <1>5
<1>7. Tidy(<<run>> \o r) /\ RunValues(<<run>> \o r) = RunValues(<<run>>) \cup RunValues(r)
  BY <1>3, <1>6, JoinedIs DEF Tidy
<1> QED
  BY <1>3, <1>7 DEF run

Meets(r1, r2, f, p) ==
    Tidy(f[p]) /\ RunValues(f[p]) = Rest(r1, p[1]) \cap Rest(r2, p[2])

LEMMA MeetOn ==
    ASSUME NEW r1, NEW r2, Tidy(r1), Tidy(r2), NEW i \in 1..Len(r1), NEW j \in 1..Len(r2),
           NEW f, NEW p, p = <<i, j>>, f[p] = MeetStep(r1, r2, f, p),
           Meets(r1, r2, f, MeetNext(r1, r2, p))
    PROVE  Meets(r1, r2, f, p)
<1> DEFINE a == r1[i].value
           b == End(r1[i])
           x == r2[j].value
           y == End(r2[j])
           A == Rest(r1, i + 1)
           X == Rest(r2, j + 1)
           q == MeetNext(r1, r2, p)
           g == f[q]
<1>1. /\ Legal(r1[i]) /\ Rest(r1, i) = (a..b) \cup A /\ \A v \in A : v \in Int /\ b + 1 < v
      /\ Legal(r2[j]) /\ Rest(r2, j) = (x..y) \cup X /\ \A v \in X : v \in Int /\ y + 1 < v
  BY RestOf DEF Tidy
<1>2. a \in Nat /\ b \in Nat /\ x \in Nat /\ y \in Nat /\ a <= b /\ x <= y /\ b < U /\ y < U
  BY <1>1, LegalIs
<1>3. p[1] = i /\ p[2] = j /\ i <= Len(r1) /\ j <= Len(r2) /\ i \in Nat /\ j \in Nat
      /\ Len(r1) \in Nat /\ Len(r2) \in Nat
  BY DEF Tidy, Spaced
<1>4. q = IF b < x THEN <<i + 1, j>>
          ELSE IF y < a THEN <<i, j + 1>>
          ELSE <<IF b <= y THEN i + 1 ELSE i, IF y <= b THEN j + 1 ELSE j>>
  BY <1>3 DEF MeetNext
<1>5. f[p] = IF b < x THEN f[<<i + 1, j>>]
             ELSE IF y < a THEN f[<<i, j + 1>>]
             ELSE <<Meeting(r1[i], r2[j])>>
                  \o f[<<IF b <= y THEN i + 1 ELSE i, IF y <= b THEN j + 1 ELSE j>>]
  <2>1. ~(i > Len(r1) \/ j > Len(r2))
    BY <1>3
  <2> QED
    BY <1>3, <2>1, Zenon DEF MeetStep
<1>6. Tidy(g) /\ RunValues(g) = Rest(r1, q[1]) \cap Rest(r2, q[2])
  BY DEF Meets
<1>7. Meeting(r1[i], r2[j])
        = Run(IF a <= x THEN x ELSE a, (IF b <= y THEN b ELSE y) - (IF a <= x THEN x ELSE a))
  <2>1. Max({a, x}) = (IF a <= x THEN x ELSE a) /\ Min({b, y}) = IF b <= y THEN b ELSE y
    <3> HIDE DEF a, b, x, y
    <3>3. a \in Int /\ b \in Int /\ x \in Int /\ y \in Int
      BY <1>2
    <3>1. Max({a, x}) = IF a <= x THEN x ELSE a
      BY <3>3, TwoAre, Zenon
    <3>2. Min({b, y}) = IF b <= y THEN b ELSE y
      BY <3>3, TwoAre, Zenon
    <3> QED
      BY <3>1, <3>2
  <2> QED
    BY <2>1, Zenon DEF Meeting
<1> SUFFICES Tidy(f[p]) /\ RunValues(f[p]) = Rest(r1, i) \cap Rest(r2, j)
  BY <1>3 DEF Meets
<1> HIDE DEF a, b, x, y, A, X, q
<1>11. MeetsAre(a, b, x, y, A, X)
  BY <1>1, <1>2, MeetOfTwo
<1>8. CASE b < x
  <2>1. q = <<i + 1, j>> /\ f[p] = g
    BY <1>4, <1>5, <1>8
  <2>2. RunValues(f[p]) = A \cap Rest(r2, j)
    BY <1>6, <2>1 DEF A
  <2>3. Rest(r1, i) \cap Rest(r2, j) = A \cap Rest(r2, j)
    BY <1>1, <1>8, <1>11 DEF MeetsAre
  <2> QED
    BY <1>6, <2>1, <2>2, <2>3
<1>9. CASE ~(b < x) /\ y < a
  <2>1. q = <<i, j + 1>> /\ f[p] = g
    BY <1>4, <1>5, <1>9
  <2>2. RunValues(f[p]) = Rest(r1, i) \cap X
    BY <1>6, <2>1 DEF X
  <2>3. Rest(r1, i) \cap Rest(r2, j) = Rest(r1, i) \cap X
    BY <1>1, <1>9, <1>11 DEF MeetsAre
  <2> QED
    BY <1>6, <2>1, <2>2, <2>3
<1>10. CASE ~(b < x) /\ ~(y < a)
  <2> DEFINE lo == IF a <= x THEN x ELSE a
             hi == IF b <= y THEN b ELSE y
             A2 == IF b <= y THEN A ELSE (a..b) \cup A
             X2 == IF y <= b THEN X ELSE (x..y) \cup X
  <2>1. q = <<IF b <= y THEN i + 1 ELSE i, IF y <= b THEN j + 1 ELSE j>>
    BY <1>4, <1>10
  <2>2. f[p] = <<Run(lo, hi - lo)>> \o g
    BY <1>5, <1>7, <1>10, <2>1
  <2>3. q[1] = (IF b <= y THEN i + 1 ELSE i) /\ q[2] = IF y <= b THEN j + 1 ELSE j
    BY <2>1
  <2>4. Rest(r1, q[1]) = A2 /\ Rest(r2, q[2]) = X2
    BY <1>1, <2>3 DEF A, X
  <2>5. /\ lo <= hi
        /\ Rest(r1, i) \cap Rest(r2, j) = (lo..hi) \cup (A2 \cap X2)
        /\ \A v \in A2 \cap X2 : v \in Int /\ hi + 1 < v
    BY <1>1, <1>10, <1>11 DEF MeetsAre
  <2>6. lo \in Nat /\ hi \in Nat /\ hi < U
    BY <1>2
  <2>7. RunValues(g) = A2 \cap X2
    BY <1>6, <2>4
  <2> HIDE DEF lo, hi, A2, X2, g
  <2>8. /\ Tidy(<<Run(lo, hi - lo)>> \o g)
        /\ RunValues(<<Run(lo, hi - lo)>> \o g) = (lo..hi) \cup RunValues(g)
    BY <1>6, <2>5, <2>6, <2>7, RunBefore
  <2> QED
    BY <2>2, <2>5, <2>7, <2>8
<1> QED
  BY <1>8, <1>9, <1>10

LEMMA IntersectRunsExact ==
    ASSUME NEW r1, NEW r2, Tidy(r1), Tidy(r2)
    PROVE  /\ Tidy(IntersectRuns(r1, r2))
           /\ RunValues(IntersectRuns(r1, r2)) = RunValues(r1) \cap RunValues(r2)
<1> DEFINE n == Len(r1)
           m == Len(r2)
           P == Places(r1, r2)
<1>1. r1 \in Seq(Run16) /\ r2 \in Seq(Run16) /\ n \in Nat /\ m \in Nat
  BY DEF Tidy, Spaced
<1>2. PICK f : /\ IntersectRuns(r1, r2) = IF IsFullRun(r1) THEN r2
                                          ELSE IF IsFullRun(r2) THEN r1 ELSE f[<<1, 1>>]
               /\ \A p \in P : f[p] = MeetStep(r1, r2, f, p)
  BY <1>1, MeetSteps
<1> DEFINE Bad == {l \in Nat : \E p \in P : Left(r1, r2, p) = l /\ ~Meets(r1, r2, f, p)}
<1>3. CASE IsFullRun(r1) \/ IsFullRun(r2)
  <2>1. RunValues(r1) \in SUBSET Numbers /\ RunValues(r2) \in SUBSET Numbers
    BY SpacedValues DEF Tidy
  <2>2. CASE IsFullRun(r1)
    <3>1. IntersectRuns(r1, r2) = r2 /\ RunValues(r1) = Numbers
      BY <1>2, <2>2, FullRunAll DEF IsFullRun
    <3> QED
      BY <2>1, <3>1
  <2>3. CASE ~IsFullRun(r1) /\ IsFullRun(r2)
    <3>1. IntersectRuns(r1, r2) = r1 /\ RunValues(r2) = Numbers
      BY <1>2, <2>3, FullRunAll DEF IsFullRun
    <3> QED
      BY <2>1, <3>1
  <2> QED
    BY <1>3, <2>2, <2>3
<1>4. Bad = {}
  <2> SUFFICES ASSUME Bad # {} PROVE FALSE
    OBVIOUS
  <2>1. PICK l \in Bad : \A z \in Bad : l <= z
    <3>1. Bad \subseteq Nat
      OBVIOUS
    <3> HIDE DEF Bad
    <3> QED
      BY <3>1, LeastOfNaturals
  <2>2. PICK p \in P : Left(r1, r2, p) = l /\ ~Meets(r1, r2, f, p)
    BY <2>1
  <2> DEFINE i == p[1]
             j == p[2]
             q == MeetNext(r1, r2, p)
  <2>3. i \in Nat \ {0} /\ j \in Nat \ {0} /\ i <= n + 1 /\ j <= m + 1 /\ Left(r1, r2, p) \in Nat
    BY <1>1, <2>2, LeftIs
  <2>4. p = <<i, j>> /\ f[p] = MeetStep(r1, r2, f, p)
    BY <1>2, <2>2 DEF Places
  <2>5. CASE i > n \/ j > m
    <3>1. f[p] = <<>>
      BY <2>4, <2>5 DEF MeetStep
    <3>2. i = n + 1 \/ j = m + 1
      <4> HIDE DEF i, j, n, m
      <4> QED
        BY <1>1, <2>3, <2>5
    <3>3. Rest(r1, n + 1) = {} /\ Rest(r2, m + 1) = {}
      BY RestAll DEF Tidy
    <3>4. Rest(r1, i) \cap Rest(r2, j) = {}
      <4> HIDE DEF i, j, n, m
      <4> QED
        BY <3>2, <3>3
    <3> QED
      BY <2>2, <3>1, <3>4, NoRuns DEF Meets, Tidy
  <2>6. CASE ~(i > n \/ j > m)
    <3>1. q \in P /\ Left(r1, r2, q) < Left(r1, r2, p)
      BY <1>1, <2>2, <2>6, MeetGoesOn
    <3>2. Left(r1, r2, q) \in Nat
      <4> HIDE DEF q
      <4> QED
        BY <1>1, <3>1, LeftIs
    <3> HIDE DEF q, P, i, j
    <3>3. Left(r1, r2, q) \notin Bad
      BY <2>1, <2>2, <2>3, <3>1, <3>2
    <3>4. Meets(r1, r2, f, q)
      BY <3>1, <3>2, <3>3
    <3>5. i \in 1..n /\ j \in 1..m
      <4> HIDE DEF n, m
      <4> QED
        BY <1>1, <2>3, <2>6
    <3>6. Meets(r1, r2, f, p)
      BY <2>4, <3>4, <3>5, MeetOn DEF q
    <3> QED
      BY <2>2, <3>6
  <2> QED
    BY <2>5, <2>6
<1>5. CASE ~IsFullRun(r1) /\ ~IsFullRun(r2)
  <2>1. <<1, 1>> \in P
    BY <1>1 DEF Places
  <2>2. Left(r1, r2, <<1, 1>>) \in Nat
    BY <1>1, <2>1, LeftIs
  <2>3. Meets(r1, r2, f, <<1, 1>>)
    BY <1>4, <2>1, <2>2
  <2>4. Rest(r1, 1) = RunValues(r1) /\ Rest(r2, 1) = RunValues(r2)
    BY RestAll DEF Tidy
  <2>5. IntersectRuns(r1, r2) = f[<<1, 1>>]
    BY <1>2, <1>5
  <2> QED
    BY <2>3, <2>4, <2>5 DEF Meets
<1> QED
  BY <1>3, <1>5

-------------------------------------------------------------------------------
(* The difference of two run containers *)

Cuts(r1, r2) == (1..(Len(r1) + 1)) \X (1..(Len(r2) + 1)) \X (0..U)

FirstOf(r, i) == IF i <= Len(r) THEN r[i].value ELSE 0

CutNext(r1, r2, p) ==
    IF p[2] > Len(r2) \/ End(r1[p[1]]) < r2[p[2]].value
    THEN <<p[1] + 1, p[2], FirstOf(r1, p[1] + 1)>>
    ELSE IF End(r2[p[2]]) < p[3] THEN <<p[1], p[2] + 1, p[3]>>
    ELSE IF End(r2[p[2]]) < End(r1[p[1]]) THEN <<p[1], p[2], End(r2[p[2]]) + 1>>
    ELSE <<p[1] + 1, p[2], FirstOf(r1, p[1] + 1)>>

CutPiece(r1, r2, p) ==
    IF p[2] > Len(r2) \/ End(r1[p[1]]) < r2[p[2]].value
    THEN <<Run(p[3], End(r1[p[1]]) - p[3])>>
    ELSE IF p[3] < r2[p[2]].value THEN <<Run(p[3], r2[p[2]].value - p[3] - 1)>> ELSE <<>>

CutStep(r1, r2, f, p) ==
    IF p[1] > Len(r1) THEN <<>>
    ELSE IF p[2] > Len(r2) \/ End(r1[p[1]]) < r2[p[2]].value
    THEN <<Run(p[3], End(r1[p[1]]) - p[3])>> \o f[<<p[1] + 1, p[2], FirstOf(r1, p[1] + 1)>>]
    ELSE IF End(r2[p[2]]) < p[3] THEN f[<<p[1], p[2] + 1, p[3]>>]
    ELSE (IF p[3] < r2[p[2]].value THEN <<Run(p[3], r2[p[2]].value - p[3] - 1)>> ELSE <<>>)
         \o IF End(r2[p[2]]) < End(r1[p[1]]) THEN f[<<p[1], p[2], End(r2[p[2]]) + 1>>]
            ELSE f[<<p[1] + 1, p[2], FirstOf(r1, p[1] + 1)>>]

\* A run of r2 is looked at twice when it ends within the run of r1.
CutLeft(r1, r2, p) ==
    2 * (Len(r1) + Len(r2) + 2 - p[1] - p[2])
    + (IF p[2] <= Len(r2) /\ End(r2[p[2]]) >= p[3] THEN 1 ELSE 0)

LEMMA CutIs ==
    ASSUME NEW r1, NEW r2, Spaced(r1, 0), Spaced(r2, 0), NEW p \in Cuts(r1, r2)
    PROVE  /\ p = <<p[1], p[2], p[3]>>
           /\ p[1] \in Nat \ {0} /\ p[2] \in Nat \ {0} /\ p[3] \in 0..U
           /\ Len(r1) \in Nat /\ Len(r2) \in Nat
           /\ p[1] <= Len(r1) + 1 /\ p[2] <= Len(r2) + 1
           /\ CutLeft(r1, r2, p) \in Nat /\ CutLeft(r1, r2, p) <= 2 * (Len(r1) + Len(r2) + 2) + 1
<1> DEFINE i == p[1]
           j == p[2]
           n == Len(r1)
           m == Len(r2)
           e == IF j <= m /\ End(r2[j]) >= p[3] THEN 1 ELSE 0
<1>1. n \in Nat /\ m \in Nat
  BY DEF Spaced
<1>2. p = <<p[1], p[2], p[3]>> /\ i \in 1..(n + 1) /\ j \in 1..(m + 1) /\ p[3] \in 0..U
  BY DEF Cuts
<1>3. e \in {0, 1} /\ CutLeft(r1, r2, p) = 2 * (n + m + 2 - i - j) + e
  BY DEF CutLeft
<1> HIDE DEF i, j, n, m, e
<1>4. i \in Nat \ {0} /\ j \in Nat \ {0} /\ i <= n + 1 /\ j <= m + 1
  BY <1>1, <1>2
<1>5. n + m + 2 - i - j \in Nat /\ n + m + 2 - i - j <= n + m + 2
  BY <1>1, <1>4
<1>6. CutLeft(r1, r2, p) \in Nat /\ CutLeft(r1, r2, p) <= 2 * (n + m + 2) + 1
  BY <1>1, <1>3, <1>5
<1> QED
  BY <1>1, <1>2, <1>4, <1>6 DEF i, j, n, m

LEMMA CutLeftIs ==
    ASSUME NEW r1, NEW r2, NEW i, NEW j, NEW k
    PROVE  CutLeft(r1, r2, <<i, j, k>>)
             = 2 * (Len(r1) + Len(r2) + 2 - i - j)
               + (IF j <= Len(r2) /\ End(r2[j]) >= k THEN 1 ELSE 0)
  BY DEF CutLeft

LEMMA CutGoesOn ==
    ASSUME NEW r1, NEW r2, Spaced(r1, 0), Spaced(r2, 0), NEW p \in Cuts(r1, r2), ~(p[1] > Len(r1))
    PROVE  /\ CutNext(r1, r2, p) \in Cuts(r1, r2)
           /\ CutLeft(r1, r2, CutNext(r1, r2, p)) < CutLeft(r1, r2, p)
<1> DEFINE i == p[1]
           j == p[2]
           k == p[3]
           n == Len(r1)
           m == Len(r2)
           q == CutNext(r1, r2, p)
           b == End(r1[i])
           x == r2[j].value
           y == End(r2[j])
           f == FirstOf(r1, i + 1)
           E(l, z) == IF l <= m /\ End(r2[l]) >= z THEN 1 ELSE 0
<1>1. /\ p = <<i, j, k>> /\ i \in Nat \ {0} /\ j \in Nat \ {0} /\ k \in 0..U /\ n \in Nat /\ m \in Nat
      /\ j <= m + 1
  BY CutIs
<1>2. ~(i > n)
  OBVIOUS
<1>3. q = IF j > m \/ b < x THEN <<i + 1, j, f>>
          ELSE IF y < k THEN <<i, j + 1, k>>
          ELSE IF y < b THEN <<i, j, y + 1>>
          ELSE <<i + 1, j, f>>
  BY DEF CutNext
<1>4. ASSUME NEW l, NEW o, NEW z
      PROVE  CutLeft(r1, r2, <<l, o, z>>) = 2 * (n + m + 2 - l - o) + E(o, z)
  <2>1. CutLeft(r1, r2, <<l, o, z>>) = 2 * (Len(r1) + Len(r2) + 2 - l - o)
            + (IF o <= Len(r2) /\ End(r2[o]) >= z THEN 1 ELSE 0)
    BY CutLeftIs
  <2>2. E(o, z) = IF o <= Len(r2) /\ End(r2[o]) >= z THEN 1 ELSE 0
    OBVIOUS
  <2> HIDE DEF E
  <2> QED
    BY <2>1, <2>2
<1>5. \A l, z : E(l, z) \in {0, 1}
  OBVIOUS
<1>6. \A l, o, z : <<l, o, z>> \in Cuts(r1, r2) <=> l \in 1..(n + 1) /\ o \in 1..(m + 1) /\ z \in 0..U
  BY DEF Cuts
<1> HIDE DEF i, j, k, n, m, E, q
<1>7. i <= n
  BY <1>1, <1>2
<1>8. CutLeft(r1, r2, p) = 2 * (n + m + 2 - i - j) + E(j, k)
  BY <1>1, <1>4
<1>9. U \in Nat \ {0}
  BY UAssumption
<1>10. f \in 0..U
  <2>1. CASE i + 1 <= n
    <3>1. i + 1 \in 1..n
      BY <1>1, <2>1
    <3>2. Legal(r1[i + 1])
      BY <3>1 DEF Spaced, n
    <3>3. r1[i + 1].value \in Nat /\ End(r1[i + 1]) \in Nat /\ r1[i + 1].value <= End(r1[i + 1])
          /\ End(r1[i + 1]) < U
      BY <3>2, LegalIs
    <3>4. f = r1[i + 1].value
      BY <2>1 DEF FirstOf, n
    <3> HIDE DEF f
    <3> QED
      BY <1>9, <3>3, <3>4
  <2>2. CASE ~(i + 1 <= n)
    <3>1. f = 0
      BY <2>2 DEF FirstOf, n
    <3> QED
      BY <1>9, <3>1
  <2> QED
    BY <2>1, <2>2
<1>11. j <= m => y \in Nat /\ y < U
  <2>1. j <= m => j \in 1..m
    BY <1>1
  <2>2. j <= m => Legal(r2[j])
    BY <2>1 DEF Spaced, m
  <2> QED
    BY <2>2, LegalIs
<1> HIDE DEF f, y, b, x
<1>12. CASE q = <<i + 1, j, f>>
  <2>1. q \in Cuts(r1, r2)
    BY <1>1, <1>6, <1>7, <1>10, <1>12
  <2>2. CutLeft(r1, r2, q) = 2 * (n + m + 2 - (i + 1) - j) + E(j, f)
    BY <1>4, <1>12
  <2>3. E(j, f) \in {0, 1} /\ E(j, k) \in {0, 1}
    BY <1>5
  <2>4. CutLeft(r1, r2, q) < CutLeft(r1, r2, p)
    BY <1>1, <1>8, <2>2, <2>3
  <2> QED
    BY <2>1, <2>4 DEF q
<1>13. CASE q = <<i, j + 1, k>> /\ j <= m
  <2>1. q \in Cuts(r1, r2)
    BY <1>1, <1>6, <1>7, <1>13
  <2>2. CutLeft(r1, r2, q) = 2 * (n + m + 2 - i - (j + 1)) + E(j + 1, k)
    BY <1>4, <1>13
  <2>3. E(j + 1, k) \in {0, 1} /\ E(j, k) \in {0, 1}
    BY <1>5
  <2>4. CutLeft(r1, r2, q) < CutLeft(r1, r2, p)
    BY <1>1, <1>8, <2>2, <2>3
  <2> QED
    BY <2>1, <2>4 DEF q
<1>14. CASE q = <<i, j, y + 1>> /\ j <= m /\ ~(y < k)
  <2>1. q \in Cuts(r1, r2)
    BY <1>1, <1>6, <1>7, <1>9, <1>11, <1>14
  <2>2. CutLeft(r1, r2, q) = 2 * (n + m + 2 - i - j) + E(j, y + 1)
    BY <1>4, <1>14
  <2>3. E(j, y + 1) = 0 /\ E(j, k) = 1
    BY <1>1, <1>9, <1>11, <1>14 DEF E, y
  <2>4. CutLeft(r1, r2, q) < CutLeft(r1, r2, p)
    BY <1>1, <1>8, <2>2, <2>3
  <2> QED
    BY <2>1, <2>4 DEF q
<1>15. ~(j > m) => j <= m
  BY <1>1
<1> QED
  BY <1>3, <1>12, <1>13, <1>14, <1>15

LEMMA CutSteps ==
    ASSUME NEW r1, NEW r2, Spaced(r1, 0), Spaced(r2, 0)
    PROVE  \E f : /\ AndNotRuns(r1, r2) = f[<<1, 1, FirstOf(r1, 1)>>]
                  /\ \A p \in Cuts(r1, r2) : f[p] = CutStep(r1, r2, f, p)
<1> DEFINE P == Cuts(r1, r2)
           Ends(p) == p[1] > Len(r1)
           Free(p) == p[2] > Len(r2) \/ End(r1[p[1]]) < r2[p[2]].value
           Skips(p) == ~Free(p) /\ End(r2[p[2]]) < p[3]
           left == [p \in P |-> CutLeft(r1, r2, p)]
           stop == [p \in P |-> Ends(p)]
           add == [p \in P |-> ~Skips(p)]
           pre == [p \in P |-> IF Ends(p) THEN <<>> ELSE CutPiece(r1, r2, p)]
           nx == [p \in P |-> CutNext(r1, r2, p)]
           w == CHOOSE f : f = [p \in (1..(Len(r1) + 1)) \X (1..(Len(r2) + 1)) \X (0..U) |->
                    IF p[1] > Len(r1) THEN <<>>
                    ELSE IF p[2] > Len(r2) \/ End(r1[p[1]]) < r2[p[2]].value
                    THEN <<Run(p[3], End(r1[p[1]]) - p[3])>>
                         \o f[<<p[1] + 1, p[2], IF p[1] + 1 <= Len(r1) THEN r1[p[1] + 1].value ELSE 0>>]
                    ELSE IF End(r2[p[2]]) < p[3] THEN f[<<p[1], p[2] + 1, p[3]>>]
                    ELSE (IF p[3] < r2[p[2]].value
                          THEN <<Run(p[3], r2[p[2]].value - p[3] - 1)>> ELSE <<>>)
                         \o IF End(r2[p[2]]) < End(r1[p[1]]) THEN f[<<p[1], p[2], End(r2[p[2]]) + 1>>]
                            ELSE f[<<p[1] + 1, p[2],
                                     IF p[1] + 1 <= Len(r1) THEN r1[p[1] + 1].value ELSE 0>>]]
           n == 2 * (Len(r1) + Len(r2) + 2) + 1
<1>1. n \in Nat /\ Len(r1) \in Nat /\ Len(r2) \in Nat
  BY DEF Spaced
<1>2. ASSUME NEW p \in P
      PROVE  /\ left[p] \in Nat /\ left[p] <= n
             /\ ~stop[p] => nx[p] \in P /\ left[nx[p]] < left[p]
  <2>1. CutLeft(r1, r2, p) \in Nat /\ CutLeft(r1, r2, p) <= n
    BY CutIs
  <2>3. \A q \in P : left[q] = CutLeft(r1, r2, q)
    BY Zenon
  <2>4. stop[p] <=> Ends(p)
    BY Zenon
  <2>5. nx[p] = CutNext(r1, r2, p)
    BY Zenon
  <2> HIDE DEF left, stop, nx, n
  <2>6. ASSUME ~stop[p] PROVE nx[p] \in P /\ left[nx[p]] < left[p]
    <3>1. /\ CutNext(r1, r2, p) \in P
          /\ CutLeft(r1, r2, CutNext(r1, r2, p)) < CutLeft(r1, r2, p)
      BY <2>4, <2>6, CutGoesOn
    <3> QED
      BY <2>3, <2>5, <3>1
  <2> QED
    BY <2>1, <2>3, <2>6
<1>3. ASSUME NEW f, NEW p \in P PROVE CutStep(r1, r2, f, p) = LinkStep(stop, add, pre, nx, f, p)
  <2>1. (stop[p] <=> Ends(p)) /\ (add[p] <=> ~Skips(p))
    BY Zenon
  <2>2. pre[p] = IF Ends(p) THEN <<>> ELSE CutPiece(r1, r2, p)
    OBVIOUS
  <2>3. nx[p] = CutNext(r1, r2, p)
    OBVIOUS
  <2> HIDE DEF stop, add, pre, nx, P
  <2>4. CASE Ends(p)
    BY <2>1, <2>2, <2>4, Zenon DEF CutStep, LinkStep
  <2>5. CASE ~Ends(p) /\ Free(p)
    <3>1. nx[p] = <<p[1] + 1, p[2], FirstOf(r1, p[1] + 1)>>
      BY <2>3, <2>5, Zenon DEF CutNext
    <3>2. pre[p] = <<Run(p[3], End(r1[p[1]]) - p[3])>>
      BY <2>2, <2>5, Zenon DEF CutPiece
    <3>3. CutStep(r1, r2, f, p) = <<Run(p[3], End(r1[p[1]]) - p[3])>>
                                  \o f[<<p[1] + 1, p[2], FirstOf(r1, p[1] + 1)>>]
      BY <2>5, Zenon DEF CutStep
    <3> QED
      BY <2>1, <2>5, <3>1, <3>2, <3>3, Zenon DEF LinkStep
  <2>6. CASE ~Ends(p) /\ Skips(p)
    <3>1. nx[p] = <<p[1], p[2] + 1, p[3]>>
      BY <2>3, <2>6, Zenon DEF CutNext
    <3>2. CutStep(r1, r2, f, p) = f[<<p[1], p[2] + 1, p[3]>>]
      BY <2>6, Zenon DEF CutStep
    <3> QED
      BY <2>1, <2>6, <3>1, <3>2, Zenon DEF LinkStep
  <2>7. CASE ~Ends(p) /\ ~Free(p) /\ ~Skips(p)
    <3> DEFINE q == IF End(r2[p[2]]) < End(r1[p[1]]) THEN <<p[1], p[2], End(r2[p[2]]) + 1>>
                    ELSE <<p[1] + 1, p[2], FirstOf(r1, p[1] + 1)>>
               g == IF p[3] < r2[p[2]].value THEN <<Run(p[3], r2[p[2]].value - p[3] - 1)>> ELSE <<>>
    <3>1. nx[p] = q
      BY <2>3, <2>7, Zenon DEF CutNext
    <3>2. pre[p] = g
      BY <2>2, <2>7, Zenon DEF CutPiece
    <3>3. CutStep(r1, r2, f, p)
            = g \o IF End(r2[p[2]]) < End(r1[p[1]]) THEN f[<<p[1], p[2], End(r2[p[2]]) + 1>>]
                   ELSE f[<<p[1] + 1, p[2], FirstOf(r1, p[1] + 1)>>]
      BY <2>7, Zenon DEF CutStep
    <3>4. f[q] = IF End(r2[p[2]]) < End(r1[p[1]]) THEN f[<<p[1], p[2], End(r2[p[2]]) + 1>>]
                 ELSE f[<<p[1] + 1, p[2], FirstOf(r1, p[1] + 1)>>]
      BY Zenon
    <3> HIDE DEF q, g
    <3>5. CutStep(r1, r2, f, p) = g \o f[q]
      BY <3>3, <3>4, Zenon
    <3> QED
      BY <2>1, <2>7, <3>1, <3>2, <3>5, Zenon DEF LinkStep
  <2> QED
    BY <2>4, <2>5, <2>6, <2>7
<1> HIDE DEF left, stop, add, pre, nx
<1>4. \E f : f = [p \in P |-> CutStep(r1, r2, f, p)]
  <2> HIDE DEF P, n
  <2>1. Linked(P, left, stop, nx) /\ \A p \in P : left[p] <= n
    BY <1>2 DEF Linked
  <2>2. PICK f : f = [p \in P |-> LinkStep(stop, add, pre, nx, f, p)]
    <3>1. n \in Nat
      BY <1>1 DEF n
    <3>2. LinkedAll(P, stop, add, pre, nx)
      BY <2>1, <3>1, LinksExist
    <3> QED
      BY <3>2 DEF LinkedAll
  <2>3. f = [p \in P |-> CutStep(r1, r2, f, p)]
    BY <1>3, <2>2
  <2> QED
    BY <2>3
<1>5. w = [p \in P |-> CutStep(r1, r2, w, p)]
  BY <1>4 DEF Cuts, CutStep, FirstOf
<1>6. AndNotRuns(r1, r2) = w[<<1, 1, IF 1 <= Len(r1) THEN r1[1].value ELSE 0>>]
  BY DEF AndNotRuns
<1> HIDE DEF w
<1>7. \A p \in P : w[p] = CutStep(r1, r2, w, p)
  BY <1>5
<1> QED
  BY <1>6, <1>7 DEF FirstOf

\* What is left of an interval and what follows it, without another one and what follows that.
CutsAre(k, b, x, y, A, X) ==
    /\ b < x => ((k..b) \cup A) \ ((x..y) \cup X) = (k..b) \cup (A \ ((x..y) \cup X))
    /\ y < k => ((k..b) \cup A) \ ((x..y) \cup X) = ((k..b) \cup A) \ X
    /\ ~(b < x) /\ ~(y < k) /\ y < b =>
         /\ ((k..b) \cup A) \ ((x..y) \cup X)
              = (k..(x - 1)) \cup ((((y + 1)..b) \cup A) \ ((x..y) \cup X))
         /\ \A v \in ((y + 1)..b) \cup A : v \in Int /\ x < v
    /\ ~(b < x) /\ ~(y < b) =>
         /\ ((k..b) \cup A) \ ((x..y) \cup X) = (k..(x - 1)) \cup (A \ ((x..y) \cup X))
         /\ \A v \in A : v \in Int /\ x < v

LEMMA CutOfTwo ==
    ASSUME NEW k \in Nat, NEW b \in Nat, NEW x \in Nat, NEW y \in Nat, k <= b, x <= y,
           NEW A, NEW X, \A v \in A : v \in Int /\ b + 1 < v, \A v \in X : v \in Int /\ y < v
    PROVE  CutsAre(k, b, x, y, A, X)
<1> DEFINE I == k..b
           J == x..y
           K == k..(x - 1)
           L == (y + 1)..b
<1>1. /\ \A v : v \in I <=> v \in Int /\ k <= v /\ v <= b
      /\ \A v : v \in J <=> v \in Int /\ x <= v /\ v <= y
      /\ \A v : v \in K <=> v \in Int /\ k <= v /\ v <= x - 1
      /\ \A v : v \in L <=> v \in Int /\ y + 1 <= v /\ v <= b
  OBVIOUS
<1>2. ASSUME b < x PROVE (I \cup A) \ (J \cup X) = I \cup (A \ (J \cup X))
  <2> HIDE DEF I, J, K, L
  <2>1. \A v \in I : v \notin J /\ v \notin X
    BY <1>1, <1>2
  <2> QED
    BY <2>1
<1>3. ASSUME y < k PROVE (I \cup A) \ (J \cup X) = (I \cup A) \ X
  <2> HIDE DEF I, J, K, L
  <2>1. \A v \in J : v \notin I /\ v \notin A
    BY <1>1, <1>3
  <2> QED
    BY <2>1
<1>4. ASSUME ~(b < x), ~(y < k), y < b
      PROVE  /\ (I \cup A) \ (J \cup X) = K \cup ((L \cup A) \ (J \cup X))
             /\ \A v \in L \cup A : v \in Int /\ x < v
  <2> HIDE DEF I, J, K, L
  <2>1. \A v \in L \cup A : v \in Int /\ x < v
    BY <1>1, <1>4
  <2>2. \A v \in K : v \in I /\ v \notin J /\ v \notin X
    BY <1>1, <1>4
  <2>3. \A v \in L : v \in I
    BY <1>1, <1>4
  <2>4. \A v \in I : v \in K \/ v \in J \/ v \in L
    BY <1>1
  <2> QED
    BY <2>1, <2>2, <2>3, <2>4
<1>5. ASSUME ~(b < x), ~(y < b)
      PROVE  /\ (I \cup A) \ (J \cup X) = K \cup (A \ (J \cup X))
             /\ \A v \in A : v \in Int /\ x < v
  <2> HIDE DEF I, J, K, L
  <2>1. \A v \in A : v \in Int /\ x < v
    BY <1>5
  <2>2. \A v \in K : v \in I /\ v \notin J /\ v \notin X
    BY <1>1, <1>5
  <2>4. \A v \in I : v \in K \/ v \in J
    BY <1>1, <1>5
  <2> QED
    BY <2>1, <2>2, <2>4
<1> QED
  BY <1>2, <1>3, <1>4, <1>5 DEF CutsAre

LeftOver(r, i, k) == IF i <= Len(r) THEN (k..End(r[i])) \cup Rest(r, i + 1) ELSE {}

Within(r, i, k) == i <= Len(r) => r[i].value <= k /\ k <= End(r[i])

CutsTo(r1, r2, f, p) ==
    Within(r1, p[1], p[3]) =>
        Tidy(f[p]) /\ RunValues(f[p]) = LeftOver(r1, p[1], p[3]) \ Rest(r2, p[2])

LEMMA LeftAfter ==
    ASSUME NEW r, Spaced(r, 0), NEW i \in 1..Len(r)
    PROVE  /\ Within(r, i + 1, FirstOf(r, i + 1))
           /\ LeftOver(r, i + 1, FirstOf(r, i + 1)) = Rest(r, i + 1)
<1> DEFINE j == i + 1
<1>1. Len(r) \in Nat /\ j \in 1..(Len(r) + 1)
  BY DEF Spaced
<1> HIDE DEF j
<1>2. CASE j <= Len(r)
  <2>1. j \in 1..Len(r) /\ FirstOf(r, j) = r[j].value
    BY <1>1, <1>2 DEF FirstOf
  <2>2. Legal(r[j]) /\ Rest(r, j) = (r[j].value..End(r[j])) \cup Rest(r, j + 1)
    BY <2>1, RestOf
  <2>3. r[j].value <= r[j].value /\ r[j].value <= End(r[j])
    BY <2>2, LegalIs
  <2>4. Within(r, j, FirstOf(r, j)) /\ LeftOver(r, j, FirstOf(r, j)) = Rest(r, j)
    BY <1>2, <2>1, <2>2, <2>3 DEF Within, LeftOver
  <2> QED
    BY <2>4 DEF j
<1>3. CASE ~(j <= Len(r))
  <2>1. j = Len(r) + 1
    BY <1>1, <1>3
  <2>2. Rest(r, j) = {}
    BY <2>1, RestAll
  <2>3. Within(r, j, FirstOf(r, j)) /\ LeftOver(r, j, FirstOf(r, j)) = Rest(r, j)
    BY <1>3, <2>2 DEF Within, LeftOver
  <2> QED
    BY <2>3 DEF j
<1> QED
  BY <1>2, <1>3

\* What is kept of a run before the next one of the other container, if anything.
PieceOn(k, x, g, r) == Tidy(g \o r) /\ RunValues(g \o r) = (k..(x - 1)) \cup RunValues(r)

LEMMA PieceBefore ==
    ASSUME NEW k \in Nat, NEW x \in Nat, x < U, NEW r, Tidy(r), \A v \in RunValues(r) : x < v,
           NEW g, g = IF k < x THEN <<Run(k, x - k - 1)>> ELSE <<>>
    PROVE  PieceOn(k, x, g, r)
<1> SUFFICES Tidy(g \o r) /\ RunValues(g \o r) = (k..(x - 1)) \cup RunValues(r)
  BY DEF PieceOn
<1>1. CASE k < x
  <2>1. x - 1 \in Nat /\ k <= x - 1 /\ x - 1 < U /\ (x - 1) - k = x - k - 1 /\ (x - 1) + 1 = x
    BY <1>1, UAssumption
  <2>2. /\ Tidy(<<Run(k, (x - 1) - k)>> \o r)
        /\ RunValues(<<Run(k, (x - 1) - k)>> \o r) = (k..(x - 1)) \cup RunValues(r)
    BY <2>1, RunBefore
  <2> QED
    BY <1>1, <2>1, <2>2
<1>2. CASE ~(k < x)
  <2>1. k..(x - 1) = {}
    BY <1>2
  <2>2. r \in Seq(Run16)
    BY DEF Tidy, Spaced
  <2>3. <<>> \o r = r
    BY <2>2
  <2> QED
    BY <1>2, <2>1, <2>3
<1> QED
  BY <1>1, <1>2

LEMMA CutOn ==
    ASSUME NEW r1, NEW r2, Tidy(r1), Spaced(r2, 0), NEW i \in 1..Len(r1), NEW j \in 1..(Len(r2) + 1),
           NEW k, NEW f, NEW p, p = <<i, j, k>>, Within(r1, i, k), k \in Nat,
           f[p] = CutStep(r1, r2, f, p), CutsTo(r1, r2, f, CutNext(r1, r2, p))
    PROVE  Tidy(f[p]) /\ RunValues(f[p]) = LeftOver(r1, i, k) \ Rest(r2, j)
<1> DEFINE b == End(r1[i])
           x == r2[j].value
           y == End(r2[j])
           A == Rest(r1, i + 1)
           X == Rest(r2, j + 1)
           R == Rest(r2, j)
           n == Len(r1)
           m == Len(r2)
           q == CutNext(r1, r2, p)
           e == <<i + 1, j, FirstOf(r1, i + 1)>>
           g == IF k < x THEN <<Run(k, x - k - 1)>> ELSE <<>>
<1>1. n \in Nat /\ m \in Nat /\ i <= n /\ i \in Nat /\ j \in Nat /\ p[1] = i /\ p[2] = j /\ p[3] = k
      /\ j <= m + 1
  BY DEF Tidy, Spaced
<1>2. Spaced(r1, 0)
  BY Looser
<1>3. /\ Legal(r1[i]) /\ \A v \in A : v \in Int /\ b + 1 < v
  BY RestOf DEF Tidy
<1>4. b \in Nat /\ b < U /\ r1[i].value \in Nat /\ k <= b
  BY <1>1, <1>3, LegalIs DEF Within
<1>5. LeftOver(r1, i, k) = (k..b) \cup A
  BY <1>1 DEF LeftOver
<1>6. ~(j > m) => /\ x \in Nat /\ y \in Nat /\ x <= y /\ y < U /\ R = (x..y) \cup X
                  /\ \A v \in X : v \in Int /\ y < v
  <2> SUFFICES ASSUME ~(j > m)
               PROVE  /\ x \in Nat /\ y \in Nat /\ x <= y /\ y < U /\ R = (x..y) \cup X
                      /\ \A v \in X : v \in Int /\ y < v
    OBVIOUS
  <2>1. j \in 1..m
    BY <1>1
  <2>2. Legal(r2[j]) /\ R = (x..y) \cup X /\ \A v \in X : v \in Int /\ y + 0 < v
    BY <2>1, RestOf
  <2>3. x \in Nat /\ y \in Nat /\ x <= y /\ y < U
    BY <2>2, LegalIs
  <2> HIDE DEF x, y, X, R
  <2> QED
    BY <2>2, <2>3
<1>7. q = IF j > m \/ b < x THEN e
          ELSE IF y < k THEN <<i, j + 1, k>>
          ELSE IF y < b THEN <<i, j, y + 1>>
          ELSE e
  BY <1>1, Zenon DEF CutNext
<1>8. f[p] = IF j > m \/ b < x THEN <<Run(k, b - k)>> \o f[e]
             ELSE IF y < k THEN f[<<i, j + 1, k>>]
             ELSE g \o IF y < b THEN f[<<i, j, y + 1>>] ELSE f[e]
  <2>1. ~(i > n)
    BY <1>1
  <2> QED
    BY <1>1, <2>1, Zenon DEF CutStep
<1>9. Within(r1, i + 1, FirstOf(r1, i + 1)) /\ LeftOver(r1, i + 1, FirstOf(r1, i + 1)) = A
  BY <1>2, LeftAfter
<1>10. q = e => Tidy(f[e]) /\ RunValues(f[e]) = A \ R
  <2>1. e[1] = i + 1 /\ e[2] = j /\ e[3] = FirstOf(r1, i + 1)
    OBVIOUS
  <2> HIDE DEF e, A, q
  <2>2. CutsTo(r1, r2, f, q)
    BY DEF q
  <2> QED
    BY <1>9, <2>1, <2>2 DEF CutsTo
<1>11. ~(j > m) => CutsAre(k, b, x, y, A, X)
  BY <1>3, <1>4, <1>6, CutOfTwo
<1> HIDE DEF b, x, y, A, X, R, n, m, q, e, g
<1> SUFFICES Tidy(f[p]) /\ RunValues(f[p]) = ((k..b) \cup A) \ R
  BY <1>5 DEF R
<1>12. CASE j > m \/ b < x
  <2>1. q = e /\ f[p] = <<Run(k, b - k)>> \o f[e]
    BY <1>7, <1>8, <1>12
  <2>2. Tidy(f[e]) /\ RunValues(f[e]) = A \ R
    BY <1>10, <2>1
  <2>3. \A v \in RunValues(f[e]) : b + 1 < v
    BY <1>3, <2>2
  <2>4. /\ Tidy(<<Run(k, b - k)>> \o f[e])
        /\ RunValues(<<Run(k, b - k)>> \o f[e]) = (k..b) \cup (A \ R)
    BY <1>4, <2>2, <2>3, RunBefore
  <2>5. ((k..b) \cup A) \ R = (k..b) \cup (A \ R)
    <3>1. CASE j > m
      <4>1. j = m + 1
        BY <1>1, <3>1
      <4>2. R = {}
        BY <4>1, RestAll DEF R, m
      <4> QED
        BY <4>2
    <3>2. CASE ~(j > m)
      BY <1>6, <1>11, <1>12, <3>2 DEF CutsAre
    <3> QED
      BY <3>1, <3>2
  <2> QED
    BY <2>1, <2>4, <2>5
<1>13. CASE ~(j > m \/ b < x) /\ y < k
  <2>1. q = <<i, j + 1, k>> /\ f[p] = f[q]
    BY <1>7, <1>8, <1>13
  <2>2. q[1] = i /\ q[2] = j + 1 /\ q[3] = k
    BY <2>1
  <2>3. Tidy(f[q]) /\ RunValues(f[q]) = ((k..b) \cup A) \ X
    <3>1. CutsTo(r1, r2, f, q)
      BY DEF q
    <3> QED
      BY <1>5, <2>2, <3>1 DEF CutsTo, X
  <2>4. ((k..b) \cup A) \ R = ((k..b) \cup A) \ X
    BY <1>6, <1>11, <1>13 DEF CutsAre
  <2> QED
    BY <2>1, <2>3, <2>4
<1>14. CASE ~(j > m \/ b < x) /\ ~(y < k) /\ y < b
  <2>1. q = <<i, j, y + 1>> /\ f[p] = g \o f[q]
    BY <1>7, <1>8, <1>14
  <2>2. q[1] = i /\ q[2] = j /\ q[3] = y + 1
    BY <2>1
  <2>3. Tidy(f[q]) /\ RunValues(f[q]) = (((y + 1)..b) \cup A) \ R
    <3>1. CutsTo(r1, r2, f, q)
      BY DEF q
    <3>2. Within(r1, i, y + 1)
      <4>1. y \in Nat
        BY <1>6, <1>14
      <4>2. r1[i].value <= k
        BY <1>1 DEF Within, n
      <4>3. r1[i].value <= y + 1 /\ y + 1 <= b
        BY <1>4, <1>14, <4>1, <4>2
      <4> QED
        BY <4>3 DEF Within, b
    <3>3. LeftOver(r1, i, y + 1) = ((y + 1)..b) \cup A
      BY <1>1 DEF LeftOver, b, n, A
    <3> QED
      BY <2>2, <3>1, <3>2, <3>3 DEF CutsTo, R
  <2>4. /\ ((k..b) \cup A) \ R = (k..(x - 1)) \cup ((((y + 1)..b) \cup A) \ R)
        /\ \A v \in ((y + 1)..b) \cup A : v \in Int /\ x < v
    BY <1>6, <1>11, <1>14 DEF CutsAre
  <2>5. x \in Nat /\ x < U
    BY <1>4, <1>6, <1>14, UAssumption
  <2>6. \A v \in RunValues(f[q]) : x < v
    BY <2>3, <2>4
  <2>7. Tidy(g \o f[q]) /\ RunValues(g \o f[q]) = (k..(x - 1)) \cup RunValues(f[q])
    <3>1. g = IF k < x THEN <<Run(k, x - k - 1)>> ELSE <<>>
      BY DEF g
    <3>2. PieceOn(k, x, g, f[q])
      BY <2>3, <2>5, <2>6, <3>1, PieceBefore
    <3> QED
      BY <3>2 DEF PieceOn
  <2> QED
    BY <2>1, <2>3, <2>4, <2>7
<1>15. CASE ~(j > m \/ b < x) /\ ~(y < k) /\ ~(y < b)
  <2>1. q = e /\ f[p] = g \o f[e]
    BY <1>7, <1>8, <1>15
  <2>2. Tidy(f[e]) /\ RunValues(f[e]) = A \ R
    BY <1>10, <2>1
  <2>4. /\ ((k..b) \cup A) \ R = (k..(x - 1)) \cup (A \ R)
        /\ \A v \in A : v \in Int /\ x < v
    BY <1>6, <1>11, <1>15 DEF CutsAre
  <2>5. x \in Nat /\ x < U
    BY <1>4, <1>6, <1>15, UAssumption
  <2>6. \A v \in RunValues(f[e]) : x < v
    BY <2>2, <2>4
  <2>7. Tidy(g \o f[e]) /\ RunValues(g \o f[e]) = (k..(x - 1)) \cup RunValues(f[e])
    <3>1. g = IF k < x THEN <<Run(k, x - k - 1)>> ELSE <<>>
      BY DEF g
    <3>2. PieceOn(k, x, g, f[e])
      BY <2>2, <2>5, <2>6, <3>1, PieceBefore
    <3> QED
      BY <3>2 DEF PieceOn
  <2> QED
    BY <2>1, <2>2, <2>4, <2>7
<1> QED
  BY <1>12, <1>13, <1>14, <1>15

LEMMA AndNotRunsExact ==
    ASSUME NEW r1, NEW r2, Tidy(r1), Spaced(r2, 0)
    PROVE  /\ Tidy(AndNotRuns(r1, r2))
           /\ RunValues(AndNotRuns(r1, r2)) = RunValues(r1) \ RunValues(r2)
<1> DEFINE n == Len(r1)
           m == Len(r2)
           P == Cuts(r1, r2)
           s == <<1, 1, FirstOf(r1, 1)>>
<1>1. Spaced(r1, 0) /\ n \in Nat /\ m \in Nat
  <2>1. Spaced(r1, 0)
    BY Looser
  <2> QED
    BY <2>1 DEF Spaced
<1>2. PICK f : AndNotRuns(r1, r2) = f[s] /\ \A p \in P : f[p] = CutStep(r1, r2, f, p)
  BY <1>1, CutSteps
<1> DEFINE Bad == {l \in Nat : \E p \in P : CutLeft(r1, r2, p) = l /\ ~CutsTo(r1, r2, f, p)}
<1>4. Bad = {}
  <2> SUFFICES ASSUME Bad # {} PROVE FALSE
    OBVIOUS
  <2>1. PICK l \in Bad : \A z \in Bad : l <= z
    <3>1. Bad \subseteq Nat
      OBVIOUS
    <3> HIDE DEF Bad
    <3> QED
      BY <3>1, LeastOfNaturals
  <2>2. PICK p \in P : CutLeft(r1, r2, p) = l /\ ~CutsTo(r1, r2, f, p)
    BY <2>1
  <2> DEFINE i == p[1]
             j == p[2]
             k == p[3]
             q == CutNext(r1, r2, p)
  <2>3. p = <<i, j, k>> /\ i \in Nat \ {0} /\ j \in Nat \ {0} /\ i <= n + 1 /\ j <= m + 1
        /\ CutLeft(r1, r2, p) \in Nat /\ k \in 0..U
    BY <1>1, <2>2, CutIs
  <2>4. f[p] = CutStep(r1, r2, f, p)
    BY <1>2, <2>2
  <2>5. CASE i > n
    <3>1. f[p] = <<>>
      BY <2>4, <2>5 DEF CutStep
    <3>2. ~(i <= n)
      <4> HIDE DEF i, n
      <4> QED
        BY <1>1, <2>3, <2>5
    <3>3. LeftOver(r1, i, k) = {}
      BY <3>2 DEF LeftOver
    <3> QED
      BY <2>2, <3>1, <3>3, NoRuns DEF CutsTo, Tidy
  <2>6. CASE ~(i > n)
    <3>1. q \in P /\ CutLeft(r1, r2, q) < CutLeft(r1, r2, p)
      BY <1>1, <2>2, <2>6, CutGoesOn
    <3>2. CutLeft(r1, r2, q) \in Nat
      <4> HIDE DEF q
      <4> QED
        BY <1>1, <3>1, CutIs
    <3> HIDE DEF q, P, i, j, k
    <3>3. CutLeft(r1, r2, q) \notin Bad
      BY <2>1, <2>2, <2>3, <3>1, <3>2
    <3>4. CutsTo(r1, r2, f, q)
      BY <3>1, <3>2, <3>3
    <3>5. i \in 1..n /\ j \in 1..(m + 1) /\ k \in Nat
      <4> HIDE DEF n, m
      <4> QED
        BY <1>1, <2>3, <2>6
    <3>6. ASSUME Within(r1, i, k)
          PROVE  Tidy(f[p]) /\ RunValues(f[p]) = LeftOver(r1, i, k) \ Rest(r2, j)
      BY <2>3, <2>4, <3>4, <3>5, <3>6, CutOn DEF q
    <3> QED
      BY <2>2, <3>6 DEF CutsTo, i, j, k
  <2> QED
    BY <2>5, <2>6
<1>5. FirstOf(r1, 1) \in 0..U /\ Within(r1, 1, FirstOf(r1, 1))
      /\ LeftOver(r1, 1, FirstOf(r1, 1)) = Rest(r1, 1)
  <2> DEFINE v == r1[1].value
             w == End(r1[1])
  <2>1. CASE n = 0
    <3>1. ~(1 <= Len(r1)) /\ Rest(r1, 1) = {}
      BY <1>1, <2>1, RestAll
    <3>2. FirstOf(r1, 1) = 0
      BY <3>1 DEF FirstOf
    <3>3. 0 \in 0..U
      BY UAssumption
    <3> QED
      BY <3>1, <3>2, <3>3 DEF Within, LeftOver
  <2>2. CASE n # 0
    <3>1. 1 <= Len(r1) /\ 1 \in 1..Len(r1)
      BY <1>1, <2>2
    <3>2. Legal(r1[1]) /\ Rest(r1, 1) = (v..w) \cup Rest(r1, 1 + 1)
      BY <1>1, <3>1, RestOf
    <3>3. v \in Nat /\ w \in Nat /\ v <= w /\ w < U /\ U \in Nat
      BY <3>2, LegalIs, UAssumption
    <3>4. FirstOf(r1, 1) = v
      BY <3>1 DEF FirstOf
    <3>5. LeftOver(r1, 1, v) = Rest(r1, 1)
      BY <3>1, <3>2 DEF LeftOver
    <3>6. v <= v
      BY <3>3
    <3>7. Within(r1, 1, v)
      BY <3>3, <3>6 DEF Within
    <3> HIDE DEF v, w
    <3>8. v \in 0..U
      BY <3>3
    <3> QED
      BY <3>4, <3>5, <3>7, <3>8
  <2> QED
    BY <2>1, <2>2
<1>6. s \in P
  <2>1. 1 \in 1..(n + 1) /\ 1 \in 1..(m + 1)
    BY <1>1
  <2> QED
    BY <1>5, <2>1 DEF Cuts
<1>7. CutLeft(r1, r2, s) \in Nat
  <2> HIDE DEF s
  <2> QED
    BY <1>1, <1>6, CutIs
<1>8. CutsTo(r1, r2, f, s)
  <2> HIDE DEF s
  <2> QED
    BY <1>4, <1>6, <1>7
<1>9. s[1] = 1 /\ s[2] = 1 /\ s[3] = FirstOf(r1, 1)
  OBVIOUS
<1>10. Rest(r1, 1) = RunValues(r1) /\ Rest(r2, 1) = RunValues(r2)
  BY <1>1, RestAll
<1> HIDE DEF s
<1> QED
  BY <1>2, <1>5, <1>8, <1>9, <1>10 DEF CutsTo

-------------------------------------------------------------------------------
(* One number removed *)

LEMMA NumbersFit ==
    ASSUME NEW r, Tidy(r), NEW pos \in Numbers
    PROVE  RunValues(r) \subseteq Int /\ pos \in Nat /\ pos < U
  BY SpacedValues, UAssumption DEF Tidy, Numbers

LEMMA RemoveWhole ==
    ASSUME NEW r, Tidy(r), NEW pos \in Numbers, NEW p \in 1..Len(r),
           r[p].value = pos, r[p].length = 0, NEW new, new = RemoveAt(r, p)
    PROVE  Tidy(new) /\ RunValues(new) = RunValues(r) \ {pos}
<1>1. p - 1 \in 0..Len(r) /\ p \in (p - 1)..Len(r) /\ r[p].value \in Nat /\ End(r[p]) = pos
  BY Beside, NumbersFit
<1>2. FitsIn(r, p - 1, p, <<>>)
  BY NoRunIsTidy DEF FitsIn
<1>3. /\ Tidy(Spliced(r, p - 1, p, <<>>))
      /\ \A v : v \in RunValues(Spliced(r, p - 1, p, <<>>))
                <=> v \in RunValues(<<>>) \/ (v \in RunValues(r) /\ ~InMiddle(r, p - 1, p, v))
  BY <1>1, <1>2, NoRunIsTidy, SplicedValues
<1>4. new = Spliced(r, p - 1, p, <<>>)
  <2>1. new = SubSeq(r, 1, p - 1) \o SubSeq(r, p + 1, Len(r))
    BY DEF RemoveAt
  <2>2. SubSeq(r, 1, p - 1) \in Seq(Run16)
    BY RunsLegal, <1>1
  <2>3. SubSeq(r, 1, p - 1) \o <<>> = SubSeq(r, 1, p - 1)
    BY <2>2
  <2> QED
    BY <2>1, <2>3, Zenon DEF Spliced
<1>5. \A v : InMiddle(r, p - 1, p, v) <=> pos <= v /\ v <= pos
  BY <1>1, OneInMiddle DEF Holds
<1>6. \A v \in Int : pos <= v /\ v <= pos <=> v = pos
  BY NumbersFit
<1>7. ASSUME NEW v PROVE v \in RunValues(new) <=> v \in RunValues(r) /\ v # pos
  BY <1>3, <1>4, <1>5, <1>6, NumbersFit, NoRunIsTidy
<1> QED
  BY <1>3, <1>4, <1>7

LEMMA RemoveFirstOf ==
    ASSUME NEW r, Tidy(r), NEW pos \in Numbers, NEW p \in 1..Len(r),
           r[p].value = pos, r[p].length # 0,
           NEW new, new = [r EXCEPT ![p] = Run(pos + 1, @.length - 1)]
    PROVE  Tidy(new) /\ RunValues(new) = RunValues(r) \ {pos}
<1> DEFINE hi == End(r[p])
           lo == pos + 1
           run == Run(lo, hi - lo)
<1>1. /\ hi \in Nat /\ hi < U /\ hi = pos + r[p].length /\ r[p].length \in Nat
      /\ p - 1 > 0 => End(r[p - 1]) \in Nat /\ End(r[p - 1]) + 1 < pos
      /\ p < Len(r) => hi + 1 < r[p + 1].value
  BY Beside
<1>2. pos \in Nat /\ RunValues(r) \subseteq Int
  BY NumbersFit
<1>3. lo \in Nat /\ lo <= hi /\ hi - lo = r[p].length - 1
      /\ (p - 1 > 0 => End(r[p - 1]) + 1 < lo)
  BY <1>1, <1>2
<1>4. new = [r EXCEPT ![p] = run] /\ run = Run(lo, hi - lo)
  BY <1>3, Zenon
<1>5. \A v : Holds(r[p], v) <=> pos <= v /\ v <= hi
  BY DEF Holds
<1>6. \A v \in Int : lo <= v /\ v <= hi <=> (pos <= v /\ v <= hi) /\ v # pos
  BY <1>1, <1>2
<1>10. pos <= pos /\ pos <= hi
  BY <1>1, <1>2
<1> HIDE DEF lo, hi, run
<1>7. Changed(r, p, lo, hi, new)
  BY <1>1, <1>3, <1>4, OneChanged
<1>8. ~(lo <= pos /\ pos <= hi)
  BY <1>2, <1>6
<1>9. ASSUME NEW v PROVE v \in RunValues(new) <=> v \in RunValues(r) /\ v # pos
  <2>1. CASE v \in Int
    BY <1>2, <1>5, <1>6, <1>7, <1>10, <2>1 DEF Changed
  <2>2. CASE v \notin Int
    BY <1>2, <1>7, <2>2 DEF Changed
  <2> QED
    BY <2>1, <2>2
<1> QED
  BY <1>7, <1>9 DEF Changed

\* The run at p loses the numbers from pos on, and run is what is left of it.
IsCut(r, p, pos, run, new) ==
    /\ Tidy(new) /\ run \in Run16 /\ End(run) = pos - 1
    /\ \A v : v \in RunValues(new) <=> v \in RunValues(r) /\ ~(pos <= v /\ v <= End(r[p]))

LEMMA CutBefore ==
    ASSUME NEW r, Tidy(r), NEW pos \in Numbers, NEW p \in 1..Len(r),
           r[p].value < pos, pos <= End(r[p]), NEW run, run = Run(r[p].value, pos - 1 - r[p].value),
           NEW new, new = [r EXCEPT ![p] = run]
    PROVE  IsCut(r, p, pos, run, new)
<1> DEFINE lo == r[p].value
           hi == pos - 1
           end == End(r[p])
<1>1. /\ lo \in Nat /\ lo <= end /\ end \in Nat
      /\ p - 1 > 0 => End(r[p - 1]) + 1 < lo
      /\ p < Len(r) => r[p + 1].value \in Nat /\ end + 1 < r[p + 1].value
  BY Beside
<1>2. pos \in Nat /\ pos < U /\ RunValues(r) \subseteq Int
  BY NumbersFit
<1>3. hi \in Nat /\ lo <= hi /\ hi < U /\ hi - lo \in Nat /\ lo + (hi - lo) = hi
      /\ (p < Len(r) => hi + 1 < r[p + 1].value)
  BY <1>1, <1>2, UAssumption
<1>4. \A v : Holds(r[p], v) <=> lo <= v /\ v <= end
  BY DEF Holds
<1>5. \A v \in Int : lo <= v /\ v <= hi <=> (lo <= v /\ v <= end) /\ ~(pos <= v /\ v <= end)
  BY <1>1, <1>2
<1>6. run \in Run16 /\ End(run) = hi
  <2>1. Legal(Run(lo, hi - lo)) /\ End(Run(lo, hi - lo)) = lo + (hi - lo)
    BY <1>1, <1>3, RunFits
  <2> QED
    BY <1>3, <2>1 DEF Legal
<1>11. \A v \in Int : pos <= v /\ v <= end => lo <= v /\ v <= end
  BY <1>1, <1>2
<1> HIDE DEF lo, hi, end
<1>7. Changed(r, p, lo, hi, new)
  BY <1>1, <1>3, OneChanged DEF lo, hi
<1>9. ASSUME NEW v
      PROVE  v \in RunValues(new) <=> v \in RunValues(r) /\ ~(pos <= v /\ v <= end)
  <2>1. CASE v \in Int
    BY <1>2, <1>4, <1>5, <1>7, <1>11, <2>1 DEF Changed
  <2>2. CASE v \notin Int
    BY <1>2, <1>7, <2>2 DEF Changed
  <2> QED
    BY <2>1, <2>2
<1> QED
  BY <1>6, <1>7, <1>9 DEF Changed, IsCut, hi, end

LEMMA InsertedAt ==
    ASSUME NEW r, NEW p \in Nat, NEW run
    PROVE  InsertAt(r, p + 1, run) = Spliced(r, p, p, <<run>>)
<1>1. (p + 1) - 1 = p
  OBVIOUS
<1>2. InsertAt(r, p + 1, run) = SubSeq(r, 1, (p + 1) - 1) \o <<run>> \o SubSeq(r, p + 1, Len(r))
  BY Zenon DEF InsertAt
<1> QED
  BY <1>1, <1>2, Zenon DEF Spliced

LEMMA RemoveInside ==
    ASSUME NEW r, Tidy(r), NEW pos \in Numbers, NEW p \in 1..Len(r),
           r[p].value < pos, pos < End(r[p]), NEW t, NEW new,
           t = [r EXCEPT ![p] = Run(r[p].value, pos - r[p].value - 1)],
           new = InsertAt(t, p + 1, Run(pos + 1, End(r[p]) - pos - 1))
    PROVE  Tidy(new) /\ RunValues(new) = RunValues(r) \ {pos}
<1> DEFINE low == r[p].value
           run == Run(low, pos - 1 - low)
           lo == pos + 1
           hi == End(r[p])
           rest == Run(lo, hi - lo)
<1>1. /\ low \in Nat /\ hi \in Nat /\ hi < U /\ low <= hi
      /\ p < Len(r) => p + 1 \in 1..Len(r) /\ hi + 1 < r[p + 1].value
  BY Beside
<1>2. pos \in Nat /\ pos < U /\ RunValues(r) \subseteq Int
  BY NumbersFit
<1>3. lo \in Nat /\ lo <= hi /\ hi - lo = hi - pos - 1 /\ pos - 1 - low = pos - low - 1 /\ pos <= hi
  BY <1>1, <1>2
<1>4. t = [r EXCEPT ![p] = run] /\ run = Run(r[p].value, pos - 1 - r[p].value)
  BY <1>3, Zenon
<1>5. new = InsertAt(t, p + 1, rest) /\ rest = Run(lo, hi - lo)
  BY <1>3, Zenon
<1> HIDE DEF run, rest
<1>6. /\ Tidy(t) /\ run \in Run16 /\ End(run) = pos - 1
      /\ \A v : v \in RunValues(t) <=> v \in RunValues(r) /\ ~(pos <= v /\ v <= hi)
  <2>1. IsCut(r, p, pos, run, t)
    BY <1>3, <1>4, CutBefore
  <2> QED
    BY <2>1 DEF IsCut
<1>7. Len(t) = Len(r) /\ t[p] = run /\ \A i \in 1..Len(r) : i # p => t[i] = r[i]
  BY <1>4, <1>6, RunsLegal
<1>8. p \in Nat /\ p \in 0..Len(t) /\ p \in p..Len(t) /\ Len(r) \in Nat
  BY <1>7, RunsLegal
<1>9. p < Len(t) => hi + 1 < t[p + 1].value
  <2>1. p < Len(t) => p + 1 \in 1..Len(r) /\ p + 1 # p
    BY <1>1, <1>7, <1>8
  <2> QED
    BY <1>1, <1>7, <2>1
<1>10. p > 0 => End(t[p]) + 1 < lo
  BY <1>2, <1>6, <1>7
<1>11. \A v : v \in RunValues(r) <=> v \in Int /\ \E i \in 1..Len(r) : Holds(r[i], v)
  BY RunsLegal, InRuns
<1>12. \A v \in Int : lo <= v /\ v <= hi => v \in RunValues(r)
  <2>1. \A v \in Int : lo <= v /\ v <= hi => Holds(r[p], v)
    BY <1>1, <1>2 DEF Holds
  <2> QED
    BY <1>11, <2>1
<1>13. \A v \in Int : lo <= v /\ v <= hi <=> (pos <= v /\ v <= hi) /\ v # pos
  BY <1>1, <1>2
<1>14. pos <= pos
  BY <1>2
<1> HIDE DEF lo, hi
<1>15. new = Spliced(t, p, p, <<rest>>)
  BY <1>5, <1>8, InsertedAt
<1>16. /\ Tidy(Spliced(t, p, p, <<rest>>))
       /\ \A v : v \in RunValues(Spliced(t, p, p, <<rest>>))
                 <=> \/ v \in Int /\ lo <= v /\ v <= hi
                     \/ v \in RunValues(t) /\ ~InMiddle(t, p, p, v)
  <2>1. Tidy(t) /\ lo \in Nat /\ hi \in Nat /\ lo <= hi /\ hi < U /\ rest = Run(lo, hi - lo)
    BY <1>1, <1>3, <1>5, <1>6
  <2> QED
    BY ONLY <1>8, <1>9, <1>10, <2>1, OneSpliced, Zenon
<1>17. \A v : ~InMiddle(t, p, p, v)
  BY <1>6, <1>8, NoneInMiddle
<1>18. ASSUME NEW v PROVE v \in RunValues(new) <=> v \in RunValues(r) /\ v # pos
  <2>1. CASE v \in Int
    BY <1>3, <1>6, <1>12, <1>13, <1>14, <1>15, <1>16, <1>17, <2>1
  <2>2. CASE v \notin Int
    BY <1>2, <1>6, <1>15, <1>16, <1>17, <2>2
  <2> QED
    BY <2>1, <2>2
<1> QED
  BY <1>15, <1>16, <1>18

LEMMA RemoveLastOf ==
    ASSUME NEW r, Tidy(r), NEW pos \in Numbers, NEW p \in 1..Len(r),
           r[p].value < pos, pos = End(r[p]), NEW new, new = [r EXCEPT ![p].length = @ - 1]
    PROVE  Tidy(new) /\ RunValues(new) = RunValues(r) \ {pos}
<1> DEFINE low == r[p].value
           run == Run(low, pos - 1 - low)
<1>1. /\ low \in Nat /\ r[p].length \in Nat /\ pos = low + r[p].length /\ r[p] \in Run16
      /\ pos <= End(r[p])
  BY Beside, NumbersFit
<1>2. pos \in Nat /\ pos < U /\ RunValues(r) \subseteq Int
  BY NumbersFit
<1>3. pos - 1 - low = r[p].length - 1 /\ pos - 1 - low \in Nat /\ low + (pos - 1 - low) < U
  <2>1. low < pos /\ U \in Nat
    BY UAssumption
  <2> HIDE DEF low
  <2> QED
    BY <1>1, <1>2, <2>1
<1>4. new = [r EXCEPT ![p] = run] /\ run = Run(r[p].value, pos - 1 - r[p].value)
  <2>1. run = [value |-> low, length |-> pos - 1 - low]
    BY <1>1, <1>3, RunFits
  <2>2. [r[p] EXCEPT !.length = @ - 1] = [value |-> low, length |-> r[p].length - 1]
    BY <1>1 DEF Run16
  <2>3. new = [r EXCEPT ![p] = [r[p] EXCEPT !.length = @ - 1]]
    OBVIOUS
  <2> QED
    BY <1>3, <2>1, <2>2, <2>3, Zenon
<1>5. /\ Tidy(new)
      /\ \A v : v \in RunValues(new) <=> v \in RunValues(r) /\ ~(pos <= v /\ v <= End(r[p]))
  <2> HIDE DEF run
  <2>1. IsCut(r, p, pos, run, new)
    BY <1>1, <1>4, CutBefore
  <2> QED
    BY <2>1 DEF IsCut
<1>6. \A v \in Int : pos <= v /\ v <= pos <=> v = pos
  BY <1>2
<1>7. ASSUME NEW v PROVE v \in RunValues(new) <=> v \in RunValues(r) /\ v # pos
  BY <1>2, <1>5, <1>6
<1> QED
  BY <1>5, <1>7

LEMMA RemoveValueExact ==
    ASSUME NEW r, Tidy(r), NEW pos \in Numbers
    PROVE  Tidy(RemoveValue(r, pos)) /\ RunValues(RemoveValue(r, pos)) = RunValues(r) \ {pos}
<1> DEFINE p == PlaceOf(r, pos)
           held == p > 0 /\ Holds(r[p], pos)
           new == RemoveValue(r, pos)
           whole == r[p].value = pos /\ r[p].length = 0
           t == [r EXCEPT ![p] = Run(r[p].value, pos - r[p].value - 1)]
<1>0. p = 0 <=> ~(p > 0)
  <2>1. pos \in Int
    BY NumbersFit
  <2>2. PlacedAt(r, pos, p)
    BY <2>1, PlacedThere
  <2>3. p \in Nat
    BY <2>2 DEF PlacedAt
  <2> QED
    BY <2>3
<1>1. /\ ~held => new = r
      /\ held /\ whole => new = RemoveAt(r, p)
      /\ held /\ r[p].value = pos /\ r[p].length # 0
         => new = [r EXCEPT ![p] = Run(pos + 1, @.length - 1)]
      /\ held /\ r[p].value # pos /\ pos < End(r[p])
         => new = InsertAt(t, p + 1, Run(pos + 1, End(r[p]) - pos - 1))
      /\ held /\ r[p].value # pos /\ ~(pos < End(r[p])) => new = [r EXCEPT ![p].length = @ - 1]
  BY <1>0, Zenon DEF RemoveValue
<1>2. pos \in Int
  BY NumbersFit
<1>3. PlacedAt(r, pos, p)
  BY <1>2, PlacedThere
<1> HIDE DEF p, new, t
<1>4. held => p \in 1..Len(r) /\ r[p].value \in Nat /\ End(r[p]) \in Nat
             /\ r[p].value <= pos /\ pos <= End(r[p])
  <2>1. held => p \in 1..Len(r)
    BY <1>3 DEF PlacedAt
  <2> QED
    BY <2>1, Beside DEF Holds
<1>5. CASE ~held
  BY <1>1, <1>3, <1>5, Zenon DEF PlacedAt, new
<1>6. CASE held /\ whole
  BY <1>1, <1>4, <1>6, RemoveWhole DEF new
<1>7. CASE held /\ r[p].value = pos /\ r[p].length # 0
  BY <1>1, <1>4, <1>7, RemoveFirstOf DEF new
<1>8. CASE held /\ r[p].value # pos /\ pos < End(r[p])
  <2>1. r[p].value < pos /\ p \in 1..Len(r)
    BY <1>2, <1>4, <1>8
  <2>2. new = InsertAt(t, p + 1, Run(pos + 1, End(r[p]) - pos - 1))
    BY <1>1, <1>8
  <2>3. t = [r EXCEPT ![p] = Run(r[p].value, pos - r[p].value - 1)]
    BY DEF t
  <2> QED
    BY <1>8, <2>1, <2>2, <2>3, RemoveInside DEF new
<1>9. CASE held /\ r[p].value # pos /\ ~(pos < End(r[p]))
  <2>1. r[p].value < pos /\ p \in 1..Len(r) /\ pos = End(r[p])
    BY <1>2, <1>4, <1>9
  <2>2. new = [r EXCEPT ![p].length = @ - 1]
    BY <1>1, <1>9
  <2> QED
    BY <2>1, <2>2, RemoveLastOf DEF new
<1> QED
  BY <1>5, <1>6, <1>7, <1>8, <1>9

-------------------------------------------------------------------------------
(* A range added *)

\* The places between which a range comes: the runs up to less end before it, the runs
\* after last begin after it, with a number in between.
RangeAt(r, low, high, less, last) ==
    /\ less \in Nat /\ last \in Nat /\ less <= last /\ last <= Len(r)
    /\ \A i \in 1..Len(r) : /\ i <= less <=> End(r[i]) + 1 < low
                            /\ i <= last <=> r[i].value <= high + 1

LEMMA RangePlaces ==
    ASSUME NEW r, Tidy(r), NEW low \in Nat, NEW high \in Nat, low <= high,
           NEW less, less = Cardinality({i \in DOMAIN r : End(r[i]) + 1 < low}),
           NEW last, last = Len(r) - Cardinality({i \in DOMAIN r : r[i].value > high + 1})
    PROVE  RangeAt(r, low, high, less, last)
<1> DEFINE n == Len(r)
           L == {i \in DOMAIN r : End(r[i]) + 1 < low}
           G == {i \in DOMAIN r : r[i].value > high + 1}
           T == {i \in DOMAIN r : r[i].value < high + 2}
<1>1. /\ n \in Nat /\ DOMAIN r = 1..n
      /\ \A i \in 1..n : r[i].value \in Nat /\ End(r[i]) \in Nat /\ r[i].value <= End(r[i])
      /\ \A i, j \in 1..n : i < j => End(r[i]) + 1 < r[j].value /\ End(r[i]) < End(r[j])
  BY RunsLegal
<1>2. Cardinality(L) \in 0..n /\ L = 1..Cardinality(L)
  <2>1. L \in SUBSET (1..n)
    BY <1>1
  <2>2. ASSUME NEW i \in L, NEW j \in 1..n, j < i PROVE j \in L
    <3>1. End(r[j]) < End(r[i]) /\ End(r[j]) \in Nat /\ End(r[i]) \in Nat /\ End(r[i]) + 1 < low
      BY <1>1, <2>2
    <3> QED
      BY <1>1, <3>1
  <2> HIDE DEF L, n
  <2> QED
    BY <1>1, <2>1, <2>2, UpToPlace
<1>3. Cardinality(T) \in 0..n /\ \A i \in 1..n : i <= Cardinality(T) <=> r[i].value < high + 2
  BY BeginsBefore DEF Tidy
<1>4. G = (Cardinality(T) + 1)..n
  <2>1. \A i \in 1..n : r[i].value > high + 1 <=> ~(r[i].value < high + 2)
    BY <1>1
  <2> HIDE DEF T, n
  <2>2. \A i \in 1..n : r[i].value > high + 1 <=> i > Cardinality(T)
    BY <1>1, <1>3, <2>1
  <2> QED
    BY <1>1, <1>3, <2>2
<1>5. Cardinality(G) = n - Cardinality(T)
  <2> HIDE DEF T, n, G
  <2>1. Cardinality(T) + 1 \in Int /\ n \in Int
    BY <1>1, <1>3
  <2>2. Cardinality((Cardinality(T) + 1)..n)
        = IF Cardinality(T) + 1 > n THEN 0 ELSE n - (Cardinality(T) + 1) + 1
    BY <2>1, FS_Interval
  <2>3. Cardinality(G) = Cardinality((Cardinality(T) + 1)..n)
    BY <1>4, Zenon
  <2> DEFINE k == Cardinality(T)
  <2>4. k \in 0..n
    BY <1>3
  <2>5. Cardinality(G) = IF k + 1 > n THEN 0 ELSE n - (k + 1) + 1
    BY <2>2, <2>3, Zenon
  <2> HIDE DEF k
  <2>6. k \in Nat /\ k <= n
    BY <1>1, <2>4
  <2>7. Cardinality(G) = n - k
    BY <1>1, <2>5, <2>6
  <2> QED
    BY <2>7 DEF k
<1>6. \A i \in 1..n : i \in L <=> End(r[i]) + 1 < low
  BY <1>1
<1>7. less = Cardinality(L) /\ last = n - Cardinality(G)
  OBVIOUS
<1> HIDE DEF L, T, G, n
<1>8. last = Cardinality(T)
  BY <1>1, <1>3, <1>5, <1>7
<1>9. \A i \in 1..n : i <= less <=> End(r[i]) + 1 < low
  BY <1>1, <1>2, <1>6, <1>7
<1>10. \A i \in 1..n : i <= last <=> r[i].value <= high + 1
  BY <1>1, <1>3, <1>8
<1>11. less \in Nat /\ less <= n /\ last \in Nat /\ last <= n
  BY <1>1, <1>2, <1>3, <1>7, <1>8
<1>12. less <= last
  <2>1. CASE less = 0
    BY <1>11, <2>1
  <2>2. CASE less # 0
    <3>1. less \in 1..n
      BY <1>1, <1>11, <2>2
    <3>2. r[less].value <= End(r[less]) /\ End(r[less]) \in Nat /\ r[less].value \in Nat
      BY <1>1, <3>1
    <3>4. End(r[less]) + 1 < low
      BY <1>9, <1>11, <3>1
    <3>3. r[less].value <= high + 1
      BY <3>2, <3>4
    <3> QED
      BY <1>10, <3>1, <3>3
  <2> QED
    BY <2>1, <2>2
<1> QED
  BY <1>9, <1>10, <1>11, <1>12 DEF n, RangeAt

LEMMA AddRangeExact ==
    ASSUME NEW r, Tidy(r), NEW low \in Nat, NEW high \in Nat, low <= high, high < U
    PROVE  /\ Tidy(AddRange(r, low, high))
           /\ RunValues(AddRange(r, low, high)) = RunValues(r) \cup (low..high)
<1> DEFINE less == Cardinality({i \in DOMAIN r : End(r[i]) + 1 < low})
           last == Len(r) - Cardinality({i \in DOMAIN r : r[i].value > high + 1})
           begin == Min({low, r[less + 1].value})
           end == Max({high, End(r[last])})
           new == AddRange(r, low, high)
           n == Len(r)
           lo == IF less = last THEN low ELSE begin
           hi == IF less = last THEN high ELSE end
           run == Run(lo, hi - lo)
<1>1. new = SubSeq(r, 1, less)
            \o (IF less = last THEN <<Run(low, high - low)>> ELSE <<Run(begin, end - begin)>>)
            \o SubSeq(r, last + 1, n)
  BY DEF AddRange
<1>2. (IF less = last THEN <<Run(low, high - low)>> ELSE <<Run(begin, end - begin)>>) = <<run>>
  BY Zenon
<1>3. new = Spliced(r, less, last, <<run>>)
  BY <1>1, <1>2, Zenon DEF Spliced
<1>4. /\ less \in Nat /\ last \in Nat /\ less <= last /\ last <= n
      /\ \A i \in 1..n : /\ i <= less <=> End(r[i]) + 1 < low
                         /\ i <= last <=> r[i].value <= high + 1
  <2>1. /\ less = Cardinality({i \in DOMAIN r : End(r[i]) + 1 < low})
        /\ last = Len(r) - Cardinality({i \in DOMAIN r : r[i].value > high + 1})
    OBVIOUS
  <2> HIDE DEF less, last, n
  <2>2. RangeAt(r, low, high, less, last)
    BY <2>1, RangePlaces
  <2> QED
    BY <2>2 DEF RangeAt, n
<1>5. /\ n \in Nat
      /\ \A i \in 1..n : /\ r[i].value \in Nat /\ End(r[i]) \in Nat /\ r[i].value <= End(r[i])
                         /\ End(r[i]) < U
      /\ \A i, j \in 1..n : i < j => End(r[i]) + 1 < r[j].value /\ End(r[i]) < End(r[j])
  BY RunsLegal
<1> HIDE DEF less, last, new, n
<1>6. less \in 0..n /\ last \in less..n
  BY <1>4, <1>5
<1>7. less # last => /\ less + 1 \in 1..n /\ last \in 1..n /\ less < last /\ less + 1 <= last
  BY <1>4, <1>5
<1>8. /\ less = last => lo = low /\ hi = high
      /\ less # last => /\ lo = IF low <= r[less + 1].value THEN low ELSE r[less + 1].value
                        /\ hi = IF high <= End(r[last]) THEN End(r[last]) ELSE high
  <2>1. less # last => /\ begin = IF low <= r[less + 1].value THEN low ELSE r[less + 1].value
                       /\ end = IF high <= End(r[last]) THEN End(r[last]) ELSE high
    <3>1. ASSUME less # last
          PROVE  low \in Int /\ r[less + 1].value \in Int /\ high \in Int /\ End(r[last]) \in Int
      BY <1>5, <1>7, <3>1
    <3> QED
      BY <3>1, TwoAre, Zenon
  <2> HIDE DEF begin, end
  <2> QED
    BY <2>1, Zenon
<1>9. run = Run(lo, hi - lo)
  OBVIOUS
<1> HIDE DEF lo, hi, run, begin, end
<1>10. lo \in Nat /\ hi \in Nat /\ lo <= low /\ high <= hi /\ lo <= hi /\ hi < U
  <2>1. CASE less = last
    BY <1>8, <2>1
  <2>2. CASE less # last
    BY <1>5, <1>7, <1>8, <2>2
  <2> QED
    BY <2>1, <2>2
<1>11. less > 0 => End(r[less]) + 1 < lo
  <2> SUFFICES ASSUME less > 0 PROVE End(r[less]) + 1 < lo
    OBVIOUS
  <2>1. less \in 1..n
    BY <1>4, <1>5
  <2>2. End(r[less]) + 1 < low
    BY <1>4, <2>1
  <2>3. less # last => End(r[less]) + 1 < r[less + 1].value
    BY <1>5, <1>7, <2>1
  <2> QED
    BY <1>8, <2>2, <2>3
<1>12. last < n => hi + 1 < r[last + 1].value
  <2> SUFFICES ASSUME last < n PROVE hi + 1 < r[last + 1].value
    OBVIOUS
  <2>1. last + 1 \in 1..n /\ ~(last + 1 <= last)
    BY <1>4, <1>5
  <2>2. high + 1 < r[last + 1].value
    <3>1. ~(r[last + 1].value <= high + 1) /\ r[last + 1].value \in Nat
      BY <1>4, <1>5, <2>1
    <3> QED
      BY <3>1
  <2>3. less # last => End(r[last]) + 1 < r[last + 1].value
    BY <1>5, <1>7, <2>1
  <2> QED
    BY <1>8, <2>2, <2>3
<1>13. /\ Tidy(Spliced(r, less, last, <<run>>))
       /\ \A v : v \in RunValues(Spliced(r, less, last, <<run>>))
                 <=> \/ v \in Int /\ lo <= v /\ v <= hi
                     \/ v \in RunValues(r) /\ ~InMiddle(r, less, last, v)
  BY ONLY Tidy(r), <1>6, <1>9, <1>10, <1>11, <1>12, OneSpliced, Zenon DEF n
<1>14. \A v : v \in RunValues(r) <=> v \in Int /\ \E i \in 1..n : Holds(r[i], v)
  BY RunsLegal, InRuns DEF n

\* A number of the runs in between is from lo to hi.
<1>15. ASSUME NEW v \in Int, InMiddle(r, less, last, v) PROVE lo <= v /\ v <= hi
  <2>1. PICK i \in 1..n : less < i /\ i <= last /\ Holds(r[i], v)
    BY <1>15 DEF InMiddle, n
  <2>2. r[i].value <= v /\ v <= End(r[i]) /\ r[i].value \in Nat /\ End(r[i]) \in Nat
    BY <1>5, <2>1 DEF Holds
  <2>3. less # last /\ i \in Nat /\ (i = less + 1 \/ less + 1 < i) /\ (i = last \/ i < last)
    BY <1>4, <1>5, <2>1
  <2>4. r[less + 1].value <= r[i].value
    <3>1. less + 1 < i => End(r[less + 1]) + 1 < r[i].value
      BY <1>5, <1>7, <2>3
    <3>2. r[less + 1].value <= End(r[less + 1]) /\ r[less + 1].value \in Nat /\ End(r[less + 1]) \in Nat
      BY <1>5, <1>7, <2>3
    <3> QED
      BY <2>2, <2>3, <3>1, <3>2
  <2>5. End(r[i]) <= End(r[last])
    <3>1. i < last => End(r[i]) < End(r[last])
      BY <1>5, <1>7, <2>3
    <3>2. End(r[last]) \in Nat
      BY <1>5, <1>7, <2>3
    <3> QED
      BY <2>2, <2>3, <3>1, <3>2
  <2>6. lo <= r[less + 1].value /\ End(r[last]) <= hi
        /\ r[less + 1].value \in Nat /\ End(r[last]) \in Nat
    BY <1>5, <1>7, <1>8, <2>3
  <2> QED
    BY <1>10, <2>2, <2>4, <2>5, <2>6

\* A number from lo to hi is one of the range or of the first or the last run in between.
<1>16. ASSUME NEW v \in Int, lo <= v, v <= hi PROVE (low <= v /\ v <= high) \/ v \in RunValues(r)
  <2>1. CASE v < low
    <3>1. lo # low
      BY <1>10, <1>16, <2>1
    <3>2. less # last /\ lo = r[less + 1].value
      BY <1>8, <3>1
    <3>3. less + 1 \in 1..n /\ ~(less + 1 <= less)
      BY <1>4, <1>7, <3>2
    <3>4. ~(End(r[less + 1]) + 1 < low) /\ End(r[less + 1]) \in Nat
      BY <1>4, <1>5, <3>3
    <3>5. Holds(r[less + 1], v)
      BY <1>16, <2>1, <3>2, <3>4 DEF Holds
    <3> QED
      BY <1>14, <3>3, <3>5
  <2>2. CASE high < v
    <3>1. hi # high
      BY <1>10, <1>16, <2>2
    <3>2. less # last /\ hi = End(r[last])
      BY <1>8, <3>1
    <3>3. last \in 1..n /\ last <= last
      BY <1>4, <1>7, <3>2
    <3>4. r[last].value <= high + 1 /\ r[last].value \in Nat
      BY <1>4, <1>5, <3>3
    <3>5. Holds(r[last], v)
      BY <1>16, <2>2, <3>2, <3>4 DEF Holds
    <3> QED
      BY <1>14, <3>3, <3>5
  <2> QED
    BY <2>1, <2>2
<1>17. \A v \in Int : low <= v /\ v <= high => lo <= v /\ v <= hi
  BY <1>10
<1>18. \A v : v \in low..high <=> v \in Int /\ low <= v /\ v <= high
  OBVIOUS
<1>19. ASSUME NEW v PROVE v \in RunValues(new) <=> v \in RunValues(r) \/ v \in low..high
  <2>1. CASE v \in Int
    BY <1>3, <1>13, <1>15, <1>16, <1>17, <1>18, <2>1
  <2>2. CASE v \notin Int
    BY <1>3, <1>13, <1>14, <1>18, <2>2
  <2> QED
    BY <2>1, <2>2
<1> QED
  BY <1>3, <1>13, <1>19 DEF new

-------------------------------------------------------------------------------
(* A range removed *)

\* The first run that ends at v or after it is the p-th one.
EndsAt(r, v, p) ==
    /\ p \in 1..(Len(r) + 1) /\ p \in Nat
    /\ \A i \in 1..Len(r) : i < p <=> End(r[i]) < v
    /\ HasValue(r, v) <=> p <= Len(r) /\ r[p].value <= v

LEMMA FirstEndingIs ==
    ASSUME NEW r, Tidy(r), NEW v \in Nat, NEW p, p = FirstEndingFrom(r, v)
    PROVE  EndsAt(r, v, p)
<1> DEFINE n == Len(r)
           L == {i \in DOMAIN r : End(r[i]) < v}
           k == Cardinality(L)
<1>1. /\ n \in Nat /\ DOMAIN r = 1..n
      /\ \A i \in 1..n : r[i].value \in Nat /\ End(r[i]) \in Nat /\ r[i].value <= End(r[i])
      /\ \A i, j \in 1..n : i < j => End(r[i]) + 1 < r[j].value /\ End(r[i]) < End(r[j])
  BY RunsLegal
<1>2. p = 1 + k
  BY DEF FirstEndingFrom
<1>3. k \in 0..n /\ L = 1..k
  <2>1. L \in SUBSET (1..n)
    BY <1>1
  <2>2. ASSUME NEW i \in L, NEW j \in 1..n, j < i PROVE j \in L
    <3>1. End(r[j]) < End(r[i]) /\ End(r[j]) \in Nat /\ End(r[i]) \in Nat /\ End(r[i]) < v
      BY <1>1, <2>2
    <3> QED
      BY <1>1, <3>1
  <2> HIDE DEF L, n
  <2> QED
    BY <1>1, <2>1, <2>2, UpToPlace
<1>4. \A i \in 1..n : i \in L <=> End(r[i]) < v
  BY <1>1
<1>5. HasValue(r, v) <=> \E i \in 1..n : Holds(r[i], v)
  BY <1>1 DEF HasValue
<1> HIDE DEF L, k, n
<1>6. p \in 1..(n + 1) /\ p \in Nat /\ p >= 1
  BY <1>1, <1>2, <1>3
<1>7. \A i \in 1..n : i < p <=> End(r[i]) < v
  BY <1>1, <1>2, <1>3, <1>4
<1>8. ASSUME p <= n, r[p].value <= v PROVE HasValue(r, v)
  <2>1. p \in 1..n /\ ~(p < p)
    BY <1>6, <1>8
  <2>2. ~(End(r[p]) < v) /\ End(r[p]) \in Nat
    BY <1>1, <1>7, <2>1
  <2>3. Holds(r[p], v)
    BY <1>8, <2>2 DEF Holds
  <2> QED
    BY <1>5, <2>1, <2>3
<1>9. ASSUME NEW i \in 1..n, Holds(r[i], v) PROVE p <= n /\ r[p].value <= v
  <2>1. r[i].value <= v /\ v <= End(r[i]) /\ End(r[i]) \in Nat /\ r[i].value \in Nat
    BY <1>1, <1>9 DEF Holds
  <2>2. ~(i < p)
    BY <1>7, <2>1
  <2>3. p \in 1..n /\ p <= i /\ p <= n
    BY <1>1, <1>6, <2>2
  <2>4. p < i => End(r[p]) + 1 < r[i].value
    BY <1>1, <2>3
  <2>5. r[p].value <= End(r[p]) /\ r[p].value \in Nat /\ End(r[p]) \in Nat
    BY <1>1, <2>3
  <2>6. p = i \/ p < i
    BY <1>6, <2>3
  <2> QED
    BY <2>1, <2>3, <2>4, <2>5, <2>6
<1> QED
  BY <1>5, <1>6, <1>7, <1>8, <1>9 DEF EndsAt, n

\* What is left of the run that holds low, and of the one that holds high.
IsLeft(r, low, high, f, l, A, B) ==
    /\ Tidy(A) /\ A \in Seq(Run16) /\ Tidy(B) /\ B \in Seq(Run16)
    /\ \A v : v \in RunValues(A)
              <=> v \in Int /\ HasValue(r, low) /\ r[f].value <= v /\ v < low
    /\ \A v : v \in RunValues(B)
              <=> v \in Int /\ HasValue(r, high) /\ high < v /\ v <= End(r[l])

LEMMA LeftOfRange ==
    ASSUME NEW r, Tidy(r), NEW low \in Nat, NEW high \in Nat, low <= high, high < U,
           NEW f, EndsAt(r, low, f), NEW l, EndsAt(r, high, l), NEW A, NEW B,
           A = IF HasValue(r, low) /\ r[f].value < low
               THEN <<Run(r[f].value, low - 1 - r[f].value)>> ELSE <<>>,
           B = IF HasValue(r, high) /\ high < End(r[l])
               THEN <<Run(high + 1, End(r[l]) - (high + 1))>> ELSE <<>>
    PROVE  IsLeft(r, low, high, f, l, A, B)
<1>1. /\ Len(r) \in Nat
      /\ \A i \in 1..Len(r) : /\ r[i].value \in Nat /\ End(r[i]) \in Nat
                              /\ r[i].value <= End(r[i]) /\ End(r[i]) < U
  BY RunsLegal
<1>2. HasValue(r, low) => f \in 1..Len(r) /\ r[f].value \in Nat
  BY <1>1 DEF EndsAt
<1>3. HasValue(r, high) => l \in 1..Len(r) /\ End(r[l]) \in Nat /\ End(r[l]) < U
  BY <1>1 DEF EndsAt
<1>4. /\ Tidy(A) /\ A \in Seq(Run16)
      /\ \A v : v \in RunValues(A)
                <=> v \in Int /\ HasValue(r, low) /\ r[f].value <= v /\ v < low
  <2>1. CASE HasValue(r, low) /\ r[f].value < low
    <3> DEFINE a == r[f].value
               k == low - 1 - a
    <3>1. a \in Nat /\ k \in Nat /\ a + k < U /\ a + k = low - 1
      BY <1>2, <2>1, UAssumption
    <3>2. A = <<Run(a, k)>>
      BY <2>1
    <3> HIDE DEF a, k
    <3>3. /\ Tidy(A) /\ Run(a, k) \in Run16
          /\ \A v : v \in RunValues(A) <=> v \in Int /\ a <= v /\ v <= a + k
      BY <3>1, <3>2, OneMid
    <3>4. A \in Seq(Run16)
      BY <3>2, <3>3
    <3>5. \A v \in Int : v <= a + k <=> v < low
      BY <3>1
    <3> QED
      BY <2>1, <3>3, <3>4, <3>5 DEF a
  <2>2. CASE ~(HasValue(r, low) /\ r[f].value < low)
    <3>1. A = <<>>
      BY <2>2
    <3>2. Tidy(A) /\ RunValues(A) = {} /\ A \in Seq(Run16)
      BY <3>1, NoRunIsTidy
    <3>3. HasValue(r, low) => r[f].value \in Nat /\ ~(r[f].value < low)
      BY <1>2, <2>2
    <3>4. \A v \in Int : HasValue(r, low) => ~(r[f].value <= v /\ v < low)
      BY <3>3
    <3> QED
      BY <3>2, <3>4
  <2> QED
    BY <2>1, <2>2
<1>5. /\ Tidy(B) /\ B \in Seq(Run16)
      /\ \A v : v \in RunValues(B)
                <=> v \in Int /\ HasValue(r, high) /\ high < v /\ v <= End(r[l])
  <2>1. CASE HasValue(r, high) /\ high < End(r[l])
    <3> DEFINE e == End(r[l])
               a == high + 1
               k == e - a
    <3>1. a \in Nat /\ k \in Nat /\ a + k < U /\ a + k = e
      BY <1>3, <2>1, UAssumption
    <3>2. B = <<Run(a, k)>>
      BY <2>1
    <3>5. \A v \in Int : a <= v <=> high < v
      OBVIOUS
    <3> HIDE DEF a, k, e
    <3>3. /\ Tidy(B) /\ Run(a, k) \in Run16
          /\ \A v : v \in RunValues(B) <=> v \in Int /\ a <= v /\ v <= a + k
      BY <3>1, <3>2, OneMid
    <3>4. B \in Seq(Run16)
      BY <3>2, <3>3
    <3> QED
      BY <2>1, <3>1, <3>3, <3>4, <3>5 DEF e
  <2>2. CASE ~(HasValue(r, high) /\ high < End(r[l]))
    <3>1. B = <<>>
      BY <2>2
    <3>2. Tidy(B) /\ RunValues(B) = {} /\ B \in Seq(Run16)
      BY <3>1, NoRunIsTidy
    <3>3. HasValue(r, high) => End(r[l]) \in Nat /\ ~(high < End(r[l]))
      BY <1>3, <2>2
    <3>4. \A v \in Int : HasValue(r, high) => ~(high < v /\ v <= End(r[l]))
      BY <3>3
    <3> QED
      BY <3>2, <3>4
  <2> QED
    BY <2>1, <2>2
<1> QED
  BY <1>4, <1>5 DEF IsLeft

LEMMA RemoveRangeExact ==
    ASSUME NEW r, Tidy(r), NEW low \in Nat, NEW high \in Nat, low <= high, high < U
    PROVE  /\ Tidy(RemoveRange(r, low, high))
           /\ RunValues(RemoveRange(r, low, high)) = RunValues(r) \ (low..high)
<1> DEFINE n == Len(r)
           new == RemoveRange(r, low, high)
           f == FirstEndingFrom(r, low)
           l == FirstEndingFrom(r, high)
           A == IF HasValue(r, low) /\ r[f].value < low
                THEN <<Run(r[f].value, low - 1 - r[f].value)>> ELSE <<>>
           B == IF HasValue(r, high) /\ high < End(r[l])
                THEN <<Run(high + 1, End(r[l]) - (high + 1))>> ELSE <<>>
           mid == A \o B
           a == f - 1
           b == IF HasValue(r, high) THEN l ELSE l - 1
           next == IF HasValue(r, high) THEN l + 1 ELSE l
<1>1. new = SubSeq(r, 1, a) \o A \o B \o SubSeq(r, next, n)
  BY Zenon DEF RemoveRange
<1>2. /\ n \in Nat
      /\ \A i \in 1..n : /\ r[i].value \in Nat /\ End(r[i]) \in Nat
                         /\ r[i].value <= End(r[i]) /\ End(r[i]) < U
      /\ \A i, j \in 1..n : i < j => End(r[i]) + 1 < r[j].value /\ End(r[i]) < End(r[j])
  BY RunsLegal
<1>3. EndsAt(r, low, f) /\ EndsAt(r, high, l)
  BY FirstEndingIs
<1>4. /\ Tidy(A) /\ A \in Seq(Run16) /\ Tidy(B) /\ B \in Seq(Run16)
      /\ \A v : v \in RunValues(A)
                <=> v \in Int /\ HasValue(r, low) /\ r[f].value <= v /\ v < low
      /\ \A v : v \in RunValues(B)
                <=> v \in Int /\ HasValue(r, high) /\ high < v /\ v <= End(r[l])
  <2>1. /\ A = IF HasValue(r, low) /\ r[f].value < low
               THEN <<Run(r[f].value, low - 1 - r[f].value)>> ELSE <<>>
        /\ B = IF HasValue(r, high) /\ high < End(r[l])
               THEN <<Run(high + 1, End(r[l]) - (high + 1))>> ELSE <<>>
    OBVIOUS
  <2> HIDE DEF A, B, f, l
  <2>2. IsLeft(r, low, high, f, l, A, B)
    BY <1>3, <2>1, LeftOfRange
  <2> QED
    BY <2>2 DEF IsLeft
<1> HIDE DEF new, f, l, n, A, B
<1>5. /\ f \in 1..(n + 1) /\ f \in Nat /\ f >= 1
      /\ \A i \in 1..n : i < f <=> End(r[i]) < low
      /\ HasValue(r, low) <=> f <= n /\ r[f].value <= low
  BY <1>2, <1>3 DEF EndsAt, n
<1>6. /\ l \in 1..(n + 1) /\ l \in Nat /\ l >= 1
      /\ \A i \in 1..n : i < l <=> End(r[i]) < high
      /\ HasValue(r, high) <=> l <= n /\ r[l].value <= high
  BY <1>2, <1>3 DEF EndsAt, n
<1>7. f <= l
  <2> SUFFICES ASSUME l < f PROVE FALSE
    BY <1>5, <1>6
  <2>1. l \in 1..n /\ ~(l < l)
    BY <1>2, <1>5, <1>6
  <2>2. End(r[l]) < low /\ ~(End(r[l]) < high) /\ End(r[l]) \in Nat
    BY <1>2, <1>5, <1>6, <2>1
  <2> QED
    BY <2>2
<1>8. a \in 0..n /\ b \in a..n /\ next = b + 1 /\ a \in Nat /\ b \in Nat
  BY <1>2, <1>5, <1>6, <1>7
<1>9. new = Spliced(r, a, b, mid)
  <2>1. SubSeq(r, 1, a) \in Seq(Run16)
    BY <1>8, RunsLegal DEF n
  <2>2. (SubSeq(r, 1, a) \o A) \o B = SubSeq(r, 1, a) \o (A \o B)
    BY <1>4, <2>1, JoinedTwice
  <2> QED
    BY <1>1, <1>8, <2>2, Zenon DEF Spliced, n
<1>10. Tidy(mid) /\ RunValues(mid) = RunValues(A) \cup RunValues(B)
  <2>1. ASSUME NEW x \in RunValues(A), NEW y \in RunValues(B) PROVE x + 1 < y
    <3>1. x \in Int /\ x < low /\ y \in Int /\ high < y
      BY <1>4
    <3> QED
      BY <3>1
  <2> QED
    BY <1>4, <2>1, JoinedIs DEF Tidy
<1> DEFINE hasLow == HasValue(r, low)
           hasHigh == HasValue(r, high)
<1>11. ASSUME NEW v
       PROVE  v \in RunValues(mid)
              <=> v \in Int /\ \/ hasLow /\ r[f].value <= v /\ v < low
                               \/ hasHigh /\ high < v /\ v <= End(r[l])
  BY <1>4, <1>10
<1>12. hasHigh => b = l /\ l \in 1..n /\ r[l].value <= high
  BY <1>2, <1>6
<1>13. ~hasHigh => b = l - 1 /\ (l <= n => l \in 1..n /\ high < r[l].value)
  <2>1. l <= n => l \in 1..n /\ r[l].value \in Nat
    BY <1>2, <1>6
  <2> QED
    BY <1>6, <2>1
<1>14. hasLow => f \in 1..n /\ r[f].value <= low /\ low <= End(r[f])
  <2>1. f <= n => f \in 1..n /\ ~(f < f)
    BY <1>2, <1>5
  <2>2. f <= n => ~(End(r[f]) < low) /\ End(r[f]) \in Nat
    BY <1>2, <1>5, <2>1
  <2> QED
    BY <1>5, <2>1, <2>2
<1>15. hasHigh => high <= End(r[l])
  <2>1. l <= n => l \in 1..n /\ ~(l < l)
    BY <1>2, <1>6
  <2>2. l <= n => ~(End(r[l]) < high) /\ End(r[l]) \in Nat
    BY <1>2, <1>6, <2>1
  <2> QED
    BY <1>6, <2>2
<1> HIDE DEF hasLow, hasHigh, mid, a, b, next
<1>16. a = f - 1
  BY DEF a

\* Which runs end before the range, and which begin after it.
<1>17. ASSUME NEW i \in 1..n, i <= a PROVE End(r[i]) < low
  BY <1>2, <1>5, <1>16, <1>17
<1>18. ASSUME NEW i \in 1..n, i > b PROVE high < r[i].value
  <2>1. i \in Nat /\ r[i].value \in Nat
    BY <1>2
  <2>2. CASE hasHigh
    <3>1. l < i /\ l \in 1..n
      BY <1>12, <1>18, <2>2
    <3>2. End(r[l]) + 1 < r[i].value /\ End(r[l]) \in Nat
      BY <1>2, <3>1
    <3> QED
      BY <1>15, <2>1, <2>2, <3>2
  <2>3. CASE ~hasHigh
    <3>1. l <= i /\ l <= n
      BY <1>2, <1>6, <1>13, <1>18, <2>1, <2>3
    <3>2. l \in 1..n /\ high < r[l].value /\ (l = i \/ l < i)
      BY <1>6, <1>13, <2>1, <2>3, <3>1
    <3>3. l < i => End(r[l]) + 1 < r[i].value
      BY <1>2, <3>2
    <3>4. r[l].value <= End(r[l]) /\ r[l].value \in Nat /\ End(r[l]) \in Nat
      BY <1>2, <3>2
    <3> QED
      BY <2>1, <3>2, <3>3, <3>4
  <2> QED
    BY <2>2, <2>3
<1>19. FitsIn(r, a, b, mid)
  <2>1. a # 0 => a \in 1..n /\ a <= a
    BY <1>8
  <2>2. a # 0 => End(r[a]) < low /\ End(r[a]) \in Nat
    BY <1>2, <1>17, <2>1
  <2>3. b # n => b + 1 \in 1..n /\ b + 1 > b
    BY <1>2, <1>8
  <2>4. b # n => high < r[b + 1].value /\ r[b + 1].value \in Nat
    BY <1>2, <1>18, <2>3
  <2>5. ASSUME NEW v \in RunValues(mid), a # 0 PROVE End(r[a]) + 1 < v
    <3>1. v \in Int
      BY <1>11
    <3>2. CASE hasLow /\ r[f].value <= v /\ v < low
      <4>1. a \in 1..n /\ f \in 1..n /\ a < f
        BY <1>5, <1>14, <1>16, <2>1, <2>5, <3>2
      <4>2. End(r[a]) + 1 < r[f].value /\ r[f].value \in Nat
        BY <1>2, <4>1
      <4> QED
        BY <2>2, <2>5, <3>1, <3>2, <4>2
    <3>3. CASE high < v
      BY <2>2, <2>5, <3>1, <3>3
    <3> QED
      BY <1>11, <3>2, <3>3
  <2>6. ASSUME NEW v \in RunValues(mid), b # n PROVE v + 1 < r[b + 1].value
    <3>1. v \in Int
      BY <1>11
    <3>2. CASE v < low
      BY <2>4, <2>6, <3>1, <3>2
    <3>3. CASE hasHigh /\ high < v /\ v <= End(r[l])
      <4>1. l \in 1..n /\ b + 1 \in 1..n /\ l < b + 1
        BY <1>12, <2>3, <2>6, <3>3
      <4>2. End(r[l]) + 1 < r[b + 1].value /\ End(r[l]) \in Nat
        BY <1>2, <4>1
      <4> QED
        BY <2>4, <2>6, <3>1, <3>3, <4>2
    <3> QED
      BY <1>11, <3>2, <3>3
  <2> QED
    BY <2>5, <2>6 DEF FitsIn, n
<1>20. /\ Tidy(Spliced(r, a, b, mid))
       /\ \A v : v \in RunValues(Spliced(r, a, b, mid))
                 <=> v \in RunValues(mid) \/ (v \in RunValues(r) /\ ~InMiddle(r, a, b, v))
  BY <1>8, <1>10, <1>19, SplicedValues DEF n
<1>21. \A v : v \in RunValues(r) <=> v \in Int /\ \E i \in 1..n : Holds(r[i], v)
  BY RunsLegal, InRuns DEF n

\* What is left of two runs was in them and is not of the range.
<1>22. ASSUME NEW v \in RunValues(mid) PROVE v \in RunValues(r) /\ ~(low <= v /\ v <= high)
  <2>1. v \in Int
    BY <1>11
  <2>2. CASE hasLow /\ r[f].value <= v /\ v < low
    <3>1. f \in 1..n /\ r[f].value \in Nat /\ End(r[f]) \in Nat
      BY <1>2, <1>14, <2>2
    <3>2. Holds(r[f], v)
      BY <1>14, <2>1, <2>2, <3>1 DEF Holds
    <3> QED
      BY <1>21, <2>1, <2>2, <3>1, <3>2
  <2>3. CASE hasHigh /\ high < v /\ v <= End(r[l])
    <3>1. l \in 1..n /\ r[l].value \in Nat /\ End(r[l]) \in Nat
      BY <1>2, <1>12, <2>3
    <3>2. Holds(r[l], v)
      BY <1>12, <2>1, <2>3, <3>1 DEF Holds
    <3> QED
      BY <1>21, <2>1, <2>3, <3>1, <3>2
  <2> QED
    BY <1>11, <2>2, <2>3

\* A number of another run is not of the range.
<1>23. ASSUME NEW v \in Int, v \in RunValues(r), ~InMiddle(r, a, b, v)
       PROVE  ~(low <= v /\ v <= high)
  <2>1. PICK i \in 1..n : Holds(r[i], v)
    BY <1>21, <1>23
  <2>2. r[i].value <= v /\ v <= End(r[i]) /\ r[i].value \in Nat /\ End(r[i]) \in Nat /\ i \in Nat
    BY <1>2, <2>1 DEF Holds
  <2>3. ~(a < i /\ i <= b)
    BY <1>23, <2>1 DEF InMiddle, n
  <2>4. i <= a \/ i > b
    BY <1>8, <2>2, <2>3
  <2> QED
    BY <1>17, <1>18, <2>2, <2>4

\* A number of the runs in between that is not of the range is of what is left.
<1>24. ASSUME NEW v \in Int, InMiddle(r, a, b, v), ~(low <= v /\ v <= high)
       PROVE  v \in RunValues(mid)
  <2>1. PICK i \in 1..n : a < i /\ i <= b /\ Holds(r[i], v)
    BY <1>24 DEF InMiddle, n
  <2>2. r[i].value <= v /\ v <= End(r[i]) /\ r[i].value \in Nat /\ End(r[i]) \in Nat /\ i \in Nat
    BY <1>2, <2>1 DEF Holds
  <2>3. CASE v < low
    <3>1. ~(i < f) /\ f <= i /\ f \in 1..n
      BY <1>2, <1>5, <1>16, <2>1, <2>2
    <3>2. ~(End(r[f]) < low) /\ End(r[f]) \in Nat /\ r[f].value \in Nat /\ ~(f < f)
      BY <1>2, <1>5, <3>1
    <3>3. ~(f < i)
      <4> SUFFICES ASSUME f < i PROVE FALSE
        OBVIOUS
      <4>1. End(r[f]) + 1 < r[i].value
        BY <1>2, <3>1
      <4> QED
        BY <2>2, <2>3, <3>2, <4>1
    <3>4. i = f
      BY <1>5, <2>2, <3>1, <3>3
    <3>5. hasLow
      <4>1. r[f].value <= low /\ f <= n
        BY <2>2, <2>3, <3>1, <3>4
      <4> QED
        BY <1>5, <4>1 DEF hasLow
    <3> QED
      BY <1>11, <2>2, <2>3, <3>4, <3>5
  <2>4. CASE high < v
    <3>1. ~(i < l)
      <4> SUFFICES ASSUME i < l PROVE FALSE
        OBVIOUS
      <4>1. End(r[i]) < high
        BY <1>6
      <4> QED
        BY <2>2, <2>4, <4>1
    <3>2. hasHigh /\ i = l
      BY <1>6, <1>12, <1>13, <2>1, <2>2, <3>1
    <3> QED
      BY <1>11, <2>2, <2>4, <3>2
  <2> QED
    BY <1>24, <2>3, <2>4
<1>25. \A v : v \in low..high <=> v \in Int /\ low <= v /\ v <= high
  OBVIOUS
<1>26. ASSUME NEW v PROVE v \in RunValues(new) <=> v \in RunValues(r) /\ v \notin low..high
  <2>1. CASE v \in Int
    BY <1>9, <1>20, <1>22, <1>23, <1>24, <1>25, <2>1
  <2>2. CASE v \notin Int
    BY <1>9, <1>11, <1>20, <1>21, <2>2
  <2> QED
    BY <2>1, <2>2
<1> QED
  BY <1>9, <1>20, <1>26 DEF new

-------------------------------------------------------------------------------
(* What each operation makes of containers that the library makes *)

LEMMA PlusMakes ==
    ASSUME NEW d \in Operands, NEW v \in Numbers
    PROVE  Makes(Plus(d, v), ValuesOf(d) \cup {v})
<1>0. AnArray(d) \/ ABitset(d) \/ SomeRuns(d)
  BY KindsAre
<1>1. CASE AnArray(d)
  <2>1. d.kind = "array" /\ d.vals \cup {v} \in SUBSET Numbers /\ ValuesOf(d) = d.vals
    BY <1>1 DEF AnArray
  <2>2. Plus(d, v) = ByCard(d.vals \cup {v}, Cardinality(d.vals \cup {v}))
    BY <2>1 DEF Plus
  <2> QED
    BY <2>1, <2>2, MakesByCard
<1>2. CASE ABitset(d)
  <2>1. /\ d.kind = "bitset" /\ d.vals \in SUBSET Numbers /\ ValuesOf(d) = d.vals
        /\ d.card = Cardinality(d.vals) /\ Cardinality(d.vals) > MaxArray
        /\ {v} \in SUBSET Numbers /\ d.vals \cup {v} \in SUBSET Numbers
    BY <1>2 DEF ABitset
  <2>2. Plus(d, v) = BitsetOf(d.vals \cup {v}, SetListCard(d.card, d.vals, {v}))
    BY <2>1 DEF Plus
  <2>3. SetListCard(d.card, d.vals, {v}) = Cardinality(d.vals \cup {v})
    BY <2>1, SizeOfUnion
  <2>4. Cardinality(d.vals \cup {v}) > MaxArray
    <3>1. /\ Cardinality(d.vals) \in Nat /\ Cardinality(d.vals \cup {v}) \in Nat
          /\ Cardinality(d.vals) <= Cardinality(d.vals \cup {v})
      BY <2>1, SizeIs, SizeOfUnion
    <3> QED
      BY <2>1, <3>1, SizesAssumption
  <2> QED
    BY <2>1, <2>2, <2>3, <2>4, OfBitset
<1>3. CASE SomeRuns(d)
  <2>1. d.kind = "run" /\ Tidy(d.runs) /\ ValuesOf(d) = RunValues(d.runs)
    BY <1>3 DEF SomeRuns
  <2>2. Plus(d, v) = RunsAs(AddValue(d.runs, v))
    BY <2>1 DEF Plus
  <2>3. Tidy(AddValue(d.runs, v)) /\ RunValues(AddValue(d.runs, v)) = ValuesOf(d) \cup {v}
    BY <2>1, AddValueExact
  <2> QED
    BY <2>2, <2>3, MakesRuns
<1> QED
  BY <1>0, <1>1, <1>2, <1>3

LEMMA MinusMakes ==
    ASSUME NEW d \in Operands, NEW v \in Numbers
    PROVE  Makes(Minus(d, v), ValuesOf(d) \ {v})
<1>0. AnArray(d) \/ ABitset(d) \/ SomeRuns(d)
  BY KindsAre
<1>1. CASE AnArray(d)
  <2>1. /\ d.kind = "array" /\ d.vals \in SUBSET Numbers /\ ValuesOf(d) = d.vals
        /\ {v} \in SUBSET Numbers /\ d.vals \ {v} \in SUBSET Numbers /\ Cardinality(d.vals) \in 1..MaxArray
    BY <1>1 DEF AnArray
  <2>2. Minus(d, v) = ArrayOf(d.vals \ {v})
    BY <2>1 DEF Minus
  <2>3. Cardinality(d.vals \ {v}) <= MaxArray
    <3>1. /\ Cardinality(d.vals) \in Nat /\ Cardinality(d.vals \ {v}) \in Nat
          /\ Cardinality(d.vals \ {v}) <= Cardinality(d.vals)
      BY <2>1, SizeIs, SizeOfRest
    <3> QED
      BY <2>1, <3>1, SizesAssumption
  <2> QED
    BY <2>1, <2>2, <2>3, MakesArray
<1>2. CASE ABitset(d)
  <2>1. /\ d.kind = "bitset" /\ d.vals \in SUBSET Numbers /\ ValuesOf(d) = d.vals
        /\ d.card = Cardinality(d.vals) /\ {v} \in SUBSET Numbers /\ d.vals \ {v} \in SUBSET Numbers
    BY <1>2 DEF ABitset
  <2>2. Minus(d, v) = ByCard(d.vals \ {v}, ClearListCard(d.card, d.vals, {v}))
    BY <2>1 DEF Minus
  <2>3. ClearListCard(d.card, d.vals, {v}) = Cardinality(d.vals \ {v})
    BY <2>1, SizeOfRest
  <2> QED
    BY <2>1, <2>2, <2>3, OfCard
<1>3. CASE SomeRuns(d)
  <2>1. d.kind = "run" /\ Tidy(d.runs) /\ ValuesOf(d) = RunValues(d.runs)
    BY <1>3 DEF SomeRuns
  <2>2. Minus(d, v) = RunsAs(RemoveValue(d.runs, v))
    BY <2>1 DEF Minus
  <2>3. Tidy(RemoveValue(d.runs, v)) /\ RunValues(RemoveValue(d.runs, v)) = ValuesOf(d) \ {v}
    BY <2>1, RemoveValueExact
  <2> QED
    BY <2>2, <2>3, MakesRuns
<1> QED
  BY <1>0, <1>1, <1>2, <1>3

LEMMA RangeFits ==
    ASSUME NEW low \in Numbers, NEW high \in low..(U - 1)
    PROVE  /\ low \in Nat /\ high \in Nat /\ low <= high /\ high < U
           /\ low..high \in SUBSET Numbers /\ low..high # {}
           /\ Cardinality(low..high) = high - low + 1
<1>1. low \in Nat /\ high \in Nat /\ low <= high /\ high < U
  BY UAssumption DEF Numbers
<1>2. low..high \in SUBSET Numbers
  <2>1. ASSUME NEW v \in low..high PROVE v \in Numbers
    BY <1>1, <2>1, UAssumption DEF Numbers
  <2> QED
    BY <2>1
<1>3. low \in low..high
  BY <1>1
<1>4. low \in Int /\ high \in Int
  BY <1>1
<1>5. Cardinality(low..high) = IF low > high THEN 0 ELSE high - low + 1
  BY <1>4, FS_Interval
<1> QED
  BY <1>1, <1>2, <1>3, <1>5

LEMMA PlusRangeMakes ==
    ASSUME NEW d \in Operands, NEW low \in Numbers, NEW high \in low..(U - 1)
    PROVE  Makes(PlusRange(d, low, high), ValuesOf(d) \cup (low..high))
<1> DEFINE T == low..high
           vals == ValuesOf(d) \cup T
           card == CardOf(d) + (high - low + 1) - Cardinality(ValuesOf(d) \cap T)
<1>0. AnArray(d) \/ ABitset(d) \/ SomeRuns(d)
  BY KindsAre
<1>1. /\ low \in Nat /\ high \in Nat /\ low <= high /\ high < U
      /\ T \in SUBSET Numbers /\ Cardinality(T) = high - low + 1
  BY RangeFits
<1>2. ValuesOf(d) \in SUBSET Numbers /\ CardOf(d) = Cardinality(ValuesOf(d)) /\ CardOf(d) \in Nat
  BY OperandFits
<1>3. /\ card = Cardinality(vals) /\ vals \in SUBSET Numbers /\ CardOf(d) <= card /\ card \in Nat
  <2> HIDE DEF T
  <2>1. vals \in SUBSET Numbers
    BY <1>1, <1>2
  <2>2. Cardinality(vals) = Cardinality(ValuesOf(d)) + Cardinality(T) - Cardinality(ValuesOf(d) \cap T)
    BY <1>1, <1>2, SizeOfUnion
  <2>3. Cardinality(ValuesOf(d)) <= Cardinality(vals)
    BY <1>1, <1>2, SizeOfUnion
  <2>4. Cardinality(vals) \in Nat
    BY <2>1, SizeIs
  <2>5. card = Cardinality(vals)
    BY <1>1, <1>2, <2>2
  <2> HIDE DEF card, vals
  <2> QED
    BY <1>2, <2>1, <2>3, <2>4, <2>5
<1>4. PlusRange(d, low, high) =
        CASE d.kind # "run" /\ card = U -> RunsAs(FullRun)
          [] d.kind = "bitset" /\ card # U -> BitsetOf(vals, card)
          [] d.kind = "array" /\ card # U -> ByCard(vals, card)
          [] d.kind = "run" -> IF RunEntryBytes * Len(AddRange(d.runs, low, high)) <= BitsetBytes
                               THEN RunsAs(AddRange(d.runs, low, high)) ELSE ByCard(vals, card)
  BY Zenon DEF PlusRange
<1> HIDE DEF card, vals, T
<1>5. CASE card = U /\ d.kind # "run"
  <2>1. vals = Numbers
    BY <1>3, <1>5, AllNumbers
  <2>2. PlusRange(d, low, high) = RunsAs(FullRun)
    BY <1>4, <1>5
  <2>3. Makes(PlusRange(d, low, high), vals)
    BY <2>1, <2>2, FullRunAll, MakesRuns
  <2> QED
    BY <2>3 DEF vals, T
<1>6. CASE card # U /\ AnArray(d)
  <2>1. PlusRange(d, low, high) = ByCard(vals, card)
    BY <1>4, <1>6 DEF AnArray
  <2>2. Makes(PlusRange(d, low, high), vals)
    BY <1>3, <2>1, OfCard
  <2> QED
    BY <2>2 DEF vals, T
<1>7. CASE card # U /\ ABitset(d)
  <2>1. PlusRange(d, low, high) = BitsetOf(vals, card)
    BY <1>4, <1>7 DEF ABitset
  <2>2. CardOf(d) > MaxArray
    BY <1>7 DEF ABitset
  <2>3. Makes(PlusRange(d, low, high), vals)
    BY <1>2, <1>3, <2>1, <2>2, SizesAssumption, OfBitset
  <2> QED
    BY <2>3 DEF vals, T
<1>8. CASE SomeRuns(d)
  <2>1. d.kind = "run" /\ Tidy(d.runs) /\ ValuesOf(d) = RunValues(d.runs)
    BY <1>8 DEF SomeRuns
  <2>2. Tidy(AddRange(d.runs, low, high)) /\ RunValues(AddRange(d.runs, low, high)) = vals
    BY <1>1, <2>1, AddRangeExact DEF vals, T
  <2>3. Makes(RunsAs(AddRange(d.runs, low, high)), vals)
    BY <2>2, MakesRuns
  <2>4. Makes(ByCard(vals, card), vals)
    BY <1>3, OfCard
  <2>5. \/ PlusRange(d, low, high) = RunsAs(AddRange(d.runs, low, high))
        \/ PlusRange(d, low, high) = ByCard(vals, card)
    BY <1>4, <2>1
  <2>6. Makes(PlusRange(d, low, high), vals)
    BY <2>3, <2>4, <2>5, Zenon
  <2> QED
    BY <2>6 DEF vals, T
<1> QED
  BY <1>0, <1>5, <1>6, <1>7, <1>8 DEF AnArray, ABitset

\* Removing a range leaves no container, or one that has a number.
MakesSome(d, S) == (d = Null /\ S = {}) \/ (S # {} /\ Makes(d, S))

LEMMA RangeOutside ==
    ASSUME NEW r, Tidy(r), r # <<>>, NEW low \in Nat, NEW high \in Nat
    PROVE  IF low <= r[1].value /\ End(r[Len(r)]) <= high
           THEN RunValues(r) \ (low..high) = {} ELSE RunValues(r) \ (low..high) # {}
<1> DEFINE n == Len(r)
<1>1. /\ r \in Seq(Run16) /\ n \in Nat
      /\ \A i \in 1..n : /\ r[i].value \in Nat /\ End(r[i]) \in Nat /\ r[i].value <= End(r[i])
                         /\ Legal(r[i])
      /\ \A i, j \in 1..n : i < j => End(r[i]) + 1 < r[j].value
  BY RunsLegal
<1>2. 1 \in 1..n /\ n \in 1..n
  BY <1>1
<1>3. \A v : v \in RunValues(r) <=> v \in Int /\ \E i \in 1..n : Holds(r[i], v)
  BY <1>1, InRuns
<1> HIDE DEF n
<1>4. CASE low <= r[1].value /\ End(r[n]) <= high
  <2>1. ASSUME NEW v \in RunValues(r) PROVE v \in low..high
    <3>1. PICK i \in 1..n : v \in Int /\ Holds(r[i], v)
      BY <1>3
    <3>2. r[i].value <= v /\ v <= End(r[i]) /\ r[i].value \in Nat /\ End(r[i]) \in Nat
      BY <1>1, <3>1 DEF Holds
    <3>3. r[1].value <= r[i].value
      <4>1. CASE i = 1
        BY <4>1, <3>2
      <4>2. CASE i # 1
        <5>1. 1 < i
          BY <4>2
        <5>2. End(r[1]) + 1 < r[i].value /\ r[1].value <= End(r[1])
              /\ r[1].value \in Nat /\ End(r[1]) \in Nat
          BY <1>1, <1>2, <5>1
        <5> QED
          BY <3>2, <5>2
      <4> QED
        BY <4>1, <4>2
    <3>4. End(r[i]) <= End(r[n])
      <4>1. CASE i = n
        BY <4>1, <3>2
      <4>2. CASE i # n
        <5>1. i < n
          BY <4>2, <1>1
        <5>2. End(r[i]) + 1 < r[n].value /\ r[n].value <= End(r[n])
              /\ r[n].value \in Nat /\ End(r[n]) \in Nat
          BY <1>1, <1>2, <5>1
        <5> QED
          BY <3>2, <5>2
      <4> QED
        BY <4>1, <4>2
    <3>5. r[1].value \in Nat /\ End(r[n]) \in Nat
      BY <1>1, <1>2
    <3> QED
      BY <1>4, <3>1, <3>2, <3>3, <3>4, <3>5
  <2>2. RunValues(r) \ (low..high) = {}
    BY <2>1
  <2> QED
    BY <1>4, <2>2, Zenon DEF n
<1>5. CASE ~(low <= r[1].value)
  <2>1. r[1].value \in RunValues(r)
    <3>1. Holds(r[1], r[1].value) /\ r[1].value \in Int
      BY <1>1, <1>2, LegalIs
    <3> QED
      BY <1>2, <1>3, <3>1
  <2>2. r[1].value \notin low..high
    BY <1>5
  <2>3. RunValues(r) \ (low..high) # {}
    BY <2>1, <2>2
  <2> QED
    BY <1>5, <2>3, Zenon
<1>6. CASE ~(End(r[n]) <= high)
  <2>1. End(r[n]) \in RunValues(r)
    <3>1. Holds(r[n], End(r[n])) /\ End(r[n]) \in Int
      BY <1>1, <1>2, LegalIs
    <3> QED
      BY <1>2, <1>3, <3>1
  <2>2. End(r[n]) \notin low..high
    BY <1>6
  <2>3. RunValues(r) \ (low..high) # {}
    BY <2>1, <2>2
  <2> QED
    BY <1>6, <2>3, Zenon DEF n
<1> QED
  BY <1>4, <1>5, <1>6

LEMMA MinusRangeMakes ==
    ASSUME NEW d \in Operands, NEW low \in Numbers, NEW high \in low..(U - 1)
    PROVE  MakesSome(MinusRange(d, low, high), ValuesOf(d) \ (low..high))
<1> DEFINE T == low..high
           vals == ValuesOf(d) \ T
           card == CardOf(d) - Cardinality(ValuesOf(d) \cap T)
           new == MinusRange(d, low, high)
<1>0. AnArray(d) \/ ABitset(d) \/ SomeRuns(d)
  BY KindsAre
<1>1. low \in Nat /\ high \in Nat /\ low <= high /\ high < U /\ T \in SUBSET Numbers
  BY RangeFits
<1>2. ValuesOf(d) \in SUBSET Numbers /\ CardOf(d) = Cardinality(ValuesOf(d)) /\ CardOf(d) \in Nat
  BY OperandFits
<1>3. /\ card = Cardinality(vals) /\ vals \in SUBSET Numbers /\ card <= CardOf(d) /\ card \in Nat
  <2> HIDE DEF T
  <2>1. vals \in SUBSET Numbers
    BY <1>1, <1>2
  <2>2. Cardinality(vals) = Cardinality(ValuesOf(d)) - Cardinality(ValuesOf(d) \cap T)
    BY <1>1, <1>2, SizeOfRest
  <2>3. Cardinality(vals) <= Cardinality(ValuesOf(d))
    BY <1>1, <1>2, SizeOfRest
  <2>4. Cardinality(vals) \in Nat
    BY <2>1, SizeIs
  <2>5. card = Cardinality(vals)
    BY <1>1, <1>2, <2>2
  <2> HIDE DEF card, vals
  <2> QED
    BY <1>2, <2>1, <2>3, <2>4, <2>5
<1>4. new = IF d.kind = "run"
            THEN IF low <= d.runs[1].value /\ End(d.runs[Len(d.runs)]) <= high THEN Null
                 ELSE Efficient(RemoveRange(d.runs, low, high))
            ELSE IF card = 0 THEN Null
            ELSE IF d.kind = "array" THEN ArrayOf(vals) ELSE ByCard(vals, card)
  BY Zenon DEF MinusRange
<1>5. card = 0 <=> vals = {}
  <2>1. IsFiniteSet(vals)
    BY <1>3, SizeIs
  <2> HIDE DEF card, vals
  <2> QED
    BY <1>3, <2>1, FS_EmptySet
<1> HIDE DEF card, vals, T, new
<1>6. CASE d.kind # "run" /\ card = 0
  <2>1. new = Null
    BY <1>4, <1>6
  <2> QED
    BY <1>5, <1>6, <2>1 DEF MakesSome, vals, T, new
<1>7. CASE card # 0 /\ AnArray(d)
  <2>1. new = ArrayOf(vals)
    BY <1>4, <1>7 DEF AnArray
  <2>2. Cardinality(vals) <= MaxArray
    BY <1>2, <1>3, <1>7, SizesAssumption DEF AnArray
  <2>3. Makes(new, vals)
    BY <1>3, <2>1, <2>2, MakesArray
  <2> QED
    BY <1>5, <1>7, <2>3 DEF MakesSome, vals, T, new
<1>8. CASE card # 0 /\ ABitset(d)
  <2>1. new = ByCard(vals, card)
    BY <1>4, <1>8 DEF ABitset
  <2>3. Makes(new, vals)
    BY <1>3, <2>1, OfCard
  <2> QED
    BY <1>5, <1>8, <2>3 DEF MakesSome, vals, T, new
<1>9. CASE SomeRuns(d)
  <2>1. d.kind = "run" /\ Tidy(d.runs) /\ ValuesOf(d) = RunValues(d.runs) /\ d.runs # <<>>
    BY <1>9 DEF SomeRuns
  <2>2. Tidy(RemoveRange(d.runs, low, high)) /\ RunValues(RemoveRange(d.runs, low, high)) = vals
    BY <1>1, <2>1, RemoveRangeExact DEF vals, T
  <2>3. Makes(Efficient(RemoveRange(d.runs, low, high)), vals)
    BY <2>2, MakesEfficient
  <2>4. IF low <= d.runs[1].value /\ End(d.runs[Len(d.runs)]) <= high THEN vals = {} ELSE vals # {}
    BY <1>1, <2>1, RangeOutside DEF vals, T
  <2>5. CASE low <= d.runs[1].value /\ End(d.runs[Len(d.runs)]) <= high
    <3>1. new = Null /\ vals = {}
      BY <1>4, <2>1, <2>4, <2>5
    <3> QED
      BY <3>1 DEF MakesSome, vals, T, new
  <2>6. CASE ~(low <= d.runs[1].value /\ End(d.runs[Len(d.runs)]) <= high)
    <3>1. new = Efficient(RemoveRange(d.runs, low, high)) /\ vals # {}
      BY <1>4, <2>1, <2>4, <2>6
    <3> QED
      BY <2>3, <3>1 DEF MakesSome, vals, T, new
  <2> QED
    BY <2>5, <2>6
<1> QED
  BY <1>0, <1>6, <1>7, <1>8, <1>9 DEF AnArray, ABitset

LEMMA NotMakes ==
    ASSUME NEW d \in Operands
    PROVE  Makes(Not(d), Numbers \ ValuesOf(d))
<1>0. AnArray(d) \/ ABitset(d) \/ SomeRuns(d)
  BY KindsAre
<1>1. Numbers \in SUBSET Numbers /\ Cardinality(Numbers) = U
  BY AllNumbers
<1>2. CASE AnArray(d)
  <2>1. /\ d.kind = "array" /\ d.vals \in SUBSET Numbers /\ ValuesOf(d) = d.vals
        /\ Cardinality(d.vals) \in 1..MaxArray /\ Numbers \ d.vals \in SUBSET Numbers
        /\ Numbers \cap d.vals = d.vals
    BY <1>2 DEF AnArray
  <2>2. Not(d) = BitsetOf(Numbers \ d.vals, ClearListCard(U, Numbers, d.vals))
    BY <2>1 DEF Not
  <2>3. Cardinality(Numbers \ d.vals) = ClearListCard(U, Numbers, d.vals)
    BY <1>1, <2>1, SizeOfRest
  <2>4. Cardinality(Numbers \ d.vals) = U - Cardinality(d.vals)
    BY <1>1, <2>1, SizeOfRest
  <2>5. Cardinality(Numbers \ d.vals) > MaxArray
    BY <2>1, <2>4, SizesAssumption, UAssumption
  <2> QED
    BY <2>1, <2>2, <2>3, <2>5, OfBitset
<1>3. CASE ABitset(d)
  <2>1. d.kind = "bitset" /\ ValuesOf(d) = d.vals
    BY <1>3 DEF ABitset
  <2>2. Not(d) = ByCard(Numbers \ d.vals, Cardinality(Numbers \ d.vals))
    BY <2>1 DEF Not
  <2> QED
    BY <2>1, <2>2, MakesByCard
<1>4. CASE SomeRuns(d)
  <2>1. d.kind = "run" /\ Tidy(d.runs) /\ ValuesOf(d) = RunValues(d.runs)
        /\ RunValues(d.runs) \in SUBSET Numbers
    BY <1>4 DEF SomeRuns
  <2>2. Not(d) = Efficient(Negated(d.runs, 0, U))
    BY <2>1 DEF Not
  <2>3. /\ Tidy(Negated(d.runs, 0, U))
        /\ RunValues(Negated(d.runs, 0, U)) = SymDiff(RunValues(d.runs), 0..(U - 1))
    <3>1. 0 \in Nat /\ U \in Nat /\ U <= U
      BY UAssumption
    <3> QED
      BY <2>1, <3>1, NegatedExact
  <2>4. SymDiff(RunValues(d.runs), 0..(U - 1)) = Numbers \ RunValues(d.runs)
    BY <2>1 DEF SymDiff, Numbers
  <2> QED
    BY <2>1, <2>2, <2>3, <2>4, OfEfficient
<1> QED
  BY <1>0, <1>2, <1>3, <1>4

LEMMA NotRangeMakes ==
    ASSUME NEW d \in Operands, NEW low \in Numbers, NEW high \in low..(U - 1)
    PROVE  Makes(NotRange(d, low, high + 1), SymDiff(ValuesOf(d), low..high))
<1> DEFINE T == low..high
           flipped == SymDiff(ValuesOf(d), T)
<1>0. AnArray(d) \/ ABitset(d) \/ SomeRuns(d)
  BY KindsAre
<1>1. /\ low \in Nat /\ high \in Nat /\ low <= high /\ high < U
      /\ T \in SUBSET Numbers /\ Cardinality(T) = high - low + 1
  BY RangeFits
<1>2. ValuesOf(d) \in SUBSET Numbers /\ CardOf(d) = Cardinality(ValuesOf(d)) /\ CardOf(d) \in Nat
  BY OperandFits
<1>3. /\ flipped \in SUBSET Numbers
      /\ Cardinality(flipped)
           = Cardinality(ValuesOf(d)) + Cardinality(T) - 2 * Cardinality(ValuesOf(d) \cap T)
  <2> HIDE DEF T
  <2> QED
    BY <1>1, <1>2, SizeOfDifference
<1>4. low..((high + 1) - 1) = T /\ high + 1 \in Nat /\ high + 1 <= U
  <2>1. (high + 1) - 1 = high
    BY <1>1
  <2> QED
    BY <1>1, <2>1, UAssumption
<1>5. NotRange(d, low, high + 1) =
        CASE d.kind = "bitset" -> ByCard(flipped, Cardinality(flipped))
          [] d.kind = "array" ->
                ByCard(flipped, Cardinality(d.vals) + ((high + 1) - low) - 2 * Cardinality(ValuesOf(d) \cap T))
          [] d.kind = "run" -> Efficient(Negated(d.runs, low, high + 1))
  BY <1>4, Zenon DEF NotRange
<1>6. IsFiniteSet(ValuesOf(d) \cap T) /\ Cardinality(ValuesOf(d) \cap T) \in Nat
  <2>1. ValuesOf(d) \cap T \in SUBSET Numbers
    BY <1>2
  <2> QED
    BY <2>1, SizeIs
<1> HIDE DEF flipped, T
<1>7. CASE ABitset(d)
  <2>1. NotRange(d, low, high + 1) = ByCard(flipped, Cardinality(flipped))
    BY <1>5, <1>7 DEF ABitset
  <2>2. Makes(NotRange(d, low, high + 1), flipped)
    BY <1>3, <2>1, MakesByCard
  <2> QED
    BY <2>2 DEF flipped, T
<1>8. CASE AnArray(d)
  <2>1. d.kind = "array" /\ ValuesOf(d) = d.vals
    BY <1>8 DEF AnArray
  <2>2. Cardinality(d.vals) + ((high + 1) - low) - 2 * Cardinality(ValuesOf(d) \cap T) = Cardinality(flipped)
    BY <1>1, <1>2, <1>3, <1>6, <2>1
  <2>3. NotRange(d, low, high + 1)
          = ByCard(flipped, Cardinality(d.vals) + ((high + 1) - low) - 2 * Cardinality(ValuesOf(d) \cap T))
    BY <1>5, <2>1
  <2>4. Makes(NotRange(d, low, high + 1), flipped)
    BY <1>3, <2>2, <2>3, OfCard
  <2> QED
    BY <2>4 DEF flipped, T
<1>9. CASE SomeRuns(d)
  <2>1. d.kind = "run" /\ Tidy(d.runs) /\ ValuesOf(d) = RunValues(d.runs)
    BY <1>9 DEF SomeRuns
  <2>2. NotRange(d, low, high + 1) = Efficient(Negated(d.runs, low, high + 1))
    BY <1>5, <2>1
  <2>3. /\ Tidy(Negated(d.runs, low, high + 1))
        /\ RunValues(Negated(d.runs, low, high + 1)) = SymDiff(RunValues(d.runs), low..((high + 1) - 1))
    BY <1>1, <1>4, <2>1, NegatedExact
  <2>4. RunValues(Negated(d.runs, low, high + 1)) = flipped
    BY <1>4, <2>1, <2>3 DEF flipped
  <2>5. Makes(NotRange(d, low, high + 1), flipped)
    BY <2>2, <2>3, <2>4, OfEfficient
  <2> QED
    BY <2>5 DEF flipped, T
<1> QED
  BY <1>0, <1>7, <1>8, <1>9

LEMMA OptimizedMakes ==
    ASSUME NEW d \in Operands
    PROVE  Makes(Optimized(d), ValuesOf(d))
<1>0. AnArray(d) \/ ABitset(d) \/ SomeRuns(d)
  BY KindsAre
<1>1. CASE AnArray(d) \/ ABitset(d)
  <2>1. d.kind # "run" /\ ValuesOf(d) = d.vals /\ d.vals \in SUBSET Numbers
    BY <1>1 DEF AnArray, ABitset
  <2>2. Optimized(d) = RunsAs(RunsOf(d.vals)) \/ Optimized(d) = d
    BY <2>1, Zenon DEF Optimized
  <2>3. Makes(RunsAs(RunsOf(d.vals)), ValuesOf(d))
    BY <2>1, RunsOfExact, MakesRuns
  <2> QED
    BY <2>2, <2>3, OperandMakes, Zenon
<1>2. CASE SomeRuns(d)
  <2>1. d.kind = "run" /\ Tidy(d.runs) /\ ValuesOf(d) = RunValues(d.runs)
    BY <1>2 DEF SomeRuns
  <2>2. Optimized(d) = Efficient(d.runs)
    BY <2>1, Zenon DEF Optimized
  <2> QED
    BY <2>1, <2>2, MakesEfficient
<1> QED
  BY <1>0, <1>1, <1>2

LEMMA WithoutRunsMakes ==
    ASSUME NEW d \in Operands
    PROVE  Makes(WithoutRuns(d), ValuesOf(d))
<1>0. AnArray(d) \/ ABitset(d) \/ SomeRuns(d)
  BY KindsAre
<1>1. CASE AnArray(d) \/ ABitset(d)
  <2>1. d.kind # "run"
    BY <1>1 DEF AnArray, ABitset
  <2>2. WithoutRuns(d) = d
    BY <2>1, Zenon DEF WithoutRuns
  <2> QED
    BY <2>2, OperandMakes
<1>2. CASE SomeRuns(d)
  <2>1. /\ d.kind = "run" /\ ValuesOf(d) = RunValues(d.runs) /\ RunValues(d.runs) \in SUBSET Numbers
        /\ Card(d.runs) = Cardinality(RunValues(d.runs))
    BY <1>2 DEF SomeRuns
  <2>2. WithoutRuns(d) = ByCard(RunValues(d.runs), Card(d.runs))
    BY <2>1, Zenon DEF WithoutRuns
  <2> QED
    BY <2>1, <2>2, OfCard
<1> QED
  BY <1>0, <1>1, <1>2

-------------------------------------------------------------------------------
(* Containers made of a range *)

\* The range of numbers from low up to but not including high.
LEMMA OnesMake ==
    ASSUME NEW low \in Nat, NEW high \in Nat, low < high, high <= U
    PROVE  Makes(RangeOfOnes(low, high), low..(high - 1))
<1> DEFINE T == low..(high - 1)
<1>1. T \in SUBSET Numbers /\ T # {} /\ Cardinality(T) = high - low
  <2>1. low \in Numbers /\ high - 1 \in low..(U - 1) /\ ((high - 1) - low) + 1 = high - low
    BY UAssumption DEF Numbers
  <2>2. T \in SUBSET Numbers /\ T # {} /\ Cardinality(T) = ((high - 1) - low) + 1
    BY <2>1, RangeFits
  <2> QED
    BY <2>1, <2>2
<1>2. CASE high - low + 1 <= 2
  <2>1. RangeOfOnes(low, high) = ArrayOf(T)
    BY <1>2, Zenon DEF RangeOfOnes
  <2>2. Cardinality(T) <= MaxArray
    <3> HIDE DEF T
    <3> QED
      BY <1>1, <1>2, SizesAssumption
  <2> QED
    BY <1>1, <2>1, <2>2, MakesArray
<1>3. CASE ~(high - low + 1 <= 2)
  <2> DEFINE run == Run(low, high - low - 1)
  <2>1. RangeOfOnes(low, high) = RunsAs(<<run>>)
    BY <1>3, Zenon DEF RangeOfOnes
  <2>2. high - low - 1 \in Nat /\ low + (high - low - 1) = high - 1 /\ high - 1 < U
    BY UAssumption
  <2>3. Legal(run) /\ run.value = low /\ End(run) = high - 1
    BY <2>2, RunFits
  <2> HIDE DEF run
  <2>4. Tidy(<<run>>) /\ RunValues(<<run>>) = T
    BY <2>3, OneRun DEF Tidy
  <2> QED
    BY <2>1, <2>4, MakesRuns
<1> QED
  BY <1>2, <1>3

\* The numbers of a range that are a whole number of steps from its first one.
StepsOf(low, high, step) ==
    {low + step * i : i \in 0..((high - low + step - 1) \div step - 1)}

LEMMA StepsFit ==
    ASSUME NEW low \in Nat, NEW high \in Nat, low < high, high <= U,
           NEW step \in 1..3, NEW size, size = (high - low + step - 1) \div step
    PROVE  /\ size \in Nat /\ size # 0 /\ low + step * (size - 1) < high
           /\ \A i \in 0..(size - 1) : low + step * i \in Nat /\ low + step * i < high
<1> DEFINE n == high - low + step - 1
<1>1. n \in Nat /\ step \in Nat /\ n >= step /\ U \in Nat
  BY UAssumption
<1>2. CASE step = 1
  <2>1. size = high - low
    BY <1>2
  <2> QED
    BY <1>1, <1>2, <2>1
<1>3. CASE step = 2
  <2>1. size = (high - low + 1) \div 2
    BY <1>3
  <2>2. size \in Nat /\ 2 * size <= high - low + 1 /\ high - low + 1 < 2 * size + 2
    BY <2>1
  <2>3. ASSUME NEW i \in 0..(size - 1) PROVE low + step * i \in Nat /\ low + step * i < high
    BY <1>3, <2>2
  <2>4. size # 0
    BY <2>2
  <2>5. size - 1 \in 0..(size - 1)
    BY <2>2, <2>4
  <2> QED
    BY <2>2, <2>3, <2>4, <2>5
<1>4. CASE step = 3
  <2>1. size = (high - low + 2) \div 3
    BY <1>4
  <2>2. size \in Nat /\ 3 * size <= high - low + 2 /\ high - low + 2 < 3 * size + 3
    BY <2>1
  <2>3. ASSUME NEW i \in 0..(size - 1) PROVE low + step * i \in Nat /\ low + step * i < high
    BY <1>4, <2>2
  <2>4. size # 0
    BY <2>2
  <2>5. size - 1 \in 0..(size - 1)
    BY <2>2, <2>4
  <2> QED
    BY <2>2, <2>3, <2>4, <2>5
<1> QED
  BY <1>2, <1>3, <1>4

LEMMA StepsCount ==
    ASSUME NEW low \in Nat, NEW step \in 1..3, NEW size \in Nat
    PROVE  Cardinality({low + step * i : i \in 0..(size - 1)}) = size
<1> DEFINE g == [i \in 1..size |-> low + step * (i - 1)]
           A == {low + step * i : i \in 0..(size - 1)}
<1>1. \A i \in 1..size : g[i] = low + step * (i - 1)
  OBVIOUS
<1>2. \A i \in 1..size : low + step * (i - 1) \in Int
  OBVIOUS
<1>3. ASSUME NEW i \in 1..size, NEW j \in 1..size, i < j
      PROVE  low + step * (i - 1) < low + step * (j - 1)
  <2>1. CASE step = 1
    BY <1>3, <2>1
  <2>2. CASE step = 2
    BY <1>3, <2>2
  <2>3. CASE step = 3
    BY <1>3, <2>3
  <2> QED
    BY <2>1, <2>2, <2>3
<1> HIDE DEF g
<1>4. A = {g[i] : i \in 1..size}
  <2>1. ASSUME NEW v \in A PROVE v \in {g[i] : i \in 1..size}
    <3>1. PICK i \in 0..(size - 1) : v = low + step * i
      BY <2>1
    <3>2. i + 1 \in 1..size /\ (i + 1) - 1 = i
      BY <3>1
    <3>3. g[i + 1] = v
      BY <1>1, <3>1, <3>2
    <3> QED
      BY <3>2, <3>3
  <2>2. ASSUME NEW i \in 1..size PROVE g[i] \in A
    <3>1. i - 1 \in 0..(size - 1) /\ g[i] = low + step * (i - 1)
      BY <1>1
    <3> QED
      BY <3>1
  <2> QED
    BY <2>1, <2>2
<1>5. Grows(size, g, A)
  <2> HIDE DEF A
  <2>1. \A i \in 1..size : g[i] \in Int
    BY <1>1, <1>2
  <2>2. \A i, j \in 1..size : i < j => g[i] < g[j]
    BY <1>1, <1>3
  <2> QED
    BY <1>4, <2>1, <2>2 DEF Grows
<1>6. Cardinality(A) = size
  <2> HIDE DEF A
  <2> QED
    BY <1>5, SortedOf DEF InOrderOf
<1> QED
  BY <1>6

LEMMA FromRangeMakes ==
    ASSUME NEW low \in Nat, NEW high \in Nat, low < high, high <= U, NEW step \in 1..3
    PROVE  Makes(FromRange(low, high, step), StepsOf(low, high, step))
<1> DEFINE size == (high - low + step - 1) \div step
           A == {low + step * i : i \in 0..(size - 1)}
<1>1. /\ size \in Nat /\ size # 0
      /\ \A i \in 0..(size - 1) : low + step * i \in Nat /\ low + step * i < high
  BY StepsFit
<1>2. StepsOf(low, high, step) = A
  BY DEF StepsOf
<1>3. CASE step = 1
  <2>1. FromRange(low, high, step) = RangeOfOnes(low, high)
    BY <1>3, Zenon DEF FromRange
  <2>2. size = high - low
    BY <1>3
  <2>3. A = low..(high - 1)
    <3>1. A = {low + step * i : i \in 0..((high - low) - 1)}
      BY <2>2
    <3>2. ASSUME NEW v \in A PROVE v \in low..(high - 1)
      <4>1. PICK i \in 0..((high - low) - 1) : v = low + 1 * i
        BY <1>3, <3>1, <3>2
      <4> QED
        BY <4>1
    <3>3. ASSUME NEW v \in low..(high - 1) PROVE v \in A
      <4>1. v - low \in 0..((high - low) - 1) /\ v = low + step * (v - low)
        BY <1>3
      <4> QED
        BY <3>1, <4>1
    <3> QED
      BY <3>2, <3>3
  <2> QED
    BY <1>2, <2>1, <2>3, OnesMake
<1>4. CASE step # 1
  <2>1. FromRange(low, high, step) = ByCard(A, size)
    BY <1>4, Zenon DEF FromRange
  <2>2. Cardinality(A) = size
    <3> HIDE DEF size
    <3> QED
      BY <1>1, StepsCount
  <2>3. A \in SUBSET Numbers
    <3>1. ASSUME NEW i \in 0..(size - 1) PROVE low + step * i \in Numbers
      <4> DEFINE v == low + step * i
      <4>1. v \in Nat /\ v < high
        BY <1>1
      <4> HIDE DEF v
      <4>2. v \in Numbers
        BY <4>1, UAssumption DEF Numbers
      <4> QED
        BY <4>2 DEF v
    <3> HIDE DEF size
    <3> QED
      BY <3>1
  <2>4. Makes(ByCard(A, size), A)
    <3> HIDE DEF A, size
    <3> QED
      BY <2>2, <2>3, OfCard
  <2> QED
    BY <1>2, <2>1, <2>4
<1> QED
  BY <1>3, <1>4

\* container_and and container_iand.
LEMMA AndMakes ==
    ASSUME NEW d \in Operands, NEW e \in Operands
    PROVE  Makes(And(d, e), ValuesOf(d) \cap ValuesOf(e))
<1> DEFINE common == ValuesOf(d) \cap ValuesOf(e)
           run == OfKind(d, e, "run")
           bits == OfKind(d, e, "bitset")
           arr == OfKind(d, e, "array")
           other == IF arr = d THEN e ELSE d
<1>0. (AnArray(d) \/ ABitset(d) \/ SomeRuns(d)) /\ (AnArray(e) \/ ABitset(e) \/ SomeRuns(e))
  BY KindsAre
<1>1. And(d, e) =
        CASE Kinds(d, e) = {"run"} -> Efficient(IntersectRuns(d.runs, e.runs))
          [] Kinds(d, e) = {"bitset"} -> ByCard(common, Cardinality(common))
          [] Kinds(d, e) = {"run", "bitset"} -> RunBitsetAnd(run.runs, bits)
          [] "array" \in Kinds(d, e) -> ArrayOf({v \in arr.vals : Has(other, v)})
  BY Zenon DEF And
<1>2. common \in SUBSET Numbers /\ ValuesOf(d) \in SUBSET Numbers /\ ValuesOf(e) \in SUBSET Numbers
  BY OperandFits
<1> HIDE DEF common, run, bits, arr, other
<1>3. CASE SomeRuns(d) /\ SomeRuns(e)
  <2>1. And(d, e) = Efficient(IntersectRuns(d.runs, e.runs))
    BY <1>1, <1>3, RunFacts, PairOfKinds
  <2>2. Tidy(IntersectRuns(d.runs, e.runs)) /\ RunValues(IntersectRuns(d.runs, e.runs)) = common
    BY <1>3, RunFacts, IntersectRunsExact DEF common
  <2> QED
    BY <2>1, <2>2, OfEfficient DEF common
<1>4. CASE ABitset(d) /\ ABitset(e)
  <2>1. And(d, e) = ByCard(common, Cardinality(common))
    BY <1>1, <1>4, BitsetFacts, PairOfKinds
  <2> QED
    BY <1>2, <2>1, MakesByCard DEF common
<1>5. CASE (SomeRuns(d) /\ ABitset(e)) \/ (ABitset(d) /\ SomeRuns(e))
  <2>1. And(d, e) = RunBitsetAnd(run.runs, bits)
    <3>1. (d.kind = "run" /\ e.kind = "bitset") \/ (d.kind = "bitset" /\ e.kind = "run")
      BY <1>5, BitsetFacts, RunFacts
    <3>2. Kinds(d, e) # {"run"} /\ Kinds(d, e) # {"bitset"} /\ Kinds(d, e) = {"run", "bitset"}
      BY <3>1, PairOfKinds
    <3> QED
      BY <1>1, <3>2
  <2>2. SomeRuns(run) /\ ABitset(bits) /\ common = ValuesOf(run) \cap ValuesOf(bits) /\ bits \in Operands
    <3>1. CASE SomeRuns(d) /\ ABitset(e)
      <4>1. run = d /\ bits = e
        BY <3>1, RunFacts, BitsetFacts DEF run, bits, OfKind
      <4> QED
        BY <3>1, <4>1 DEF common
    <3>2. CASE ABitset(d) /\ SomeRuns(e)
      <4>1. run = e /\ bits = d
        BY <3>2, RunFacts, BitsetFacts DEF run, bits, OfKind
      <4> QED
        BY <3>2, <4>1 DEF common
    <3> QED
      BY <1>5, <3>1, <3>2
  <2>3. RunBitsetAnd(run.runs, bits) =
          IF IsFullRun(run.runs) THEN bits
          ELSE IF Card(run.runs) <= MaxArray THEN ArrayOf(common)
          ELSE ByCard(common, Cardinality(common))
    <3>1. common = RunValues(run.runs) \cap bits.vals
      BY <2>2, RunFacts, BitsetFacts
    <3> QED
      BY <3>1, Zenon DEF RunBitsetAnd
  <2>4. CASE IsFullRun(run.runs)
    <3>1. common = ValuesOf(bits)
      <4>1. RunValues(run.runs) = Numbers
        BY <2>4, FullRunHasAll
      <4>2. ValuesOf(run) = Numbers /\ ValuesOf(bits) \in SUBSET Numbers
        BY <2>2, <4>1, RunFacts, BitsetFacts
      <4> QED
        BY <2>2, <4>2
    <3>2. And(d, e) = bits
      BY <2>1, <2>3, <2>4
    <3> QED
      BY <2>2, <3>1, <3>2, OperandMakes DEF common
  <2>5. CASE ~IsFullRun(run.runs) /\ Card(run.runs) <= MaxArray
    <3>1. And(d, e) = ArrayOf(common)
      BY <2>1, <2>3, <2>5
    <3>2. RunValues(run.runs) \in SUBSET Numbers /\ Cardinality(RunValues(run.runs)) <= MaxArray
          /\ common \in SUBSET RunValues(run.runs)
      BY <2>2, <2>5, RunFacts
    <3> QED
      BY <3>1, <3>2, OfArray DEF common
  <2>6. CASE ~IsFullRun(run.runs) /\ ~(Card(run.runs) <= MaxArray)
    <3>1. And(d, e) = ByCard(common, Cardinality(common))
      BY <2>1, <2>3, <2>6
    <3> QED
      BY <1>2, <3>1, MakesByCard DEF common
  <2> QED
    BY <2>4, <2>5, <2>6
<1>6. CASE AnArray(d) \/ AnArray(e)
  <2>1. And(d, e) = ArrayOf({v \in arr.vals : Has(other, v)})
    BY <1>1, <1>6, ArrayFacts, PairOfKinds
  <2>2. /\ AnArray(arr) /\ common = ValuesOf(arr) \cap ValuesOf(other) /\ other \in Operands
    <3>1. CASE AnArray(d)
      <4>1. arr = d /\ other = e
        BY <3>1, ArrayFacts DEF arr, other, OfKind
      <4> QED
        BY <3>1, <4>1 DEF common
    <3>2. CASE ~AnArray(d) /\ AnArray(e)
      <4>1. d.kind # "array" /\ e.kind = "array"
        BY <1>0, <3>2, ArrayFacts, BitsetFacts, RunFacts
      <4>2. arr = e /\ other = d
        BY <4>1 DEF arr, other, OfKind
      <4> QED
        BY <3>2, <4>2 DEF common
    <3> QED
      BY <1>6, <3>1, <3>2
  <2>3. {v \in arr.vals : Has(other, v)} = common
    <3>1. arr.vals \in SUBSET Numbers /\ ValuesOf(arr) = arr.vals
      BY <2>2, ArrayFacts
    <3> QED
      BY <2>2, <3>1, HasIs
  <2>4. common \in SUBSET arr.vals /\ arr.vals \in SUBSET Numbers /\ Cardinality(arr.vals) <= MaxArray
    BY <2>2, ArrayFacts
  <2> QED
    BY <2>1, <2>3, <2>4, OfArray DEF common
<1> QED
  BY <1>0, <1>3, <1>4, <1>5, <1>6

\* run_bitset_container_andnot, run_array_container_andnot and the rest of container_andnot.
LEMMA AndNotMakes ==
    ASSUME NEW d \in Operands, NEW e \in Operands
    PROVE  Makes(AndNot(d, e), ValuesOf(d) \ ValuesOf(e))
<1> DEFINE left == ValuesOf(d) \ ValuesOf(e)
<1>0. (AnArray(d) \/ ABitset(d) \/ SomeRuns(d)) /\ (AnArray(e) \/ ABitset(e) \/ SomeRuns(e))
  BY KindsAre
<1>1. AndNot(d, e) =
        CASE d.kind = "array" -> ArrayOf({v \in d.vals : ~Has(e, v)})
          [] d.kind = "bitset" /\ e.kind = "array" -> BitsetMinusArray(d.vals, d.card, e.vals)
          [] d.kind = "bitset" /\ e.kind # "array" -> ByCard(left, Cardinality(left))
          [] d.kind = "run" /\ e.kind = "array" -> RunArrayAndNot(d.runs, e.vals)
          [] d.kind = "run" /\ e.kind = "bitset" -> RunBitsetAndNot(d.runs, e)
          [] d.kind = "run" /\ e.kind = "run" -> Efficient(AndNotRuns(d.runs, e.runs))
  BY Zenon DEF AndNot
<1>2. left \in SUBSET Numbers /\ ValuesOf(d) \in SUBSET Numbers /\ ValuesOf(e) \in SUBSET Numbers
  BY OperandFits
<1> HIDE DEF left
<1>3. CASE AnArray(d)
  <2>1. AndNot(d, e) = ArrayOf({v \in d.vals : ~Has(e, v)})
    BY <1>1, <1>3, ArrayFacts
  <2>2. d.vals \in SUBSET Numbers /\ ValuesOf(d) = d.vals /\ Cardinality(d.vals) <= MaxArray
    BY <1>3, ArrayFacts
  <2>3. {v \in d.vals : ~Has(e, v)} = left
    BY <2>2, HasIs DEF left
  <2>4. left \in SUBSET d.vals
    BY <2>2 DEF left
  <2> QED
    BY <2>1, <2>2, <2>3, <2>4, OfArray DEF left
<1>4. CASE ABitset(d) /\ AnArray(e)
  <2>1. AndNot(d, e) = BitsetMinusArray(d.vals, d.card, e.vals)
    BY <1>1, <1>4, ArrayFacts, BitsetFacts
  <2>2. left = d.vals \ e.vals /\ d.vals \in SUBSET Numbers /\ e.vals \in SUBSET Numbers
        /\ d.card = Cardinality(d.vals)
    BY <1>4, ArrayFacts, BitsetFacts DEF left
  <2>3. ClearListCard(d.card, d.vals, e.vals) = Cardinality(left)
    BY <2>2, SizeOfRest
  <2>4. BitsetMinusArray(d.vals, d.card, e.vals) = ByCard(left, ClearListCard(d.card, d.vals, e.vals))
    BY <2>2, Zenon DEF BitsetMinusArray
  <2> QED
    BY <1>2, <2>1, <2>3, <2>4, OfCard DEF left
<1>5. CASE ABitset(d) /\ (ABitset(e) \/ SomeRuns(e))
  <2>1. AndNot(d, e) = ByCard(left, Cardinality(left))
    BY <1>1, <1>5, BitsetFacts, RunFacts
  <2> QED
    BY <1>2, <2>1, MakesByCard DEF left
<1>6. CASE SomeRuns(d) /\ AnArray(e)
  <2>1. AndNot(d, e) = RunArrayAndNot(d.runs, e.vals)
    BY <1>1, <1>6, ArrayFacts, RunFacts
  <2>2. /\ left = RunValues(d.runs) \ e.vals /\ Tidy(d.runs) /\ e.vals \in SUBSET Numbers
        /\ RunValues(d.runs) \in SUBSET Numbers /\ Card(d.runs) = Cardinality(RunValues(d.runs))
        /\ Card(d.runs) \in Nat
    BY <1>6, ArrayFacts, RunFacts DEF left
  <2>3. RunArrayAndNot(d.runs, e.vals) =
          IF Card(d.runs) <= Threshold THEN Efficient(AndNotRuns(d.runs, Singles(e.vals)))
          ELSE IF Card(d.runs) <= MaxArray THEN ArrayOf(left)
          ELSE BitsetMinusArray(RunValues(d.runs), Card(d.runs), e.vals)
    BY <2>2, Zenon DEF RunArrayAndNot
  <2>4. Makes(Efficient(AndNotRuns(d.runs, Singles(e.vals))), left)
    <3>1. Spaced(Singles(e.vals), 0) /\ RunValues(Singles(e.vals)) = e.vals
      BY <2>2, SinglesExact
    <3>2. /\ Tidy(AndNotRuns(d.runs, Singles(e.vals)))
          /\ RunValues(AndNotRuns(d.runs, Singles(e.vals))) = left
      BY <2>2, <3>1, AndNotRunsExact
    <3> QED
      BY <3>2, OfEfficient
  <2>5. ASSUME Card(d.runs) <= MaxArray PROVE Makes(ArrayOf(left), left)
    <3>1. left \in SUBSET RunValues(d.runs)
      BY <2>2
    <3> QED
      BY <2>2, <2>5, <3>1, OfArray
  <2>6. Makes(BitsetMinusArray(RunValues(d.runs), Card(d.runs), e.vals), left)
    <3>1. ClearListCard(Card(d.runs), RunValues(d.runs), e.vals) = Cardinality(left)
      BY <2>2, SizeOfRest
    <3>2. BitsetMinusArray(RunValues(d.runs), Card(d.runs), e.vals)
            = ByCard(left, ClearListCard(Card(d.runs), RunValues(d.runs), e.vals))
      BY <2>2, Zenon DEF BitsetMinusArray
    <3> QED
      BY <1>2, <3>1, <3>2, OfCard
  <2>7. Makes(RunArrayAndNot(d.runs, e.vals), left)
    BY <2>3, <2>4, <2>5, <2>6, Zenon
  <2> QED
    BY <2>1, <2>7 DEF left
<1>7. CASE SomeRuns(d) /\ ABitset(e)
  <2>1. AndNot(d, e) = RunBitsetAndNot(d.runs, e)
    BY <1>1, <1>7, BitsetFacts, RunFacts
  <2>2. /\ left = RunValues(d.runs) \ e.vals
        /\ RunValues(d.runs) \in SUBSET Numbers /\ Card(d.runs) = Cardinality(RunValues(d.runs))
    BY <1>7, BitsetFacts, RunFacts DEF left
  <2>3. RunBitsetAndNot(d.runs, e) =
          IF Card(d.runs) <= MaxArray THEN ArrayOf(left) ELSE ByCard(left, Cardinality(left))
    BY <2>2, Zenon DEF RunBitsetAndNot
  <2>4. ASSUME Card(d.runs) <= MaxArray PROVE Makes(ArrayOf(left), left)
    <3>1. left \in SUBSET RunValues(d.runs)
      BY <2>2
    <3> QED
      BY <2>2, <2>4, <3>1, OfArray
  <2>5. Makes(ByCard(left, Cardinality(left)), left)
    BY <1>2, MakesByCard
  <2>6. Makes(RunBitsetAndNot(d.runs, e), left)
    BY <2>3, <2>4, <2>5, Zenon
  <2> QED
    BY <2>1, <2>6 DEF left
<1>8. CASE SomeRuns(d) /\ SomeRuns(e)
  <2>1. AndNot(d, e) = Efficient(AndNotRuns(d.runs, e.runs))
    BY <1>1, <1>8, RunFacts
  <2>2. Tidy(AndNotRuns(d.runs, e.runs)) /\ RunValues(AndNotRuns(d.runs, e.runs)) = left
    BY <1>8, RunFacts, Looser, AndNotRunsExact DEF left
  <2> QED
    BY <2>1, <2>2, OfEfficient DEF left
<1> QED
  BY <1>0, <1>3, <1>4, <1>5, <1>6, <1>7, <1>8

-------------------------------------------------------------------------------
(* The container in the slot *)

\* What Keep leaves in the slot is a container that the library makes, or none.
LEMMA KeepFits ==
    ASSUME NEW d, NEW S, Makes(d, S), Keep(d)
    PROVE  WellFormed'
<1>1. /\ S \in SUBSET Numbers /\ CardOf(d) = Cardinality(S) /\ (S # {} => d \in Operands)
  BY DEF Makes
<1>2. c' = IF CardOf(d) = 0 THEN Null ELSE d
  BY DEF Keep
<1>3. IsFiniteSet(S)
  BY <1>1, SizeIs
<1>4. CardOf(d) = 0 <=> S = {}
  BY <1>1, <1>3, FS_EmptySet
<1>5. c' = Null \/ c' \in Operands
  BY <1>1, <1>2, <1>4
<1> QED
  BY <1>5 DEF WellFormed

LEMMA OneNumberMakes ==
    ASSUME NEW v \in Numbers PROVE Makes(ArrayOf({v}), {v})
<1>1. Cardinality({v}) = 1
  BY FS_Singleton
<1> QED
  BY <1>1, MakesArray, SizesAssumption

LEMMA RangeEnds ==
    ASSUME NEW low \in Numbers, NEW high \in low..(U - 1)
    PROVE  low \in Nat /\ high + 1 \in Nat /\ low < high + 1 /\ high + 1 <= U
  BY UAssumption DEF Numbers

LEMMA WellFormedStays ==
    ASSUME WellFormed, [Next]_c
    PROVE  WellFormed'
<1>1. ASSUME c # Null PROVE c \in Operands
  BY <1>1 DEF WellFormed
<1>2. ASSUME NEW v \in Numbers, Add(v) PROVE WellFormed'
  <2>1. CASE c = Null
    BY <1>2, <2>1, OneNumberMakes, KeepFits DEF Add
  <2>2. CASE c # Null
    <3>1. Makes(Plus(c, v), ValuesOf(c) \cup {v})
      BY <1>1, <2>2, PlusMakes
    <3> QED
      BY <1>2, <2>2, <3>1, KeepFits DEF Add
  <2> QED
    BY <2>1, <2>2
<1>3. ASSUME NEW v \in Numbers, Remove1(v) PROVE WellFormed'
  <2>1. c # Null /\ Keep(Minus(c, v))
    BY <1>3 DEF Remove1
  <2>2. Makes(Minus(c, v), ValuesOf(c) \ {v})
    BY <1>1, <2>1, MinusMakes
  <2> QED
    BY <2>1, <2>2, KeepFits
<1>4. ASSUME NEW low \in Numbers, NEW high \in low..(U - 1), AddClosed(low, high) PROVE WellFormed'
  <2>1. CASE c = Null
    <3>1. Makes(FromRange(low, high + 1, 1), StepsOf(low, high + 1, 1))
      BY RangeEnds, FromRangeMakes
    <3> QED
      BY <1>4, <2>1, <3>1, KeepFits DEF AddClosed
  <2>2. CASE c # Null
    <3>1. Makes(PlusRange(c, low, high), ValuesOf(c) \cup (low..high))
      BY <1>1, <2>2, PlusRangeMakes
    <3> QED
      BY <1>4, <2>2, <3>1, KeepFits DEF AddClosed
  <2> QED
    BY <2>1, <2>2
<1>5. ASSUME NEW low \in Numbers, NEW high \in low..(U - 1), RemoveClosed(low, high) PROVE WellFormed'
  <2>1. c # Null /\ c' = MinusRange(c, low, high)
    BY <1>5 DEF RemoveClosed
  <2>2. MakesSome(MinusRange(c, low, high), ValuesOf(c) \ (low..high))
    BY <1>1, <2>1, MinusRangeMakes
  <2>3. MinusRange(c, low, high) = Null \/ MinusRange(c, low, high) \in Operands
    BY <2>2 DEF MakesSome, Makes
  <2> QED
    BY <2>1, <2>3 DEF WellFormed
<1>6. ASSUME NEW low \in Numbers, NEW high \in low..(U - 1), Flip(low, high + 1) PROVE WellFormed'
  <2>1. CASE c = Null
    <3>1. Makes(RangeOfOnes(low, high + 1), low..((high + 1) - 1))
      BY RangeEnds, OnesMake
    <3> QED
      BY <1>6, <2>1, <3>1, KeepFits DEF Flip
  <2>2. CASE c # Null
    <3>1. Makes(NotRange(c, low, high + 1), SymDiff(ValuesOf(c), low..high))
      BY <1>1, <2>2, NotRangeMakes
    <3> QED
      BY <1>6, <2>2, <3>1, KeepFits DEF Flip
  <2> QED
    BY <2>1, <2>2
<1>7. ASSUME NEW low \in Numbers, NEW high \in low..(U - 1), NEW step \in 1..3,
             MakeRange(low, high + 1, step)
      PROVE  WellFormed'
  <2>1. Makes(FromRange(low, high + 1, step), StepsOf(low, high + 1, step))
    BY RangeEnds, FromRangeMakes
  <2> QED
    BY <1>7, <2>1, KeepFits DEF MakeRange
<1>8. ASSUME NEW d \in Operands, AndWith(d) PROVE WellFormed'
  <2>1. c # Null /\ Keep(And(c, d))
    BY <1>8 DEF AndWith
  <2>2. Makes(And(c, d), ValuesOf(c) \cap ValuesOf(d))
    BY <1>1, <2>1, AndMakes
  <2> QED
    BY <2>1, <2>2, KeepFits
<1>9. ASSUME NEW d \in Operands, OrWith(d) PROVE WellFormed'
  <2>1. CASE c = Null
    BY <1>9, <2>1, OperandMakes, KeepFits DEF OrWith
  <2>2. CASE c # Null
    <3>1. Makes(InPlaceOr(c, d), ValuesOf(c) \cup ValuesOf(d)) /\ Makes(c, ValuesOf(c))
      BY <1>1, <2>2, InPlaceOrMakes, OperandMakes
    <3>2. Keep(c) \/ Keep(InPlaceOr(c, d))
      BY <1>9, <2>2 DEF OrWith
    <3> QED
      BY <3>1, <3>2, KeepFits
  <2> QED
    BY <2>1, <2>2
<1>10. ASSUME NEW d \in Operands, XorWith(d) PROVE WellFormed'
  <2>1. CASE c = Null
    BY <1>10, <2>1, OperandMakes, KeepFits DEF XorWith
  <2>2. CASE c # Null
    <3>1. Makes(Xor(c, d), SymDiff(ValuesOf(c), ValuesOf(d)))
      BY <1>1, <2>2, XorMakes
    <3> QED
      BY <1>10, <2>2, <3>1, KeepFits DEF XorWith
  <2> QED
    BY <2>1, <2>2
<1>11. ASSUME NEW d \in Operands, AndNotWith(d) PROVE WellFormed'
  <2>1. c # Null /\ Keep(AndNot(c, d))
    BY <1>11 DEF AndNotWith
  <2>2. Makes(AndNot(c, d), ValuesOf(c) \ ValuesOf(d))
    BY <1>1, <2>1, AndNotMakes
  <2> QED
    BY <2>1, <2>2, KeepFits
<1>12. ASSUME FlipAll PROVE WellFormed'
  <2>1. CASE c = Null
    <3>1. 0 \in Nat /\ U \in Nat /\ 0 < U /\ U <= U
      BY UAssumption
    <3>2. Makes(RangeOfOnes(0, U), 0..(U - 1))
      BY <3>1, OnesMake
    <3> QED
      BY <1>12, <2>1, <3>2, KeepFits DEF FlipAll
  <2>2. CASE c # Null
    <3>1. Makes(Not(c), Numbers \ ValuesOf(c))
      BY <1>1, <2>2, NotMakes
    <3> QED
      BY <1>12, <2>2, <3>1, KeepFits DEF FlipAll
  <2> QED
    BY <2>1, <2>2
<1>13. ASSUME RunOptimize PROVE WellFormed'
  <2>1. c # Null /\ c' = Optimized(c)
    BY <1>13 DEF RunOptimize
  <2>2. Makes(Optimized(c), ValuesOf(c)) /\ ValuesOf(c) # {}
    BY <1>1, <2>1, OptimizedMakes, OperandMakes
  <2> QED
    BY <2>1, <2>2 DEF WellFormed, Makes
<1>14. ASSUME RemoveRunCompression PROVE WellFormed'
  <2>1. c # Null /\ c' = WithoutRuns(c)
    BY <1>14 DEF RemoveRunCompression
  <2>2. Makes(WithoutRuns(c), ValuesOf(c)) /\ ValuesOf(c) # {}
    BY <1>1, <2>1, WithoutRunsMakes, OperandMakes
  <2> QED
    BY <2>1, <2>2 DEF WellFormed, Makes
<1>15. CASE UNCHANGED c
  BY <1>15 DEF WellFormed
<1> QED
  BY <1>2, <1>3, <1>4, <1>5, <1>6, <1>7, <1>8, <1>9, <1>10, <1>11, <1>12, <1>13, <1>14, <1>15
     DEF Next

\* The container in a slot is of a kind and of a size the library makes, its bitset's
\* cardinality is right, and its runs are in order and do not touch (array.h:27).
THEOREM WellFormedAlways == Spec => []WellFormed
<1>1. Init => WellFormed
  BY DEF Init, WellFormed
<1>2. WellFormed /\ [Next]_c => WellFormed'
  BY WellFormedStays
<1> QED
  BY <1>1, <1>2, PTL DEF Spec

\* Whichever kinds two containers are of, an operation on both gives the numbers that
\* the operation on their sets gives (containers.h).
THEOREM ResultsExactAlways == Spec => []ResultsExact
<1>1. WellFormed => ResultsExact
  <2> SUFFICES ASSUME WellFormed, c # Null, NEW d \in Operands
               PROVE  /\ ValuesOf(And(c, d)) = ValuesOf(c) \cap ValuesOf(d)
                      /\ ValuesOf(InPlaceOr(c, d)) = ValuesOf(c) \cup ValuesOf(d)
                      /\ ValuesOf(Xor(c, d)) = SymDiff(ValuesOf(c), ValuesOf(d))
                      /\ ValuesOf(AndNot(c, d)) = ValuesOf(c) \ ValuesOf(d)
    BY DEF ResultsExact
  <2>1. c \in Operands
    BY DEF WellFormed
  <2>2. Makes(And(c, d), ValuesOf(c) \cap ValuesOf(d))
    BY <2>1, AndMakes
  <2>3. Makes(InPlaceOr(c, d), ValuesOf(c) \cup ValuesOf(d))
    BY <2>1, InPlaceOrMakes
  <2>4. Makes(Xor(c, d), SymDiff(ValuesOf(c), ValuesOf(d)))
    BY <2>1, XorMakes
  <2>5. Makes(AndNot(c, d), ValuesOf(c) \ ValuesOf(d))
    BY <2>1, AndNotMakes
  <2> QED
    BY <2>2, <2>3, <2>4, <2>5 DEF Makes
<1> QED
  BY <1>1, WellFormedAlways, PTL

\* Adding, removing or flipping a range, or one number, changes the numbers of the range
\* and no other, and a conversion changes none (roaring.c, containers.h).
THEOREM RangesExactAlways == Spec => []RangesExact
<1>1. WellFormed => RangesExact
  <2> SUFFICES ASSUME WellFormed, c # Null
               PROVE  /\ \A low \in Numbers : \A high \in low..(U - 1) :
                           /\ ValuesOf(PlusRange(c, low, high)) = ValuesOf(c) \cup (low..high)
                           /\ ValuesOf(MinusRange(c, low, high)) = ValuesOf(c) \ (low..high)
                           /\ ValuesOf(NotRange(c, low, high + 1)) = SymDiff(ValuesOf(c), low..high)
                      /\ \A v \in Numbers : /\ ValuesOf(Plus(c, v)) = ValuesOf(c) \cup {v}
                                            /\ ValuesOf(Minus(c, v)) = ValuesOf(c) \ {v}
                      /\ ValuesOf(Not(c)) = Numbers \ ValuesOf(c)
                      /\ ValuesOf(Optimized(c)) = ValuesOf(c)
                      /\ ValuesOf(WithoutRuns(c)) = ValuesOf(c)
    BY DEF RangesExact
  <2>1. c \in Operands
    BY DEF WellFormed
  <2>2. ASSUME NEW low \in Numbers, NEW high \in low..(U - 1)
        PROVE  /\ ValuesOf(PlusRange(c, low, high)) = ValuesOf(c) \cup (low..high)
               /\ ValuesOf(MinusRange(c, low, high)) = ValuesOf(c) \ (low..high)
               /\ ValuesOf(NotRange(c, low, high + 1)) = SymDiff(ValuesOf(c), low..high)
    <3>1. Makes(PlusRange(c, low, high), ValuesOf(c) \cup (low..high))
      BY <2>1, PlusRangeMakes
    <3>2. MakesSome(MinusRange(c, low, high), ValuesOf(c) \ (low..high))
      BY <2>1, MinusRangeMakes
    <3>3. Makes(NotRange(c, low, high + 1), SymDiff(ValuesOf(c), low..high))
      BY <2>1, NotRangeMakes
    <3>4. ValuesOf(MinusRange(c, low, high)) = ValuesOf(c) \ (low..high)
      <4>1. ValuesOf(Null) = {}
        BY DEF ValuesOf
      <4> QED
        BY <3>2, <4>1 DEF MakesSome, Makes
    <3> QED
      BY <3>1, <3>3, <3>4 DEF Makes
  <2>3. ASSUME NEW v \in Numbers
        PROVE  ValuesOf(Plus(c, v)) = ValuesOf(c) \cup {v} /\ ValuesOf(Minus(c, v)) = ValuesOf(c) \ {v}
    <3>1. Makes(Plus(c, v), ValuesOf(c) \cup {v}) /\ Makes(Minus(c, v), ValuesOf(c) \ {v})
      BY <2>1, PlusMakes, MinusMakes
    <3> QED
      BY <3>1 DEF Makes
  <2>4. ValuesOf(Not(c)) = Numbers \ ValuesOf(c)
    BY <2>1, NotMakes DEF Makes
  <2>5. ValuesOf(Optimized(c)) = ValuesOf(c) /\ ValuesOf(WithoutRuns(c)) = ValuesOf(c)
    BY <2>1, OptimizedMakes, WithoutRunsMakes DEF Makes
  <2> QED
    BY <2>2, <2>3, <2>4, <2>5
<1> QED
  BY <1>1, WellFormedAlways, PTL
-------------------------------------------------------------------------------
(* Queries and offsets of run containers *)

LEMMA SumIsAdds ==
    ASSUME NEW S, IsFiniteSet(S), NEW B, DOMAIN B = S
    PROVE  \E f : Adds(B, S, f) /\ SumFunction(B) = f[S]
<1> DEFINE Sums(h) == [s \in SUBSET S |-> IF s = {} THEN 0
                                          ELSE B[CHOOSE x \in s : TRUE]
                                               + h[s \ {CHOOSE x \in s : TRUE}]]
           f == CHOOSE f : f = Sums(f)
<1>1. SumFunction(B) = f[S]
  BY DEF SumFunction, SumFunctionOnSet, FoldFunctionOnSet, MapThenFoldSet
<1>2. Adds(B, S, f)
  <2>1. PICK g : Adds(B, S, g)
    BY AddsExist
  <2>2. \A h : \A s \in SUBSET S :
           AddStep(B, h, s) = IF s = {} THEN 0
                              ELSE B[CHOOSE x \in s : TRUE] + h[s \ {CHOOSE x \in s : TRUE}]
    BY DEF AddStep, Chosen
  <2>3. ASSUME NEW h PROVE (h = Sums(h)) <=> Adds(B, S, h)
    <3>1. Sums(h) = [s \in SUBSET S |-> AddStep(B, h, s)]
      BY <2>2
    <3> HIDE DEF Sums
    <3> QED
      BY <3>1 DEF Adds
  <2> HIDE DEF Sums
  <2>4. f = Sums(f)
    BY <2>1, <2>3, Zenon
  <2> HIDE DEF f
  <2> QED
    BY <2>3, <2>4
<1> QED
  BY <1>1, <1>2

\* B counts the members of sets that have none in common.
Measures(B, G, S) ==
    /\ \A i \in S : IsFiniteSet(G[i]) /\ B[i] = Cardinality(G[i])
    /\ \A i, j \in S : i # j => G[i] \cap G[j] = {}
AllOf(G, s) == UNION {G[i] : i \in s}

LEMMA MeasuredMore ==
    ASSUME NEW S, NEW B, NEW G, Measures(B, G, S), NEW s \in SUBSET S, NEW x \in S, x \notin s
    PROVE  AllOf(G, s \cup {x}) = AllOf(G, s) \cup G[x] /\ AllOf(G, s) \cap G[x] = {}
  BY DEF AllOf, Measures

LEMMA AddsMeasured ==
    ASSUME NEW S, IsFiniteSet(S), NEW B, NEW G, Measures(B, G, S), NEW f, Adds(B, S, f),
           NEW s \in SUBSET S
    PROVE  IsFiniteSet(AllOf(G, s)) /\ f[s] = Cardinality(AllOf(G, s))
<1> DEFINE Good(t) == IsFiniteSet(AllOf(G, t)) /\ f[t] = Cardinality(AllOf(G, t))
           Bad == {n \in Nat : \E t \in SUBSET S : Cardinality(t) = n /\ ~Good(t)}
<1>1. \A t \in SUBSET S : Cardinality(t) \in Nat
  BY FS_Subset, FS_CardinalityType
<1>2. SUFFICES ASSUME Bad # {} PROVE FALSE
  BY <1>1
<1>3. PICK n \in Bad : \A j \in Bad : n <= j
  <2>1. Bad \subseteq Nat
    OBVIOUS
  <2> HIDE DEF Bad
  <2> QED
    BY <1>2, <2>1, LeastOfNaturals
<1>4. PICK t \in SUBSET S : Cardinality(t) = n /\ ~Good(t)
  BY <1>3
<1>5. f[t] = AddStep(B, f, t)
  BY DEF Adds
<1>6. t # {}
  <2> SUFFICES ASSUME t = {} PROVE FALSE
    OBVIOUS
  <2>1. f[t] = 0 /\ AllOf(G, t) = {}
    BY <1>5 DEF AddStep, AllOf
  <2>2. Good(t)
    BY <2>1, FS_EmptySet
  <2> QED
    BY <1>4, <2>2
<1> DEFINE x == Chosen(t)
           q == t \ {x}
<1>7. /\ x \in t /\ q \in SUBSET S /\ Cardinality(q) \in Nat /\ Cardinality(q) = Cardinality(t) - 1
      /\ Cardinality(t) = n /\ n \in Nat
  <2>1. n \in Nat /\ Cardinality(t) = n
    BY <1>3, <1>4
  <2> HIDE DEF Bad, Good
  <2> QED
    BY <1>6, <2>1, ChosenLeft
<1>8. f[t] = B[x] + f[q]
  BY <1>5, <1>6 DEF AddStep
<1>9. t = q \cup {x} /\ x \notin q /\ x \in S
  BY <1>7
<1> HIDE DEF x, q
<1>10. Good(q)
  <2>1. n - 1 \in Nat /\ n - 1 \notin Bad
    BY <1>3, <1>7
  <2> QED
    BY <1>7, <2>1
<1>11. AllOf(G, t) = AllOf(G, q) \cup G[x] /\ AllOf(G, q) \cap G[x] = {}
  BY <1>7, <1>9, MeasuredMore
<1>12. IsFiniteSet(G[x]) /\ B[x] = Cardinality(G[x]) /\ Cardinality(G[x]) \in Nat
  BY <1>9, FS_CardinalityType DEF Measures
<1>13. /\ IsFiniteSet(AllOf(G, q)) /\ f[q] = Cardinality(AllOf(G, q))
       /\ Cardinality(AllOf(G, q)) \in Nat
  BY <1>10, FS_CardinalityType
<1> HIDE DEF Good, Bad
<1>14. /\ IsFiniteSet(AllOf(G, q) \cup G[x])
       /\ Cardinality(AllOf(G, q) \cup G[x])
            = Cardinality(AllOf(G, q)) + Cardinality(G[x]) - Cardinality(AllOf(G, q) \cap G[x])
  BY <1>12, <1>13, FS_Union
<1>15. Cardinality(AllOf(G, q) \cap G[x]) = 0
  BY <1>11, FS_EmptySet
<1>16. IsFiniteSet(AllOf(G, t)) /\ f[t] = Cardinality(AllOf(G, t))
  BY <1>8, <1>11, <1>12, <1>13, <1>14, <1>15
<1> QED
  BY <1>4, <1>16 DEF Good

LEMMA SumMeasured ==
    ASSUME NEW S, IsFiniteSet(S), NEW B, DOMAIN B = S, NEW G, Measures(B, G, S)
    PROVE  /\ IsFiniteSet(AllOf(G, S)) /\ SumFunction(B) = Cardinality(AllOf(G, S))
           /\ SumFunction(B) \in Nat
<1>1. PICK f : Adds(B, S, f) /\ SumFunction(B) = f[S]
  BY SumIsAdds
<1>2. IsFiniteSet(AllOf(G, S)) /\ f[S] = Cardinality(AllOf(G, S))
  BY <1>1, AddsMeasured
<1> QED
  BY <1>1, <1>2, FS_CardinalityType

\* rle16_find_run and run_container_rank.
LEMMA RankOfExact ==
    ASSUME NEW r, Tidy(r), NEW v \in Numbers
    PROVE  RankOf(r, v) = Cardinality({u \in RunValues(r) : u <= v})
<1> DEFINE p == PlaceOf(r, v)
           S == 1..p
           B == [i \in S |-> IF v <= End(r[i]) THEN v - r[i].value + 1 ELSE r[i].length + 1]
           G == [i \in S |-> {u \in r[i].value..End(r[i]) : u <= v}]
<1>1. /\ v \in Nat /\ p \in 0..Len(r) /\ Len(r) \in Nat /\ r \in Seq(Run16)
      /\ \A i \in 1..Len(r) : i <= p <=> r[i].value <= v
  <2>1. v \in Nat /\ v \in Int /\ Len(r) \in Nat /\ r \in Seq(Run16)
    BY NumbersFit, RunsLegal
  <2>2. p \in 0..Len(r) /\ \A i \in 1..Len(r) : i <= p <=> r[i].value <= v
    BY <2>1, PlaceIs
  <2> QED
    BY <2>1, <2>2
<1>2. RankOf(r, v) = SumFunction(B)
  BY DEF RankOf
<1>3. \A i \in S : /\ i \in 1..Len(r) /\ r[i].value \in Nat /\ End(r[i]) \in Nat /\ r[i].length \in Nat
                   /\ r[i].value <= v /\ r[i].value <= End(r[i])
                   /\ End(r[i]) = r[i].value + r[i].length
  <2>1. ASSUME NEW i \in S PROVE i \in 1..Len(r) /\ i <= p
    BY <1>1
  <2> QED
    BY <1>1, <2>1, RunsLegal
<1>4. Measures(B, G, S)
  <2>1. ASSUME NEW i \in S PROVE IsFiniteSet(G[i]) /\ B[i] = Cardinality(G[i])
    <3> DEFINE lo == r[i].value
               hi == End(r[i])
               last == IF v <= hi THEN v ELSE hi
    <3>1. /\ lo \in Nat /\ hi \in Nat /\ lo <= v /\ lo <= hi /\ hi = lo + r[i].length
          /\ r[i].length \in Nat /\ v \in Nat
      BY <1>1, <1>3
    <3>2. G[i] = {u \in lo..hi : u <= v} /\ B[i] = IF v <= hi THEN v - lo + 1 ELSE r[i].length + 1
      OBVIOUS
    <3> HIDE DEF lo, hi, G, B
    <3>3. G[i] = lo..last
      BY <3>1, <3>2
    <3>4. last \in Nat /\ lo <= last /\ B[i] = last - lo + 1
      BY <3>1, <3>2
    <3> HIDE DEF last
    <3>5. IsFiniteSet(lo..last) /\ Cardinality(lo..last) = last - lo + 1
      <4>1. lo \in Int /\ last \in Int /\ ~(lo > last)
        BY <3>1, <3>4
      <4> QED
        BY <4>1, FS_Interval
    <3> QED
      BY <3>3, <3>4, <3>5
  <2>2. ASSUME NEW i \in S, NEW j \in S, i # j PROVE G[i] \cap G[j] = {}
    <3>1. i \in 1..Len(r) /\ j \in 1..Len(r) /\ i \in Int /\ j \in Int
      BY <1>3
    <3>2. \/ End(r[i]) + 1 < r[j].value
          \/ End(r[j]) + 1 < r[i].value
      <4>1. i < j \/ j < i
        BY <2>2, <3>1
      <4> QED
        BY <3>1, <4>1, RunsLegal
    <3>3. /\ G[i] \subseteq r[i].value..End(r[i]) /\ G[j] \subseteq r[j].value..End(r[j])
      OBVIOUS
    <3> HIDE DEF G
    <3>4. /\ r[i].value \in Nat /\ End(r[i]) \in Nat /\ r[j].value \in Nat /\ End(r[j]) \in Nat
      BY <1>3
    <3> QED
      BY <3>2, <3>3, <3>4
  <2> QED
    BY <2>1, <2>2 DEF Measures
<1>5. IsFiniteSet(S)
  <2>1. p \in Int
    BY <1>1
  <2> HIDE DEF p
  <2> QED
    BY <2>1, FS_Interval
<1>6. AllOf(G, S) = {u \in RunValues(r) : u <= v}
  <2>1. ASSUME NEW u PROVE u \in AllOf(G, S) <=> u \in RunValues(r) /\ u <= v
    <3>1. u \in AllOf(G, S) <=> \E i \in S : u \in r[i].value..End(r[i]) /\ u <= v
      BY DEF AllOf
    <3>2. u \in RunValues(r) <=> u \in Int /\ \E i \in 1..Len(r) : Holds(r[i], u)
      BY <1>1, InRuns
    <3>3. ASSUME u \in Int, NEW i \in 1..Len(r), Holds(r[i], u), u <= v PROVE i \in S
      <4>1. r[i].value \in Nat /\ r[i].value <= u
        BY <3>3, RunsLegal DEF Holds
      <4>2. r[i].value <= v
        BY <1>1, <3>3, <4>1
      <4> QED
        BY <1>1, <4>2
    <3>4. \A i \in S : u \in r[i].value..End(r[i]) <=> u \in Int /\ Holds(r[i], u)
      BY <1>3 DEF Holds
    <3> HIDE DEF S, G
    <3>5. \A i \in S : i \in 1..Len(r)
      BY <1>3
    <3> QED
      BY <3>1, <3>2, <3>3, <3>4, <3>5
  <2> QED
    BY <2>1
<1> HIDE DEF B, G, S
<1>7. DOMAIN B = S
  BY DEF B
<1> QED
  BY <1>2, <1>4, <1>5, <1>6, <1>7, SumMeasured

LEMMA RunsDisjoint ==
    ASSUME NEW r, Tidy(r), NEW i \in 1..Len(r), NEW j \in 1..Len(r), i # j
    PROVE  (r[i].value..End(r[i])) \cap (r[j].value..End(r[j])) = {}
<1>1. i < j \/ j < i
  OBVIOUS
<1>2. \/ End(r[i]) + 1 < r[j].value
      \/ End(r[j]) + 1 < r[i].value
  BY <1>1, RunsLegal
<1>3. /\ r[i].value \in Nat /\ End(r[i]) \in Nat /\ r[j].value \in Nat /\ End(r[j]) \in Nat
  BY RunsLegal
<1> QED
  BY <1>2, <1>3

\* What the runs before the i-th one count.
LEMMA BeforeRun ==
    ASSUME NEW r, Tidy(r), NEW i \in 1..Len(r)
    PROVE  SumFunction([j \in 1..(i - 1) |-> r[j].length + 1]) = Rank(RunValues(r), r[i].value)
<1> DEFINE S == 1..(i - 1)
           B == [j \in S |-> r[j].length + 1]
           G == [j \in S |-> r[j].value..End(r[j])]
           v == r[i].value
<1>1. Len(r) \in Nat /\ r \in Seq(Run16) /\ i \in Nat /\ v \in Nat
  BY RunsLegal
<1>2. \A j \in S : j \in 1..Len(r) /\ j < i
  BY <1>1
<1>3. ASSUME NEW j \in S
      PROVE  /\ r[j].value \in Nat /\ End(r[j]) \in Nat /\ r[j].length \in Nat
             /\ r[j].value <= End(r[j]) /\ End(r[j]) = r[j].value + r[j].length
             /\ End(r[j]) + 1 < v
  BY <1>2, RunsLegal
<1>4. Measures(B, G, S)
  <2>1. ASSUME NEW j \in S PROVE IsFiniteSet(G[j]) /\ B[j] = Cardinality(G[j])
    <3> DEFINE lo == r[j].value
               hi == End(r[j])
    <3>1. /\ lo \in Int /\ hi \in Int /\ ~(lo > hi) /\ r[j].length + 1 = hi - lo + 1
      BY <1>3
    <3>2. G[j] = lo..hi /\ B[j] = r[j].length + 1
      OBVIOUS
    <3> HIDE DEF lo, hi, G, B
    <3> QED
      BY <3>1, <3>2, FS_Interval
  <2>2. ASSUME NEW j \in S, NEW k \in S, j # k PROVE G[j] \cap G[k] = {}
    BY <1>2, <2>2, RunsDisjoint
  <2> QED
    BY <2>1, <2>2 DEF Measures
<1>5. IsFiniteSet(S)
  <2>1. i - 1 \in Int
    BY <1>1
  <2> QED
    BY <2>1, FS_Interval
<1>6. AllOf(G, S) = {u \in RunValues(r) : u < v}
  <2>1. ASSUME NEW u PROVE u \in AllOf(G, S) <=> u \in RunValues(r) /\ u < v
    <3>1. u \in AllOf(G, S) <=> \E j \in S : u \in r[j].value..End(r[j])
      BY DEF AllOf
    <3>2. u \in RunValues(r) <=> u \in Int /\ \E j \in 1..Len(r) : Holds(r[j], u)
      BY <1>1, InRuns
    <3>3. ASSUME u \in Int, NEW j \in 1..Len(r), Holds(r[j], u), u < v PROVE j \in S
      <4>1. r[j].value \in Nat /\ r[j].value <= u
        BY <3>3, RunsLegal DEF Holds
      <4>2. ~(i < j)
        <5> SUFFICES ASSUME i < j PROVE FALSE
          OBVIOUS
        <5>1. End(r[i]) + 1 < r[j].value /\ v <= End(r[i]) /\ End(r[i]) \in Nat
          BY RunsLegal
        <5> QED
          BY <1>1, <3>3, <4>1, <5>1
      <4>3. i # j
        BY <1>1, <3>3, <4>1
      <4> QED
        BY <1>1, <4>2, <4>3
    <3>4. \A j \in S : u \in r[j].value..End(r[j]) <=> u \in Int /\ Holds(r[j], u)
      BY <1>3 DEF Holds
    <3>5. \A j \in S : u \in r[j].value..End(r[j]) => u < v
      BY <1>1, <1>3
    <3> HIDE DEF S, G, v
    <3> QED
      BY <1>2, <3>1, <3>2, <3>3, <3>4, <3>5
  <2> QED
    BY <2>1
<1> HIDE DEF B, G, S
<1>7. DOMAIN B = S
  BY DEF B
<1>8. SumFunction(B) = Cardinality({u \in RunValues(r) : u < v})
  BY <1>4, <1>5, <1>6, <1>7, SumMeasured
<1> QED
  BY <1>8 DEF B, S, Rank

LEMMA RankInRun ==
    ASSUME NEW r, Tidy(r), NEW i \in 1..Len(r), NEW v \in Nat, Holds(r[i], v)
    PROVE  /\ Rank(RunValues(r), v) = Rank(RunValues(r), r[i].value) + (v - r[i].value)
           /\ Rank(RunValues(r), r[i].value) \in Nat /\ v \in RunValues(r)
<1> DEFINE lo == r[i].value
           A == {u \in RunValues(r) : u < lo}
           T == {u \in RunValues(r) : u < v}
<1>1. /\ lo \in Nat /\ lo <= v /\ v <= End(r[i]) /\ End(r[i]) \in Nat
  BY RunsLegal DEF Holds
<1>2. v \in RunValues(r) /\ \A u \in Int : Holds(r[i], u) => u \in RunValues(r)
  BY <1>1, EndsHeld DEF Tidy
<1>3. IsVals(RunValues(r))
  BY RunValuesAre, RunsLegal
<1>4. IsFiniteSet(A) /\ Cardinality(A) \in Nat
  <2>1. A \in SUBSET RunValues(r)
    OBVIOUS
  <2> QED
    BY <1>3, <2>1, ValsWithin DEF IsVals
<1>5. T = A \cup (lo..(v - 1)) /\ A \cap (lo..(v - 1)) = {}
  <2>1. \A u \in lo..(v - 1) : u \in RunValues(r) /\ u < v
    BY <1>1, <1>2 DEF Holds
  <2>2. \A u \in RunValues(r) : u \in Int
    BY <1>3 DEF IsVals
  <2> QED
    BY <1>1, <2>1, <2>2
<1>6. IsFiniteSet(lo..(v - 1)) /\ Cardinality(lo..(v - 1)) = v - lo
  <2>1. lo \in Int /\ v - 1 \in Int
    BY <1>1
  <2>2. /\ IsFiniteSet(lo..(v - 1))
        /\ Cardinality(lo..(v - 1)) = IF lo > v - 1 THEN 0 ELSE (v - 1) - lo + 1
    BY <2>1, FS_Interval
  <2> HIDE DEF lo
  <2> QED
    BY <1>1, <2>2
<1> HIDE DEF A, T, lo
<1>7. Cardinality(T) = Cardinality(A) + Cardinality(lo..(v - 1)) - Cardinality(A \cap (lo..(v - 1)))
  BY <1>4, <1>5, <1>6, FS_Union
<1>8. Cardinality(A \cap (lo..(v - 1))) = 0
  BY <1>5, FS_EmptySet
<1>9. Cardinality(T) = Cardinality(A) + (v - lo)
  BY <1>1, <1>4, <1>6, <1>7, <1>8
<1> QED
  BY <1>2, <1>4, <1>9 DEF Rank, A, T, lo

LEMMA SelectAtExact ==
    ASSUME NEW r, Tidy(r), NEW rank \in 0..(Cardinality(RunValues(r)) - 1)
    PROVE  SelectAt(r, rank) = Sorted(RunValues(r))[rank + 1]
<1> DEFINE vals == RunValues(r)
           w == Sorted(vals)[rank + 1]
           Before(i) == SumFunction([j \in 1..(i - 1) |-> r[j].length + 1])
           Spans(i) == Before(i) <= rank /\ rank <= Before(i) + r[i].length
           k == CHOOSE i \in DOMAIN r : Spans(i)
<1>1. SelectAt(r, rank) = r[k].value + rank - Before(k)
  BY DEF SelectAt
<1>2. DOMAIN r = 1..Len(r) /\ r \in Seq(Run16) /\ IsVals(vals)
  BY RunsLegal, RunValuesAre
<1>3. rank \in Nat /\ w \in vals /\ w \in Int /\ Rank(vals, w) = rank
  <2> HIDE DEF vals
  <2>1. Cardinality(vals) \in Nat
    BY <1>2, SortedRank
  <2>2. rank \in Nat /\ rank + 1 \in 1..Cardinality(vals) /\ (rank + 1) - 1 = rank
    BY <2>1 DEF vals
  <2> QED
    BY <1>2, <2>2, SortedRank
<1>4. \A i \in 1..Len(r) : Before(i) = Rank(vals, r[i].value)
  BY BeforeRun
<1> HIDE DEF Before
<1>5. \E i \in DOMAIN r : Spans(i)
  <2>1. PICK i \in 1..Len(r) : Holds(r[i], w)
    BY <1>2, <1>3, InRuns
  <2>2. /\ r[i].value \in Nat /\ End(r[i]) \in Nat /\ r[i].length \in Nat
        /\ End(r[i]) = r[i].value + r[i].length
    BY RunsLegal
  <2>3. w \in Nat /\ r[i].value <= w /\ w <= End(r[i])
    BY <1>3, <2>1, <2>2 DEF Holds
  <2>4. rank = Before(i) + (w - r[i].value) /\ Before(i) \in Nat
    BY <1>3, <1>4, <2>1, <2>3, RankInRun
  <2>5. Spans(i)
    <3> HIDE DEF w
    <3> QED
      BY <1>3, <2>2, <2>3, <2>4
  <2> QED
    BY <1>2, <2>5
<1> HIDE DEF Spans
<1>6. k \in 1..Len(r) /\ Spans(k)
  BY <1>2, <1>5
<1> HIDE DEF k
<1> DEFINE v == r[k].value + (rank - Before(k))
<1>7. /\ r[k].value \in Nat /\ End(r[k]) \in Nat /\ r[k].length \in Nat
      /\ End(r[k]) = r[k].value + r[k].length
  BY <1>6, RunsLegal
<1>8. Before(k) \in Nat
  <2>1. Holds(r[k], r[k].value)
    BY <1>7 DEF Holds
  <2> QED
    BY <1>4, <1>6, <1>7, <2>1, RankInRun
<1>9. v \in Nat /\ r[k].value <= v /\ v <= End(r[k]) /\ v - r[k].value = rank - Before(k)
      /\ r[k].value + rank - Before(k) = v
  <2>1. Before(k) <= rank /\ rank <= Before(k) + r[k].length
    BY <1>6 DEF Spans
  <2> QED
    BY <1>3, <1>7, <1>8, <2>1
<1> HIDE DEF v
<1>10. v \in vals /\ Rank(vals, v) = Before(k) + (v - r[k].value)
  <2>1. Holds(r[k], v)
    BY <1>9 DEF Holds
  <2> QED
    BY <1>4, <1>6, <1>9, <2>1, RankInRun
<1>11. Rank(vals, v) = rank
  BY <1>3, <1>8, <1>9, <1>10
<1>12. v = w
  <2> HIDE DEF vals, w
  <2> QED
    BY <1>2, <1>3, <1>10, <1>11, SameRank
<1> QED
  BY <1>1, <1>9, <1>12

\* What run_container_contains_range counts in the runs from the p-th one on.
Counted(r, p, low, high) ==
    [i \in p..Len(r) |-> IF r[i].value >= high THEN 0
                         ELSE IF End(r[i]) >= high THEN high - r[i].value
                         ELSE Min({End(r[i]) - low, r[i].length})]
CountedIn(r, p, low, high) ==
    [i \in p..Len(r) |-> IF r[i].value >= high THEN {}
                         ELSE IF End(r[i]) >= high THEN r[i].value..(high - 1)
                         ELSE IF i = p THEN (low + 1)..End(r[i])
                         ELSE (r[i].value + 1)..End(r[i])]

LEMMA CountedMeasures ==
    ASSUME NEW r, Tidy(r), NEW low \in Nat, NEW high \in Nat, low < high,
           NEW p \in 1..Len(r), Holds(r[p], low)
    PROVE  /\ Measures(Counted(r, p, low, high), CountedIn(r, p, low, high), p..Len(r))
           /\ \A i \in p..Len(r) :
                 CountedIn(r, p, low, high)[i] \subseteq (r[i].value..End(r[i])) \cap (r[i].value..(high - 1))
<1> DEFINE S == p..Len(r)
           B == Counted(r, p, low, high)
           G == CountedIn(r, p, low, high)
<1>1. Len(r) \in Nat /\ p \in Nat /\ \A i \in S : i \in 1..Len(r) /\ i \in Nat /\ (i # p => p < i)
  BY RunsLegal
<1>2. ASSUME NEW i \in S
      PROVE  /\ r[i].value \in Nat /\ End(r[i]) \in Nat /\ r[i].length \in Nat
             /\ r[i].value <= End(r[i]) /\ End(r[i]) = r[i].value + r[i].length
             /\ i = p => r[i].value <= low /\ low <= End(r[i])
             /\ i # p => low < r[i].value
  <2>1. /\ r[i].value \in Nat /\ End(r[i]) \in Nat /\ r[i].length \in Nat
        /\ r[i].value <= End(r[i]) /\ End(r[i]) = r[i].value + r[i].length
    BY <1>1, RunsLegal
  <2>2. r[p].value <= low /\ low <= End(r[p]) /\ End(r[p]) \in Nat
    BY RunsLegal DEF Holds
  <2>3. i # p => End(r[p]) + 1 < r[i].value
    BY <1>1, RunsLegal
  <2> QED
    BY <2>1, <2>2, <2>3
<1>3. ASSUME NEW i \in S
      PROVE  /\ IsFiniteSet(G[i]) /\ B[i] = Cardinality(G[i])
             /\ G[i] \subseteq (r[i].value..End(r[i])) \cap (r[i].value..(high - 1))
  <2> DEFINE lo == r[i].value
             hi == End(r[i])
             n == r[i].length
  <2>1. /\ lo \in Nat /\ hi \in Nat /\ n \in Nat /\ lo <= hi /\ hi = lo + n
        /\ i = p => lo <= low /\ low <= hi
        /\ i # p => low < lo
    BY <1>2
  <2>2. /\ B[i] = (IF lo >= high THEN 0 ELSE IF hi >= high THEN high - lo ELSE Min({hi - low, n}))
        /\ G[i] = (IF lo >= high THEN {} ELSE IF hi >= high THEN lo..(high - 1)
                   ELSE IF i = p THEN (low + 1)..hi ELSE (lo + 1)..hi)
    BY DEF Counted, CountedIn
  <2> HIDE DEF lo, hi, n, B, G
  <2>3. Min({hi - low, n}) = IF hi - low <= n THEN hi - low ELSE n
    <3>1. hi - low \in Int /\ n \in Int
      BY <2>1
    <3> HIDE DEF hi, n
    <3> QED
      BY <3>1, TwoAre
  <2>4. ASSUME NEW a \in Int, NEW b \in Int, a <= b + 1
        PROVE  IsFiniteSet(a..b) /\ Cardinality(a..b) = b - a + 1
    <3>1. IsFiniteSet(a..b) /\ Cardinality(a..b) = IF a > b THEN 0 ELSE b - a + 1
      BY FS_Interval
    <3> QED
      BY <2>4, <3>1
  <2>5. CASE lo >= high
    <3>1. B[i] = 0 /\ G[i] = {}
      BY <2>2, <2>5
    <3> QED
      BY <3>1, FS_EmptySet
  <2>6. CASE ~(lo >= high) /\ hi >= high
    <3>1. B[i] = high - lo /\ G[i] = lo..(high - 1)
      BY <2>2, <2>6
    <3>2. lo \in Int /\ high - 1 \in Int /\ lo <= (high - 1) + 1 /\ (high - 1) - lo + 1 = high - lo
      BY <2>1, <2>6
    <3>3. IsFiniteSet(lo..(high - 1)) /\ Cardinality(lo..(high - 1)) = (high - 1) - lo + 1
      BY <2>4, <3>2
    <3>4. lo..(high - 1) \subseteq lo..hi
      BY <2>1, <2>6
    <3> QED
      BY <3>1, <3>2, <3>3, <3>4 DEF lo, hi
  <2>7. CASE ~(lo >= high) /\ ~(hi >= high) /\ i = p
    <3>1. G[i] = (low + 1)..hi
      BY <2>2, <2>7
    <3>2. B[i] = hi - low
      BY <2>1, <2>2, <2>3, <2>7
    <3>3. low + 1 \in Int /\ hi \in Int /\ low + 1 <= hi + 1 /\ hi - (low + 1) + 1 = hi - low
      BY <2>1, <2>7
    <3>4. IsFiniteSet((low + 1)..hi) /\ Cardinality((low + 1)..hi) = hi - (low + 1) + 1
      BY <2>4, <3>3
    <3>5. (low + 1)..hi \subseteq (lo..hi) \cap (lo..(high - 1))
      BY <2>1, <2>7
    <3> QED
      BY <3>1, <3>2, <3>3, <3>4, <3>5 DEF lo, hi
  <2>8. CASE ~(lo >= high) /\ ~(hi >= high) /\ i # p
    <3>1. G[i] = (lo + 1)..hi
      BY <2>2, <2>8
    <3>2. B[i] = n
      BY <2>1, <2>2, <2>3, <2>8
    <3>3. lo + 1 \in Int /\ hi \in Int /\ lo + 1 <= hi + 1 /\ hi - (lo + 1) + 1 = n
      BY <2>1, <2>8
    <3>4. IsFiniteSet((lo + 1)..hi) /\ Cardinality((lo + 1)..hi) = hi - (lo + 1) + 1
      BY <2>4, <3>3
    <3>5. (lo + 1)..hi \subseteq (lo..hi) \cap (lo..(high - 1))
      BY <2>1, <2>8
    <3> QED
      BY <3>1, <3>2, <3>3, <3>4, <3>5 DEF lo, hi
  <2> QED
    BY <2>5, <2>6, <2>7, <2>8
<1>4. ASSUME NEW i \in S, NEW j \in S, i # j PROVE G[i] \cap G[j] = {}
  <2>1. i \in 1..Len(r) /\ j \in 1..Len(r)
    BY <1>1
  <2>2. (r[i].value..End(r[i])) \cap (r[j].value..End(r[j])) = {}
    BY <1>4, <2>1, RunsDisjoint
  <2>3. G[i] \subseteq r[i].value..End(r[i]) /\ G[j] \subseteq r[j].value..End(r[j])
    BY <1>3
  <2> QED
    BY <2>2, <2>3
<1> QED
  BY <1>3, <1>4 DEF Measures

LEMMA ContainsRangeExact ==
    ASSUME NEW r, Tidy(r), NEW low \in Numbers, NEW high \in (low + 1)..U
    PROVE  ContainsRange(r, low, high) <=> low..(high - 1) \subseteq RunValues(r)
<1> DEFINE p == PlaceOf(r, low)
           n == SumFunction(Counted(r, p, low, high))
           G == CountedIn(r, p, low, high)
           S == p..Len(r)
<1>1. low \in Nat /\ low \in Int /\ high \in Nat /\ low < high /\ RunValues(r) \subseteq Int
  <2>1. low \in Nat /\ RunValues(r) \subseteq Int
    BY NumbersFit
  <2> QED
    BY <2>1, UAssumption
<1>2. ContainsRange(r, low, high) <=> p > 0 /\ Holds(r[p], low) /\ n >= high - low - 1
  BY DEF ContainsRange, Counted
<1>3. p \in 0..Len(r) /\ (low \in RunValues(r) <=> p > 0 /\ Holds(r[p], low)) /\ Len(r) \in Nat
  BY <1>1, PlaceIs, RunsLegal
<1> HIDE DEF p
<1>4. CASE ~(p > 0 /\ Holds(r[p], low))
  <2>1. low \in low..(high - 1) /\ low \notin RunValues(r)
    BY <1>1, <1>3, <1>4
  <2> QED
    BY <1>2, <1>4, <2>1
<1>5. CASE p > 0 /\ Holds(r[p], low)
  <2>1. p \in 1..Len(r) /\ p \in Nat
    BY <1>3, <1>5
  <2>2. /\ Measures(Counted(r, p, low, high), G, S)
        /\ \A i \in S : G[i] \subseteq (r[i].value..End(r[i])) \cap (r[i].value..(high - 1))
    BY <1>1, <1>5, <2>1, CountedMeasures
  <2>3. IsFiniteSet(AllOf(G, S)) /\ n = Cardinality(AllOf(G, S)) /\ n \in Nat
    <3>1. IsFiniteSet(S)
      <4>1. p \in Int /\ Len(r) \in Int
        BY <1>3, <2>1
      <4> QED
        BY <4>1, FS_Interval
    <3>2. DOMAIN Counted(r, p, low, high) = S
      BY DEF Counted
    <3> HIDE DEF S, G
    <3> QED
      BY <2>2, <3>1, <3>2, SumMeasured
  <2> HIDE DEF n
  <2> DEFINE e == End(r[p])
             T == (low + 1)..(high - 1)
  <2>4. /\ e \in Nat /\ r[p].value \in Nat /\ r[p].value <= low /\ low <= e /\ p \in S
        /\ r[p].length \in Nat
    BY <1>3, <1>5, <2>1, RunsLegal DEF Holds
  <2>5. IsFiniteSet(T) /\ Cardinality(T) = high - 1 - low
    <3>1. low + 1 \in Int /\ high - 1 \in Int
      BY <1>1
    <3>2. IsFiniteSet(T) /\ Cardinality(T) = IF low + 1 > high - 1 THEN 0 ELSE (high - 1) - (low + 1) + 1
      BY <3>1, FS_Interval
    <3> HIDE DEF T
    <3> QED
      BY <1>1, <3>2
  <2>6. CASE e >= high - 1
    <3>1. low..(high - 1) \subseteq RunValues(r)
      <4>1. \A v \in low..(high - 1) : v \in Int /\ Holds(r[p], v)
        BY <1>1, <2>4, <2>6 DEF Holds
      <4> QED
        BY <2>1, <4>1, InRuns, RunsLegal
    <3>2. T \subseteq G[p]
      <4>1. G[p] = (IF r[p].value >= high THEN {} ELSE IF e >= high THEN r[p].value..(high - 1)
                    ELSE (low + 1)..e)
        BY <2>4 DEF CountedIn
      <4> HIDE DEF e, G
      <4>2. ~(r[p].value >= high)
        BY <1>1, <2>4
      <4>3. CASE e >= high
        BY <1>1, <2>4, <4>1, <4>2, <4>3
      <4>4. CASE ~(e >= high)
        BY <1>1, <2>4, <2>6, <4>1, <4>2, <4>4
      <4> QED
        BY <4>3, <4>4
    <3>3. T \subseteq AllOf(G, S)
      BY <2>4, <3>2 DEF AllOf
    <3> HIDE DEF T, G, S
    <3>4. Cardinality(T) <= Cardinality(AllOf(G, S))
      BY <2>3, <3>3, FS_Subset
    <3>5. n >= high - low - 1
      BY <1>1, <2>3, <2>5, <3>4
    <3> QED
      BY <1>2, <1>5, <3>1, <3>5
  <2>7. CASE ~(e >= high - 1)
    <3>1. e + 1 \notin RunValues(r)
      <4>1. ASSUME NEW i \in 1..Len(r) PROVE ~Holds(r[i], e + 1)
        <5>1. i = p \/ i < p \/ p < i
          BY <2>1
        <5>2. CASE i = p
          BY <2>4, <5>2 DEF Holds
        <5>3. CASE i < p
          <6>1. End(r[i]) + 1 < r[p].value /\ End(r[i]) \in Nat
            BY <2>1, <5>3, RunsLegal
          <6> QED
            BY <1>1, <2>4, <6>1 DEF Holds
        <5>4. CASE p < i
          <6>1. e + 1 < r[i].value /\ r[i].value \in Nat
            BY <2>1, <5>4, RunsLegal
          <6> QED
            BY <2>4, <6>1 DEF Holds
        <5> QED
          BY <5>1, <5>2, <5>3, <5>4
      <4> QED
        BY <4>1, InRuns, RunsLegal
    <3>2. e + 1 \in low..(high - 1) /\ e + 1 \in T
      BY <1>1, <2>4, <2>7
    <3>3. AllOf(G, S) \subseteq T \ {e + 1}
      <4>1. ASSUME NEW i \in S PROVE G[i] \subseteq T \ {e + 1}
        <5>1. i \in 1..Len(r) /\ (i # p => p < i)
          BY <2>1
        <5>2. CASE i = p
          <6>1. G[p] = (IF r[p].value >= high THEN {} ELSE IF e >= high THEN r[p].value..(high - 1)
                        ELSE (low + 1)..e)
            BY <2>4 DEF CountedIn
          <6>2. G[p] = (low + 1)..e
            BY <1>1, <2>4, <2>7, <6>1
          <6> HIDE DEF G, e
          <6> QED
            BY <1>1, <2>4, <2>7, <5>2, <6>2
        <5>3. CASE i # p
          <6>1. e + 1 < r[i].value /\ r[i].value \in Nat
            BY <2>1, <5>1, <5>3, RunsLegal
          <6>2. G[i] \subseteq r[i].value..(high - 1)
            BY <2>2
          <6> HIDE DEF G, e
          <6> QED
            BY <1>1, <2>4, <6>1, <6>2
        <5> QED
          BY <5>2, <5>3
      <4> QED
        BY <4>1 DEF AllOf
    <3> HIDE DEF T, G, S, e
    <3>4. IsFiniteSet(T \ {e + 1}) /\ Cardinality(T \ {e + 1}) = Cardinality(T) - 1
      BY <2>5, <3>2, FS_RemoveElement
    <3>5. Cardinality(AllOf(G, S)) <= Cardinality(T \ {e + 1})
      BY <3>3, <3>4, FS_Subset
    <3>6. ~(n >= high - low - 1)
      BY <1>1, <2>3, <2>5, <3>4, <3>5
    <3> QED
      BY <1>2, <3>1, <3>2, <3>6
  <2> QED
    BY <2>6, <2>7
<1> QED
  BY <1>4, <1>5

\* run_container_is_subset, one step at a time.
SubsetNext(r1, r2, p) ==
    <<IF End(r1[p[1]]) <= End(r2[p[2]]) THEN p[1] + 1 ELSE p[1],
      IF End(r2[p[2]]) <= End(r1[p[1]]) THEN p[2] + 1 ELSE p[2]>>
BeginsIn(r1, r2, p) == p[2] <= Len(r2) /\ r2[p[2]].value <= r1[p[1]].value
RestWithin(r1, r2, p) == Rest(r1, p[1]) \subseteq Rest(r2, p[2])

WithinTwo(a, b, x, y, A, X) ==
    (a..b) \cup A \subseteq (x..y) \cup X
    <=> (IF b <= y THEN A ELSE (a..b) \cup A) \subseteq (IF y <= b THEN X ELSE (x..y) \cup X)

LEMMA SubsetOfTwo ==
    ASSUME NEW a \in Nat, NEW b \in Nat, NEW x \in Nat, NEW y \in Nat, a <= b, x <= y, x <= a,
           NEW A, NEW X, \A v \in A : v \in Int /\ b + 1 < v, \A v \in X : v \in Int /\ y + 1 < v
    PROVE  WithinTwo(a, b, x, y, A, X)
<1> DEFINE R == (a..b) \cup A
           S == (x..y) \cup X
<1>1. CASE b < y
  <2>1. \A v \in a..b : v \in S
    BY <1>1
  <2>2. R \subseteq S <=> A \subseteq S
    BY <2>1
  <2>3. b <= y /\ ~(y <= b)
    BY <1>1
  <2> QED
    BY <2>2, <2>3 DEF WithinTwo
<1>2. CASE b = y
  <2>1. \A v \in a..b : v \in S
    BY <1>2
  <2>2. \A v \in A : v \in S <=> v \in X
    BY <1>2
  <2>3. R \subseteq S <=> A \subseteq X
    BY <2>1, <2>2
  <2>4. b <= y /\ y <= b
    BY <1>2
  <2> QED
    BY <2>3, <2>4 DEF WithinTwo
<1>3. CASE b > y /\ y < a
  <2>1. \A v \in R : v \in S <=> v \in X
    BY <1>3
  <2>2. R \subseteq S <=> R \subseteq X
    BY <2>1
  <2>3. ~(b <= y) /\ y <= b
    BY <1>3
  <2> QED
    BY <2>2, <2>3 DEF WithinTwo
<1>4. CASE b > y /\ a <= y
  <2>1. y + 1 \in R /\ y + 1 \notin S
    BY <1>4
  <2>2. a \in R /\ a \notin X
    BY <1>4
  <2>3. ~(b <= y) /\ y <= b
    BY <1>4
  <2> QED
    BY <2>1, <2>2, <2>3 DEF WithinTwo
<1>5. b < y \/ b = y \/ (b > y /\ y < a) \/ (b > y /\ a <= y)
  OBVIOUS
<1> QED
  BY <1>1, <1>2, <1>3, <1>4, <1>5

LEMMA SubsetOn ==
    ASSUME NEW r1, NEW r2, Tidy(r1), Tidy(r2), NEW p \in Places(r1, r2), p[1] <= Len(r1)
    PROVE  /\ BeginsIn(r1, r2, p)
              => /\ SubsetNext(r1, r2, p) \in Places(r1, r2)
                 /\ Left(r1, r2, SubsetNext(r1, r2, p)) < Left(r1, r2, p)
           /\ RestWithin(r1, r2, p)
              <=> BeginsIn(r1, r2, p) /\ RestWithin(r1, r2, SubsetNext(r1, r2, p))
<1> DEFINE i == p[1]
           j == p[2]
           n == Len(r1)
           m == Len(r2)
           a == r1[i].value
           b == End(r1[i])
           x == r2[j].value
           y == End(r2[j])
           A == Rest(r1, i + 1)
           X == Rest(r2, j + 1)
           q == SubsetNext(r1, r2, p)
<1>1. /\ r1 \in Seq(Run16) /\ r2 \in Seq(Run16) /\ n \in Nat /\ m \in Nat
      /\ i \in 1..n /\ j \in 1..(m + 1)
  BY RunsLegal DEF Places
<1>2. /\ a \in Nat /\ b \in Nat /\ a <= b /\ \A v \in A : v \in Int /\ b + 1 < v
      /\ Rest(r1, i) = (a..b) \cup A
  BY <1>1, RestOf, RunsLegal DEF Tidy
<1>3. a \in Rest(r1, i)
  <2> HIDE DEF a, b, A
  <2> QED
    BY <1>2
<1>4. CASE j > m
  <2>1. j = m + 1
    BY <1>1, <1>4
  <2>2. Rest(r2, m + 1) = {}
    BY RestAll DEF Tidy
  <2>3. Rest(r2, j) = {}
    BY <2>1, <2>2
  <2>4. ~(j <= m)
    BY <1>1, <1>4
  <2>5. ~BeginsIn(r1, r2, p) /\ ~RestWithin(r1, r2, p)
    BY <1>3, <2>3, <2>4 DEF BeginsIn, RestWithin
  <2> QED
    BY <2>5
<1>5. CASE j <= m
  <2>1. j \in 1..m
    BY <1>1, <1>5
  <2>2. /\ x \in Nat /\ y \in Nat /\ x <= y /\ \A v \in X : v \in Int /\ y + 1 < v
        /\ Rest(r2, j) = (x..y) \cup X /\ \A v \in Rest(r2, j) : v \in Int /\ x <= v
    BY <2>1, RestOf, RunsLegal DEF Tidy
  <2>3. BeginsIn(r1, r2, p) <=> x <= a
    BY <1>5 DEF BeginsIn
  <2>4. CASE ~(x <= a)
    <3> HIDE DEF x, a, b, A, X, y
    <3>1. a \notin Rest(r2, j)
      BY <1>2, <2>2, <2>4
    <3>2. ~RestWithin(r1, r2, p)
      BY <1>3, <3>1 DEF RestWithin
    <3> QED
      BY <2>3, <2>4, <3>2
  <2>5. CASE x <= a
    <3>1. q = <<IF b <= y THEN i + 1 ELSE i, IF y <= b THEN j + 1 ELSE j>>
      BY DEF SubsetNext
    <3>2. ~(p[1] > Len(r1) \/ p[2] > Len(r2))
      BY <1>1, <1>5
    <3>3. q = MeetNext(r1, r2, p)
      <4>1. MeetNext(r1, r2, p) = IF b < x THEN <<i + 1, j>> ELSE IF y < a THEN <<i, j + 1>>
                ELSE <<IF b <= y THEN i + 1 ELSE i, IF y <= b THEN j + 1 ELSE j>>
        BY DEF MeetNext
      <4>2. ~(b < x) /\ (y < a => ~(b <= y) /\ y <= b)
        <5> HIDE DEF x, a, b, y
        <5> QED
          BY <1>2, <2>2, <2>5
      <4> HIDE DEF x, a, b, y, q, i, j
      <4> QED
        BY <3>1, <4>1, <4>2, Zenon
    <3>4. q \in Places(r1, r2) /\ Left(r1, r2, q) < Left(r1, r2, p)
      <4> HIDE DEF q
      <4> QED
        BY <1>1, <3>2, <3>3, MeetGoesOn
    <3>5. WithinTwo(a, b, x, y, A, X)
      <4> HIDE DEF x, a, b, A, X, y
      <4> QED
        BY <1>2, <2>2, <2>5, SubsetOfTwo
    <3>6. Rest(r1, q[1]) = IF b <= y THEN A ELSE (a..b) \cup A
      <4>1. q[1] = IF b <= y THEN i + 1 ELSE i
        BY <3>1
      <4> HIDE DEF q, b, y, a
      <4> QED
        BY <1>2, <4>1
    <3>7. Rest(r2, q[2]) = IF y <= b THEN X ELSE (x..y) \cup X
      <4>1. q[2] = IF y <= b THEN j + 1 ELSE j
        BY <3>1
      <4> HIDE DEF q, b, y, x
      <4> QED
        BY <2>2, <4>1
    <3>8. RestWithin(r1, r2, p) <=> RestWithin(r1, r2, q)
      <4> HIDE DEF q, a, b, x, y, A, X
      <4> QED
        BY <1>2, <2>2, <3>5, <3>6, <3>7 DEF RestWithin, WithinTwo
    <3> QED
      BY <2>3, <2>5, <3>4, <3>8
  <2> QED
    BY <2>4, <2>5
<1>6. j > m \/ j <= m
  BY <1>1
<1> QED
  BY <1>4, <1>5, <1>6

LEMMA SubsetRunsExact ==
    ASSUME NEW r1, NEW r2, Tidy(r1), Tidy(r2)
    PROVE  SubsetRuns(r1, r2) = (RunValues(r1) \subseteq RunValues(r2))
<1> DEFINE P == Places(r1, r2)
           Ends(p) == p[1] > Len(r1)
           Go(h) == [p \in (1..(Len(r1) + 1)) \X (1..(Len(r2) + 1)) |->
                        IF p[1] > Len(r1) THEN TRUE
                        ELSE /\ p[2] <= Len(r2)
                             /\ r2[p[2]].value <= r1[p[1]].value
                             /\ h[<<IF End(r1[p[1]]) <= End(r2[p[2]]) THEN p[1] + 1 ELSE p[1],
                                    IF End(r2[p[2]]) <= End(r1[p[1]]) THEN p[2] + 1 ELSE p[2]>>]]
           g == [p \in P |-> RestWithin(r1, r2, p)]
           w == CHOOSE h : h = Go(h)
<1>1. SubsetRuns(r1, r2) = w[<<1, 1>>]
  BY DEF SubsetRuns
<1>2. /\ r1 \in Seq(Run16) /\ r2 \in Seq(Run16) /\ Len(r1) \in Nat /\ Len(r2) \in Nat
      /\ <<1, 1>> \in P
  BY RunsLegal DEF Places
<1>3. ASSUME NEW h
      PROVE  Go(h) = [p \in P |-> IF Ends(p) THEN TRUE
                                  ELSE BeginsIn(r1, r2, p) /\ h[SubsetNext(r1, r2, p)]]
  BY Zenon DEF BeginsIn, SubsetNext, Places
<1>4. \A p \in P : Ends(p) => RestWithin(r1, r2, p)
  <2> SUFFICES ASSUME NEW p \in P, Ends(p) PROVE RestWithin(r1, r2, p)
    OBVIOUS
  <2>9. p[1] \in Nat /\ p[1] <= Len(r1) + 1
    BY <1>2, LeftIs
  <2>1. p[1] = Len(r1) + 1
    BY <1>2, <2>9
  <2>2. Rest(r1, Len(r1) + 1) = {}
    BY RestAll DEF Tidy
  <2>3. Rest(r1, p[1]) = {}
    BY <2>1, <2>2
  <2> QED
    BY <2>3 DEF RestWithin
<1>5. \A p \in P : ~Ends(p) =>
          /\ BeginsIn(r1, r2, p)
              => /\ SubsetNext(r1, r2, p) \in P
                 /\ Left(r1, r2, SubsetNext(r1, r2, p)) < Left(r1, r2, p)
          /\ RestWithin(r1, r2, p)
              <=> BeginsIn(r1, r2, p) /\ RestWithin(r1, r2, SubsetNext(r1, r2, p))
  <2> SUFFICES ASSUME NEW p \in P, ~Ends(p)
               PROVE  /\ BeginsIn(r1, r2, p)
                          => /\ SubsetNext(r1, r2, p) \in P
                             /\ Left(r1, r2, SubsetNext(r1, r2, p)) < Left(r1, r2, p)
                      /\ RestWithin(r1, r2, p)
                          <=> BeginsIn(r1, r2, p) /\ RestWithin(r1, r2, SubsetNext(r1, r2, p))
    OBVIOUS
  <2>9. p[1] \in Nat /\ p[1] <= Len(r1) + 1
    BY <1>2, LeftIs
  <2>1. p[1] <= Len(r1)
    BY <1>2, <2>9
  <2> QED
    BY <2>1, SubsetOn
<1> HIDE DEF Go
<1>6. g = Go(g)
  <2>1. ASSUME NEW p \in P
        PROVE  RestWithin(r1, r2, p) = IF Ends(p) THEN TRUE
                                       ELSE BeginsIn(r1, r2, p) /\ g[SubsetNext(r1, r2, p)]
    <3>1. CASE Ends(p)
      <4>1. RestWithin(r1, r2, p) \in BOOLEAN /\ RestWithin(r1, r2, p)
        BY <1>4, <3>1 DEF RestWithin
      <4> QED
        BY <3>1, <4>1, Zenon
    <3>2. CASE ~Ends(p)
      <4>1. BeginsIn(r1, r2, p) => g[SubsetNext(r1, r2, p)] = RestWithin(r1, r2, SubsetNext(r1, r2, p))
        BY <1>5, <3>2, Zenon
      <4>2. RestWithin(r1, r2, p)
              <=> BeginsIn(r1, r2, p) /\ RestWithin(r1, r2, SubsetNext(r1, r2, p))
        BY <1>5, <3>2, Zenon
      <4> HIDE DEF g
      <4>3. RestWithin(r1, r2, p) <=> BeginsIn(r1, r2, p) /\ g[SubsetNext(r1, r2, p)]
        BY <4>1, <4>2, Zenon
      <4>4. RestWithin(r1, r2, p) = (BeginsIn(r1, r2, p) /\ g[SubsetNext(r1, r2, p)])
        BY <4>3, Zenon DEF RestWithin
      <4> QED
        BY <3>2, <4>4, Zenon
    <3> QED
      BY <3>1, <3>2
  <2>2. g = [p \in P |-> IF Ends(p) THEN TRUE
                         ELSE BeginsIn(r1, r2, p) /\ g[SubsetNext(r1, r2, p)]]
    <3> DEFINE e == [p \in P |-> IF Ends(p) THEN TRUE
                                 ELSE BeginsIn(r1, r2, p) /\ g[SubsetNext(r1, r2, p)]]
    <3>1. DOMAIN g = P /\ DOMAIN e = P /\ \A p \in P : g[p] = e[p]
      BY <2>1, Zenon
    <3>2. g = [p \in P |-> g[p]] /\ e = [p \in P |-> e[p]]
      BY Zenon
    <3> HIDE DEF g, e
    <3>3. g = e
      BY <3>1, <3>2, Zenon
    <3> QED
      BY <3>3 DEF e
  <2> QED
    BY <1>3, <2>2, Zenon
<1>7. w = Go(w)
  <2> HIDE DEF g
  <2> QED
    BY <1>6, Zenon
<1> HIDE DEF w
<1>8. ASSUME NEW p \in P
      PROVE  w[p] = IF Ends(p) THEN TRUE
                    ELSE BeginsIn(r1, r2, p) /\ w[SubsetNext(r1, r2, p)]
  <2>1. w = [s \in P |-> IF Ends(s) THEN TRUE
                         ELSE BeginsIn(r1, r2, s) /\ w[SubsetNext(r1, r2, s)]]
    BY <1>3, <1>7, Zenon
  <2> QED
    BY <2>1, Zenon
<1> HIDE DEF g, P
<1> DEFINE Good(p) == w[p] <=> RestWithin(r1, r2, p)
           Bad == {n \in Nat : \E p \in P : Left(r1, r2, p) = n /\ ~Good(p)}
<1>9. \A p \in P : Left(r1, r2, p) \in Nat
  BY <1>2, LeftIs DEF P
<1> HIDE DEF Good
<1>10. Bad = {}
  <2> SUFFICES ASSUME Bad # {} PROVE FALSE
    OBVIOUS
  <2>1. PICK n \in Bad : \A k \in Bad : n <= k
    <3>1. Bad \in SUBSET Nat
      OBVIOUS
    <3> HIDE DEF Bad
    <3> QED
      BY <3>1, LeastOfNaturals
  <2>2. PICK p \in P : Left(r1, r2, p) = n /\ ~Good(p)
    BY <2>1
  <2>3. CASE Ends(p)
    <3>1. w[p] /\ RestWithin(r1, r2, p)
      BY <1>4, <1>8, <2>3, Zenon
    <3> QED
      BY <2>2, <3>1, Zenon DEF Good
  <2>4. CASE ~Ends(p)
    <3> DEFINE q == SubsetNext(r1, r2, p)
    <3>1. /\ BeginsIn(r1, r2, p) => q \in P /\ Left(r1, r2, q) < Left(r1, r2, p)
          /\ RestWithin(r1, r2, p) <=> BeginsIn(r1, r2, p) /\ RestWithin(r1, r2, q)
      BY <1>5, <2>4, Zenon
    <3>2. w[p] = (BeginsIn(r1, r2, p) /\ w[q])
      BY <1>8, <2>4, Zenon
    <3> HIDE DEF q
    <3>3. BeginsIn(r1, r2, p) => Good(q)
      <4> SUFFICES ASSUME BeginsIn(r1, r2, p), ~Good(q) PROVE FALSE
        OBVIOUS
      <4>1. q \in P /\ Left(r1, r2, q) < n /\ Left(r1, r2, q) \in Nat /\ n \in Nat
        BY <1>9, <2>2, <3>1
      <4>2. Left(r1, r2, q) \in Bad
        BY <4>1
      <4> QED
        BY <2>1, <4>1, <4>2
    <3>4. Good(p)
      BY <3>1, <3>2, <3>3, Zenon DEF Good
    <3> QED
      BY <2>2, <3>4
  <2> QED
    BY <2>3, <2>4
<1>11. Good(<<1, 1>>)
  BY <1>2, <1>9, <1>10
<1>12. RestWithin(r1, r2, <<1, 1>>) <=> RunValues(r1) \subseteq RunValues(r2)
  <2>1. Rest(r1, 1) = RunValues(r1) /\ Rest(r2, 1) = RunValues(r2)
    BY RestAll DEF Tidy
  <2>2. RestWithin(r1, r2, <<1, 1>>) <=> Rest(r1, 1) \subseteq Rest(r2, 1)
    BY DEF RestWithin
  <2> QED
    BY <2>1, <2>2, Zenon
<1>13. w[<<1, 1>>] \in BOOLEAN
  BY <1>2, <1>8, Zenon
<1>14. w[<<1, 1>>] <=> RunValues(r1) \subseteq RunValues(r2)
  BY <1>11, <1>12, Zenon DEF Good
<1> QED
  BY <1>1, <1>13, <1>14, Zenon

\* container_is_subset.
LEMMA IsSubsetExact ==
    ASSUME NEW d \in Operands, NEW e \in Operands
    PROVE  IsSubset(d, e) = (ValuesOf(d) \subseteq ValuesOf(e))
<1> DEFINE S == ValuesOf(d)
           T == ValuesOf(e)
<1>1. /\ S \in SUBSET Numbers /\ T \in SUBSET Numbers
      /\ CardOf(d) = Cardinality(S) /\ CardOf(e) = Cardinality(T)
  BY OperandFits
<1>2. /\ Cardinality(S) \in Nat /\ Cardinality(T) \in Nat
      /\ S \subseteq T => Cardinality(S) <= Cardinality(T)
  <2>1. IsFiniteSet(T)
    BY <1>1, SizeIs
  <2> HIDE DEF S, T
  <2> QED
    BY <1>1, <2>1, SizeIs, FS_Subset
<1>3. \A v \in S : Has(e, v) <=> v \in T
  BY <1>1, HasIs
<1>4. (CardOf(d) <= CardOf(e) /\ \A v \in S : Has(e, v)) <=> S \subseteq T
  <2> HIDE DEF S, T
  <2> QED
    BY <1>1, <1>2, <1>3
<1>5. CASE d.kind = "bitset" /\ e.kind = "array"
  <2>1. ABitset(d) /\ AnArray(e)
    BY <1>5, KindsAre DEF ABitset, AnArray, SomeRuns
  <2>2. Cardinality(S) > MaxArray /\ Cardinality(T) <= MaxArray
    BY <2>1, BitsetFacts, ArrayFacts
  <2>3. ~(S \subseteq T)
    <3> HIDE DEF S, T
    <3> QED
      BY <1>2, <2>2, SizesAssumption
  <2>4. IsSubset(d, e) = FALSE
    BY <1>5, Zenon DEF IsSubset
  <2> QED
    BY <2>3, <2>4, Zenon
<1>6. CASE d.kind = "run" /\ e.kind = "run"
  <2>1. SomeRuns(d) /\ SomeRuns(e)
    BY <1>6, KindsAre DEF ABitset, AnArray, SomeRuns
  <2>2. Tidy(d.runs) /\ Tidy(e.runs) /\ S = RunValues(d.runs) /\ T = RunValues(e.runs)
    BY <2>1, RunFacts
  <2>3. SubsetRuns(d.runs, e.runs) = (RunValues(d.runs) \subseteq RunValues(e.runs))
    BY <2>2, SubsetRunsExact, Zenon
  <2>4. d.kind # "bitset"
    BY <1>6
  <2>5. IsSubset(d, e) = SubsetRuns(d.runs, e.runs)
    BY <1>6, <2>4, Zenon DEF IsSubset
  <2> HIDE DEF S, T
  <2>6. IsSubset(d, e) = (S \subseteq T)
    BY <2>2, <2>3, <2>5, Zenon
  <2> QED
    BY <2>6 DEF S, T
<1>7. CASE ~(d.kind = "bitset" /\ e.kind = "array") /\ ~(d.kind = "run" /\ e.kind = "run")
  <2>1. IsSubset(d, e) = (CardOf(d) <= CardOf(e) /\ \A v \in S : Has(e, v))
    BY <1>7, Zenon DEF IsSubset
  <2> QED
    BY <1>4, <2>1, Zenon
<1> QED
  BY <1>5, <1>6, <1>7, Zenon

\* The queries on a container agree with the set of its numbers.
THEOREM QueriesExactAlways == Spec => []QueriesExact
<1>1. ASSUME WellFormed PROVE QueriesExact
  <2>1. ASSUME c # Null, NEW d \in Operands
        PROVE  IsSubset(c, d) = (ValuesOf(c) \subseteq ValuesOf(d))
    BY <1>1, <2>1, IsSubsetExact DEF WellFormed
  <2>2. ASSUME c # Null, c.kind = "run"
        PROVE  LET vals == ValuesOf(c)
               IN  /\ Card(c.runs) = Cardinality(vals)
                   /\ \A v \in Numbers : RankOf(c.runs, v) = Cardinality({u \in vals : u <= v})
                   /\ \A rank \in 0..(Cardinality(vals) - 1) :
                          SelectAt(c.runs, rank) = Sorted(vals)[rank + 1]
                   /\ \A low \in Numbers : \A high \in (low + 1)..U :
                          ContainsRange(c.runs, low, high) = (low..(high - 1) \subseteq vals)
    <3>1. SomeRuns(c)
      BY <1>1, <2>2, KindsAre DEF WellFormed, AnArray, ABitset
    <3>2. Tidy(c.runs) /\ ValuesOf(c) = RunValues(c.runs)
          /\ Card(c.runs) = Cardinality(RunValues(c.runs))
      BY <3>1, RunFacts
    <3>3. \A v \in Numbers :
              RankOf(c.runs, v) = Cardinality({u \in RunValues(c.runs) : u <= v})
      BY <3>2, RankOfExact
    <3>4. \A rank \in 0..(Cardinality(RunValues(c.runs)) - 1) :
              SelectAt(c.runs, rank) = Sorted(RunValues(c.runs))[rank + 1]
      BY <3>2, SelectAtExact
    <3>5. \A low \in Numbers : \A high \in (low + 1)..U :
              ContainsRange(c.runs, low, high) = (low..(high - 1) \subseteq RunValues(c.runs))
      <4>1. ASSUME NEW low \in Numbers, NEW high \in (low + 1)..U
            PROVE  ContainsRange(c.runs, low, high) = (low..(high - 1) \subseteq RunValues(c.runs))
        <5>1. ContainsRange(c.runs, low, high) <=> low..(high - 1) \subseteq RunValues(c.runs)
          BY <3>2, ContainsRangeExact
        <5>2. ContainsRange(c.runs, low, high) \in BOOLEAN
          BY Zenon DEF ContainsRange
        <5> QED
          BY <5>1, <5>2, Zenon
      <4> QED
        BY <4>1
    <3> QED
      BY <3>2, <3>3, <3>4, <3>5
  <2> QED
    BY <2>1, <2>2 DEF QueriesExact
<1> QED
  BY <1>1, WellFormedAlways, PTL

\* Runs given by where they begin and end.
Apart(n, lo, hi) ==
    /\ \A i \in 1..n : lo[i] \in Nat /\ hi[i] \in Nat /\ lo[i] <= hi[i] /\ hi[i] < U
    /\ \A i, j \in 1..n : i < j => hi[i] + 1 < lo[j]
BuiltOf(n, lo, hi, r) ==
    /\ Tidy(r)
    /\ \A v : v \in RunValues(r) <=> v \in Int /\ \E i \in 1..n : lo[i] <= v /\ v <= hi[i]

LEMMA BuiltRuns ==
    ASSUME NEW n \in Nat, NEW lo, NEW hi, Apart(n, lo, hi),
           NEW r, r = [i \in 1..n |-> Run(lo[i], hi[i] - lo[i])]
    PROVE  BuiltOf(n, lo, hi, r)
<1>1. ASSUME NEW i \in 1..n
      PROVE  /\ Legal(r[i]) /\ r[i] \in Run16 /\ r[i].value = lo[i] /\ End(r[i]) = hi[i]
  <2>1. lo[i] \in Nat /\ hi[i] \in Nat /\ lo[i] <= hi[i] /\ hi[i] < U
    BY DEF Apart
  <2>2. hi[i] - lo[i] \in Nat /\ lo[i] + (hi[i] - lo[i]) = hi[i]
    BY <2>1
  <2>3. r[i] = Run(lo[i], hi[i] - lo[i])
    OBVIOUS
  <2> QED
    BY <2>1, <2>2, <2>3, RunFits, LegalIs
<1>2. r \in Seq(Run16) /\ Len(r) = n
  <2>1. \A i \in 1..n : Run(lo[i], hi[i] - lo[i]) \in Run16
    BY <1>1
  <2>2. r \in [1..n -> Run16]
    BY <2>1
  <2> QED
    BY <2>2
<1>3. \A i, j \in 1..n : i < j => End(r[i]) + 1 < r[j].value
  BY <1>1 DEF Apart
<1>4. Tidy(r)
  BY <1>1, <1>2, <1>3 DEF Tidy, Spaced
<1>5. ASSUME NEW v
      PROVE  v \in RunValues(r) <=> v \in Int /\ \E i \in 1..n : lo[i] <= v /\ v <= hi[i]
  BY <1>1, <1>2, InRuns DEF Holds
<1> QED
  BY <1>4, <1>5 DEF BuiltOf

LEMMA Wraps ==
    ASSUME NEW v \in Nat, U <= v, v < 2 * U
    PROVE  v % U = v - U
<1>1. U \in Nat /\ U > 0
  BY UAssumption
<1> QED
  BY <1>1

LEMMA OffsetLowExact ==
    ASSUME NEW r, Tidy(r), NEW offset \in 1..(U - 1)
    PROVE  /\ Tidy(OffsetLow(r, offset))
           /\ RunValues(OffsetLow(r, offset))
                = {v + offset : v \in {u \in RunValues(r) : u + offset < U}}
<1> DEFINE top == U - offset
           p == FirstEndingFrom(r, top)
           split == p <= Len(r) /\ r[p].value < top
           n == IF split THEN p ELSE p - 1
           lo == [i \in 1..n |-> r[i].value + offset]
           hi == [i \in 1..n |-> IF i = p THEN U - 1 ELSE End(r[i]) + offset]
           s == OffsetLow(r, offset)
<1>1. /\ U \in Nat /\ offset \in Nat /\ offset > 0 /\ offset < U /\ top \in Nat
      /\ top + offset = U /\ top > 0 /\ top < U
  BY UAssumption
<1>2. r \in Seq(Run16) /\ Len(r) \in Nat
  BY RunsLegal
<1>3. EndsAt(r, top, p)
  <2> HIDE DEF top
  <2> QED
    BY <1>1, FirstEndingIs
<1>4. p \in Nat \ {0} /\ p <= Len(r) + 1 /\ \A i \in 1..Len(r) : i < p <=> End(r[i]) < top
  <2> HIDE DEF p, top
  <2> QED
    BY <1>2, <1>3 DEF EndsAt
<1>5. n \in Nat /\ n <= Len(r) /\ \A i \in 1..n : i \in 1..Len(r) /\ i <= p /\ (i = p => split)
  <2> DEFINE b == split
  <2>1. b => p <= Len(r)
    OBVIOUS
  <2>2. n = IF b THEN p ELSE p - 1
    OBVIOUS
  <2> HIDE DEF p, top, n, b
  <2>3. n \in Nat /\ n <= Len(r) /\ \A i \in 1..n : i \in 1..Len(r) /\ i <= p /\ (i = p => b)
    BY <1>2, <1>4, <2>1, <2>2
  <2> QED
    BY <2>3 DEF b
<1>6. ASSUME NEW i \in 1..n
      PROVE  /\ lo[i] = r[i].value + offset /\ hi[i] = IF i = p THEN U - 1 ELSE End(r[i]) + offset
             /\ r[i].value \in Nat /\ r[i].length \in Nat /\ End(r[i]) \in Nat
             /\ End(r[i]) = r[i].value + r[i].length /\ r[i].value <= End(r[i])
             /\ i # p => End(r[i]) < top
             /\ i = p => r[i].value < top /\ top <= End(r[i])
  <2>1. i \in 1..Len(r) /\ i <= p /\ (i = p => split) /\ i \in Nat
    BY <1>5
  <2>2. lo[i] = r[i].value + offset /\ hi[i] = IF i = p THEN U - 1 ELSE End(r[i]) + offset
    OBVIOUS
  <2>3. /\ r[i].value \in Nat /\ r[i].length \in Nat /\ End(r[i]) \in Nat
        /\ End(r[i]) = r[i].value + r[i].length /\ r[i].value <= End(r[i])
    BY <2>1, RunsLegal
  <2>4. i = p => r[i].value < top
    BY <2>1
  <2> HIDE DEF p, top, n, lo, hi
  <2>5. i < p <=> End(r[i]) < top
    BY <1>4, <2>1
  <2> QED
    BY <1>1, <1>4, <2>1, <2>2, <2>3, <2>4, <2>5
<1>7. s = [i \in 1..n |-> Run(lo[i], hi[i] - lo[i])]
  <2>1. s = [i \in 1..n |-> IF i = p
                 THEN Run(Shifted(r[i], offset).value, U - Shifted(r[i], offset).value - 1)
                 ELSE Shifted(r[i], offset)]
    BY DEF OffsetLow
  <2>2. ASSUME NEW i \in 1..n
        PROVE  (IF i = p THEN Run(Shifted(r[i], offset).value, U - Shifted(r[i], offset).value - 1)
                ELSE Shifted(r[i], offset)) = Run(lo[i], hi[i] - lo[i])
    <3> HIDE DEF p, top, n, lo, hi
    <3>1. Shifted(r[i], offset) = Run(r[i].value + offset, r[i].length)
      BY DEF Shifted
    <3>2. Shifted(r[i], offset).value = (r[i].value + offset) % U
      BY <3>1 DEF Run
    <3>3. r[i].value + offset < U /\ r[i].value + offset \in Nat
      BY <1>1, <1>6
    <3>4. (r[i].value + offset) % U = r[i].value + offset
      BY <1>1, <3>3
    <3>5. CASE i = p
      <4>1. U - (r[i].value + offset) - 1 = hi[i] - lo[i]
        BY <1>1, <1>6, <3>3, <3>5
      <4> QED
        BY <1>6, <3>2, <3>4, <3>5, <4>1
    <3>6. CASE i # p
      <4>1. r[i].length = hi[i] - lo[i]
        BY <1>1, <1>6, <3>6
      <4> QED
        BY <1>6, <3>1, <3>6, <4>1
    <3> QED
      BY <3>5, <3>6
  <2> HIDE DEF n, p, lo, hi, s
  <2> QED
    BY <2>1, <2>2
<1>8. Apart(n, lo, hi)
  <2> HIDE DEF lo, hi, p, top, n
  <2>1. ASSUME NEW i \in 1..n
        PROVE  lo[i] \in Nat /\ hi[i] \in Nat /\ lo[i] <= hi[i] /\ hi[i] < U
    BY <1>1, <1>6
  <2>2. ASSUME NEW i \in 1..n, NEW j \in 1..n, i < j PROVE hi[i] + 1 < lo[j]
    <3>1. i # p
      BY <1>4, <1>5, <2>2
    <3>2. End(r[i]) + 1 < r[j].value
      BY <1>5, <2>2, RunsLegal
    <3> QED
      BY <1>1, <1>6, <3>1, <3>2
  <2> QED
    BY <2>1, <2>2 DEF Apart
<1>9. BuiltOf(n, lo, hi, s)
  <2> HIDE DEF n, lo, hi, s
  <2> QED
    BY <1>5, <1>7, <1>8, BuiltRuns
<1>10. ASSUME NEW i \in 1..Len(r), NEW u \in Int, Holds(r[i], u), u < top
       PROVE  i \in 1..n
  <2>1. /\ r[i].value \in Nat /\ End(r[i]) \in Nat /\ r[i].value <= u /\ u <= End(r[i])
    BY <1>10, RunsLegal DEF Holds
  <2> HIDE DEF top
  <2>2. i <= p
    <3> SUFFICES ASSUME p < i PROVE FALSE
      BY <1>4
    <3>1. p \in 1..Len(r)
      BY <1>2, <1>4
    <3>2. ~(End(r[p]) < top) /\ End(r[p]) \in Nat
      BY <1>4, <3>1, RunsLegal
    <3>3. End(r[p]) + 1 < r[i].value
      BY <3>1, RunsLegal
    <3> QED
      BY <1>1, <1>10, <2>1, <3>2, <3>3
  <2>3. i = p => split
    BY <1>1, <1>10, <2>1
  <2> DEFINE b == split
  <2>4. n = IF b THEN p ELSE p - 1
    OBVIOUS
  <2> HIDE DEF p, n, b
  <2>5. i = p => b
    BY <2>3 DEF b
  <2> QED
    BY <1>2, <1>4, <2>2, <2>4, <2>5
<1>11. ASSUME NEW w
       PROVE  w \in RunValues(s) <=> \E v \in RunValues(r) : v + offset < U /\ w = v + offset
  <2> HIDE DEF top, p, n, lo, hi, s
  <2>1. ASSUME w \in RunValues(s)
        PROVE  \E v \in RunValues(r) : v + offset < U /\ w = v + offset
    <3>1. PICK i \in 1..n : w \in Int /\ lo[i] <= w /\ w <= hi[i]
      BY <1>9, <2>1 DEF BuiltOf
    <3>2. w - offset \in Int /\ (w - offset) + offset = w
      BY <1>1, <3>1
    <3>3. Holds(r[i], w - offset) /\ w < U
      BY <1>1, <1>6, <3>1 DEF Holds
    <3>4. w - offset \in RunValues(r)
      BY <1>2, <1>5, <3>2, <3>3, InRuns
    <3> QED
      BY <3>2, <3>3, <3>4
  <2>2. ASSUME NEW v \in RunValues(r), v + offset < U, w = v + offset
        PROVE  w \in RunValues(s)
    <3>1. PICK i \in 1..Len(r) : v \in Int /\ Holds(r[i], v)
      BY <1>2, InRuns
    <3>2. v < top
      BY <1>1, <2>2, <3>1
    <3>3. i \in 1..n
      BY <1>10, <3>1, <3>2
    <3>4. lo[i] <= w /\ w <= hi[i] /\ w \in Int
      BY <1>1, <1>6, <2>2, <3>1, <3>3 DEF Holds
    <3> QED
      BY <1>9, <3>3, <3>4 DEF BuiltOf
  <2> QED
    BY <2>1, <2>2
<1> QED
  BY <1>9, <1>11 DEF BuiltOf

LEMMA OffsetHighExact ==
    ASSUME NEW r, Tidy(r), NEW offset \in 1..(U - 1)
    PROVE  /\ Tidy(OffsetHigh(r, offset))
           /\ RunValues(OffsetHigh(r, offset))
                = {v + offset - U : v \in {u \in RunValues(r) : u + offset >= U}}
<1> DEFINE top == U - offset
           p == FirstEndingFrom(r, top)
           n == Len(r) - p + 1
           Splits(i) == i = 1 /\ r[p + i - 1].value < top
           lo == [i \in 1..n |-> IF Splits(i) THEN 0 ELSE r[p + i - 1].value + offset - U]
           hi == [i \in 1..n |-> End(r[p + i - 1]) + offset - U]
           s == OffsetHigh(r, offset)
<1>1. /\ U \in Nat /\ offset \in Nat /\ offset > 0 /\ offset < U /\ top \in Nat
      /\ top + offset = U /\ top > 0 /\ top < U
  BY UAssumption
<1>2. r \in Seq(Run16) /\ Len(r) \in Nat
  BY RunsLegal
<1>3. EndsAt(r, top, p)
  <2> HIDE DEF top
  <2> QED
    BY <1>1, FirstEndingIs
<1>4. p \in Nat \ {0} /\ p <= Len(r) + 1 /\ \A i \in 1..Len(r) : i < p <=> End(r[i]) < top
  <2> HIDE DEF p, top
  <2> QED
    BY <1>2, <1>3 DEF EndsAt
<1>5. n \in Nat /\ \A i \in 1..n : p + i - 1 \in 1..Len(r)
  <2>1. n = Len(r) - p + 1
    OBVIOUS
  <2> HIDE DEF p, n
  <2> QED
    BY <1>2, <1>4, <2>1
<1>6. ASSUME NEW i \in 1..n
      PROVE  /\ lo[i] = IF Splits(i) THEN 0 ELSE r[p + i - 1].value + offset - U
             /\ hi[i] = End(r[p + i - 1]) + offset - U
             /\ r[p + i - 1].value \in Nat /\ r[p + i - 1].length \in Nat
             /\ End(r[p + i - 1]) \in Nat /\ End(r[p + i - 1]) < U
             /\ End(r[p + i - 1]) = r[p + i - 1].value + r[p + i - 1].length
             /\ r[p + i - 1].value <= End(r[p + i - 1])
             /\ top <= End(r[p + i - 1])
             /\ Splits(i) => i = 1 /\ r[p + i - 1].value < top
             /\ ~Splits(i) => top <= r[p + i - 1].value
  <2> DEFINE k == p + i - 1
  <2>1. k \in 1..Len(r) /\ i \in Nat /\ i > 0 /\ k \in Int
    BY <1>5
  <2>2. lo[i] = (IF Splits(i) THEN 0 ELSE r[k].value + offset - U) /\ hi[i] = End(r[k]) + offset - U
    OBVIOUS
  <2>3. /\ r[k].value \in Nat /\ r[k].length \in Nat /\ End(r[k]) \in Nat /\ End(r[k]) < U
        /\ End(r[k]) = r[k].value + r[k].length /\ r[k].value <= End(r[k])
    BY <2>1, RunsLegal
  <2>4. Splits(i) <=> i = 1 /\ r[k].value < top
    OBVIOUS
  <2>5. k = p + i - 1
    OBVIOUS
  <2> HIDE DEF lo, hi, top, p, n, Splits
  <2>6. ~(k < p)
    <3> HIDE DEF k
    <3> QED
      BY <1>4, <2>1, <2>5
  <2>7. top <= End(r[k])
    <3> HIDE DEF k
    <3> QED
      BY <1>1, <1>4, <2>1, <2>3, <2>6
  <2>8. i # 1 => top <= r[k].value
    <3> SUFFICES ASSUME i # 1 PROVE top <= r[k].value
      OBVIOUS
    <3>1. p \in 1..Len(r) /\ p < k
      <4> HIDE DEF k
      <4> QED
        BY <1>2, <1>4, <2>1, <2>5
    <3>2. End(r[p]) + 1 < r[k].value /\ End(r[p]) \in Nat /\ ~(End(r[p]) < top)
      BY <1>4, <2>1, <3>1, RunsLegal
    <3> HIDE DEF k
    <3> QED
      BY <1>1, <2>3, <3>2
  <2>9. ~Splits(i) => top <= r[k].value
    <3> HIDE DEF k
    <3> QED
      BY <1>1, <2>3, <2>4, <2>8
  <2> QED
    BY <2>2, <2>3, <2>4, <2>7, <2>9
<1>7. s = [i \in 1..n |-> Run(lo[i], hi[i] - lo[i])]
  <2>1. s = [i \in 1..n |-> IF i = 1 /\ r[p + 1 - 1].value < top
                 THEN Run(0, r[p + 1 - 1].length - (U - Shifted(r[p + 1 - 1], offset).value))
                 ELSE Shifted(r[p + i - 1], offset)]
    BY DEF OffsetHigh
  <2>2. ASSUME NEW i \in 1..n
        PROVE  (IF i = 1 /\ r[p + 1 - 1].value < top
                THEN Run(0, r[p + 1 - 1].length - (U - Shifted(r[p + 1 - 1], offset).value))
                ELSE Shifted(r[p + i - 1], offset)) = Run(lo[i], hi[i] - lo[i])
    <3> DEFINE k == p + i - 1
               g == r[k]
    <3>1. Splits(i) <=> (i = 1 /\ r[p + 1 - 1].value < top)
      OBVIOUS
    <3>2. /\ lo[i] = IF Splits(i) THEN 0 ELSE g.value + offset - U
          /\ hi[i] = End(g) + offset - U
          /\ g.value \in Nat /\ g.length \in Nat /\ End(g) \in Nat /\ End(g) < U
          /\ End(g) = g.value + g.length /\ top <= End(g)
          /\ Splits(i) => i = 1 /\ g.value < top
          /\ ~Splits(i) => top <= g.value
      BY <1>6
    <3>3. CASE Splits(i)
      <4>1. i = 1 /\ r[p + 1 - 1] = g
        BY <3>3
      <4>2. (IF i = 1 /\ r[p + 1 - 1].value < top
             THEN Run(0, r[p + 1 - 1].length - (U - Shifted(r[p + 1 - 1], offset).value))
             ELSE Shifted(r[p + i - 1], offset)) = Run(0, g.length - (U - Shifted(g, offset).value))
        <5> HIDE DEF g, top, Splits
        <5> QED
          BY <3>1, <3>3, <4>1
      <4> HIDE DEF g, k, top, lo, hi, n, p, Splits
      <4>3. Shifted(g, offset).value = (g.value + offset) % U
        BY DEF Shifted, Run
      <4>4. g.value + offset \in Nat /\ g.value + offset < U
        BY <1>1, <3>2, <3>3
      <4>5. (g.value + offset) % U = g.value + offset
        BY <1>1, <4>4
      <4>6. g.length - (U - (g.value + offset)) = hi[i] - lo[i] /\ lo[i] = 0
        BY <1>1, <3>2, <3>3
      <4> QED
        BY <4>2, <4>3, <4>5, <4>6
    <3>4. CASE ~Splits(i)
      <4>1. (IF i = 1 /\ r[p + 1 - 1].value < top
             THEN Run(0, r[p + 1 - 1].length - (U - Shifted(r[p + 1 - 1], offset).value))
             ELSE Shifted(r[p + i - 1], offset)) = Shifted(g, offset)
        <5> HIDE DEF top, Splits
        <5> QED
          BY <3>1, <3>4
      <4> HIDE DEF g, k, top, lo, hi, n, p, Splits
      <4>2. Shifted(g, offset) = [value |-> (g.value + offset) % U, length |-> g.length % U]
        BY DEF Shifted, Run
      <4>3. g.value + offset \in Nat /\ U <= g.value + offset /\ g.value + offset < 2 * U
        <5>1. /\ g.value \in Nat /\ g.length \in Nat /\ End(g) \in Nat /\ End(g) < U
              /\ End(g) = g.value + g.length /\ top <= g.value
          BY <3>2, <3>4
        <5> QED
          BY <1>1, <5>1
      <4>4. (g.value + offset) % U = (g.value + offset) - U
        <5> DEFINE y == g.value + offset
        <5>1. y \in Nat /\ U <= y /\ y < 2 * U
          BY <4>3
        <5> HIDE DEF y
        <5>2. y % U = y - U
          BY <5>1, Wraps
        <5> QED
          BY <5>2 DEF y
      <4>5. lo[i] = (g.value + offset) - U /\ hi[i] - lo[i] = g.length /\ lo[i] \in Nat /\ lo[i] < U
        <5>1. /\ g.value \in Nat /\ g.length \in Nat /\ End(g) \in Nat /\ End(g) < U
              /\ End(g) = g.value + g.length /\ top <= g.value
              /\ lo[i] = g.value + offset - U /\ hi[i] = End(g) + offset - U
          BY <3>2, <3>4
        <5> QED
          BY <1>1, <4>3, <5>1
      <4>6. lo[i] % U = lo[i]
        BY <1>1, <4>5
      <4>7. Run(lo[i], hi[i] - lo[i]) = [value |-> lo[i], length |-> g.length % U]
        BY <4>5, <4>6 DEF Run
      <4>8. Shifted(g, offset) = Run(lo[i], hi[i] - lo[i])
        BY <4>2, <4>4, <4>5, <4>7
      <4> QED
        BY <4>1, <4>8
    <3> QED
      BY <3>3, <3>4
  <2> HIDE DEF n, p, lo, hi, s
  <2> QED
    BY <2>1, <2>2
<1>8. Apart(n, lo, hi)
  <2> HIDE DEF lo, hi, p, top, n, Splits
  <2>1. ASSUME NEW i \in 1..n
        PROVE  lo[i] \in Nat /\ hi[i] \in Nat /\ lo[i] <= hi[i] /\ hi[i] < U
    BY <1>1, <1>6
  <2>2. ASSUME NEW i \in 1..n, NEW j \in 1..n, i < j PROVE hi[i] + 1 < lo[j]
    <3>1. ~Splits(j)
      BY <1>6, <2>2
    <3>2. End(r[p + i - 1]) + 1 < r[p + j - 1].value
      <4>1. p + i - 1 \in 1..Len(r) /\ p + j - 1 \in 1..Len(r) /\ p + i - 1 < p + j - 1
        BY <1>4, <1>5, <2>2
      <4> QED
        BY <4>1, RunsLegal
    <3> QED
      BY <1>1, <1>6, <3>1, <3>2
  <2> QED
    BY <2>1, <2>2 DEF Apart
<1>9. BuiltOf(n, lo, hi, s)
  <2> HIDE DEF n, lo, hi, s
  <2> QED
    BY <1>5, <1>7, <1>8, BuiltRuns
<1>10. ASSUME NEW i \in 1..Len(r), NEW u \in Int, Holds(r[i], u), top <= u
       PROVE  i - p + 1 \in 1..n /\ p + (i - p + 1) - 1 = i
  <2>1. End(r[i]) \in Nat /\ u <= End(r[i])
    BY <1>10, RunsLegal DEF Holds
  <2>2. n = Len(r) - p + 1
    OBVIOUS
  <2> HIDE DEF top, p, n
  <2>3. ~(End(r[i]) < top)
    BY <1>1, <1>10, <2>1
  <2>4. ~(i < p)
    BY <1>4, <2>3
  <2> QED
    BY <1>2, <1>4, <2>2, <2>4
<1>11. ASSUME NEW w
       PROVE  w \in RunValues(s)
              <=> \E v \in RunValues(r) : v + offset >= U /\ w = v + offset - U
  <2> HIDE DEF top, p, n, lo, hi, s, Splits
  <2>1. ASSUME w \in RunValues(s)
        PROVE  \E v \in RunValues(r) : v + offset >= U /\ w = v + offset - U
    <3>1. PICK i \in 1..n : w \in Int /\ lo[i] <= w /\ w <= hi[i]
      BY <1>9, <2>1 DEF BuiltOf
    <3> DEFINE v == w - offset + U
    <3>2. v \in Int /\ v + offset - U = w
      BY <1>1, <3>1
    <3>3. Holds(r[p + i - 1], v) /\ v + offset >= U
      BY <1>1, <1>6, <3>1 DEF Holds
    <3>4. v \in RunValues(r)
      <4> HIDE DEF v
      <4> QED
        BY <1>2, <1>5, <3>2, <3>3, InRuns
    <3> QED
      BY <3>2, <3>3, <3>4
  <2>2. ASSUME NEW v \in RunValues(r), v + offset >= U, w = v + offset - U
        PROVE  w \in RunValues(s)
    <3>1. PICK k \in 1..Len(r) : v \in Int /\ Holds(r[k], v)
      BY <1>2, InRuns
    <3>2. top <= v
      BY <1>1, <2>2, <3>1
    <3> DEFINE i == k - p + 1
    <3>3. i \in 1..n /\ p + i - 1 = k
      BY <1>10, <3>1, <3>2
    <3> HIDE DEF i
    <3>4. lo[i] <= w /\ w <= hi[i] /\ w \in Int
      BY <1>1, <1>6, <2>2, <3>1, <3>2, <3>3 DEF Holds
    <3> QED
      BY <1>9, <3>3, <3>4 DEF BuiltOf
  <2> QED
    BY <2>1, <2>2
<1> QED
  BY <1>9, <1>11 DEF BuiltOf

\* container_add_offset.
MovedTo(d, half, S) ==
    /\ ValuesOf(half) = S
    /\ half # Null /\ half.kind = "run" => half.runs = RunsOf(ValuesOf(half))

LEMMA RunsMoved ==
    ASSUME NEW r, Tidy(r)
    PROVE  /\ RunsAs(r).runs = RunsOf(ValuesOf(RunsAs(r)))
           /\ ValuesOf(RunsAs(r)) = RunValues(r)
<1>1. ValuesOf(RunsAs(r)) = RunValues(r) /\ RunsAs(r).runs = r
  <2>1. ValuesOf(RunsAs(r)) = RunValues(r)
    BY MakesRuns DEF Makes
  <2>2. RunsAs(r).runs = r
    BY DEF RunsAs
  <2> QED
    BY <2>1, <2>2
<1> QED
  BY <1>1, RunsOfValues

LEMMA BitsetIs ==
    ASSUME NEW S, NEW n
    PROVE  /\ BitsetOf(S, n).kind = "bitset" /\ BitsetOf(S, n).vals = S
           /\ BitsetOf(S, n) # Null
<1>1. BitsetOf(S, n).kind = "bitset" /\ BitsetOf(S, n).vals = S
  BY DEF BitsetOf
<1>2. Null.kind = "null"
  BY DEF Null
<1> QED
  BY <1>1, <1>2

LEMMA BitsetMoved ==
    ASSUME NEW d, NEW S, NEW n
    PROVE  MovedTo(d, BitsetOf(S, n), S)
<1> DEFINE e == BitsetOf(S, n)
<1>1. e.kind = "bitset" /\ e.vals = S /\ e # Null
  BY BitsetIs
<1> HIDE DEF e
<1>2. e.kind # "run"
  BY <1>1
<1>3. ValuesOf(e) = S
  BY <1>1, <1>2 DEF ValuesOf
<1>4. MovedTo(d, e, S)
  BY <1>2, <1>3 DEF MovedTo
<1> QED
  BY <1>4 DEF e

LEMMA HalfMoved ==
    ASSUME NEW d \in Operands, NEW S, NEW half, NEW r,
           half = (CASE S = {} -> Null
                     [] S # {} /\ d.kind = "array" -> ArrayOf(S)
                     [] S # {} /\ d.kind = "bitset" -> BitsetOf(S, Cardinality(S))
                     [] S # {} /\ d.kind = "run" -> RunsAs(r)),
           d.kind = "run" => Tidy(r) /\ RunValues(r) = S
    PROVE  MovedTo(d, half, S)
<1>1. CASE S = {}
  <2>1. half = Null
    BY <1>1, Zenon
  <2>2. ValuesOf(Null) = {}
    BY DEF ValuesOf
  <2> QED
    BY <1>1, <2>1, <2>2 DEF MovedTo
<1>2. CASE S # {} /\ d.kind = "array"
  <2>1. d.kind # "bitset" /\ d.kind # "run"
    BY <1>2
  <2>2. half = ArrayOf(S)
    BY <1>2, <2>1, Zenon
  <2>3. ArrayOf(S).kind = "array" /\ ArrayOf(S).vals = S /\ ArrayOf(S) # Null
    BY DEF ArrayOf, Null
  <2>4. ValuesOf(ArrayOf(S)) = S
    BY <2>3 DEF ValuesOf
  <2> QED
    BY <2>2, <2>3, <2>4 DEF MovedTo
<1>3. CASE S # {} /\ d.kind = "bitset"
  <2>1. d.kind # "array" /\ d.kind # "run"
    BY <1>3
  <2>2. half = BitsetOf(S, Cardinality(S))
    BY <1>3, <2>1, Zenon
  <2> QED
    BY <2>2, BitsetMoved, Zenon
<1>4. CASE S # {} /\ d.kind = "run"
  <2>1. d.kind # "array" /\ d.kind # "bitset"
    BY <1>4
  <2>2. half = RunsAs(r)
    BY <1>4, <2>1, Zenon
  <2>3. ValuesOf(half) = S /\ half.runs = RunsOf(ValuesOf(half))
    BY <1>4, <2>2, RunsMoved
  <2> QED
    BY <2>3 DEF MovedTo
<1>5. d.kind \in {"array", "bitset", "run"}
  BY KindsAre DEF AnArray, ABitset, SomeRuns
<1> QED
  BY <1>1, <1>2, <1>3, <1>4, <1>5

LEMMA HalvesExact ==
    ASSUME NEW d \in Operands, NEW offset \in 1..(U - 1)
    PROVE  /\ MovedTo(d, LowHalf(d, offset),
                      {v + offset : v \in {u \in ValuesOf(d) : u + offset < U}})
           /\ MovedTo(d, HighHalf(d, offset),
                      {v + offset - U : v \in {u \in ValuesOf(d) : u + offset >= U}})
<1> DEFINE S == {v + offset : v \in {u \in ValuesOf(d) : u + offset < U}}
           T == {v + offset - U : v \in {u \in ValuesOf(d) : u + offset >= U}}
<1>1. d.kind = "run" => /\ Tidy(OffsetLow(d.runs, offset)) /\ RunValues(OffsetLow(d.runs, offset)) = S
                        /\ Tidy(OffsetHigh(d.runs, offset)) /\ RunValues(OffsetHigh(d.runs, offset)) = T
  <2> SUFFICES ASSUME d.kind = "run"
               PROVE  /\ Tidy(OffsetLow(d.runs, offset)) /\ RunValues(OffsetLow(d.runs, offset)) = S
                      /\ Tidy(OffsetHigh(d.runs, offset)) /\ RunValues(OffsetHigh(d.runs, offset)) = T
    OBVIOUS
  <2>1. SomeRuns(d)
    BY KindsAre DEF AnArray, ABitset
  <2>2. Tidy(d.runs) /\ ValuesOf(d) = RunValues(d.runs)
    BY <2>1, RunFacts
  <2> QED
    BY <2>2, OffsetLowExact, OffsetHighExact
<1>2. LowHalf(d, offset) = CASE S = {} -> Null
                             [] S # {} /\ d.kind = "array" -> ArrayOf(S)
                             [] S # {} /\ d.kind = "bitset" -> BitsetOf(S, Cardinality(S))
                             [] S # {} /\ d.kind = "run" -> RunsAs(OffsetLow(d.runs, offset))
  BY Zenon DEF LowHalf
<1>3. HighHalf(d, offset) = CASE T = {} -> Null
                              [] T # {} /\ d.kind = "array" -> ArrayOf(T)
                              [] T # {} /\ d.kind = "bitset" -> BitsetOf(T, Cardinality(T))
                              [] T # {} /\ d.kind = "run" -> RunsAs(OffsetHigh(d.runs, offset))
  BY Zenon DEF HighHalf
<1> HIDE DEF S, T
<1>4. MovedTo(d, LowHalf(d, offset), S)
  <2>1. ASSUME NEW r, r = OffsetLow(d.runs, offset) PROVE MovedTo(d, LowHalf(d, offset), S)
    <3>1. d.kind = "run" => Tidy(r) /\ RunValues(r) = S
      BY <1>1, <2>1
    <3>2. LowHalf(d, offset) = CASE S = {} -> Null
                             [] S # {} /\ d.kind = "array" -> ArrayOf(S)
                             [] S # {} /\ d.kind = "bitset" -> BitsetOf(S, Cardinality(S))
                             [] S # {} /\ d.kind = "run" -> RunsAs(r)
      BY <1>2, <2>1, Zenon
    <3> QED
      BY <3>1, <3>2, HalfMoved, Zenon
  <2> QED
    BY <2>1
<1>5. MovedTo(d, HighHalf(d, offset), T)
  <2>1. ASSUME NEW r, r = OffsetHigh(d.runs, offset) PROVE MovedTo(d, HighHalf(d, offset), T)
    <3>1. d.kind = "run" => Tidy(r) /\ RunValues(r) = T
      BY <1>1, <2>1
    <3>2. HighHalf(d, offset) = CASE T = {} -> Null
                             [] T # {} /\ d.kind = "array" -> ArrayOf(T)
                             [] T # {} /\ d.kind = "bitset" -> BitsetOf(T, Cardinality(T))
                             [] T # {} /\ d.kind = "run" -> RunsAs(r)
      BY <1>3, <2>1, Zenon
    <3> QED
      BY <3>1, <3>2, HalfMoved, Zenon
  <2> QED
    BY <2>1
<1> QED
  BY <1>4, <1>5 DEF S, T

\* A container that an offset moves is cut in two where the next key begins, and the
\* runs of the halves stay in order and apart (containers.h:1598).
THEOREM OffsetsExactAlways == Spec => []OffsetsExact
<1>1. ASSUME WellFormed, c # Null, NEW offset \in 1..(U - 1)
      PROVE  LET moved == {v + offset : v \in ValuesOf(c)}
                 low == LowHalf(c, offset)
                 high == HighHalf(c, offset)
             IN  /\ ValuesOf(low) = {v \in moved : v < U}
                 /\ ValuesOf(high) = {v - U : v \in {w \in moved : w >= U}}
                 /\ \A half \in {low, high} \ {Null} :
                       half.kind = "run" => half.runs = RunsOf(ValuesOf(half))
  <2> DEFINE low == LowHalf(c, offset)
             high == HighHalf(c, offset)
             moved == {v + offset : v \in ValuesOf(c)}
             S == {v + offset : v \in {u \in ValuesOf(c) : u + offset < U}}
             T == {v + offset - U : v \in {u \in ValuesOf(c) : u + offset >= U}}
  <2>1. MovedTo(c, low, S) /\ MovedTo(c, high, T)
    BY <1>1, HalvesExact DEF WellFormed
  <2>6. ASSUME NEW x PROVE x \in S <=> x \in {v \in moved : v < U}
    OBVIOUS
  <2>2. S = {v \in moved : v < U}
    BY <2>6
  <2>3. ASSUME NEW x PROVE x \in T <=> x \in {v - U : v \in {w \in moved : w >= U}}
    <3>1. x \in T <=> \E u \in ValuesOf(c) : u + offset >= U /\ x = u + offset - U
      OBVIOUS
    <3>2. x \in {v - U : v \in {w \in moved : w >= U}} <=> \E w \in moved : w >= U /\ x = w - U
      OBVIOUS
    <3>3. ValuesOf(c) \subseteq Int /\ U \in Int /\ offset \in Int
      BY <1>1, OperandFits, UAssumption DEF WellFormed, Numbers
    <3>4. \A u \in ValuesOf(c) : (u + offset) - U = u + offset - U
      BY <3>3
    <3>5. ASSUME NEW w \in moved, w >= U, x = w - U
          PROVE  \E u \in ValuesOf(c) : u + offset >= U /\ x = u + offset - U
      <4>1. PICK u \in ValuesOf(c) : w = u + offset
        OBVIOUS
      <4>2. u + offset >= U /\ x = u + offset - U
        BY <3>4, <3>5, <4>1
      <4> QED
        BY <4>2
    <3>6. ASSUME NEW u \in ValuesOf(c), u + offset >= U, x = u + offset - U
          PROVE  \E w \in moved : w >= U /\ x = w - U
      <4>1. u + offset \in moved /\ x = (u + offset) - U
        BY <3>4, <3>6
      <4> HIDE DEF moved
      <4> QED
        BY <3>6, <4>1
    <3> HIDE DEF moved, T
    <3> QED
      BY <3>1, <3>2, <3>5, <3>6
  <2>4. T = {v - U : v \in {w \in moved : w >= U}}
    BY <2>3
  <2> HIDE DEF low, high, moved, S, T
  <2>5. /\ ValuesOf(low) = {v \in moved : v < U}
        /\ ValuesOf(high) = {v - U : v \in {w \in moved : w >= U}}
        /\ \A half \in {low, high} \ {Null} :
              half.kind = "run" => half.runs = RunsOf(ValuesOf(half))
    BY <2>1, <2>2, <2>4 DEF MovedTo
  <2> QED
    BY <2>5 DEF low, high, moved
<1>2. WellFormed => OffsetsExact
  BY <1>1 DEF OffsetsExact
<1> QED
  BY <1>2, WellFormedAlways, PTL
-------------------------------------------------------------------------------
(* The negation of a run container in the memory of its runs *)

\* The memory, how many runs of it are written, and the run read ahead: what a turn of
\* the loop starts from and what it leaves.
ReadAt(r, mem, i) == IF i <= Len(r) THEN mem[i] ELSE Run(0, 0)
WrittenTo(s, run) ==
    [s EXCEPT !.mem = AppendExclusive(SubSeq(s.mem, 1, s.n), run)
                      \o SubSeq(@, Len(AppendExclusive(SubSeq(s.mem, 1, s.n), run)) + 1, Len(@)),
              !.n = Len(AppendExclusive(SubSeq(s.mem, 1, s.n), run))]
Turned(r, s, i) == [WrittenTo(s, s.buffered) EXCEPT !.buffered = ReadAt(r, s.mem, i + 1)]

Turns(r, base, s, n, f) ==
    f = [T \in SUBSET (1..n) |-> IF T = {} THEN base ELSE Turned(r, f[T \ {Max(T)}], s[Max(T)])]

LEMMA TurnsExist ==
    ASSUME NEW r, NEW base, NEW n \in Nat, NEW s
    PROVE  \E f : Turns(r, base, s, n, f)
<1> DEFINE Bad == {m \in Nat : ~\E f : Turns(r, base, s, m, f)}
<1>1. SUFFICES ASSUME Bad # {} PROVE FALSE
  OBVIOUS
<1>2. PICK x \in Bad : \A y \in Bad : x <= y
  <2>1. Bad \subseteq Nat
    OBVIOUS
  <2> HIDE DEF Bad
  <2> QED
    BY <1>1, <2>1, LeastOfNaturals
<1>3. x # 0
  <2>1. \A T \in SUBSET (1..0) : T = {}
    OBVIOUS
  <2>2. Turns(r, base, s, 0, [T \in SUBSET (1..0) |-> base])
    BY <2>1 DEF Turns
  <2> QED
    BY <2>2, <1>2
<1>4. x - 1 \in Nat /\ x > 0 /\ ~(x - 1 \in Bad)
  BY <1>2, <1>3
<1>5. PICK g : Turns(r, base, s, x - 1, g)
  BY <1>4
<1> DEFINE f == [T \in SUBSET (1..x) |-> IF x \in T THEN Turned(r, g[T \ {x}], s[x]) ELSE g[T]]
<1>6. ASSUME NEW T \in SUBSET (1..x)
      PROVE  f[T] = IF T = {} THEN base ELSE Turned(r, f[T \ {Max(T)}], s[Max(T)])
  <2>1. CASE x \in T
    <3>1. Max(T) = x
      BY <1>4, <2>1, MaxOfInterval
    <3>2. T \ {x} \in SUBSET (1..x) /\ ~(x \in T \ {x})
      OBVIOUS
    <3> QED
      BY <2>1, <3>1, <3>2
  <2>2. CASE ~(x \in T)
    <3>1. T \in SUBSET (1..x - 1)
      BY <1>4, <2>2
    <3>2. T \ {Max(T)} \in SUBSET (1..x) /\ ~(x \in T \ {Max(T)})
      BY <2>2
    <3>3. f[T] = g[T] /\ f[T \ {Max(T)}] = g[T \ {Max(T)}]
      BY <2>2, <3>2
    <3>4. g[T] = IF T = {} THEN base ELSE Turned(r, g[T \ {Max(T)}], s[Max(T)])
      BY <1>5, <3>1 DEF Turns
    <3> QED
      BY <3>3, <3>4
  <2> QED
    BY <2>1, <2>2
<1>7. Turns(r, base, s, x, f)
  BY <1>6 DEF Turns
<1> QED
  BY <1>2, <1>7

TurnsTo(r, base, s, n, f) ==
    f[1..0] = base /\ \A i \in 1..n : f[1..i] = Turned(r, f[1..(i - 1)], s[i])

LEMMA TurnsInOrder ==
    ASSUME NEW r, NEW base, NEW n \in Nat, NEW s, NEW f, Turns(r, base, s, n, f)
    PROVE  TurnsTo(r, base, s, n, f)
<1>1. f[1..0] = base
  <2>1. 1..0 = {} /\ {} \in SUBSET (1..n)
    OBVIOUS
  <2> QED
    BY <2>1 DEF Turns
<1>2. ASSUME NEW i \in 1..n PROVE f[1..i] = Turned(r, f[1..(i - 1)], s[i])
  <2>1. i \in 1..i /\ 1..i # {} /\ (1..i) \ {i} = 1..(i - 1) /\ 1..i \in SUBSET (1..n)
    OBVIOUS
  <2>2. Max(1..i) = i
    BY <2>1, MaxOfInterval
  <2> QED
    BY <2>1, <2>2 DEF Turns
<1> QED
  BY <1>1, <1>2 DEF TurnsTo

\* What the loop has in memory at the end is what its last turn leaves.
TurnsOf(r, k, n, low, high, q) ==
    /\ q[0] = WrittenTo([mem |-> r, n |-> k, buffered |-> ReadAt(r, r, k + 1)],
                        Run(low, high - low - 1))
    /\ \A i \in 1..n : q[i] = Turned(r, q[i - 1], k + i)
    /\ NegatedInPlace(r, low, high)
       = [mem |-> q[n].mem, runs |-> SubSeq(q[n].mem, 1, q[n].n)]

LEMMA TurnsTaken ==
    ASSUME NEW r, NEW low \in Nat, NEW high \in Nat,
           NEW k, k = Cardinality({i \in DOMAIN r : r[i].value < low}),
           NEW n \in Nat, n = Len(r) - k
    PROVE  \E q : TurnsOf(r, k, n, low, high, q)
<1> DEFINE kk == Cardinality({i \in DOMAIN r : r[i].value < low})
           bb == WrittenTo([mem |-> r, n |-> kk, buffered |-> ReadAt(r, r, kk + 1)],
                           Run(low, high - low - 1))
           ss == [i \in 1..(Len(r) - kk) |-> kk + i]
           gg == CHOOSE f : f = [T \in SUBSET (DOMAIN ss) |->
                                   IF T = {} THEN bb ELSE Turned(r, f[T \ {Max(T)}], ss[Max(T)])]
           base == WrittenTo([mem |-> r, n |-> k, buffered |-> ReadAt(r, r, k + 1)],
                             Run(low, high - low - 1))
           s == [i \in 1..n |-> k + i]
           g == CHOOSE f : f = [T \in SUBSET (DOMAIN s) |->
                                   IF T = {} THEN base ELSE Turned(r, f[T \ {Max(T)}], s[Max(T)])]
           q == [i \in 0..n |-> g[1..i]]
<1>1. NegatedInPlace(r, low, high)
      = [mem |-> g[DOMAIN s].mem, runs |-> SubSeq(g[DOMAIN s].mem, 1, g[DOMAIN s].n)]
  <2>1. NegatedInPlace(r, low, high)
        = [mem |-> gg[DOMAIN ss].mem, runs |-> SubSeq(gg[DOMAIN ss].mem, 1, gg[DOMAIN ss].n)]
    BY Zenon DEF NegatedInPlace, FoldLeft, MapThenFoldSet, Turned, WrittenTo, ReadAt
  <2>2. bb = base /\ ss = s
    BY Zenon
  <2> HIDE DEF bb, base, ss, s
  <2>3. gg = g
    BY <2>2, Zenon
  <2> HIDE DEF gg, g
  <2> QED
    BY <2>1, <2>2, <2>3
<1>2. DOMAIN s = 1..n
  OBVIOUS
<1>3. PICK f : Turns(r, base, s, n, f)
  BY TurnsExist
<1>4. Turns(r, base, s, n, g)
  BY <1>2, <1>3 DEF Turns
<1> HIDE DEF g, base, kk, bb, ss, gg
<1>5. g[1..0] = base /\ \A i \in 1..n : g[1..i] = Turned(r, g[1..(i - 1)], s[i])
  <2> HIDE DEF s, q
  <2>1. TurnsTo(r, base, s, n, g)
    BY <1>4, TurnsInOrder
  <2> QED
    BY <2>1, Zenon DEF TurnsTo
<1>6. q[0] = base /\ q[n] = g[DOMAIN s]
  BY <1>2, <1>5
<1>7. ASSUME NEW i \in 1..n PROVE q[i] = Turned(r, q[i - 1], k + i)
  <2>1. i \in 0..n /\ i - 1 \in 0..n /\ s[i] = k + i
    OBVIOUS
  <2>2. q[i] = g[1..i] /\ q[i - 1] = g[1..(i - 1)]
    BY <2>1
  <2> QED
    BY <1>5, <2>1, <2>2
<1> HIDE DEF q, s
<1>8. TurnsOf(r, k, n, low, high, q)
  BY <1>1, <1>6, <1>7 DEF base, TurnsOf
<1> QED
  BY <1>8

\* A run joined to others adds one at most, and none where it begins right after the last
\* one, or begins or ends with it.
AddsNone(r, run) ==
    LET last == r[Len(r)]
    IN  /\ Len(r) # 0
        /\ \/ run.value = End(last) + 1
           \/ /\ run.value < End(last) + 1
              /\ run.value = last.value \/ End(run) = End(last)

LEMMA JoinedLength ==
    ASSUME NEW r \in Seq(Run16), NEW run \in Run16
    PROVE  /\ Len(AppendExclusive(r, run)) \in Nat
           /\ Len(AppendExclusive(r, run)) <= Len(r) + 1
           /\ AddsNone(r, run) => Len(AppendExclusive(r, run)) <= Len(r)
<1> DEFINE n == Len(r)
           last == r[n]
           oldEnd == End(last) + 1
           newEnd == End(run) + 1
           from == Min({oldEnd, newEnd})
           to == Max({oldEnd, newEnd})
           l == Run(last.value, last.length + run.length + 1)
           b == Run(last.value, run.value - last.value - 1)
           m == Run(from, to - from - 1)
           before == SubSeq(r, 1, n - 1)
           A == IF run.value = last.value THEN <<>> ELSE <<b>>
           B == IF from = to THEN <<>> ELSE <<m>>
           out == AppendExclusive(r, run)
<1>1. n \in Nat
  OBVIOUS
<1>2. CASE n = 0
  <2>1. out = Append(r, run)
    BY <1>2 DEF AppendExclusive
  <2>2. Len(Append(r, run)) = n + 1
    OBVIOUS
  <2> QED
    BY <1>2, <2>1, <2>2 DEF AddsNone
<1>3. CASE n # 0
  <2>1. /\ last \in Run16 /\ run.value \in Int /\ last.value \in Int
        /\ oldEnd \in Int /\ newEnd \in Int
    BY <1>3, RunFields
  <2>2. CASE run.value > oldEnd
    <3>1. out = Append(r, run)
      BY <2>2 DEF AppendExclusive
    <3>2. Len(Append(r, run)) = n + 1
      OBVIOUS
    <3>3. ~AddsNone(r, run)
      BY <2>1, <2>2 DEF AddsNone
    <3> QED
      BY <1>1, <3>1, <3>2, <3>3
  <2>3. CASE ~(run.value > oldEnd) /\ run.value = oldEnd
    <3>1. out = [r EXCEPT ![n] = l]
      BY <1>3, <2>3, Zenon DEF AppendExclusive
    <3>2. Len([r EXCEPT ![n] = l]) = n
      <4> HIDE DEF l
      <4> QED
        OBVIOUS
    <3> QED
      BY <1>1, <3>1, <3>2
  <2>4. CASE ~(run.value > oldEnd) /\ run.value # oldEnd
    <3>1. out = before \o A \o B
      BY <1>3, <2>4, Zenon DEF AppendExclusive
    <3>2. before \in Seq(Run16) /\ Len(before) = n - 1
      <4>1. n - 1 \in Nat /\ n - 1 <= n
        BY <1>1, <1>3
      <4> DEFINE e == n - 1
      <4>2. e \in Nat /\ e <= Len(r) /\ 1 \in Nat \ {0}
        BY <4>1
      <4> HIDE DEF e
      <4>3. SubSeq(r, 1, e) \in Seq(Run16) /\ Len(SubSeq(r, 1, e)) = e
        BY <4>2, PieceFields
      <4> QED
        BY <4>3 DEF e
    <3>3. A \in Seq(Run16) /\ Len(A) = (IF run.value = last.value THEN 0 ELSE 1)
      <4>1. b \in Run16
        BY <2>1, RunIs
      <4> HIDE DEF b, last
      <4> QED
        BY <4>1
    <3>4. B \in Seq(Run16) /\ Len(B) = (IF from = to THEN 0 ELSE 1)
      <4>1. from \in Int /\ to \in Int
        <5> HIDE DEF oldEnd, newEnd
        <5> QED
          BY <2>1, OneOfTwo
      <4> HIDE DEF from, to
      <4>2. m \in Run16
        BY <4>1, RunIs
      <4> HIDE DEF m
      <4> QED
        BY <4>2
    <3>5. End(run) = End(last) => from = to
      <4> SUFFICES ASSUME End(run) = End(last) PROVE from = to
        OBVIOUS
      <4>1. {oldEnd, newEnd} = {oldEnd}
        OBVIOUS
      <4>2. \A y \in {oldEnd} : y <= oldEnd /\ y >= oldEnd
        BY <2>1
      <4> HIDE DEF oldEnd, newEnd
      <4>3. Min({oldEnd}) = oldEnd /\ Max({oldEnd}) = oldEnd
        BY <4>2 DEF Min, Max
      <4> QED
        BY <4>1, <4>3
    <3> HIDE DEF A, B, before, from, to
    <3>6. Len(before \o A \o B) = Len(before) + Len(A) + Len(B)
      <4>1. before \o A \in Seq(Run16) /\ Len(before \o A) = Len(before) + Len(A)
        BY <3>2, <3>3, JoinedFields
      <4> DEFINE front == before \o A
      <4> HIDE DEF front
      <4>2. Len(front \o B) = Len(front) + Len(B)
        BY <3>4, <4>1, JoinedFields DEF front
      <4> QED
        BY <4>1, <4>2 DEF front
    <3>7. Len(out) = n - 1 + Len(A) + Len(B) /\ Len(A) \in {0, 1} /\ Len(B) \in {0, 1}
      BY <3>1, <3>2, <3>3, <3>4, <3>6
    <3>8. AddsNone(r, run) => Len(A) = 0 \/ Len(B) = 0
      BY <2>4, <3>3, <3>4, <3>5 DEF AddsNone
    <3> DEFINE lo == Len(out)
               la == Len(A)
               lb == Len(B)
    <3>9. lo = n - 1 + la + lb /\ (la = 0 \/ la = 1) /\ (lb = 0 \/ lb = 1)
      BY <3>7
    <3> HIDE DEF n, out, lo, la, lb
    <3>10. lo \in Nat /\ lo <= n + 1 /\ (la = 0 \/ lb = 0 => lo <= n)
      BY <1>1, <1>3, <3>9
    <3> QED
      BY <3>8, <3>10 DEF n, out, lo, la, lb
  <2> QED
    BY <2>2, <2>3, <2>4
<1> QED
  BY <1>2, <1>3

\* The memory a run is written to: the runs up to it are those it is joined to, the
\* others stay what they were.
TurnStates == [mem : Seq(Run16), n : Nat, buffered : Run16]

IsWritten(s, out, w) ==
    /\ w \in TurnStates /\ w.buffered = s.buffered /\ w.n = Len(out)
    /\ out \in Seq(Run16) /\ Len(out) \in Nat
    /\ SubSeq(w.mem, 1, w.n) = out
    /\ Len(w.mem) = IF Len(s.mem) <= Len(out) THEN Len(out) ELSE Len(s.mem)
    /\ \A j \in 1..Len(s.mem) : Len(out) < j => w.mem[j] = s.mem[j]

LEMMA Written ==
    ASSUME NEW s \in TurnStates, s.n <= Len(s.mem), NEW run \in Run16,
           NEW out, out = AppendExclusive(SubSeq(s.mem, 1, s.n), run),
           NEW w, w = WrittenTo(s, run)
    PROVE  IsWritten(s, out, w)
<1> DEFINE mem == s.mem
           tail == SubSeq(mem, Len(out) + 1, Len(mem))
<1>1. mem \in Seq(Run16) /\ s.n \in Nat /\ s.buffered \in Run16 /\ Len(mem) \in Nat
  BY DEF TurnStates
<1>2. out \in Seq(Run16)
  <2>1. SubSeq(mem, 1, s.n) \in Seq(Run16)
    BY <1>1
  <2> QED
    BY <2>1, AppendExclusiveIs
<1>3. w.mem = out \o tail /\ w.n = Len(out) /\ w.buffered = s.buffered
      /\ w = [mem |-> out \o tail, n |-> Len(out), buffered |-> s.buffered]
  <2>1. s = [mem |-> s.mem, n |-> s.n, buffered |-> s.buffered]
    BY DEF TurnStates
  <2>2. w = [mem |-> out \o tail, n |-> Len(out), buffered |-> s.buffered]
    BY <2>1 DEF WrittenTo
  <2> HIDE DEF tail
  <2> QED
    BY <2>2
<1>4. /\ tail \in Seq(Run16) /\ Len(out) \in Nat
      /\ Len(tail) = (IF Len(out) + 1 <= Len(mem) THEN Len(mem) - Len(out) ELSE 0)
      /\ \A j \in 1..Len(tail) : tail[j] = mem[Len(out) + j]
  <2> HIDE DEF mem
  <2> QED
    BY <1>1, <1>2
<1> DEFINE lm == Len(mem)
           lo == Len(out)
           lt == Len(tail)
<1> HIDE DEF tail, mem
<1>5. out \o tail \in Seq(Run16) /\ Len(out \o tail) = Len(out) + Len(tail)
  BY <1>2, <1>4, JoinedFields
<1>6. SubSeq(out \o tail, 1, Len(out)) = out
  BY <1>2, <1>4
<1>7. ASSUME NEW j \in 1..Len(mem), Len(out) < j PROVE (out \o tail)[j] = mem[j]
  <2>1. j - Len(out) \in 1..Len(tail) /\ Len(out) + (j - Len(out)) = j
    <3>1. /\ lm \in Nat /\ lo \in Nat /\ lt = (IF lo + 1 <= lm THEN lm - lo ELSE 0)
          /\ j \in 1..lm /\ lo < j
      BY <1>1, <1>4, <1>7
    <3> HIDE DEF lm, lo, lt
    <3>2. j - lo \in 1..lt /\ lo + (j - lo) = j
      BY <3>1
    <3> QED
      BY <3>2 DEF lo, lt
  <2>2. (out \o tail)[j] = tail[j - Len(out)]
    BY <1>1, <1>2, <1>4, <1>7, <2>1
  <2>3. tail[j - Len(out)] = mem[Len(out) + (j - Len(out))]
    BY <1>4, <2>1
  <2> QED
    BY <2>1, <2>2, <2>3
<1>8. w \in TurnStates
  BY <1>1, <1>3, <1>4, <1>5 DEF TurnStates
<1>9. Len(w.mem) = IF Len(mem) <= Len(out) THEN Len(out) ELSE Len(mem)
  <2>1. /\ lm \in Nat /\ lo \in Nat /\ lt = (IF lo + 1 <= lm THEN lm - lo ELSE 0)
        /\ Len(w.mem) = lo + lt
    BY <1>1, <1>3, <1>4, <1>5
  <2> HIDE DEF lm, lo, lt
  <2>2. Len(w.mem) = IF lm <= lo THEN lo ELSE lm
    BY <2>1
  <2> QED
    BY <2>2 DEF lm, lo
<1> QED
  BY <1>2, <1>3, <1>4, <1>6, <1>7, <1>8, <1>9 DEF mem, IsWritten

\* The runs o are written, the run p is the one read ahead, and the memory still has the
\* runs after it, in a capacity of cap.
Kept(r, p, o, w, cap) ==
    /\ w \in TurnStates /\ o \in Seq(Run16) /\ w.n = Len(o) /\ Len(o) <= p
    /\ SubSeq(w.mem, 1, w.n) = o
    /\ w.n <= Len(w.mem) /\ Len(r) <= Len(w.mem) /\ Len(w.mem) <= cap
    /\ p <= Len(r) => w.buffered = r[p]
    /\ \A j \in 1..Len(r) : p < j => w.mem[j] = r[j]

LEMMA FirstKept ==
    ASSUME NEW r \in Seq(Run16), NEW k \in 0..Len(r), NEW run \in Run16,
           NEW o, o = AppendExclusive(SubSeq(r, 1, k), run),
           NEW cap \in Nat, Len(r) <= cap, Len(o) <= cap
    PROVE  Kept(r, k + 1, o, WrittenTo([mem |-> r, n |-> k, buffered |-> ReadAt(r, r, k + 1)], run),
                cap)
<1> DEFINE m == Len(r)
           s == [mem |-> r, n |-> k, buffered |-> ReadAt(r, r, k + 1)]
           w == WrittenTo(s, run)
<1>1. m \in Nat /\ k \in Nat /\ k <= m
  OBVIOUS
<1>2. ReadAt(r, r, k + 1) \in Run16
  <2>1. Run(0, 0) \in Run16
    BY RunIs
  <2>2. k + 1 <= m => k + 1 \in 1..m
    BY <1>1
  <2> QED
    BY <2>1, <2>2 DEF ReadAt
<1>3. s \in TurnStates /\ s.mem = r /\ s.n = k /\ s.buffered = ReadAt(r, r, k + 1)
  BY <1>1, <1>2 DEF TurnStates
<1> HIDE DEF s
<1>4. /\ w \in TurnStates /\ w.buffered = s.buffered /\ w.n = Len(o)
      /\ o \in Seq(Run16) /\ Len(o) \in Nat
      /\ SubSeq(w.mem, 1, w.n) = o
      /\ Len(w.mem) = IF Len(s.mem) <= Len(o) THEN Len(o) ELSE Len(s.mem)
      /\ \A j \in 1..Len(s.mem) : Len(o) < j => w.mem[j] = s.mem[j]
  <2>1. o = AppendExclusive(SubSeq(s.mem, 1, s.n), run) /\ s.n <= Len(s.mem)
    BY <1>1, <1>3
  <2>2. w = WrittenTo(s, run)
    OBVIOUS
  <2> HIDE DEF w
  <2>3. IsWritten(s, o, w)
    BY <1>3, <2>1, <2>2, Written
  <2> QED
    BY <2>3 DEF IsWritten
<1>5. Len(o) <= k + 1
  <2>1. SubSeq(r, 1, k) \in Seq(Run16) /\ Len(SubSeq(r, 1, k)) = k
    <3>1. 1 \in Nat \ {0} /\ k \in Nat /\ k <= Len(r)
      BY <1>1
    <3> QED
      BY <3>1, PieceFields
  <2> QED
    BY <2>1, JoinedLength
<1> HIDE DEF w
<1>6. w.n <= Len(w.mem) /\ Len(r) <= Len(w.mem) /\ Len(w.mem) <= cap
  <2> DEFINE lo == Len(o)
             lw == Len(w.mem)
  <2>1. /\ lo \in Nat /\ m \in Nat /\ lw = (IF m <= lo THEN lo ELSE m)
        /\ lo <= cap /\ m <= cap /\ w.n = lo
    BY <1>1, <1>3, <1>4
  <2> HIDE DEF lo, lw, m
  <2>2. w.n <= lw /\ m <= lw /\ lw <= cap
    BY <2>1
  <2> QED
    BY <2>2 DEF lw, m
<1>7. \A j \in 1..Len(r) : k + 1 < j => w.mem[j] = r[j]
  BY <1>1, <1>3, <1>4, <1>5
<1>8. k + 1 <= Len(r) => w.buffered = r[k + 1]
  BY <1>3, <1>4 DEF ReadAt
<1> QED
  BY <1>4, <1>5, <1>6, <1>7, <1>8 DEF Kept, w, s

LEMMA TurnKeeps ==
    ASSUME NEW r \in Seq(Run16), NEW p \in Nat, p > 0, p <= Len(r), NEW o, NEW s, NEW cap \in Nat,
           Kept(r, p, o, s, cap), NEW out, out = AppendExclusive(o, r[p]), Len(out) <= cap
    PROVE  Kept(r, p + 1, out, Turned(r, s, p), cap)
<1> DEFINE m == Len(r)
           run == r[p]
           w == WrittenTo(s, run)
           e == ReadAt(r, s.mem, p + 1)
           x == Turned(r, s, p)
<1>1. /\ m \in Nat /\ run \in Run16 /\ s.buffered = run
      /\ s \in TurnStates /\ o \in Seq(Run16) /\ s.n = Len(o) /\ Len(o) <= p
      /\ SubSeq(s.mem, 1, s.n) = o
      /\ s.n <= Len(s.mem) /\ Len(r) <= Len(s.mem) /\ Len(s.mem) <= cap
      /\ \A j \in 1..Len(r) : p < j => s.mem[j] = r[j]
  BY DEF Kept
<1>2. s.mem \in Seq(Run16) /\ Len(s.mem) \in Nat
  BY <1>1 DEF TurnStates
<1>3. e \in Run16 /\ (p + 1 <= Len(r) => e = r[p + 1])
  <2>1. Run(0, 0) \in Run16
    BY RunIs
  <2>2. p + 1 <= Len(r) => p + 1 \in 1..Len(s.mem) /\ p + 1 \in 1..Len(r) /\ p < p + 1
    BY <1>1, <1>2
  <2> QED
    BY <1>1, <1>2, <2>1, <2>2 DEF ReadAt
<1> HIDE DEF run, e
<1>4. /\ w \in TurnStates /\ w.buffered = s.buffered /\ w.n = Len(out)
      /\ out \in Seq(Run16) /\ Len(out) \in Nat
      /\ SubSeq(w.mem, 1, w.n) = out
      /\ Len(w.mem) = IF Len(s.mem) <= Len(out) THEN Len(out) ELSE Len(s.mem)
      /\ \A j \in 1..Len(s.mem) : Len(out) < j => w.mem[j] = s.mem[j]
  <2>1. out = AppendExclusive(SubSeq(s.mem, 1, s.n), run)
    BY <1>1 DEF run
  <2>2. w = WrittenTo(s, run)
    OBVIOUS
  <2> HIDE DEF w
  <2>3. IsWritten(s, out, w)
    BY <1>1, <2>1, <2>2, Written
  <2> QED
    BY <2>3 DEF IsWritten
<1>5. Len(out) <= p + 1
  <2>1. Len(out) <= Len(o) + 1 /\ Len(o) \in Nat
    BY <1>1, JoinedLength DEF run
  <2> QED
    BY <1>1, <1>4, <2>1
<1> HIDE DEF w
<1>6. x \in TurnStates /\ x.n = w.n /\ x.mem = w.mem /\ x.buffered = e
  <2>1. x = [w EXCEPT !.buffered = e]
    BY <1>1, Zenon DEF Turned, w, e
  <2> HIDE DEF x
  <2> QED
    BY <1>3, <1>4, <2>1 DEF TurnStates
<1> HIDE DEF x
<1>7. x.n <= Len(x.mem) /\ Len(r) <= Len(x.mem) /\ Len(x.mem) <= cap
  <2> DEFINE lo == Len(out)
             ls == Len(s.mem)
             lw == Len(w.mem)
  <2>1. /\ lo \in Nat /\ ls \in Nat /\ lw = (IF ls <= lo THEN lo ELSE ls) /\ lo <= cap
        /\ ls <= cap /\ m <= ls /\ m \in Nat /\ w.n = lo
    BY <1>1, <1>2, <1>4
  <2> HIDE DEF lo, ls, lw, m
  <2>2. w.n <= lw /\ m <= lw /\ lw <= cap
    BY <2>1
  <2> QED
    BY <1>6, <2>2 DEF lw, m
<1>8. ASSUME NEW j \in 1..Len(r), p + 1 < j PROVE x.mem[j] = r[j]
  <2>1. j \in 1..Len(s.mem) /\ Len(out) < j /\ p < j
    BY <1>1, <1>2, <1>4, <1>5, <1>8
  <2> QED
    BY <1>1, <1>4, <1>6, <2>1
<1>9. SubSeq(x.mem, 1, x.n) = out /\ x.n = Len(out)
  BY <1>4, <1>6
<1> QED
  BY <1>3, <1>4, <1>5, <1>6, <1>7, <1>8, <1>9 DEF Kept, x

\* Lengths that grow by one at most, and by none in step h.
LEMMA LengthsGrow ==
    ASSUME NEW k \in Nat, NEW n \in Nat, NEW l, \A i \in 0..n : l[i] \in Nat,
           l[0] <= k + 1, \A i \in 1..n : l[i] <= l[i - 1] + 1,
           NEW h \in Nat, h = 0 => l[0] <= k, h \in 1..n => l[h] <= l[h - 1]
    PROVE  \A i \in 0..n : l[i] <= IF h <= i THEN k + i ELSE k + i + 1
<1> DEFINE Bad == {i \in 0..n : ~(l[i] <= IF h <= i THEN k + i ELSE k + i + 1)}
<1>1. SUFFICES ASSUME Bad # {} PROVE FALSE
  OBVIOUS
<1>2. PICK x \in Bad : \A y \in Bad : x <= y
  <2>1. Bad \subseteq Nat
    OBVIOUS
  <2> HIDE DEF Bad
  <2> QED
    BY <1>1, <2>1, LeastOfNaturals
<1>3. x # 0
  <2> SUFFICES ASSUME x = 0 PROVE FALSE
    OBVIOUS
  <2>1. ~(l[0] <= IF h <= 0 THEN k + 0 ELSE k + 0 + 1)
    BY <1>2
  <2>2. h <= 0 => l[0] <= k
    OBVIOUS
  <2> QED
    BY <2>1, <2>2
<1>4. x \in 1..n /\ x - 1 \in 0..n /\ x - 1 \notin Bad /\ x \in 0..n
  <2>1. x \in 0..n
    OBVIOUS
  <2>2. x - 1 \in 0..n /\ ~(x <= x - 1) /\ x \in 1..n
    BY <1>3, <2>1
  <2>3. x - 1 \notin Bad
    BY <1>2, <2>2
  <2> QED
    BY <2>1, <2>2, <2>3
<1>5. l[x - 1] <= IF h <= x - 1 THEN k + (x - 1) ELSE k + (x - 1) + 1
  BY <1>4
<1> DEFINE a == l[x - 1]
           b == l[x]
<1>6. a \in Nat /\ b \in Nat /\ b <= a + 1 /\ (h = x => b <= a)
  BY <1>4
<1>7. ~(b <= IF h <= x THEN k + x ELSE k + x + 1)
  BY <1>2
<1> HIDE DEF a, b, Bad
<1>8. a <= IF h <= x - 1 THEN k + (x - 1) ELSE k + (x - 1) + 1
  BY <1>5 DEF a
<1>9. x \in Nat
  BY <1>4
<1> QED
  BY <1>6, <1>7, <1>8, <1>9

\* The runs that the plain negation has after each run, t, are what the loop has written.
LEMMA AllKept ==
    ASSUME NEW r \in Seq(Run16), NEW k \in 0..Len(r), NEW n, n = Len(r) - k, NEW run \in Run16,
           NEW t, t[0] = AppendExclusive(SubSeq(r, 1, k), run),
           \A i \in 1..n : t[i] = AppendExclusive(t[i - 1], r[k + i]),
           NEW q, q[0] = WrittenTo([mem |-> r, n |-> k, buffered |-> ReadAt(r, r, k + 1)], run),
           \A i \in 1..n : q[i] = Turned(r, q[i - 1], k + i),
           NEW cap \in Nat, Len(r) <= cap, \A i \in 0..n : Len(t[i]) <= cap
    PROVE  \A i \in 0..n : Kept(r, k + i + 1, t[i], q[i], cap)
<1> DEFINE Bad == {i \in 0..n : ~Kept(r, k + i + 1, t[i], q[i], cap)}
<1>1. SUFFICES ASSUME Bad # {} PROVE FALSE
  OBVIOUS
<1>2. PICK x \in Bad : \A y \in Bad : x <= y
  <2>1. Bad \subseteq Nat
    OBVIOUS
  <2> HIDE DEF Bad
  <2> QED
    BY <1>1, <2>1, LeastOfNaturals
<1>3. n \in Nat /\ Len(r) \in Nat /\ k \in Nat /\ k + n = Len(r)
  OBVIOUS
<1>4. x # 0
  <2>1. Len(t[0]) <= cap
    BY <1>3
  <2>2. Kept(r, k + 1, t[0], q[0], cap)
    BY <2>1, FirstKept
  <2>3. k + 0 + 1 = k + 1
    BY <1>3
  <2> QED
    BY <1>2, <2>2, <2>3
<1>5. x \in 1..n /\ x - 1 \in 0..n /\ x - 1 \notin Bad /\ x \in 0..n /\ x \in Nat
  <2>1. x \in 0..n
    OBVIOUS
  <2>2. x - 1 \in 0..n /\ ~(x <= x - 1) /\ x \in 1..n
    BY <1>3, <1>4, <2>1
  <2>3. x - 1 \notin Bad
    BY <1>2, <2>2
  <2> QED
    BY <2>1, <2>2, <2>3
<1> DEFINE p == k + x
<1>6. p \in Nat /\ p > 0 /\ p <= Len(r) /\ k + (x - 1) + 1 = p
  BY <1>3, <1>5
<1>7. Kept(r, k + (x - 1) + 1, t[x - 1], q[x - 1], cap)
  BY <1>5
<1>8. t[x] = AppendExclusive(t[x - 1], r[p]) /\ Len(t[x]) <= cap /\ q[x] = Turned(r, q[x - 1], p)
  BY <1>5
<1>9. ~Kept(r, p + 1, t[x], q[x], cap)
  BY <1>2
<1> HIDE DEF p, Bad
<1>10. Kept(r, p, t[x - 1], q[x - 1], cap)
  BY <1>6, <1>7
<1>11. Kept(r, p + 1, t[x], Turned(r, q[x - 1], p), cap)
  BY <1>6, <1>8, <1>10, TurnKeeps
<1> QED
  BY <1>8, <1>9, <1>11

\* What the loop writes, and in how much memory, when it has room for what the plain
\* negation has at each step.
LeavesIn(r, low, high, cap, o) ==
    /\ Len(NegatedInPlace(r, low, high).mem) <= cap
    /\ NegatedInPlace(r, low, high).runs = o

LEMMA NegatedInMemory ==
    ASSUME NEW r \in Seq(Run16), NEW low \in Nat, NEW high \in Nat,
           NEW k \in 0..Len(r), k = Cardinality({i \in DOMAIN r : r[i].value < low}),
           NEW n, n = Len(r) - k,
           NEW t, t[0] = AppendExclusive(SubSeq(r, 1, k), Run(low, high - low - 1)),
           \A i \in 1..n : t[i] = AppendExclusive(t[i - 1], r[k + i]),
           NEW cap \in Nat, Len(r) <= cap, \A i \in 0..n : Len(t[i]) <= cap
    PROVE  LeavesIn(r, low, high, cap, t[n])
<1> DEFINE run == Run(low, high - low - 1)
<1>1. n \in Nat
  OBVIOUS
<1>2. PICK q : TurnsOf(r, k, n, low, high, q)
  BY <1>1, TurnsTaken
<1>3. run \in Run16
  BY RunIs
<1> HIDE DEF run
<1>4. \A i \in 0..n : Kept(r, k + i + 1, t[i], q[i], cap)
  <2>1. t[0] = AppendExclusive(SubSeq(r, 1, k), run)
    BY DEF run
  <2>2. /\ q[0] = WrittenTo([mem |-> r, n |-> k, buffered |-> ReadAt(r, r, k + 1)], run)
        /\ \A i \in 1..n : q[i] = Turned(r, q[i - 1], k + i)
    BY <1>2 DEF TurnsOf, run
  <2> QED
    BY <1>3, <2>1, <2>2, AllKept
<1>5. Kept(r, k + n + 1, t[n], q[n], cap)
  <2>1. n \in 0..n
    BY <1>1
  <2> QED
    BY <1>4, <2>1, Zenon
<1>6. Len(q[n].mem) <= cap /\ SubSeq(q[n].mem, 1, q[n].n) = t[n]
  BY <1>5, Zenon DEF Kept
<1>7. NegatedInPlace(r, low, high) = [mem |-> q[n].mem, runs |-> SubSeq(q[n].mem, 1, q[n].n)]
  BY <1>2, Zenon DEF TurnsOf
<1> QED
  BY <1>6, <1>7 DEF LeavesIn

LEMMA LastIsHighest ==
    ASSUME NEW r, Tidy(r), NEW v \in Int, v \in RunValues(r), \A x \in RunValues(r) : x <= v
    PROVE  Len(r) # 0 /\ End(r[Len(r)]) = v
<1>1. Len(r) # 0
  <2>1. r \in Seq(Run16) /\ Len(r) \in Nat
    BY DEF Tidy, Spaced
  <2>2. \E i \in 1..Len(r) : Holds(r[i], v)
    BY <2>1, InRuns
  <2> QED
    BY <2>1, <2>2
<1>2. Spaced(r, 1) /\ 1 \in Nat
  BY DEF Tidy
<1>3. Len(r) \in 1..Len(r) /\ Legal(r[Len(r)]) /\ \A x \in RunValues(r) : x <= End(r[Len(r)])
  BY <1>1, <1>2, LastApart
<1>4. End(r[Len(r)]) \in RunValues(r) /\ End(r[Len(r)]) \in Nat
  BY <1>2, <1>3, EndsHeld, LegalIs
<1>5. End(r[Len(r)]) <= v /\ v <= End(r[Len(r)])
  BY <1>3, <1>4
<1> QED
  BY <1>1, <1>4, <1>5

\* In step h of the negation, or where the range itself is joined, no run is added.
Stalls(r, k, run, t, h) ==
    IF h = 0 THEN AddsNone(SubSeq(r, 1, k), run) ELSE AddsNone(t[h - 1], r[k + h])

\* A run that begins or ends where the range ends.
LEMMA StallsAtHigh ==
    ASSUME NEW r, Tidy(r), NEW low \in Nat, NEW high \in Nat, low < high, high <= U,
           NEW k \in 0..Len(r), NEW h \in Nat, h > 0, k + h <= Len(r),
           NEW o, Tidy(o), RunValues(o) = NegatedUpTo(r, k, h - 1, low, high),
           r[k + h].value = high \/ End(r[k + h]) = high - 1
    PROVE  AddsNone(o, r[k + h])
<1> DEFINE j == k + h
           X == {v \in Int : \E i \in 1..(k + (h - 1)) : Holds(r[i], v)}
           a == r[j].value
           b == End(r[j])
<1>1. /\ r \in Seq(Run16) /\ Len(r) \in Nat
      /\ \A i \in 1..Len(r) : r[i].value \in Nat /\ End(r[i]) \in Nat
      /\ \A i1, i2 \in 1..Len(r) : i1 < i2 => End(r[i1]) + 1 < r[i2].value
  BY RunsLegal
<1>2. j \in 1..Len(r) /\ \A i \in 1..(k + (h - 1)) : i \in 1..Len(r) /\ i < j
  BY <1>1
<1>3. a \in Nat /\ b \in Nat /\ a <= b /\ (a = high \/ b = high - 1)
  <2>1. Legal(r[j])
    BY <1>2 DEF Tidy, Spaced
  <2> QED
    BY <2>1, LegalIs
<1>4. ASSUME NEW i \in 1..(k + (h - 1)) PROVE End(r[i]) \in Nat /\ End(r[i]) < high - 1
  <2>1. End(r[i]) + 1 < a /\ End(r[i]) \in Nat
    BY <1>1, <1>2
  <2> HIDE DEF a, b, j
  <2> QED
    BY <1>3, <2>1
<1> HIDE DEF a, b, j
<1>5. \A v \in X : v \in Int /\ v < high - 1
  BY <1>4 DEF Holds
<1>6. RunValues(o) = SymDiff(X, low..(high - 1))
  BY Zenon DEF NegatedUpTo, X
<1> HIDE DEF X
<1>7. high - 1 \in Int /\ high - 1 \in low..(high - 1) /\ ~(high - 1 \in X)
  BY <1>5
<1>8. high - 1 \in RunValues(o)
  BY <1>6, <1>7 DEF SymDiff
<1>9. \A x \in RunValues(o) : x <= high - 1
  BY <1>5, <1>6 DEF SymDiff
<1>10. Len(o) # 0 /\ End(o[Len(o)]) = high - 1
  BY <1>7, <1>8, <1>9, LastIsHighest
<1>11. a = End(o[Len(o)]) + 1 \/ (a < End(o[Len(o)]) + 1 /\ b = End(o[Len(o)]))
  BY <1>3, <1>10
<1> QED
  BY <1>10, <1>11 DEF AddsNone, a, b, j

\* The last run that begins before the range, ending right before it or with it.
LEMMA StallsFirst ==
    ASSUME NEW r, Tidy(r), NEW low \in Nat, NEW high \in Nat, low < high, high <= U,
           NEW k \in 0..Len(r), k # 0, End(r[k]) = low - 1 \/ End(r[k]) = high - 1
    PROVE  AddsNone(SubSeq(r, 1, k), Run(low, high - low - 1))
<1> DEFINE head == SubSeq(r, 1, k)
           run == Run(low, high - low - 1)
<1>1. high - low - 1 \in Nat /\ low + (high - low - 1) < U /\ low + (high - low - 1) = high - 1
  BY UAssumption
<1>2. run.value = low /\ End(run) = high - 1
  BY <1>1, RunFits
<1>3. Len(head) = k /\ head[Len(head)] = r[k]
  <2>1. r \in Seq(Run16) /\ Len(r) \in Nat
    BY DEF Tidy, Spaced
  <2> QED
    BY <2>1
<1> HIDE DEF head, run
<1>4. run.value = End(r[k]) + 1 \/ (run.value < End(r[k]) + 1 /\ End(run) = End(r[k]))
  BY <1>2
<1> QED
  BY <1>3, <1>4 DEF AddsNone, head, run

\* The first run that does not begin before the range, when it begins with it.
LEMMA StallsAtLow ==
    ASSUME NEW r, Tidy(r), NEW low \in Nat, NEW high \in Nat, low < high, high <= U,
           NEW k \in 0..Len(r), k + 1 <= Len(r), r[k + 1].value = low
    PROVE  AddsNone(AppendExclusive(SubSeq(r, 1, k), Run(low, high - low - 1)), r[k + 1])
<1> DEFINE head == SubSeq(r, 1, k)
           run == Run(low, high - low - 1)
           o == AppendExclusive(head, run)
<1>1. high - low - 1 \in Nat /\ low + (high - low - 1) < U /\ low + (high - low - 1) = high - 1
  BY UAssumption
<1>2. run.value = low /\ End(run) = high - 1
  BY <1>1, RunFits
<1>3. /\ r \in Seq(Run16) /\ Len(r) \in Nat
      /\ \A i \in 1..Len(r) : r[i].value \in Nat /\ End(r[i]) \in Nat
      /\ \A i1, i2 \in 1..Len(r) : i1 < i2 => End(r[i1]) + 1 < r[i2].value
  BY RunsLegal
<1>4. Len(head) = k /\ head \in Seq(Run16) /\ (k # 0 => head[k] = r[k])
  BY <1>3
<1>5. k # 0 => End(r[k]) + 1 < low
  BY <1>3
<1> HIDE DEF head, run
<1>6. o = Append(head, run)
  <2>1. Len(head) = 0 \/ run.value > End(head[Len(head)]) + 1
    <3>1. k # 0 => End(r[k]) \in Nat
      BY <1>3
    <3> QED
      BY <1>2, <1>4, <1>5, <3>1
  <2> QED
    BY <2>1, Zenon DEF AppendExclusive, o
<1>7. Len(Append(head, run)) = k + 1 /\ Append(head, run)[k + 1] = run
  BY <1>4
<1> HIDE DEF o
<1>8. Len(o) = k + 1 /\ o[Len(o)] = run /\ k + 1 # 0
  BY <1>6, <1>7
<1>9. low < End(run) + 1
  BY <1>2
<1> QED
  BY <1>2, <1>8, <1>9 DEF AddsNone, o, head, run

\* When the range cannot add a run, one of the steps adds none.
LEMMA SomeStepStalls ==
    ASSUME NEW r, Tidy(r), NEW low \in Nat, NEW high \in Nat, low < high, high <= U,
           NEW k \in 0..Len(r), \A i \in 1..Len(r) : i <= k <=> r[i].value < low,
           NEW n, n = Len(r) - k, NEW run, run = Run(low, high - low - 1),
           NEW t, t[0] = AppendExclusive(SubSeq(r, 1, k), run),
           \A i \in 0..n : Tidy(t[i]) /\ RunValues(t[i]) = NegatedUpTo(r, k, i, low, high),
           ~NoRoom(r, Len(r), low, high)
    PROVE  \E h \in 0..n : Stalls(r, k, run, t, h)
<1> DEFINE In(v) == \E i \in 1..Len(r) : Holds(r[i], v)
<1>1. /\ r \in Seq(Run16) /\ Len(r) \in Nat /\ DOMAIN r = 1..Len(r)
      /\ \A i \in 1..Len(r) : /\ r[i].value \in Nat /\ End(r[i]) \in Nat
                              /\ r[i].value <= End(r[i]) /\ End(r[i]) < U
      /\ \A i, j \in 1..Len(r) : i < j => End(r[i]) + 1 < r[j].value
  BY RunsLegal
<1>2. k \in Nat /\ n \in Nat /\ k + n = Len(r) /\ k <= Len(r)
  BY <1>1
<1>3. ASSUME NEW i \in 1..Len(r), NEW v \in Int
      PROVE  Holds(r[i], v) <=> r[i].value <= v /\ v <= End(r[i])
  BY DEF Holds
<1>4. \/ low > 0 /\ In(low - 1) /\ ~In(low)
      \/ In(low) /\ ~(low > 0 /\ In(low - 1))
      \/ In(high - 1) /\ ~(high # U /\ In(high))
      \/ high # U /\ In(high) /\ ~In(high - 1)
  <2>1. \A v : HasValue(r, v) <=> In(v)
    BY <1>1 DEF HasValue
  <2>2. \A v : HasValue(r, v) \in BOOLEAN
    BY Zenon DEF HasValue
  <2>3. \/ (low > 0 /\ HasValue(r, low - 1)) # HasValue(r, low)
        \/ HasValue(r, high - 1) # (high # U /\ HasValue(r, high))
    BY Zenon DEF NoRoom
  <2> HIDE DEF In
  <2> QED
    BY <2>1, <2>2, <2>3
\* A run k that ends right before the range, or with it.
<1>5. ASSUME k # 0, End(r[k]) = low - 1 \/ End(r[k]) = high - 1
      PROVE  \E h \in 0..n : Stalls(r, k, run, t, h)
  <2>1. AddsNone(SubSeq(r, 1, k), run)
    BY <1>5, StallsFirst
  <2>2. Stalls(r, k, run, t, 0) /\ 0 \in 0..n
    BY <1>2, <2>1 DEF Stalls
  <2> QED
    BY <2>2
\* A run j that does not begin before the range, and begins or ends where it ends.
<1>6. ASSUME NEW j \in 1..Len(r), k < j, r[j].value = high \/ End(r[j]) = high - 1
      PROVE  \E h \in 0..n : Stalls(r, k, run, t, h)
  <2> DEFINE h == j - k
  <2>1. h \in Nat /\ h > 0 /\ h \in 0..n /\ h - 1 \in 0..n /\ k + h = j /\ k + h <= Len(r)
    BY <1>1, <1>2, <1>6
  <2>2. Tidy(t[h - 1]) /\ RunValues(t[h - 1]) = NegatedUpTo(r, k, h - 1, low, high)
    <3> HIDE DEF h
    <3> QED
      BY <2>1
  <2>3. r[k + h].value = high \/ End(r[k + h]) = high - 1
    BY <1>6, <2>1
  <2> HIDE DEF h
  <2>4. AddsNone(t[h - 1], r[k + h])
    BY <2>1, <2>2, <2>3, StallsAtHigh
  <2>5. Stalls(r, k, run, t, h)
    BY <2>1, <2>4 DEF Stalls
  <2> QED
    BY <2>1, <2>5
\* Of the runs that begin before the range, only run k reaches it.
<1>7. ASSUME NEW j \in 1..Len(r), r[j].value < low, End(r[j]) = low - 1 \/ End(r[j]) = high - 1
      PROVE  k # 0 /\ (End(r[k]) = low - 1 \/ End(r[k]) = high - 1)
  <2>1. j <= k /\ k \in 1..Len(r) /\ r[k].value < low
    BY <1>2, <1>7
  <2>2. j < k => End(r[j]) + 1 < r[k].value
    BY <1>1, <2>1
  <2>3. ~(j < k)
    BY <1>1, <1>7, <2>1, <2>2
  <2>4. j = k
    BY <1>2, <2>1, <2>3
  <2> QED
    BY <1>7, <2>4
<1>8. CASE low > 0 /\ In(low - 1) /\ ~In(low)
  <2>1. PICK j \in 1..Len(r) : Holds(r[j], low - 1)
    BY <1>8
  <2>2. ~Holds(r[j], low) /\ low - 1 \in Int /\ low \in Int
    BY <1>8
  <2>3. r[j].value < low /\ End(r[j]) = low - 1
    BY <1>1, <1>3, <2>1, <2>2
  <2> QED
    BY <1>5, <1>7, <2>3
<1>9. CASE In(low) /\ ~(low > 0 /\ In(low - 1))
  <2>1. PICK j \in 1..Len(r) : Holds(r[j], low)
    BY <1>9
  <2>2. r[j].value = low
    <3>1. r[j].value <= low /\ low <= End(r[j]) /\ r[j].value \in Nat /\ End(r[j]) \in Nat
      BY <1>1, <1>3, <2>1
    <3>2. r[j].value < low => Holds(r[j], low - 1) /\ low > 0
      BY <1>3, <3>1
    <3> QED
      BY <1>9, <3>1, <3>2
  <2>3. ~(j <= k) /\ k + 1 \in 1..Len(r) /\ ~(k + 1 <= k)
    BY <1>2, <2>2
  <2>4. ~(r[k + 1].value < low) /\ r[k + 1].value \in Nat /\ End(r[k + 1]) \in Nat
        /\ r[k + 1].value <= End(r[k + 1])
    BY <1>1, <2>3
  <2>5. k + 1 < j => End(r[k + 1]) + 1 < r[j].value
    BY <1>1, <2>3
  <2>6. ~(k + 1 < j)
    BY <2>2, <2>4, <2>5
  <2>7. j = k + 1
    BY <1>2, <2>3, <2>6
  <2>8. AddsNone(t[0], r[k + 1])
    BY <1>2, <2>2, <2>3, <2>7, StallsAtLow
  <2>9. Stalls(r, k, run, t, 1) /\ 1 \in 0..n
    <3>1. 1 - 1 = 0 /\ 1 # 0 /\ 1 \in 0..n
      BY <1>2, <2>3
    <3> QED
      BY <2>8, <3>1 DEF Stalls
  <2> QED
    BY <2>9
<1>10. CASE In(high - 1) /\ ~(high # U /\ In(high))
  <2>1. PICK j \in 1..Len(r) : Holds(r[j], high - 1)
    BY <1>10
  <2>2. End(r[j]) = high - 1
    <3>1. r[j].value <= high - 1 /\ high - 1 <= End(r[j])
          /\ r[j].value \in Nat /\ End(r[j]) \in Nat /\ End(r[j]) < U
      BY <1>1, <1>3, <2>1
    <3>2. high <= End(r[j]) => Holds(r[j], high) /\ high # U
      BY <1>3, <3>1, UAssumption
    <3>3. ~(high <= End(r[j]))
      BY <1>10, <3>2
    <3> DEFINE e == End(r[j])
    <3>4. e \in Nat /\ high - 1 <= e /\ ~(high <= e)
      BY <3>1, <3>3
    <3> HIDE DEF e
    <3>5. e = high - 1
      BY <3>4
    <3> QED
      BY <3>5 DEF e
  <2>3. r[j].value < low \/ k < j
    BY <1>2
  <2> QED
    BY <1>5, <1>6, <1>7, <2>2, <2>3
<1>11. CASE high # U /\ In(high) /\ ~In(high - 1)
  <2>1. PICK j \in 1..Len(r) : Holds(r[j], high)
    BY <1>11
  <2>2. r[j].value = high
    <3>1. r[j].value <= high /\ high <= End(r[j]) /\ r[j].value \in Nat /\ End(r[j]) \in Nat
      BY <1>1, <1>3, <2>1
    <3>2. r[j].value < high => Holds(r[j], high - 1)
      BY <1>3, <3>1
    <3> QED
      BY <1>11, <3>1, <3>2
  <2>3. k < j
    BY <1>2, <2>2
  <2> QED
    BY <1>6, <2>2, <2>3
<1> HIDE DEF In
<1> QED
  BY <1>4, <1>8, <1>9, <1>10, <1>11

LEMMA NegationFitsIn ==
    ASSUME NEW r, Tidy(r), NEW low \in Nat, NEW high \in Nat, low < high, high <= U,
           NEW spare \in 0..1, ~NoRoom(r, Len(r) + spare, low, high)
    PROVE  /\ Len(NegatedInPlace(r, low, high).mem) <= Len(r) + spare
           /\ NegatedInPlace(r, low, high).runs = Negated(r, low, high)
<1> DEFINE k == Cardinality({i \in DOMAIN r : r[i].value < low})
           s == SubSeq(r, k + 1, Len(r))
           n == Len(r) - k
           run == Run(low, high - low - 1)
           base == AppendExclusive(SubSeq(r, 1, k), run)
           cap == Len(r) + spare
<1>1. r \in Seq(Run16) /\ Len(r) \in Nat /\ cap \in Nat /\ Len(r) <= cap
  BY RunsLegal
<1>2. k \in 0..Len(r) /\ \A i \in 1..Len(r) : i <= k <=> r[i].value < low
  <2>1. Spaced(r, 1) /\ low \in Int /\ 1 \in Nat
    BY DEF Tidy
  <2> QED
    BY <2>1, BeginsBefore
<1>3. n \in Nat /\ k + n = Len(r) /\ k \in Nat
  <2> HIDE DEF k
  <2> QED
    BY <1>1, <1>2
<1>4. Len(s) = n /\ DOMAIN s = 1..Len(s) /\ \A i \in 1..n : s[i] = r[k + i] /\ k + i \in 1..Len(r)
  <2> HIDE DEF k
  <2> QED
    BY <1>1, <1>2
<1>5. PICK t : Traced(TRUE, base, s, t) /\ t[Len(s)] = FoldLeft(AppendExclusive, base, s)
  <2> HIDE DEF base, s, n
  <2> QED
    BY <1>3, <1>4, FoldedXor
<1>6. Negated(r, low, high) = t[n]
  <2>1. Negated(r, low, high) = FoldLeft(AppendExclusive, base, s)
    <3>1. ~(high <= low)
      OBVIOUS
    <3> QED
      BY <3>1, Zenon DEF Negated
  <2> HIDE DEF base, s, n, k
  <2> QED
    BY <1>4, <1>5, <2>1
<1>7. t[0] = base /\ \A i \in 1..n : t[i] = AppendExclusive(t[i - 1], r[k + i])
  <2>1. t[0] = base /\ \A i \in 1..Len(s) : t[i] = AppendExclusive(t[i - 1], s[i])
    BY <1>5 DEF Traced, Joins
  <2> HIDE DEF base, s, n, k
  <2> QED
    BY <1>4, <2>1
<1>8. \A i \in 0..n : Tidy(t[i]) /\ RunValues(t[i]) = NegatedUpTo(r, k, i, low, high)
  <2>1. NegatedAlong(r, k, Len(s), low, high, t)
    <3>1. k = BegunBefore(r, low)
      BY DEF BegunBefore
    <3>2. s = NotBegun(r, low)
      BY DEF NotBegun, BegunBefore
    <3>3. base = NegationBase(r, low, high)
      BY DEF NegationBase, BegunBefore
    <3>4. Traced(TRUE, base, s, t)
      BY <1>5
    <3> HIDE DEF k, n, s, base, run, cap
    <3> QED
      BY <3>1, <3>2, <3>3, <3>4, NegationSteps
  <2> HIDE DEF s, n, k
  <2> QED
    BY <1>4, <2>1 DEF NegatedAlong
<1>9. run \in Run16 /\ SubSeq(r, 1, k) \in Seq(Run16) /\ Len(SubSeq(r, 1, k)) = k
  <2>1. run \in Run16
    BY RunIs
  <2>2. 1 \in Nat \ {0} /\ k \in Nat /\ k <= Len(r)
    BY <1>1, <1>2
  <2> HIDE DEF run, k
  <2> QED
    BY <1>1, <2>1, <2>2, PieceFields
<1> HIDE DEF k, n, s, base, run, cap
<1>10. \A i \in 0..n : t[i] \in Seq(Run16) /\ Len(t[i]) \in Nat
  BY <1>8, RunsLegal
<1>11. \A i \in 1..n : i - 1 \in 0..n /\ r[k + i] \in Run16
  BY <1>1, <1>3, <1>4
<1>12. Len(t[0]) <= k + 1 /\ \A i \in 1..n : Len(t[i]) <= Len(t[i - 1]) + 1
  BY <1>7, <1>9, <1>10, <1>11, JoinedLength DEF base
<1>13. PICK h \in Nat : /\ h = 0 => Len(t[0]) <= k
                        /\ h \in 1..n => Len(t[h]) <= Len(t[h - 1])
                        /\ spare = 0 => h <= n
  <2>1. CASE spare = 0
    <3>1. cap = Len(r)
      BY <1>1, <2>1 DEF cap
    <3>2. ~NoRoom(r, Len(r), low, high)
      BY <3>1 DEF cap
    <3>3. PICK h \in 0..n : Stalls(r, k, run, t, h)
      BY <1>2, <1>7, <1>8, <3>2, SomeStepStalls DEF n, run, base
    <3>4. h = 0 => Len(t[0]) <= k
      BY <1>7, <1>9, <3>3, JoinedLength DEF Stalls, base
    <3>5. ASSUME h \in 1..n PROVE Len(t[h]) <= Len(t[h - 1])
      <4>1. h # 0 /\ t[h - 1] \in Seq(Run16) /\ r[k + h] \in Run16
        BY <1>10, <1>11, <3>5
      <4>2. AddsNone(t[h - 1], r[k + h])
        BY <3>3, <4>1 DEF Stalls
      <4> QED
        BY <1>7, <3>5, <4>1, <4>2, JoinedLength
    <3> QED
      BY <1>3, <3>3, <3>4, <3>5
  <2>2. CASE spare # 0
    <3>1. n + 1 \in Nat /\ n + 1 # 0 /\ ~(n + 1 \in 1..n)
      BY <1>3
    <3> QED
      BY <2>2, <3>1
  <2> QED
    BY <2>1, <2>2
<1>14. \A i \in 0..n : Len(t[i]) <= IF h <= i THEN k + i ELSE k + i + 1
  <2> DEFINE l == [i \in 0..n |-> Len(t[i])]
  <2>1. \A i \in 0..n : l[i] = Len(t[i])
    OBVIOUS
  <2>2. 0 \in 0..n /\ \A i \in 1..n : i \in 0..n /\ i - 1 \in 0..n
    BY <1>3
  <2> HIDE DEF l
  <2>3. /\ \A i \in 0..n : l[i] \in Nat
        /\ l[0] <= k + 1 /\ \A i \in 1..n : l[i] <= l[i - 1] + 1
        /\ h = 0 => l[0] <= k
        /\ h \in 1..n => l[h] <= l[h - 1]
    BY <1>10, <1>12, <1>13, <2>1, <2>2
  <2>4. \A i \in 0..n : l[i] <= IF h <= i THEN k + i ELSE k + i + 1
    BY <1>3, <1>13, <2>3, LengthsGrow
  <2> QED
    BY <2>1, <2>4
<1>15. ASSUME NEW i \in 0..n PROVE Len(t[i]) <= cap
  <2> DEFINE a == Len(t[i])
             m == Len(r)
  <2>1. a \in Nat /\ a <= (IF h <= i THEN k + i ELSE k + i + 1) /\ i \in Nat /\ i <= n
    BY <1>3, <1>10, <1>14
  <2>2. m \in Nat /\ k + n = m /\ cap = m + spare /\ (spare = 0 \/ spare = 1)
    BY <1>1, <1>3 DEF cap
  <2> HIDE DEF a, m
  <2>3. a <= cap
    BY <1>3, <1>13, <2>1, <2>2
  <2> QED
    BY <2>3 DEF a
<1>16. LeavesIn(r, low, high, cap, t[n])
  <2>1. k = Cardinality({i \in DOMAIN r : r[i].value < low}) /\ n = Len(r) - k
    BY DEF k, n
  <2>2. t[0] = AppendExclusive(SubSeq(r, 1, k), Run(low, high - low - 1))
    BY <1>7 DEF base, run
  <2> QED
    BY <1>1, <1>2, <1>7, <1>15, <2>1, <2>2, NegatedInMemory
<1> QED
  BY <1>6, <1>16 DEF cap, LeavesIn

\* The negation in place writes over no run that it has still to read, gives the runs of
\* the plain one, and needs no more room than it checked for (mixed_negation.c:283-354).
THEOREM NegationFitsAlways == Spec => []NegationFits
<1>1. ASSUME WellFormed PROVE NegationFits
  <2> SUFFICES ASSUME c # Null, c.kind = "run",
                      NEW low \in Numbers, NEW high \in (low + 1)..U, NEW spare \in 0..1,
                      ~NoRoom(c.runs, Len(c.runs) + spare, low, high)
               PROVE  /\ Len(NegatedInPlace(c.runs, low, high).mem) <= Len(c.runs) + spare
                      /\ NegatedInPlace(c.runs, low, high).runs = Negated(c.runs, low, high)
    BY Zenon DEF NegationFits
  <2>1. SomeRuns(c)
    BY <1>1, KindsAre DEF WellFormed, AnArray, ABitset
  <2>2. Tidy(c.runs)
    BY <2>1, RunFacts
  <2>3. low \in Nat /\ high \in Nat /\ low < high /\ high <= U
    BY UAssumption DEF Numbers
  <2> QED
    BY <2>2, <2>3, NegationFitsIn
<1> QED
  BY <1>1, WellFormedAlways, PTL
===============================================================================
