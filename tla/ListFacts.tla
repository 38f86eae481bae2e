------------------------------ MODULE ListFacts ------------------------------
(***************************************************************************)
(* The least and the greatest element of a set of natural numbers: what a  *)
(* CHOOSE of the first or last update of a batch stands for, and the least *)
(* counterexample by which a fact is proved of every natural number.  With *)
(* it, what is said of every list: its sum, and that a finite set can be   *)
(* listed in any order.                                                    *)
(***************************************************************************)
EXTENDS Integers, Lists, FiniteSetTheorems, WellFoundedInduction, TLAPS

\* Every nonempty set of natural numbers has a least element.
LEMMA Least ==
    ASSUME NEW S, S \subseteq Nat, S # {}
    PROVE  \E m \in S : \A n \in S : m <= n
<1> DEFINE R == OpToRel(<, Nat)
<1>1. \A m, n \in Nat : n < m => <<n, m>> \in R
  BY DEF OpToRel
<1>2. IsWellFoundedOn(R, Nat)
  BY NatLessThanWellFounded, Zenon
<1> HIDE DEF R
<1>3. PICK m \in S : \A n \in S : ~ (<<n, m>> \in R)
  BY <1>2, WFMin, Zenon
<1>4. ASSUME NEW n \in S PROVE m <= n
  <2>1. m \in Nat /\ n \in Nat
    OBVIOUS
  <2>2. ~ (n < m)
    BY <1>1, <1>3, <2>1
  <2> QED BY <2>1, <2>2
<1> QED BY <1>4

\* A bounded one has a greatest element.
LEMMA Greatest ==
    ASSUME NEW B \in Nat, NEW S, S \subseteq 0..B, S # {}
    PROVE  \E m \in S : \A n \in S : n <= m
<1> DEFINE T == {B - n : n \in S}
<1>1. T \subseteq Nat /\ T # {}
  <2>1. \A n \in S : n \in 0..B
    OBVIOUS
  <2>2. \A n \in S : B - n \in Nat
    BY <2>1
  <2> QED BY <2>2
<1>2. PICK t \in T : \A n \in T : t <= n
  <2> HIDE DEF T
  <2> QED BY <1>1, Least
<1>3. PICK m \in S : t = B - m
  OBVIOUS
<1>4. \A n \in S : B - n \in T
  OBVIOUS
<1>5. \A n \in S : n <= m
  <2> TAKE n \in S
  <2>1. t <= B - n /\ t = B - m
    BY <1>2, <1>3, <1>4
  <2>2. n \in Int /\ m \in Int
    OBVIOUS
  <2> HIDE DEF T
  <2> QED BY <2>1, <2>2
<1> QED BY <1>5

-----------------------------------------------------------------------------
(* Sums of costs.                                                          *)

\* f holds the sums of the first costs, up to the n-th.
Sums(costs, n, f) ==
    /\ f \in [0 .. n -> Nat]
    /\ f = [k \in 0 .. n |-> IF k = 0 THEN 0 ELSE f[k - 1] + costs[k]]

\* There are such sums: the least n without them would have the sums up to
\* n - 1 and one more.
LEMMA SumsExist ==
    ASSUME NEW costs \in Seq(Nat), NEW n \in 0 .. Len(costs)
    PROVE  \E f : Sums(costs, n, f)
<1> DEFINE S == {k \in 0 .. Len(costs) : ~ \E f : Sums(costs, k, f)}
<1>1. SUFFICES ASSUME S # {} PROVE FALSE
  OBVIOUS
<1>2. PICK k \in S : \A j \in S : k <= j
  <2>1. S \subseteq Nat
    OBVIOUS
  <2> HIDE DEF S
  <2> QED BY <1>1, <2>1, Least
<1>3. k \in 0 .. Len(costs) /\ ~ \E f : Sums(costs, k, f)
  OBVIOUS
<1>4. CASE k = 0
  <2> DEFINE g == [j \in 0 .. 0 |-> 0]
  <2>1. Sums(costs, 0, g)
    BY DEF Sums
  <2> QED BY <1>3, <1>4, <2>1
<1>5. CASE k # 0
  <2>1. k - 1 \in 0 .. Len(costs) /\ k \in 1 .. Len(costs) /\ k \in Nat
    BY <1>3, <1>5
  <2>2. k - 1 \notin S
    <3> HIDE DEF S
    <3>1. k - 1 \in S => k <= k - 1
      BY <1>2
    <3> QED BY <2>1, <3>1
  <2>3. PICK f : Sums(costs, k - 1, f)
    BY <2>1, <2>2
  <2>4. costs[k] \in Nat
    BY <2>1
  <2> DEFINE g == [j \in 0 .. k |-> IF j = k THEN f[k - 1] + costs[k] ELSE f[j]]
  <2>5. /\ f \in [0 .. k - 1 -> Nat]
        /\ \A j \in 0 .. k - 1 : f[j] = IF j = 0 THEN 0 ELSE f[j - 1] + costs[j]
    BY <2>3 DEF Sums
  <2>6. g \in [0 .. k -> Nat]
    <3>1. f[k - 1] \in Nat /\ f[k - 1] + costs[k] \in Nat
      BY <2>1, <2>4, <2>5
    <3>2. \A j \in 0 .. k : j = k \/ j \in 0 .. k - 1
      BY <2>1
    <3> QED BY <2>5, <3>1, <3>2
  <2>7. \A j \in 0 .. k : g[j] = IF j = 0 THEN 0 ELSE g[j - 1] + costs[j]
    <3> TAKE j \in 0 .. k
    <3>1. CASE j = k
      BY <1>5, <2>1, <3>1
    <3>2. CASE j # k
      <4>1. j \in 0 .. k - 1 /\ (j # 0 => j - 1 \in 0 .. k /\ j - 1 # k)
        BY <2>1, <3>2
      <4> QED BY <2>5, <3>2, <4>1
    <3> QED BY <3>1, <3>2
  <2>8. Sums(costs, k, g)
    <3>1. g = [j \in 0 .. k |-> g[j]]
      OBVIOUS
    <3> HIDE DEF g
    <3> QED BY <2>6, <2>7, <3>1 DEF Sums
  <2> QED BY <1>3, <2>8
<1> QED BY <1>4, <1>5

\* Sums agree where they are compared: no least place has them differ.
LEMMA SumsOrdered ==
    ASSUME NEW a \in Seq(Nat), NEW b \in Seq(Nat), NEW n \in Nat,
           n <= Len(a), n <= Len(b), \A k \in 1 .. n : a[k] <= b[k],
           NEW f, Sums(a, n, f), NEW g, Sums(b, n, g)
    PROVE  f[n] <= g[n]
<1> DEFINE S == {k \in 0 .. n : ~ (f[k] <= g[k])}
<1>0. SUFFICES ASSUME ~ (f[n] <= g[n]) PROVE FALSE
  OBVIOUS
<1>1. S # {}
  <2>1. n \in S
    BY <1>0
  <2> QED BY <2>1
<1>2. PICK k \in S : \A j \in S : k <= j
  <2>1. S \subseteq Nat
    OBVIOUS
  <2> HIDE DEF S
  <2> QED BY <1>1, <2>1, Least
<1>3. k \in 0 .. n /\ ~ (f[k] <= g[k])
  OBVIOUS
<1>4. /\ f \in [0 .. n -> Nat] /\ g \in [0 .. n -> Nat]
      /\ f[k] = IF k = 0 THEN 0 ELSE f[k - 1] + a[k]
      /\ g[k] = IF k = 0 THEN 0 ELSE g[k - 1] + b[k]
  BY <1>3 DEF Sums
<1>5. k # 0
  BY <1>3, <1>4
<1>6. k - 1 \in 0 .. n /\ k - 1 < k /\ k \in 1 .. n
  BY <1>3, <1>5
<1>7. f[k - 1] <= g[k - 1]
  BY <1>2, <1>6
<1>8. a[k] \in Nat /\ b[k] \in Nat /\ a[k] <= b[k]
  BY SMTT(30), <1>6
<1>9. f[k - 1] \in Nat /\ g[k - 1] \in Nat
  BY <1>4, <1>6
<1>10. f[k] = f[k - 1] + a[k] /\ g[k] = g[k - 1] + b[k]
  BY <1>4, <1>5
<1> DEFINE u == f[k - 1]
           v == g[k - 1]
           x == a[k]
           y == b[k]
<1>11. u + x <= v + y
  <2>1. u \in Nat /\ v \in Nat /\ x \in Nat /\ y \in Nat /\ u <= v /\ x <= y
    BY <1>7, <1>8, <1>9
  <2> HIDE DEF u, v, x, y
  <2> QED BY <2>1
<1> QED BY <1>3, <1>10, <1>11

LEMMA SumIs ==
    ASSUME NEW costs \in Seq(Nat)
    PROVE  \E f : Sums(costs, Len(costs), f) /\ Sum(costs) = f[Len(costs)]
<1> DEFINE n == Len(costs)
           P(f) == f = [k \in 0 .. n |-> IF k = 0 THEN 0 ELSE f[k - 1] + costs[k]]
           upto == CHOOSE f : P(f)
<1>1. PICK f : Sums(costs, n, f)
  BY SumsExist
<1>2. P(f)
  BY <1>1 DEF Sums
<1>3. P(upto)
  BY <1>2
<1>4. Sum(costs) = upto[n]
  BY DEF Sum
<1> HIDE DEF upto
<1>5. upto \in [0 .. n -> Nat]
  <2> DEFINE S == {k \in 0 .. n : upto[k] \notin Nat}
  <2>1. ASSUME S # {} PROVE FALSE
    <3>1. PICK k \in S : \A j \in S : k <= j
      <4>1. S \subseteq Nat
        OBVIOUS
      <4> HIDE DEF S
      <4> QED BY <2>1, <4>1, Least
    <3>2. k \in 0 .. n /\ upto[k] \notin Nat
      OBVIOUS
    <3>3. upto[k] = IF k = 0 THEN 0 ELSE upto[k - 1] + costs[k]
      BY <1>3, <3>2
    <3>4. k # 0
      BY <3>2, <3>3
    <3>5. k - 1 \in 0 .. n /\ k - 1 < k /\ k \in 1 .. n
      BY <3>2, <3>4
    <3>6. upto[k - 1] \in Nat /\ costs[k] \in Nat
      BY <3>1, <3>5
    <3> QED BY <3>2, <3>3, <3>4, <3>6
  <2>2. \A k \in 0 .. n : upto[k] \in Nat
    BY <2>1
  <2>3. upto = [k \in 0 .. n |-> upto[k]]
    <3>1. \A k \in 0 .. n : upto[k] = IF k = 0 THEN 0 ELSE upto[k - 1] + costs[k]
      BY <1>3
    <3>2. DOMAIN upto = 0 .. n
      BY <1>3
    <3> QED BY <1>3, <3>1, <3>2
  <2> QED BY <2>2, <2>3
<1>6. Sums(costs, n, upto)
  BY <1>3, <1>5 DEF Sums
<1> QED BY <1>4, <1>6

LEMMA SumType == ASSUME NEW costs \in Seq(Nat) PROVE Sum(costs) \in Nat
BY SumIs DEF Sums

LEMMA SumEmpty == Sum(<<>>) = 0
<1>1. <<>> \in Seq(Nat) /\ Len(<<>>) = 0
  OBVIOUS
<1>2. PICK f : Sums(<<>>, 0, f) /\ Sum(<<>>) = f[0]
  BY <1>1, SumIs
<1>3. f[0] = 0
  BY <1>2 DEF Sums
<1> QED BY <1>2, <1>3

LEMMA SumOrdered ==
    ASSUME NEW a \in Seq(Nat), NEW b \in Seq(Nat), Len(a) = Len(b),
           \A k \in 1 .. Len(a) : a[k] <= b[k]
    PROVE  Sum(a) <= Sum(b)
<1>1. PICK f : Sums(a, Len(a), f) /\ Sum(a) = f[Len(a)]
  BY SumIs
<1>2. PICK g : Sums(b, Len(b), g) /\ Sum(b) = g[Len(b)]
  BY SumIs
<1>3. Len(a) \in Nat
  OBVIOUS
<1>4. Sums(b, Len(a), g) /\ Sum(b) = g[Len(a)]
  BY <1>2
<1> DEFINE n == Len(a)
<1>5. n \in Nat /\ n <= Len(a) /\ n <= Len(b) /\ \A k \in 1 .. n : a[k] <= b[k]
  BY <1>3
<1>6. Sums(a, n, f) /\ Sums(b, n, g)
  BY <1>1, <1>4
<1> HIDE DEF n
<1>7. f[n] <= g[n]
  BY <1>5, <1>6, SumsOrdered
<1> QED BY <1>1, <1>4, <1>7 DEF n

LEMMA SumAppend ==
    ASSUME NEW costs \in Seq(Nat), NEW more \in Seq(Nat), Len(more) = Len(costs) + 1,
           \A k \in 1 .. Len(costs) : more[k] = costs[k]
    PROVE  Sum(more) = Sum(costs) + more[Len(more)]
<1> DEFINE n == Len(costs)
<1>0. n \in Nat /\ \A k \in 1 .. n : costs[k] \in Nat
  OBVIOUS
<1>1. PICK f : Sums(costs, n, f) /\ Sum(costs) = f[n]
  BY SumIs
<1>2. PICK g : Sums(more, n + 1, g) /\ Sum(more) = g[n + 1]
  BY SumIs
<1> DEFINE h == [k \in 0 .. n |-> g[k]]
<1>3. /\ g \in [0 .. n + 1 -> Nat]
      /\ \A k \in 0 .. n + 1 : g[k] = IF k = 0 THEN 0 ELSE g[k - 1] + more[k]
  BY <1>2 DEF Sums
<1>4. Sums(costs, n, h)
  <2>1. h \in [0 .. n -> Nat] /\ h = [k \in 0 .. n |-> h[k]]
    BY <1>0, <1>3
  <2>2. \A k \in 0 .. n : h[k] = IF k = 0 THEN 0 ELSE h[k - 1] + costs[k]
    <3> TAKE k \in 0 .. n
    <3>1. CASE k = 0
      BY <1>0, <1>3, <3>1
    <3>2. CASE k # 0
      <4>1. k \in 1 .. n /\ k \in 0 .. n + 1 /\ k - 1 \in 0 .. n
        BY <1>0, <3>2
      <4>2. h[k] = g[k] /\ h[k - 1] = g[k - 1] /\ more[k] = costs[k]
        BY <4>1
      <4> QED BY <1>3, <3>2, <4>1, <4>2
    <3> QED BY <3>1, <3>2
  <2> HIDE DEF h
  <2> QED BY <2>1, <2>2 DEF Sums
<1>5. h[n] = g[n] /\ g[n + 1] = g[n] + more[n + 1] /\ g[n] \in Nat /\ f[n] \in Nat
  <2> HIDE DEF n
  <2>1. n \in 0 .. n /\ n \in 0 .. n + 1 /\ n + 1 \in 0 .. n + 1 /\ n + 1 # 0 /\ (n + 1) - 1 = n
    BY <1>0
  <2>2. f \in [0 .. n -> Nat]
    BY <1>1 DEF Sums
  <2>3. g[n + 1] = g[n] + more[n + 1]
    BY <1>3, <2>1
  <2> QED BY <1>3, <2>1, <2>2, <2>3
<1> HIDE DEF h, n
<1>6. f[n] <= h[n] /\ h[n] <= f[n]
  BY <1>0, <1>1, <1>4, SumsOrdered DEF n
<1> QED BY <1>1, <1>2, <1>5, <1>6 DEF n

LEMMA SumZero ==
    ASSUME NEW costs \in Seq(Nat), \A k \in 1 .. Len(costs) : costs[k] = 0
    PROVE  Sum(costs) = 0
<1>1. PICK f : Sums(costs, Len(costs), f) /\ Sum(costs) = f[Len(costs)]
  BY SumIs
<1> DEFINE n == Len(costs)
           S == {k \in 0 .. n : f[k] # 0}
<1>2. /\ n \in Nat
      /\ \A k \in 0 .. n : f[k] = IF k = 0 THEN 0 ELSE f[k - 1] + costs[k]
  <2>1. n \in Nat
    OBVIOUS
  <2>2. f = [k \in 0 .. n |-> IF k = 0 THEN 0 ELSE f[k - 1] + costs[k]]
    BY <1>1 DEF Sums
  <2> QED BY <2>1, <2>2
<1>3. ASSUME S # {} PROVE FALSE
  <2>1. PICK k \in S : \A j \in S : k <= j
    <3>1. S \subseteq Nat
      OBVIOUS
    <3> HIDE DEF S
    <3> QED BY <1>3, <3>1, Least
  <2>2. k \in 0 .. n /\ f[k] # 0
    OBVIOUS
  <2>3. k # 0 /\ f[k] = f[k - 1] + costs[k]
    BY <1>2, <2>2
  <2>4. k - 1 \in 0 .. n /\ k - 1 < k /\ k \in 1 .. n
    BY <1>2, <2>2, <2>3
  <2>5. f[k - 1] = 0 /\ costs[k] = 0
    BY <2>1, <2>4
  <2> QED BY <2>2, <2>3, <2>5
<1>4. f[n] = 0
  BY <1>2, <1>3
<1> QED BY <1>1, <1>4

\* Sums of lists that differ in one place differ by what is there.
LEMMA SumsDiffer ==
    ASSUME NEW a \in Seq(Nat), NEW b \in Seq(Nat), Len(a) = Len(b), NEW p \in 1 .. Len(a),
           \A k \in 1 .. Len(a) : k # p => b[k] = a[k]
    PROVE  Sum(b) + a[p] = Sum(a) + b[p]
<1> DEFINE n == Len(a)
<1>1. n \in Nat /\ p \in 1 .. n /\ a[p] \in Nat /\ b[p] \in Nat
  OBVIOUS
<1>2. PICK f : Sums(a, n, f) /\ Sum(a) = f[n]
  BY SumIs
<1>3. PICK g : Sums(b, n, g) /\ Sum(b) = g[n]
  <2>1. PICK g : Sums(b, Len(b), g) /\ Sum(b) = g[Len(b)]
    BY SumIs
  <2> QED BY <2>1
<1>4. /\ f \in [0 .. n -> Nat] /\ g \in [0 .. n -> Nat]
      /\ \A k \in 0 .. n : f[k] = IF k = 0 THEN 0 ELSE f[k - 1] + a[k]
      /\ \A k \in 0 .. n : g[k] = IF k = 0 THEN 0 ELSE g[k - 1] + b[k]
  BY <1>2, <1>3 DEF Sums
<1> DEFINE Fine(k) == IF k < p THEN g[k] = f[k] ELSE g[k] + a[p] = f[k] + b[p]
           S == {k \in 0 .. n : ~ Fine(k)}
<1>5. ASSUME S # {} PROVE FALSE
  <2>1. PICK k \in S : \A j \in S : k <= j
    <3>1. S \subseteq Nat
      OBVIOUS
    <3> HIDE DEF S
    <3> QED BY <1>5, <3>1, Least
  <2>2. k \in 0 .. n /\ ~ Fine(k)
    OBVIOUS
  <2>3. k # 0
    <3>1. f[0] = 0 /\ g[0] = 0 /\ 0 < p
      BY <1>1, <1>4
    <3> QED BY <2>2, <3>1
  <2>4. k - 1 \in 0 .. n /\ k - 1 < k /\ k \in 1 .. n
    BY <1>1, <2>2, <2>3
  <2>5. Fine(k - 1)
    <3>1. k - 1 \notin S
      <4> HIDE DEF S
      <4> QED BY <2>1, <2>4
    <3> QED BY <2>4, <3>1
  <2>6. /\ f[k] = f[k - 1] + a[k] /\ g[k] = g[k - 1] + b[k]
        /\ f[k - 1] \in Nat /\ g[k - 1] \in Nat /\ a[k] \in Nat /\ b[k] \in Nat
        /\ (k # p => b[k] = a[k])
    <3>1. f[k] = f[k - 1] + a[k] /\ g[k] = g[k - 1] + b[k]
      BY <1>4, <2>2, <2>3
    <3>2. f[k - 1] \in Nat /\ g[k - 1] \in Nat
      BY <1>4, <2>4
    <3>3. a[k] \in Nat /\ b[k] \in Nat /\ (k # p => b[k] = a[k])
      BY SMTT(30), <2>4
    <3> QED BY <3>1, <3>2, <3>3
  <2> DEFINE u == f[k - 1]
             v == g[k - 1]
             x == a[k]
             y == b[k]
  <2>7. /\ u \in Nat /\ v \in Nat /\ x \in Nat /\ y \in Nat /\ a[p] \in Nat /\ b[p] \in Nat
        /\ f[k] = u + x /\ g[k] = v + y /\ k \in Nat /\ p \in Nat
        /\ (k # p => y = x) /\ (k = p => x = a[p] /\ y = b[p])
        /\ IF k - 1 < p THEN v = u ELSE v + a[p] = u + b[p]
    BY <1>1, <2>4, <2>5, <2>6
  <2> HIDE DEF u, v, x, y
  <2>8. CASE k < p
    BY <2>2, <2>7, <2>8
  <2>9. CASE k = p
    BY <2>2, <2>7, <2>9
  <2>10. CASE k > p
    <3>1. ~ (k - 1 < p) /\ ~ (k < p) /\ k # p
      BY <2>7, <2>10
    <3>2. v + a[p] = u + b[p] /\ y = x
      BY <2>7, <3>1
    <3>3. (v + y) + a[p] = (u + x) + b[p]
      <4> DEFINE c == a[p]
                 d == b[p]
      <4>1. u \in Nat /\ v \in Nat /\ x \in Nat /\ c \in Nat /\ d \in Nat
        BY <2>7
      <4>2. v + c = u + d /\ y = x
        BY <3>2
      <4> HIDE DEF c, d
      <4>3. (v + y) + c = (u + x) + d
        BY <4>1, <4>2
      <4> QED BY <4>3 DEF c, d
    <3> QED BY <2>2, <2>7, <3>1, <3>3
  <2> QED BY <2>7, <2>8, <2>9, <2>10
<1>6. Fine(n)
  <2>1. n \notin S
    <3> HIDE DEF S
    <3> QED BY <1>5
  <2> QED BY <1>1, <2>1
<1>7. ~ (n < p)
  BY <1>1
<1> QED BY <1>2, <1>3, <1>6, <1>7

-----------------------------------------------------------------------------
(* Lists of the elements of a set.                                         *)

\* A finite set is listed without repetition, in the order it is given.
LEMMA ListedIs ==
    ASSUME NEW S, IsFiniteSet(S), NEW R, \A a \in S : <<a, a>> \notin R,
           \A a, b \in S : a = b \/ <<a, b>> \in R \/ <<b, a>> \in R,
           \A a, b, c \in S : <<a, b>> \in R /\ <<b, c>> \in R => <<a, c>> \in R
    PROVE  /\ Cardinality(S) \in Nat /\ Listed(S, R) \in [1 .. Cardinality(S) -> S]
           /\ \A m, n \in 1 .. Cardinality(S) : m < n => <<Listed(S, R)[m], Listed(S, R)[n]>> \in R
<1> DEFINE N == Cardinality(S)
           Below(i) == {j \in S : <<j, i>> \in R}
           place == [i \in S |-> Cardinality(Below(i)) + 1]
<1>1. N \in Nat
  BY FS_CardinalityType
<1>2. ASSUME NEW i \in S
      PROVE  /\ IsFiniteSet(Below(i)) /\ Cardinality(Below(i)) \in Nat
             /\ place[i] \in 1 .. N /\ place[i] = Cardinality(Below(i)) + 1
  <2>1. Below(i) \in SUBSET (S \ {i})
    OBVIOUS
  <2>2. IsFiniteSet(S \ {i}) /\ Cardinality(S \ {i}) = N - 1
    BY FS_RemoveElement
  <2>3. IsFiniteSet(Below(i)) /\ Cardinality(Below(i)) <= N - 1
    <3> HIDE DEF Below
    <3> QED BY <2>1, <2>2, FS_Subset
  <2>4. Cardinality(Below(i)) \in Nat
    BY <2>3, FS_CardinalityType
  <2>5. place[i] = Cardinality(Below(i)) + 1
    OBVIOUS
  <2> HIDE DEF Below, place, N
  <2> QED BY <1>1, <2>3, <2>4, <2>5
<1>3. ASSUME NEW a \in S, NEW b \in S, <<a, b>> \in R PROVE place[a] < place[b]
  <2>1. Below(a) \in SUBSET (Below(b) \ {a}) /\ a \in Below(b)
    BY <1>3
  <2>2. IsFiniteSet(Below(b)) /\ IsFiniteSet(Below(b) \ {a})
        /\ Cardinality(Below(b) \ {a}) = Cardinality(Below(b)) - 1
    BY <1>2, <2>1, FS_RemoveElement
  <2>3. Cardinality(Below(a)) <= Cardinality(Below(b)) - 1
    <3> HIDE DEF Below
    <3> QED BY <2>1, <2>2, FS_Subset
  <2>4. /\ Cardinality(Below(a)) \in Nat /\ Cardinality(Below(b)) \in Nat
        /\ place[a] = Cardinality(Below(a)) + 1 /\ place[b] = Cardinality(Below(b)) + 1
    BY <1>2
  <2> HIDE DEF Below, place
  <2> QED BY <2>3, <2>4
<1>4. \A a, b \in S : place[a] = place[b] => a = b
  <2>1. ASSUME NEW a \in S, NEW b \in S, place[a] = place[b], a # b PROVE FALSE
    <3>1. place[a] < place[b] \/ place[b] < place[a]
      <4> HIDE DEF place
      <4> QED BY <1>3, <2>1
    <3>2. place[a] \in Nat /\ place[b] \in Nat
      <4> HIDE DEF place
      <4>1. place[a] \in 1 .. N /\ place[b] \in 1 .. N
        BY <1>2
      <4> QED BY <4>1
    <3> HIDE DEF place
    <3> QED BY <2>1, <3>1, <3>2
  <2> QED BY <2>1
<1>5. ASSUME NEW n \in 1 .. N PROVE \E i \in S : place[i] = n
  <2>1. IsFiniteSet(1 .. N) /\ Cardinality(1 .. N) = N
    BY <1>1, FS_Interval
  <2>2. place \in [S -> 1 .. N]
    BY <1>2
  <2> HIDE DEF place
  <2>3. place \in Injection(S, 1 .. N)
    BY <1>4, <2>2 DEF Injection, IsInjective
  <2>4. place \in Surjection(S, 1 .. N)
    BY <2>1, <2>3, FS_Injection
  <2> QED BY <2>4 DEF Surjection
<1> DEFINE Item(n) == CHOOSE i \in S : Cardinality(Below(i)) + 1 = n
           list == [n \in 1 .. N |-> Item(n)]
<1>6. Listed(S, R) = list
  BY Zenon DEF Listed
<1>7. ASSUME NEW n \in 1 .. N PROVE list[n] \in S /\ place[list[n]] = n
  <2>1. PICK i \in S : Cardinality(Below(i)) + 1 = n
    BY <1>5
  <2>2. list[n] \in S /\ Cardinality(Below(list[n])) + 1 = n
    <3> DEFINE Here(x) == Cardinality(Below(x)) + 1 = n
               here == CHOOSE x \in S : Here(x)
    <3>1. list[n] = here
      BY Zenon
    <3>2. Here(i)
      BY <2>1
    <3> HIDE DEF Here
    <3>3. here \in S /\ Here(here)
      BY <3>2
    <3> QED BY Zenon, <3>1, <3>3 DEF Here
  <2> QED BY <2>2
<1>8. list \in [1 .. N -> S]
  <2> HIDE DEF Item
  <2> QED BY <1>7
<1> HIDE DEF list, place
<1>9. ASSUME NEW m \in 1 .. N, NEW n \in 1 .. N, m < n PROVE <<list[m], list[n]>> \in R
  <2>1. list[m] \in S /\ list[n] \in S /\ place[list[m]] < place[list[n]]
    BY <1>7, <1>9
  <2>2. list[m] # list[n]
    BY <1>7, <1>9
  <2>3. <<list[n], list[m]>> \notin R
    <3>1. <<list[n], list[m]>> \in R => place[list[n]] < place[list[m]]
      BY <1>3, <2>1
    <3> QED BY <1>7, <1>9, <3>1
  <2> QED BY <2>1, <2>2, <2>3
<1> QED BY <1>1, <1>6, <1>8, <1>9

==============================================================================
