------------------------- MODULE NotificationsProofs -------------------------
(***************************************************************************)
(* Theorems about Notifications, for any ids, limits and bounds.           *)
(***************************************************************************)
EXTENDS Notifications, FiniteSetTheorems, WellFoundedInduction, TLAPS

-----------------------------------------------------------------------------
(* Numbers, sorted sequences, folds                                        *)

LEMMA NatOrder ==
    \E R : IsWellFoundedOn(R, Nat) /\ \A x, y \in Nat : x < y => <<x, y>> \in R
<1>1. \A x, y \in Nat : x < y => <<x, y>> \in OpToRel(<, Nat)
  BY Zenon DEF OpToRel
<1> QED
  BY <1>1, NatLessThanWellFounded, Zenon

LEMMA NatMinimum ==
    ASSUME NEW S \in SUBSET Nat, S # {}
    PROVE  \E x \in S : \A y \in S : x <= y
<1>1. PICK R : IsWellFoundedOn(R, Nat) /\ \A x, y \in Nat : x < y => <<x, y>> \in R
  BY NatOrder
<1>2. PICK x \in S : \A y \in S : <<y, x>> \notin R
  <2>1. IsWellFoundedOn(R, Nat)
    BY <1>1
  <2> QED
    BY <2>1, WFMin
<1>3. \A y \in S : ~(y < x)
  BY <1>1, <1>2
<1> QED
  BY <1>3

\* A bounded set of numbers has a greatest one.
LEMMA NatMaximum ==
    ASSUME NEW S \in SUBSET Nat, S # {}, NEW b \in Nat, \A x \in S : x <= b
    PROVE  Max(S) \in S /\ \A y \in S : y <= Max(S)
<1> DEFINE B == {m \in Nat : \A x \in S : x <= m}
<1>1. B \in SUBSET Nat /\ B # {}
  OBVIOUS
<1>2. PICK d \in B : \A y \in B : d <= y
  <2> HIDE DEF B
  <2> QED
    BY <1>1, NatMinimum
<1>3. d \in S
  <2>1. SUFFICES ASSUME d \notin S PROVE FALSE
    OBVIOUS
  <2>2. \A x \in S : x \in Nat /\ x < d
    BY <2>1
  <2>3. d \in Nat /\ d # 0
    <3>1. PICK x \in S : TRUE
      OBVIOUS
    <3>2. x \in Nat /\ x < d /\ d \in Nat
      BY <2>2
    <3> QED
      BY <3>2
  <2>4. d - 1 \in Nat /\ \A x \in S : x <= d - 1
    BY <2>2, <2>3
  <2>5. d - 1 \in B
    BY <2>4
  <2> QED
    BY <1>2, <2>3, <2>5
<1> QED
  BY <1>2, <1>3 DEF Max

\* f enumerates S in order.
Enumerates(f, S) ==
    /\ f \in [1..Cardinality(S) -> S]
    /\ \A i, j \in 1..Cardinality(S) : i < j => f[i] < f[j]
    /\ \A x \in S : \E i \in 1..Cardinality(S) : f[i] = x

LEMMA EnumerationExists ==
    ASSUME NEW b \in Nat, NEW S \in SUBSET (1..b)
    PROVE  IsFiniteSet(S) /\ \E f : Enumerates(f, S)
<1> DEFINE Bad(n) == \E T \in SUBSET (1..n) : \A f : ~Enumerates(f, T)
           B == {n \in Nat : Bad(n)}
<1>0. \A n \in Nat : \A T \in SUBSET (1..n) : IsFiniteSet(T)
  <2>1. ASSUME NEW n \in Nat PROVE IsFiniteSet(1..n)
    BY FS_Interval, 1 \in Int, n \in Int
  <2> QED
    BY <2>1, FS_Subset
<1>1. SUFFICES ASSUME B # {} PROVE FALSE
  BY <1>0
<1>2. PICK n \in B : \A m \in B : n <= m
  <2>1. B \in SUBSET Nat
    OBVIOUS
  <2> HIDE DEF B
  <2> QED
    BY <1>1, <2>1, NatMinimum
<1>3. PICK T \in SUBSET (1..n) : \A f : ~Enumerates(f, T)
  OBVIOUS
<1>4. n \in Nat /\ IsFiniteSet(T) /\ \A m \in Nat : m < n => m \notin B
  <2>1. n \in Nat /\ IsFiniteSet(T)
    BY <1>0
  <2> HIDE DEF B
  <2> QED
    BY <1>2, <2>1
<1>5. CASE T = {}
  <2>1. Cardinality(T) = 0
    BY <1>5, FS_EmptySet
  <2>2. Enumerates(<<>>, T)
    BY <1>5, <2>1 DEF Enumerates
  <2> QED
    BY <1>3, <2>2
<1>6. CASE T # {}
  <2>1. n > 0 /\ n - 1 \in Nat /\ n - 1 \notin B
    <3>1. PICK x \in T : TRUE
      BY <1>6
    <3>2. x \in 1..n /\ n \in Nat
      BY <1>4
    <3>3. n > 0 /\ n - 1 \in Nat /\ n - 1 < n
      BY <3>2
    <3> HIDE DEF B
    <3> QED
      BY <1>4, <3>3
  <2>2. \A R \in SUBSET (1..(n - 1)) : \E f : Enumerates(f, R)
    BY <2>1
  <2>3. n \in T
    <3>1. T \notin SUBSET (1..(n - 1))
      BY <1>3, <2>2
    <3> QED
      BY <1>4, <2>1, <3>1
  <2> DEFINE R == T \ {n}
             c == Cardinality(R)
  <2>4. R \in SUBSET (1..(n - 1)) /\ IsFiniteSet(R) /\ c \in Nat /\ Cardinality(T) = c + 1
    <3>1. R \in SUBSET (1..(n - 1))
      BY <1>4, <2>1
    <3>2. IsFiniteSet(R) /\ c = Cardinality(T) - 1
      BY <1>4, <2>3, FS_RemoveElement
    <3> QED
      BY <1>4, <3>1, <3>2, FS_CardinalityType
  <2>5. PICK f : Enumerates(f, R)
    BY <2>2, <2>4
  <2> DEFINE h == [i \in 1..(c + 1) |-> IF i = c + 1 THEN n ELSE f[i]]
  <2>6. /\ f \in [1..c -> R]
        /\ \A i, j \in 1..c : i < j => f[i] < f[j]
        /\ \A x \in R : \E i \in 1..c : f[i] = x
    BY <2>5 DEF Enumerates
  <2>7. \A x \in R : x \in T /\ x \in Nat /\ x < n
    BY <2>4
  <2> HIDE DEF R, c
  <2>8. \A i \in 1..c : i \in 1..(c + 1) /\ h[i] = f[i] /\ f[i] \in R
    BY <2>4, <2>6
  <2>9. c + 1 \in 1..(c + 1) /\ h[c + 1] = n
    BY <2>4
  <2>10. \A i \in 1..(c + 1) : i = c + 1 \/ i \in 1..c
    BY <2>4
  <2>11. h \in [1..(c + 1) -> T]
    BY <2>3, <2>6, <2>7, <2>10
  <2> HIDE DEF h
  <2>12. ASSUME NEW i \in 1..(c + 1), NEW j \in 1..(c + 1), i < j PROVE h[i] < h[j]
    <3>1. i \in 1..c
      BY <2>4, <2>12
    <3>2. CASE j = c + 1
      BY <2>7, <2>8, <2>9, <3>1, <3>2
    <3>3. CASE j # c + 1
      BY <2>6, <2>8, <2>10, <2>12, <3>1, <3>3
    <3> QED
      BY <3>2, <3>3
  <2>13. ASSUME NEW y \in T PROVE \E i \in 1..(c + 1) : h[i] = y
    <3>1. CASE y = n
      BY <2>9, <3>1
    <3>2. CASE y # n
      <4>1. PICK i \in 1..c : f[i] = y
        BY <2>6, <3>2 DEF R
      <4> QED
        BY <2>8, <4>1
    <3> QED
      BY <3>1, <3>2
  <2>14. Enumerates(h, T)
    BY <2>4, <2>11, <2>12, <2>13 DEF Enumerates
  <2> QED
    BY <1>3, <2>14
<1> QED
  BY <1>5, <1>6

\* What Ordered makes of a set of numbers.
LEMMA OrderedFacts ==
    ASSUME NEW b \in Nat, NEW S \in SUBSET (1..b)
    PROVE  /\ Enumerates(Ordered(S), S) /\ Ordered(S) \in Seq(S)
           /\ Len(Ordered(S)) = Cardinality(S) /\ Cardinality(S) \in Nat
           /\ DOMAIN Ordered(S) = 1..Cardinality(S)
<1> DEFINE n == Cardinality(S)
           Below(x) == {y \in S : y <= x}
<1>1. IsFiniteSet(S) /\ n \in Nat
  BY EnumerationExists, FS_CardinalityType
<1>2. PICK f : Enumerates(f, S)
  BY EnumerationExists
<1>3. /\ f \in [1..n -> S]
      /\ \A i, j \in 1..n : i < j => f[i] < f[j]
      /\ \A x \in S : \E i \in 1..n : f[i] = x
      /\ \A x \in S : x \in Nat
  BY <1>2 DEF Enumerates
<1> HIDE DEF n
<1>4. ASSUME NEW k \in 1..n PROVE Cardinality(Below(f[k])) = k
  <2>1. \A i \in 1..n : f[i] \in Nat /\ (f[i] <= f[k] <=> i <= k)
    <3>0. SUFFICES ASSUME NEW i \in 1..n PROVE f[i] \in Nat /\ (f[i] <= f[k] <=> i <= k)
      OBVIOUS
    <3>1. f[i] \in S /\ f[k] \in S
      BY <1>3
    <3>2. f[i] \in Nat /\ f[k] \in Nat /\ i \in Nat /\ k \in Nat
      <4>1. f[i] \in Nat /\ f[k] \in Nat
        BY <1>3, <3>1
      <4> QED
        BY <1>1, <4>1
    <3>3. CASE i < k
      BY <1>3, <3>2, <3>3
    <3>4. CASE k < i
      BY <1>3, <3>2, <3>4
    <3>5. CASE k = i
      BY <3>2, <3>5
    <3> QED
      BY <3>2, <3>3, <3>4, <3>5
  <2> DEFINE g == [i \in 1..k |-> f[i]]
  <2>2. k \in Nat /\ \A i \in 1..k : i \in 1..n /\ i <= k
    BY <1>1
  <2>3. g \in [1..k -> Below(f[k])]
    BY <1>3, <2>1, <2>2
  <2>4. \A i, j \in 1..k : g[i] = g[j] => i = j
    <3>1. SUFFICES ASSUME NEW i \in 1..k, NEW j \in 1..k, i < j PROVE f[i] # f[j]
      BY <2>2
    <3> QED
      BY <1>3, <2>1, <2>2, <3>1
  <2>5. \A x \in Below(f[k]) : \E i \in 1..k : g[i] = x
    <3>1. SUFFICES ASSUME NEW x \in S, x <= f[k] PROVE \E i \in 1..k : f[i] = x
      OBVIOUS
    <3>2. PICK i \in 1..n : f[i] = x
      BY <1>3
    <3>3. i <= k /\ 1 <= i /\ i \in Nat
      BY <1>1, <2>1, <3>1, <3>2
    <3> QED
      BY <2>2, <3>2, <3>3
  <2> HIDE DEF g
  <2>6. g \in Bijection(1..k, Below(f[k]))
    BY <2>3, <2>4, <2>5 DEF Bijection, Injection, Surjection, IsInjective
  <2> QED
    BY <2>2, <2>6, FS_CountingElements DEF ExistsBijection
<1>5. ASSUME NEW k \in 1..n PROVE (CHOOSE x \in S : Cardinality(Below(x)) = k) = f[k]
  <2>1. f[k] \in S /\ Cardinality(Below(f[k])) = k
    BY <1>3, <1>4
  <2>2. ASSUME NEW x \in S, Cardinality(Below(x)) = k PROVE x = f[k]
    <3>1. PICK i \in 1..n : f[i] = x
      BY <1>3
    <3>2. i = k
      BY <1>4, <2>2, <3>1
    <3> QED
      BY <3>1, <3>2
  <2> HIDE DEF Below
  <2> QED
    BY <2>1, <2>2
<1>6. Ordered(S) = f
  <2>1. Ordered(S) = [k \in 1..n |-> CHOOSE x \in S : Cardinality(Below(x)) = k]
    BY DEF Ordered, n
  <2> HIDE DEF Below
  <2> QED
    BY <1>3, <1>5, <2>1
<1>7. f \in Seq(S) /\ Len(f) = n /\ DOMAIN f = 1..n
  BY <1>1, <1>3
<1> QED
  BY <1>1, <1>2, <1>6, <1>7 DEF n

\* What a snapshot makes of the store, one item after the other.
IsFold(f, t, its) ==
    f = [s \in SUBSET DOMAIN its |-> IF s = {} THEN t ELSE Receive(f[s \ {Max(s)}], its[Max(s)])]
Fold(t, its) == CHOOSE f : IsFold(f, t, its)

LEMMA FoldIs ==
    ASSUME NEW t, NEW its
    PROVE  FoldLeft(Receive, t, its) = Fold(t, its)[DOMAIN its]
BY DEF FoldLeft, MapThenFoldSet, Fold, IsFold

LEMMA FoldExists ==
    ASSUME NEW t, NEW S, NEW its \in Seq(S)
    PROVE  IsFold(Fold(t, its), t, its)
<1> DEFINE n == Len(its)
           Part(b) == {s \in SUBSET (1..n) : s \subseteq 1..b}
           Folds(f, b) == f = [s \in Part(b) |->
                IF s = {} THEN t ELSE Receive(f[s \ {Max(s)}], its[Max(s)])]
           B == {b \in Nat : ~\E f : Folds(f, b)}
<1>1. n \in Nat /\ DOMAIN its = 1..n
  OBVIOUS
<1>2. B = {}
  <2>1. SUFFICES ASSUME B # {} PROVE FALSE
    OBVIOUS
  <2>2. PICK b \in B : \A m \in B : b <= m
    <3>1. B \in SUBSET Nat
      OBVIOUS
    <3> HIDE DEF B
    <3> QED
      BY <2>1, <3>1, NatMinimum
  <2>3. b \in Nat /\ \A f : ~Folds(f, b)
    OBVIOUS
  <2>4. CASE b = 0
    <3> DEFINE f == [s \in Part(0) |-> t]
    <3>1. \A s \in Part(0) : s = {}
      OBVIOUS
    <3>2. Folds(f, 0)
      BY <3>1
    <3> QED
      BY <2>3, <2>4, <3>2
  <2>5. CASE b # 0
    <3>1. b - 1 \in Nat /\ b - 1 \notin B
      <4> HIDE DEF B
      <4> QED
        BY <2>2, <2>3, <2>5
    <3>2. PICK g : Folds(g, b - 1)
      BY <3>1
    <3> DEFINE f == [s \in Part(b) |-> IF s = {} THEN t
                        ELSE IF s \in Part(b - 1) THEN g[s]
                        ELSE Receive(g[s \ {Max(s)}], its[Max(s)])]
    <3>3. ASSUME NEW s \in Part(b), s # {}
          PROVE  /\ Max(s) \in s /\ s \ {Max(s)} \in Part(b - 1)
      <4>1. s \in SUBSET Nat /\ \A x \in s : x <= b
        BY <2>3
      <4>2. Max(s) \in s /\ \A y \in s : y <= Max(s)
        BY <2>3, <3>3, <4>1, NatMaximum
      <4>3. ASSUME NEW y \in s \ {Max(s)} PROVE y \in 1..(b - 1)
        <5>1. y \in 1..b /\ Max(s) \in 1..b /\ y <= Max(s) /\ y # Max(s)
          BY <4>2
        <5> QED
          BY <2>3, <5>1
      <4> QED
        BY <4>2, <4>3
    <3>4. \A s \in Part(b - 1) : s \in Part(b)
      BY <2>3, <3>1
    <3>5. \A s \in Part(b - 1) : g[s] = IF s = {} THEN t ELSE Receive(g[s \ {Max(s)}], its[Max(s)])
      BY <3>2
    <3>6. \A s \in Part(b - 1) : f[s] = g[s]
      BY <3>4, <3>5
    <3>7. ASSUME NEW s \in Part(b)
          PROVE  f[s] = IF s = {} THEN t ELSE Receive(f[s \ {Max(s)}], its[Max(s)])
      <4>1. CASE s = {}
        BY <4>1
      <4>2. CASE s # {} /\ s \in Part(b - 1)
        BY <3>3, <3>4, <3>5, <3>6, <4>2
      <4>3. CASE s # {} /\ s \notin Part(b - 1)
        <5>1. f[s] = Receive(g[s \ {Max(s)}], its[Max(s)])
          BY <4>3
        <5>2. f[s \ {Max(s)}] = g[s \ {Max(s)}]
          BY <3>3, <3>6, <4>3
        <5> QED
          BY <4>3, <5>1, <5>2
      <4> QED
        BY <4>1, <4>2, <4>3
    <3>8. f = [s \in Part(b) |-> f[s]]
      OBVIOUS
    <3> HIDE DEF f, Part
    <3>9. Folds(f, b)
      BY <3>7, <3>8
    <3> QED
      BY <2>3, <3>9
  <2> QED
    BY <2>4, <2>5
<1>3. PICK f : Folds(f, n)
  BY <1>1, <1>2
<1>4. Part(n) = SUBSET DOMAIN its
  BY <1>1
<1>5. IsFold(f, t, its)
  BY <1>3, <1>4 DEF IsFold
<1> QED
  BY <1>5 DEF Fold

\* If it is in G[n] after n items, it is in G[Len(its)] after all.
LEMMA FoldInduction ==
    ASSUME NEW t, NEW S, NEW its \in Seq(S), NEW G, t \in G[0],
           \A n \in DOMAIN its : \A x \in G[n - 1] : Receive(x, its[n]) \in G[n]
    PROVE  FoldLeft(Receive, t, its) \in G[Len(its)]
<1> DEFINE f == Fold(t, its)
           B == {n \in 0..Len(its) : f[1..n] \notin G[n]}
<1>1. /\ Len(its) \in Nat /\ DOMAIN its = 1..Len(its)
      /\ \A s \in SUBSET DOMAIN its : f[s] = IF s = {} THEN t ELSE Receive(f[s \ {Max(s)}], its[Max(s)])
  <2>1. IsFold(f, t, its)
    BY FoldExists
  <2> HIDE DEF f
  <2>2. f = [s \in SUBSET DOMAIN its |-> IF s = {} THEN t ELSE Receive(f[s \ {Max(s)}], its[Max(s)])]
    BY <2>1 DEF IsFold
  <2>3. \A s \in SUBSET DOMAIN its : f[s] = IF s = {} THEN t ELSE Receive(f[s \ {Max(s)}], its[Max(s)])
    BY ONLY <2>2, Zenon
  <2>4. Len(its) \in Nat /\ DOMAIN its = 1..Len(its)
    OBVIOUS
  <2> QED
    BY <2>3, <2>4, Zenon
<1> HIDE DEF f
<1>2. B = {}
  <2>1. SUFFICES ASSUME B # {} PROVE FALSE
    OBVIOUS
  <2>2. PICK n \in B : \A m \in B : n <= m
    <3>1. B \in SUBSET Nat
      BY <1>1
    <3> HIDE DEF B
    <3> QED
      BY <2>1, <3>1, NatMinimum
  <2>3. n \in 0..Len(its) /\ f[1..n] \notin G[n]
    OBVIOUS
  <2>4. n # 0
    <3>1. 1..0 = {}
      OBVIOUS
    <3>2. f[{}] = t
      BY <1>1
    <3> QED
      BY <2>3, <3>1, <3>2
  <2>5. n \in DOMAIN its /\ n - 1 \in 0..Len(its) /\ n - 1 < n
    BY <1>1, <2>3, <2>4
  <2>6. f[1..(n - 1)] \in G[n - 1]
    <3>1. n - 1 \notin B
      <4> HIDE DEF B
      <4> QED
        BY <2>2, <2>5
    <3> QED
      BY <2>5, <3>1
  <2>7. Max(1..n) = n /\ (1..n) \ {n} = 1..(n - 1) /\ 1..n # {} /\ 1..n \in SUBSET DOMAIN its
    <3>1. n \in Nat /\ n >= 1
      BY <2>5
    <3>3. n \in 1..n /\ (1..n) \in SUBSET Nat /\ \A x \in 1..n : x <= n
      BY <3>1
    <3>2. Max(1..n) \in 1..n /\ \A y \in 1..n : y <= Max(1..n)
      BY <3>1, <3>3, NatMaximum
    <3>4. Max(1..n) = n
      BY <3>1, <3>2, <3>3
    <3> QED
      BY <1>1, <2>5, <3>1, <3>3, <3>4
  <2>8. f[1..n] = Receive(f[1..(n - 1)], its[n])
    BY <1>1, <2>7
  <2> QED
    BY <2>3, <2>5, <2>6, <2>8
<1>3. f[DOMAIN its] \in G[Len(its)]
  BY <1>1, <1>2
<1> QED
  BY <1>3, FoldIs DEF f
LEMMA RemoveAtFacts ==
    ASSUME NEW S, NEW s \in Seq(S), NEW n \in DOMAIN s
    PROVE  /\ RemoveAt(s, n) \in Seq(S)
           /\ Len(RemoveAt(s, n)) = Len(s) - 1
           /\ \A m \in 1..(Len(s) - 1) : RemoveAt(s, n)[m] = IF m < n THEN s[m] ELSE s[m + 1]
<1> DEFINE front == SubSeq(s, 1, n - 1)
           back == SubSeq(s, n + 1, Len(s))
<1>1. n \in Nat /\ 1 <= n /\ n <= Len(s) /\ Len(s) \in Nat
  OBVIOUS
<1>2. /\ front \in Seq(S) /\ Len(front) = n - 1
      /\ \A m \in 1..(n - 1) : front[m] = s[m]
  BY <1>1
<1>3. /\ back \in Seq(S) /\ Len(back) = Len(s) - n
      /\ \A m \in 1..(Len(s) - n) : back[m] = s[n + m]
  BY <1>1
<1>4. RemoveAt(s, n) = front \o back
  BY DEF RemoveAt
<1> HIDE DEF front, back
<1>5. /\ front \o back \in Seq(S) /\ Len(front \o back) = Len(s) - 1
      /\ \A m \in 1..(Len(s) - 1) :
            (front \o back)[m] = IF m < n THEN front[m] ELSE back[m - (n - 1)]
  <2>1. /\ front \o back \in Seq(S) /\ Len(front \o back) = Len(front) + Len(back)
        /\ \A m \in 1..(Len(front) + Len(back)) :
              (front \o back)[m] = IF m <= Len(front) THEN front[m] ELSE back[m - Len(front)]
    BY <1>2, <1>3
  <2>2. Len(front) + Len(back) = Len(s) - 1
    BY <1>1, <1>2, <1>3
  <2>3. \A m \in 1..(Len(s) - 1) : m <= Len(front) <=> m < n
    BY <1>1, <1>2
  <2> QED
    BY <1>2, <2>1, <2>2, <2>3
<1>6. ASSUME NEW m \in 1..(Len(s) - 1)
      PROVE  (front \o back)[m] = IF m < n THEN s[m] ELSE s[m + 1]
  <2>1. CASE m < n
    BY <1>1, <1>2, <1>5, <2>1
  <2>2. CASE ~(m < n)
    <3>1. m - (n - 1) \in 1..(Len(s) - n) /\ n + (m - (n - 1)) = m + 1
      BY <1>1, <2>2
    <3>2. back[m - (n - 1)] = s[m + 1]
      BY <3>1, <1>3
    <3> QED
      BY <1>5, <2>2, <3>2
  <2> QED
    BY <2>1, <2>2
<1> QED
  BY <1>4, <1>5, <1>6

LEMMA MappedSeq ==
    ASSUME NEW S, NEW n \in Nat, NEW f \in [1..n -> S]
    PROVE  f \in Seq(S) /\ Len(f) = n
OBVIOUS

LEMMA AppendFacts ==
    ASSUME NEW S, NEW s \in Seq(S), NEW e \in S
    PROVE  /\ Append(s, e) \in Seq(S) /\ Len(Append(s, e)) = Len(s) + 1
           /\ DOMAIN Append(s, e) = 1..(Len(s) + 1)
           /\ \A n \in DOMAIN s : Append(s, e)[n] = s[n]
           /\ Append(s, e)[Len(s) + 1] = e
OBVIOUS

-----------------------------------------------------------------------------
(* The store of the tab                                                    *)

LEMMA Bounds ==
    /\ Limit \in Nat \ {0} /\ MaxToasts \in Nat \ {0} /\ MaxRaises \in Nat /\ MaxActs \in Nat
    /\ Repeats \subseteq Ids /\ Urgent \subseteq Ids /\ Ids \cap Local = {}
BY NotificationsAssumption

Store == [list : Seq(Item), toasts : Seq(Toast), stray : SUBSET (Ids \cup Local),
          guid : 0..MaxActs, unread : 0..Limit, sent : SUBSET Call]

\* The lists may be as long as the code makes them before it shortens them.
StoreOK(t) == t \in Store /\ Len(t.list) <= Limit
Stored(t) == StoreOK(t) /\ Len(t.toasts) <= MaxToasts

LEMMA UnreadCounted ==
    ASSUME NEW t, StoreOK(t)
    PROVE  /\ StoreOK(UpdateUnreadCount(t))
           /\ UpdateUnreadCount(t).list = t.list /\ UpdateUnreadCount(t).toasts = t.toasts
           /\ UpdateUnreadCount(t).stray = t.stray /\ UpdateUnreadCount(t).guid = t.guid
           /\ UpdateUnreadCount(t).sent = t.sent
<1> DEFINE S == {k \in DOMAIN t.list : ~t.list[k].read}
<1>1. t.list \in Seq(Item) /\ Len(t.list) \in Nat /\ Len(t.list) <= Limit /\ S \in SUBSET (1..Len(t.list))
  BY DEF StoreOK, Store
<1>2. Cardinality(S) \in Nat /\ Cardinality(S) <= Len(t.list)
  <2>1. IsFiniteSet(1..Len(t.list)) /\ Cardinality(1..Len(t.list)) = Len(t.list)
    BY <1>1, FS_Interval, 1 \in Int, Len(t.list) \in Int
  <2> HIDE DEF S
  <2> QED
    BY <1>1, <2>1, FS_Subset, FS_CardinalityType
<1>3. Cardinality(S) \in 0..Limit
  BY <1>1, <1>2, Bounds
<1>4. UpdateUnreadCount(t) = [t EXCEPT !.unread = Cardinality(S)]
  BY DEF UpdateUnreadCount
<1> HIDE DEF S
<1> QED
  BY <1>3, <1>4 DEF StoreOK, Store

\* r is t, but for notifications of ids that have been read and calls that say so.
Marked(t, r, ids) ==
    /\ r.toasts = t.toasts /\ r.stray = t.stray /\ r.guid = t.guid
    /\ DOMAIN r.list = DOMAIN t.list
    /\ \A k \in DOMAIN t.list :
          /\ r.list[k].id = t.list[k].id /\ r.list[k].stamp = t.list[k].stamp
          /\ r.list[k].read # t.list[k].read => t.list[k].id \in ids /\ r.list[k].read
    /\ t.sent \subseteq r.sent
    /\ \A c \in r.sent \ t.sent : c.op = "read" /\ c.ids \subseteq ids

LEMMA MarkedSame == ASSUME NEW t, NEW ids PROVE Marked(t, t, ids)
BY DEF Marked

LEMMA MarkAsReadIs ==
    ASSUME NEW t, StoreOK(t), NEW id \in Ids \cup Local
    PROVE  StoreOK(MarkAsRead(t, id)) /\ Marked(t, MarkAsRead(t, id), {id})
<1> DEFINE at == {k \in Places(t.list, id) : ~t.list[k].read}
           list == [k \in DOMAIN t.list |-> IF k \in at THEN [t.list[k] EXCEPT !.read = TRUE] ELSE t.list[k]]
           call == [op |-> "read", ids |-> {id}]
           u == [t EXCEPT !.list = list, !.sent = @ \cup {call}]
<1>1. CASE at = {}
  BY <1>1, MarkedSame DEF MarkAsRead
<1>2. CASE at # {}
  <2>1. MarkAsRead(t, id) = UpdateUnreadCount(u)
    BY <1>2 DEF MarkAsRead
  <2>2. t.list \in Seq(Item) /\ t \in Store
    BY DEF StoreOK, Store
  <2>3. id \in Ids
    <3>1. PICK k \in at : TRUE
      BY <1>2
    <3>2. t.list[k] \in Item /\ t.list[k].id = id
      BY <2>2 DEF Places
    <3> QED
      BY <3>2 DEF Item
  <2>4. list \in Seq(Item) /\ Len(list) = Len(t.list) /\ DOMAIN list = DOMAIN t.list
    <3>1. \A n \in Item : [n EXCEPT !.read = TRUE] \in Item
      BY DEF Item
    <3>2. \A k \in DOMAIN t.list : list[k] \in Item
      BY <2>2, <3>1
    <3>3. Len(t.list) \in Nat /\ DOMAIN t.list = 1..Len(t.list)
      BY <2>2
    <3>4. DOMAIN list = DOMAIN t.list
      OBVIOUS
    <3>5. list = [k \in DOMAIN list |-> list[k]]
      OBVIOUS
    <3> HIDE DEF list
    <3>6. list \in [1..Len(t.list) -> Item]
      BY <3>2, <3>3, <3>4, <3>5
    <3> QED
      BY <3>3, <3>4, <3>6, MappedSeq
  <2>5. call \in Call /\ call.op = "read" /\ call.ids = {id}
    BY <2>3 DEF Call
  <2>6. \A k \in DOMAIN t.list :
          /\ list[k].id = t.list[k].id /\ list[k].stamp = t.list[k].stamp
          /\ list[k].read # t.list[k].read => t.list[k].id = id /\ list[k].read
    <3>1. SUFFICES ASSUME NEW k \in DOMAIN t.list
                   PROVE /\ list[k].id = t.list[k].id /\ list[k].stamp = t.list[k].stamp
                         /\ list[k].read # t.list[k].read => t.list[k].id = id /\ list[k].read
      OBVIOUS
    <3>2. t.list[k] \in Item
      BY <2>2
    <3>3. CASE k \in at
      BY <3>2, <3>3 DEF Item, Places
    <3>4. CASE k \notin at
      BY <3>4
    <3> QED
      BY <3>3, <3>4
  <2> HIDE DEF list, call
  <2>7. StoreOK(u) /\ u.list = list /\ u.toasts = t.toasts /\ u.stray = t.stray
        /\ u.guid = t.guid /\ u.sent = t.sent \cup {call}
    BY <2>2, <2>4, <2>5 DEF StoreOK, Store
  <2> HIDE DEF u
  <2> QED
    BY <2>1, <2>4, <2>5, <2>6, <2>7, UnreadCounted DEF Marked
<1> QED
  BY <1>1, <1>2

LEMMA FirstToastIs ==
    ASSUME NEW t, t \in Store, NEW id, Places(t.toasts, id) # {}
    PROVE  /\ FirstToast(t, id) \in DOMAIN t.toasts /\ t.toasts[FirstToast(t, id)].id = id
           /\ \A k \in DOMAIN t.toasts : t.toasts[k].id = id => FirstToast(t, id) <= k
<1>1. Places(t.toasts, id) \in SUBSET Nat
  BY DEF Places, Store
<1>2. \E x \in Places(t.toasts, id) : \A y \in Places(t.toasts, id) : x <= y
  BY <1>1, NatMinimum
<1> QED
  BY <1>2 DEF FirstToast, Places

\* The read notifications of a toast that is removed.
ReadWith(id, byUser) == IF byUser \/ id \notin Urgent THEN {id} ELSE {}

LEMMA RemovedIs ==
    ASSUME NEW t, StoreOK(t), NEW id \in Ids \cup Local, NEW byUser \in BOOLEAN
    PROVE  LET r == RemoveFromToastStack(t, id, byUser)
           IN  /\ StoreOK(r)
               /\ \/ Places(t.toasts, id) = {} /\ r = t
                  \/ /\ Places(t.toasts, id) # {}
                     /\ Marked([t EXCEPT !.toasts = RemoveAt(@, FirstToast(t, id))], r, ReadWith(id, byUser))
                     /\ r.toasts = RemoveAt(t.toasts, FirstToast(t, id))
<1>1. CASE Places(t.toasts, id) = {}
  BY <1>1 DEF RemoveFromToastStack
<1>2. CASE Places(t.toasts, id) # {}
  <2> DEFINE u == [t EXCEPT !.toasts = RemoveAt(@, FirstToast(t, id))]
  <2>1. RemoveFromToastStack(t, id, byUser) = IF byUser \/ id \notin Urgent THEN MarkAsRead(u, id) ELSE u
    BY <1>2 DEF RemoveFromToastStack, AfterToastRemoved
  <2>2. t \in Store /\ t.toasts \in Seq(Toast) /\ Len(t.list) <= Limit
    BY DEF StoreOK, Store
  <2>3. RemoveAt(t.toasts, FirstToast(t, id)) \in Seq(Toast)
    BY <1>2, <2>2, FirstToastIs, RemoveAtFacts
  <2>4. StoreOK(u) /\ u.toasts = RemoveAt(t.toasts, FirstToast(t, id))
    BY <2>2, <2>3 DEF StoreOK, Store
  <2>5. CASE byUser \/ id \notin Urgent
    <3>1. ReadWith(id, byUser) = {id}
      BY <2>5 DEF ReadWith
    <3> HIDE DEF u
    <3>2. StoreOK(MarkAsRead(u, id)) /\ Marked(u, MarkAsRead(u, id), {id})
      BY <2>4, MarkAsReadIs
    <3>3. MarkAsRead(u, id).toasts = u.toasts
      BY <3>2 DEF Marked
    <3> QED
      BY <1>2, <2>1, <2>4, <2>5, <3>1, <3>2, <3>3 DEF u
  <2>6. CASE ~(byUser \/ id \notin Urgent)
    BY <1>2, <2>1, <2>4, <2>6, MarkedSame DEF ReadWith
  <2> QED
    BY <2>5, <2>6
<1> QED
  BY <1>1, <1>2

-----------------------------------------------------------------------------
(* What the functions of the store keep                                    *)

\* The toasts of what is raised once are there once, and timed but for those of H.
Timely(s, H) ==
    \A k \in DOMAIN s : s[k].id \notin Repeats =>
        /\ s[k].timed \/ s[k].id \in H
        /\ \A j \in DOMAIN s : s[j].id = s[k].id => j = k

Clean(s, U) == \A k \in DOMAIN s : s[k].id \in U => ~s[k].read

Innocent(t, U) == Clean(t.list, U) /\ \A c \in t.sent : c.op = "read" => c.ids \cap U = {}

Kept(t, r, U) ==
    /\ StoreOK(r) /\ r.guid = t.guid /\ r.stray = t.stray
    /\ \A c \in r.sent \ t.sent : c.op = "read"
    /\ Innocent(t, U) => Innocent(r, U)

Thinner(s, r) ==
    /\ r \in Seq(Toast) /\ Len(r) <= Len(s) /\ IdsOf(r) \subseteq IdsOf(s)
    /\ \A H : Timely(s, H) => Timely(r, H)

LEMMA KeptAgain ==
    ASSUME NEW t, NEW u, NEW r, NEW U, Kept(t, u, U), Kept(u, r, U)
    PROVE  Kept(t, r, U)
BY DEF Kept

LEMMA ThinnerAgain ==
    ASSUME NEW s \in Seq(Toast), NEW u, NEW r, Thinner(s, u), Thinner(u, r)
    PROVE  Thinner(s, r)
<1>1. Len(s) \in Nat /\ Len(u) \in Nat /\ Len(r) \in Nat
  BY DEF Thinner
<1>2. Len(r) <= Len(s)
  BY <1>1 DEF Thinner
<1> QED
  BY <1>2 DEF Thinner

LEMMA ThinnerSame == ASSUME NEW s \in Seq(Toast) PROVE Thinner(s, s)
<1>1. Len(s) \in Nat
  OBVIOUS
<1> QED
  BY <1>1 DEF Thinner

LEMMA MarkedKept ==
    ASSUME NEW t, NEW r, NEW ids, NEW U, StoreOK(t), StoreOK(r), Marked(t, r, ids), ids \cap U = {}
    PROVE  Kept(t, r, U)
<1>1. /\ r.guid = t.guid /\ r.stray = t.stray
      /\ \A c \in r.sent \ t.sent : c.op = "read" /\ c.ids \subseteq ids
  BY DEF Marked
<1>2. ASSUME Innocent(t, U) PROVE Innocent(r, U)
  <2>1. Clean(r.list, U)
    BY <1>2 DEF Marked, Innocent, Clean
  <2>2. \A c \in r.sent : c.op = "read" => c.ids \cap U = {}
    BY <1>1, <1>2 DEF Innocent
  <2> QED
    BY <2>1, <2>2 DEF Innocent
<1> QED
  BY <1>1, <1>2 DEF Kept

LEMMA RemoveAtThins ==
    ASSUME NEW s \in Seq(Toast), NEW n \in DOMAIN s
    PROVE  Thinner(s, RemoveAt(s, n)) /\ Len(RemoveAt(s, n)) = Len(s) - 1
<1> DEFINE r == RemoveAt(s, n)
           from(m) == IF m < n THEN m ELSE m + 1
<1>1. /\ r \in Seq(Toast) /\ Len(r) = Len(s) - 1
      /\ \A m \in 1..(Len(s) - 1) : r[m] = IF m < n THEN s[m] ELSE s[m + 1]
  BY RemoveAtFacts
<1>2. Len(s) \in Nat /\ DOMAIN s = 1..Len(s) /\ n \in 1..Len(s)
  OBVIOUS
<1> HIDE DEF r
<1>3. DOMAIN r = 1..(Len(s) - 1)
  BY <1>1
<1>4. \A m \in DOMAIN r : from(m) \in DOMAIN s /\ r[m] = s[from(m)]
  BY <1>1, <1>2, <1>3
<1>5. \A i, j \in DOMAIN r : from(i) = from(j) => i = j
  BY <1>2, <1>3
<1> HIDE DEF from
<1>6. IdsOf(r) \subseteq IdsOf(s)
  BY <1>4 DEF IdsOf
<1>7. \A H : Timely(s, H) => Timely(r, H)
  BY <1>4, <1>5 DEF Timely
<1>8. Len(r) <= Len(s)
  BY <1>1, <1>2
<1> QED
  BY <1>1, <1>6, <1>7, <1>8 DEF Thinner, r

LEMMA RemovedKept ==
    ASSUME NEW t, StoreOK(t), NEW id \in Ids \cup Local, NEW byUser \in BOOLEAN,
           NEW U \in SUBSET Urgent, byUser => id \notin U
    PROVE  LET r == RemoveFromToastStack(t, id, byUser)
           IN  /\ Kept(t, r, U) /\ Thinner(t.toasts, r.toasts)
               /\ id \in IdsOf(t.toasts) => Len(r.toasts) = Len(t.toasts) - 1
<1> DEFINE r == RemoveFromToastStack(t, id, byUser)
           u == [t EXCEPT !.toasts = RemoveAt(@, FirstToast(t, id))]
<1>1. StoreOK(r)
  BY RemovedIs
<1>2. t.toasts \in Seq(Toast) /\ t \in Store /\ Len(t.list) <= Limit
  BY DEF StoreOK, Store
<1>3. id \in IdsOf(t.toasts) <=> Places(t.toasts, id) # {}
  BY DEF IdsOf, Places
<1>4. CASE Places(t.toasts, id) = {}
  <2>1. r = t
    BY <1>4, RemovedIs
  <2> HIDE DEF r
  <2> QED
    BY <1>2, <1>3, <1>4, <2>1, ThinnerSame DEF Kept, r
<1>5. CASE Places(t.toasts, id) # {}
  <2>1. Marked(u, r, ReadWith(id, byUser)) /\ r.toasts = RemoveAt(t.toasts, FirstToast(t, id))
    BY <1>5, RemovedIs
  <2>2. FirstToast(t, id) \in DOMAIN t.toasts
    BY <1>2, <1>5, FirstToastIs
  <2>3. /\ Thinner(t.toasts, r.toasts) /\ Len(r.toasts) = Len(t.toasts) - 1
        /\ RemoveAt(t.toasts, FirstToast(t, id)) \in Seq(Toast)
    BY <1>2, <2>1, <2>2, RemoveAtThins DEF Thinner
  <2>4. StoreOK(u) /\ u.guid = t.guid /\ u.stray = t.stray /\ u.sent = t.sent /\ u.list = t.list
    BY <1>2, <2>3 DEF StoreOK, Store
  <2>5. ReadWith(id, byUser) \cap U = {}
    BY DEF ReadWith
  <2> HIDE DEF u, r
  <2>6. Kept(u, r, U)
    BY <1>1, <2>1, <2>4, <2>5, MarkedKept
  <2>7. Kept(t, r, U)
    BY <2>4, <2>6 DEF Kept, Innocent
  <2> QED
    BY <2>3, <2>7 DEF r
<1> QED
  BY <1>4, <1>5

LEMMA ReplaceGroupKept ==
    ASSUME NEW t, StoreOK(t), NEW id \in Ids \cup Local, NEW U \in SUBSET Urgent
    PROVE  Kept(t, ReplaceGroup(t, id), U) /\ Thinner(t.toasts, ReplaceGroup(t, id).toasts)
<1> DEFINE same == {k \in DOMAIN t.toasts : t.toasts[k].id \in Grouped}
           first == CHOOSE k \in same : \A j \in same : k <= j
<1>1. t.toasts \in Seq(Toast)
  BY DEF StoreOK, Store
<1>2. CASE id \in Grouped /\ same # {}
  <2>1. ReplaceGroup(t, id) = RemoveFromToastStack(t, t.toasts[first].id, FALSE)
    BY <1>2 DEF ReplaceGroup
  <2>2. same \in SUBSET Nat
    BY <1>1
  <2> HIDE DEF same
  <2>3. \E k \in same : \A j \in same : k <= j
    BY <1>2, <2>2, NatMinimum
  <2>4. first \in same
    BY <2>3
  <2> HIDE DEF first
  <2>5. t.toasts[first].id \in Ids \cup Local
    <3>1. first \in DOMAIN t.toasts
      BY <2>4 DEF same
    <3>2. t.toasts[first] \in Toast
      BY <1>1, <3>1
    <3> QED
      BY <3>2 DEF Toast
  <2> QED
    BY <2>1, <2>5, RemovedKept
<1>3. CASE ~(id \in Grouped /\ same # {})
  <2>1. ReplaceGroup(t, id) = t
    BY <1>3 DEF ReplaceGroup
  <2> QED
    BY <1>1, <2>1, ThinnerSame DEF Kept
<1> QED
  BY <1>2, <1>3

LEMMA LimitToastsKept ==
    ASSUME NEW t, StoreOK(t), NEW U \in SUBSET Urgent, Len(t.toasts) <= MaxToasts + 1
    PROVE  /\ Kept(t, LimitToasts(t), U) /\ Thinner(t.toasts, LimitToasts(t).toasts)
           /\ Len(LimitToasts(t).toasts) <= MaxToasts
<1>1. t.toasts \in Seq(Toast) /\ Len(t.toasts) \in Nat /\ MaxToasts \in Nat
  BY Bounds DEF StoreOK, Store
<1>2. CASE Len(t.toasts) > MaxToasts
  <2>1. LimitToasts(t) = RemoveFromToastStack(t, Head(t.toasts).id, FALSE)
    BY <1>2 DEF LimitToasts
  <2>2. 1 \in DOMAIN t.toasts /\ Head(t.toasts) = t.toasts[1] /\ t.toasts[1] \in Toast
    BY <1>1, <1>2
  <2>3. Head(t.toasts).id \in Ids \cup Local /\ Head(t.toasts).id \in IdsOf(t.toasts)
    BY <2>2 DEF Toast, IdsOf
  <2>4. /\ Kept(t, LimitToasts(t), U) /\ Thinner(t.toasts, LimitToasts(t).toasts)
        /\ Len(LimitToasts(t).toasts) = Len(t.toasts) - 1
    BY <2>1, <2>3, RemovedKept
  <2> QED
    BY <1>1, <2>4
<1>3. CASE ~(Len(t.toasts) > MaxToasts)
  <2>1. LimitToasts(t) = t
    BY <1>3 DEF LimitToasts
  <2> QED
    BY <1>1, <1>3, <2>1, ThinnerSame DEF Kept
<1> QED
  BY <1>2, <1>3

LEMMA RestartToastTimerKept ==
    ASSUME NEW t, StoreOK(t), NEW id \in Ids \cup Local, NEW U
    PROVE  LET r == RestartToastTimer(t, id)
           IN  /\ Kept(t, r, U)
               /\ Len(r.toasts) = Len(t.toasts) /\ IdsOf(r.toasts) = IdsOf(t.toasts)
               /\ Timely(t.toasts, {id}) => Timely(r.toasts, {})
<1> DEFINE r == RestartToastTimer(t, id)
           f == FirstToast(t, id)
<1>1. t.toasts \in Seq(Toast) /\ t \in Store /\ Len(t.list) <= Limit
  BY DEF StoreOK, Store
<1>2. CASE Places(t.toasts, id) = {}
  <2>1. r = t
    BY <1>2 DEF RestartToastTimer
  <2>2. Timely(t.toasts, {id}) => Timely(t.toasts, {})
    BY <1>2 DEF Timely, Places
  <2> HIDE DEF r
  <2> QED
    BY <2>1, <2>2 DEF Kept, r
<1>3. CASE Places(t.toasts, id) # {}
  <2>1. f \in DOMAIN t.toasts /\ t.toasts[f].id = id
    BY <1>1, <1>3, FirstToastIs
  <2> DEFINE s == [t.toasts EXCEPT ![f].timed = TRUE]
  <2>2. r = [t EXCEPT !.toasts = s]
    BY <1>3 DEF RestartToastTimer
  <2>3. DOMAIN s = DOMAIN t.toasts /\ DOMAIN t.toasts = 1..Len(t.toasts) /\ Len(t.toasts) \in Nat
    BY <1>1
  <2>4. \A k \in DOMAIN t.toasts :
          /\ s[k] \in Toast /\ s[k].id = t.toasts[k].id
          /\ s[k].timed <=> (k = f \/ t.toasts[k].timed)
    <3>1. SUFFICES ASSUME NEW k \in DOMAIN t.toasts
                   PROVE  /\ s[k] \in Toast /\ s[k].id = t.toasts[k].id
                          /\ s[k].timed <=> (k = f \/ t.toasts[k].timed)
      OBVIOUS
    <3>2. t.toasts[k] \in Toast
      BY <1>1
    <3>3. s[k] = IF k = f THEN [t.toasts[k] EXCEPT !.timed = TRUE] ELSE t.toasts[k]
      BY <2>1
    <3> QED
      BY <3>2, <3>3 DEF Toast
  <2>5. s \in Seq(Toast) /\ Len(s) = Len(t.toasts)
    <3>1. s = [k \in DOMAIN s |-> s[k]]
      OBVIOUS
    <3> HIDE DEF s
    <3>2. s \in [1..Len(t.toasts) -> Toast]
      BY <2>3, <2>4, <3>1
    <3> QED
      BY <2>3, <3>2, MappedSeq
  <2> HIDE DEF s, f
  <2>6. IdsOf(s) = IdsOf(t.toasts)
    BY <2>3, <2>4 DEF IdsOf
  <2>7. Timely(t.toasts, {id}) => Timely(s, {})
    BY <2>1, <2>3, <2>4 DEF Timely
  <2>8. r \in Store /\ r.list = t.list /\ r.toasts = s /\ r.guid = t.guid /\ r.stray = t.stray /\ r.sent = t.sent
    BY <1>1, <2>2, <2>5 DEF Store
  <2> HIDE DEF r
  <2>9. Kept(t, r, U)
    BY <1>1, <2>8 DEF Kept, StoreOK, Innocent
  <2> QED
    BY <2>5, <2>6, <2>7, <2>8, <2>9 DEF r
<1> QED
  BY <1>2, <1>3

LEMMA PushedToast ==
    ASSUME NEW t, StoreOK(t), NEW id \in Ids \cup Local, NEW U
    PROVE  LET r == [t EXCEPT !.toasts = Append(@, [id |-> id, timed |-> FALSE])]
           IN  /\ Kept(t, r, U)
               /\ Len(r.toasts) = Len(t.toasts) + 1 /\ IdsOf(r.toasts) = IdsOf(t.toasts) \cup {id}
               /\ Timely(t.toasts, {}) /\ (id \notin Repeats => id \notin IdsOf(t.toasts))
                      => Timely(r.toasts, {id})
<1> DEFINE s == Append(t.toasts, [id |-> id, timed |-> FALSE])
           r == [t EXCEPT !.toasts = s]
<1>1. t.toasts \in Seq(Toast) /\ t \in Store /\ Len(t.list) <= Limit
  BY DEF StoreOK, Store
<1>2. [id |-> id, timed |-> FALSE] \in Toast
  BY DEF Toast
<1>3. /\ s \in Seq(Toast) /\ Len(s) = Len(t.toasts) + 1 /\ DOMAIN s = 1..(Len(t.toasts) + 1)
      /\ \A n \in DOMAIN t.toasts : s[n] = t.toasts[n]
      /\ s[Len(t.toasts) + 1] = [id |-> id, timed |-> FALSE]
  BY <1>1, <1>2, AppendFacts
<1> HIDE DEF s
<1>4. /\ DOMAIN t.toasts = 1..Len(t.toasts) /\ Len(t.toasts) \in Nat
      /\ DOMAIN s = DOMAIN t.toasts \cup {Len(t.toasts) + 1}
      /\ Len(t.toasts) + 1 \notin DOMAIN t.toasts
  BY <1>1, <1>3
<1>5. s[Len(t.toasts) + 1].id = id
  BY <1>3
<1>6. IdsOf(s) = IdsOf(t.toasts) \cup {id}
  BY <1>3, <1>4, <1>5 DEF IdsOf
<1>7. Timely(t.toasts, {}) /\ (id \notin Repeats => id \notin IdsOf(t.toasts)) => Timely(s, {id})
  BY <1>3, <1>4, <1>5 DEF Timely, IdsOf
<1>8. r \in Store /\ r.list = t.list /\ r.toasts = s /\ r.guid = t.guid /\ r.stray = t.stray /\ r.sent = t.sent
  BY <1>1, <1>3 DEF Store
<1> HIDE DEF r
<1>9. Kept(t, r, U)
  BY <1>1, <1>8 DEF Kept, StoreOK, Innocent
<1> QED
  BY <1>3, <1>6, <1>7, <1>8, <1>9 DEF r, s

LEMMA AddToToastStackKept ==
    ASSUME NEW t, Stored(t), NEW id \in Ids \cup Local, NEW U \in SUBSET Urgent
    PROVE  LET r == AddToToastStack(t, id)
           IN  /\ Kept(t, r, U) /\ Stored(r) /\ IdsOf(r.toasts) \subseteq IdsOf(t.toasts) \cup {id}
               /\ Timely(t.toasts, {}) /\ (id \notin Repeats => id \notin IdsOf(t.toasts))
                      => Timely(r.toasts, {})
<1> DEFINE room == ReplaceGroup(t, id)
           more == [room EXCEPT !.toasts = Append(@, [id |-> id, timed |-> FALSE])]
           less == LimitToasts(more)
           r == RestartToastTimer(less, id)
<1>0. AddToToastStack(t, id) = r
  BY DEF AddToToastStack
<1>1. StoreOK(t) /\ t.toasts \in Seq(Toast) /\ Len(t.toasts) <= MaxToasts /\ MaxToasts \in Nat
  BY Bounds DEF Stored, StoreOK, Store
<1>2. Kept(t, room, U) /\ Thinner(t.toasts, room.toasts)
  BY <1>1, ReplaceGroupKept
<1>3. StoreOK(room)
  BY <1>2 DEF Kept
<1> HIDE DEF room
<1>4. /\ Kept(room, more, U)
      /\ Len(more.toasts) = Len(room.toasts) + 1 /\ IdsOf(more.toasts) = IdsOf(room.toasts) \cup {id}
      /\ Timely(room.toasts, {}) /\ (id \notin Repeats => id \notin IdsOf(room.toasts))
             => Timely(more.toasts, {id})
  BY <1>3, PushedToast
<1> HIDE DEF more
<1>5. StoreOK(more) /\ Len(more.toasts) <= MaxToasts + 1
  <2>1. Len(t.toasts) \in Nat /\ Len(room.toasts) \in Nat /\ Len(room.toasts) <= Len(t.toasts)
    BY <1>1, <1>2 DEF Thinner
  <2> QED
    BY <1>1, <1>4, <2>1 DEF Kept
<1>6. Kept(more, less, U) /\ Thinner(more.toasts, less.toasts) /\ Len(less.toasts) <= MaxToasts
  BY <1>5, LimitToastsKept
<1> HIDE DEF less
<1>7. StoreOK(less)
  BY <1>6 DEF Kept
<1>8. /\ Kept(less, r, U)
      /\ Len(r.toasts) = Len(less.toasts) /\ IdsOf(r.toasts) = IdsOf(less.toasts)
      /\ Timely(less.toasts, {id}) => Timely(r.toasts, {})
  BY <1>7, RestartToastTimerKept
<1> HIDE DEF r
<1>9. Kept(t, r, U)
  BY <1>2, <1>4, <1>6, <1>8, KeptAgain
<1>10. Stored(r)
  BY <1>6, <1>8, <1>9 DEF Stored, Kept
<1>11. IdsOf(r.toasts) \subseteq IdsOf(t.toasts) \cup {id}
  BY <1>2, <1>4, <1>6, <1>8 DEF Thinner
<1>12. ASSUME Timely(t.toasts, {}), id \notin Repeats => id \notin IdsOf(t.toasts)
       PROVE  Timely(r.toasts, {})
  <2>1. Timely(room.toasts, {}) /\ (id \notin Repeats => id \notin IdsOf(room.toasts))
    BY <1>2, <1>12 DEF Thinner
  <2>2. Timely(less.toasts, {id})
    BY <1>4, <1>6, <2>1 DEF Thinner
  <2> QED
    BY <1>8, <2>2
<1> QED
  BY <1>0, <1>9, <1>10, <1>11, <1>12

\* What a notification of a push may be, for a tab that has not marked U.
LEMMA AddOrUpdateKept ==
    ASSUME NEW t, Stored(t), NEW n \in Item, NEW U, n.id \in U => ~n.read
    PROVE  LET r == AddOrUpdateNotification(t, n)
           IN  Kept(t, r, U) /\ Stored(r) /\ r.toasts = t.toasts /\ r.sent = t.sent
<1> DEFINE old == Places(t.list, n.id)
           put == [k \in DOMAIN t.list |-> IF k \in old THEN n ELSE t.list[k]]
           all == IF old = {} THEN <<n>> \o t.list ELSE put
           m == IF Len(all) > Limit THEN Limit ELSE Len(all)
           cut == SubSeq(all, 1, m)
           r == [t EXCEPT !.list = cut]
<1>0. AddOrUpdateNotification(t, n) = r
  BY DEF AddOrUpdateNotification
<1>1. t.list \in Seq(Item) /\ t \in Store /\ Len(t.list) \in Nat /\ DOMAIN t.list = 1..Len(t.list)
  BY DEF Stored, StoreOK, Store
<1>2. /\ put \in Seq(Item)
      /\ Clean(t.list, U) => Clean(put, U)
  <2>1. put \in [1..Len(t.list) -> Item]
    BY <1>1
  <2>2. Clean(t.list, U) => Clean(put, U)
    BY DEF Clean
  <2> HIDE DEF put
  <2> QED
    BY <1>1, <2>1, <2>2, MappedSeq
<1>3. /\ <<n>> \o t.list \in Seq(Item)
      /\ Clean(t.list, U) => Clean(<<n>> \o t.list, U)
  <2>1. <<n>> \in Seq(Item) /\ Len(<<n>>) = 1 /\ <<n>>[1] = n
    OBVIOUS
  <2>2. /\ <<n>> \o t.list \in Seq(Item) /\ Len(<<n>> \o t.list) = 1 + Len(t.list)
        /\ \A k \in 1..(1 + Len(t.list)) : (<<n>> \o t.list)[k] = IF k <= 1 THEN n ELSE t.list[k - 1]
    BY <1>1, <2>1
  <2>3. \A k \in 2..(1 + Len(t.list)) : k - 1 \in DOMAIN t.list
    BY <1>1
  <2>4. \A k \in DOMAIN (<<n>> \o t.list) : k \in 1..(1 + Len(t.list)) /\ (k <= 1 \/ k \in 2..(1 + Len(t.list)))
    BY <1>1, <2>2
  <2> QED
    BY <2>2, <2>3, <2>4 DEF Clean
<1>4. all \in Seq(Item) /\ (Clean(t.list, U) => Clean(all, U))
  BY <1>2, <1>3
<1> HIDE DEF all
<1>5. m \in Nat /\ m <= Len(all) /\ m <= Limit /\ Len(all) \in Nat
  BY <1>4, Bounds
<1> HIDE DEF m
<1>6. cut \in Seq(Item) /\ Len(cut) = m /\ \A k \in DOMAIN cut : k \in DOMAIN all /\ cut[k] = all[k]
  BY <1>4, <1>5
<1> HIDE DEF cut
<1>7. Clean(t.list, U) => Clean(cut, U)
  BY <1>4, <1>6 DEF Clean
<1>8. /\ r \in Store /\ r.list = cut /\ r.toasts = t.toasts /\ r.guid = t.guid
      /\ r.stray = t.stray /\ r.sent = t.sent
  BY <1>1, <1>6 DEF Store
<1> HIDE DEF r
<1>9. StoreOK(r) /\ Stored(r)
  BY <1>5, <1>6, <1>8 DEF Stored, StoreOK
<1>10. Kept(t, r, U)
  BY <1>7, <1>8, <1>9 DEF Kept, Innocent
<1> QED
  BY <1>0, <1>8, <1>9, <1>10

LEMMA ReceiveKept ==
    ASSUME NEW t, Stored(t), NEW n \in Item, NEW U \in SUBSET Urgent, n.id \in U => ~n.read
    PROVE  LET r == Receive(t, n)
           IN  /\ Kept(t, r, U) /\ Stored(r)
               /\ IdsOf(r.toasts) \subseteq IdsOf(t.toasts) \cup (IF n.read THEN {} ELSE {n.id})
               /\ /\ Timely(t.toasts, {})
                  /\ ~n.read /\ n.id \notin Repeats => n.id \notin IdsOf(t.toasts)
                  => Timely(r.toasts, {})
<1> DEFINE there == AddOrUpdateNotification(t, n)
           known == \E k \in Places(t.list, n.id) : t.list[k].stamp = n.stamp
<1>1. Kept(t, there, U) /\ Stored(there) /\ there.toasts = t.toasts
  BY AddOrUpdateKept
<1>2. Receive(t, n) = IF n.read \/ known THEN there ELSE AddToToastStack(there, n.id)
  BY DEF Receive
<1> HIDE DEF there, known
<1>3. CASE n.read \/ known
  BY <1>1, <1>2, <1>3
<1>4. CASE ~(n.read \/ known)
  <2> DEFINE r == AddToToastStack(there, n.id)
  <2>1. n.id \in Ids \cup Local
    BY DEF Item
  <2>2. /\ Kept(there, r, U) /\ Stored(r) /\ IdsOf(r.toasts) \subseteq IdsOf(t.toasts) \cup {n.id}
        /\ Timely(t.toasts, {}) /\ (n.id \notin Repeats => n.id \notin IdsOf(t.toasts))
               => Timely(r.toasts, {})
    BY <1>1, <2>1, AddToToastStackKept
  <2>3. Receive(t, n) = r
    BY <1>2, <1>4
  <2> HIDE DEF r
  <2>4. Kept(t, r, U)
    BY <1>1, <2>2, KeptAgain
  <2> QED
    BY <1>4, <2>2, <2>3, <2>4
<1> QED
  BY <1>3, <1>4

\* The ids that a list of notifications may bring to the stack of toasts.
Unreads(s) == {s[k].id : k \in {j \in DOMAIN s : ~s[j].read}}

Once(s) ==
    \A j, k \in DOMAIN s :
        s[j].id = s[k].id /\ s[j].id \notin Repeats /\ ~s[j].read /\ ~s[k].read => j = k

Fresh(ids, s) == Once(s) /\ \A id \in ids \cap Unreads(s) : id \in Repeats

LEMMA AllReceived ==
    ASSUME NEW b, Stored(b), NEW its \in Seq(Item), NEW U \in SUBSET Urgent, Clean(its, U)
    PROVE  LET r == FoldLeft(Receive, b, its)
           IN  /\ Kept(b, r, U) /\ Stored(r)
               /\ IdsOf(r.toasts) \subseteq IdsOf(b.toasts) \cup Unreads(its)
               /\ Timely(b.toasts, {}) /\ Fresh(IdsOf(b.toasts), its) => Timely(r.toasts, {})
<1> DEFINE new(n) == {its[k].id : k \in {j \in 1..n : ~its[j].read}}
           hyp == Timely(b.toasts, {}) /\ Fresh(IdsOf(b.toasts), its)
           good(x, n) == /\ Kept(b, x, U) /\ Stored(x)
                         /\ IdsOf(x.toasts) \subseteq IdsOf(b.toasts) \cup new(n)
                         /\ hyp => Timely(x.toasts, {})
           G == [n \in Nat |-> {x \in Store : good(x, n)}]
<1>1. Len(its) \in Nat /\ DOMAIN its = 1..Len(its)
  OBVIOUS
<1>2. b \in G[0]
  <2>1. b \in Store /\ Kept(b, b, U)
    BY DEF Stored, StoreOK, Kept
  <2>2. good(b, 0)
    BY <2>1
  <2> HIDE DEF good
  <2> QED
    BY <2>1, <2>2
<1>3. ASSUME NEW n \in DOMAIN its, NEW x \in G[n - 1] PROVE Receive(x, its[n]) \in G[n]
  <2> DEFINE r == Receive(x, its[n])
  <2>1. n \in Nat /\ n - 1 \in Nat /\ n \in 1..Len(its) /\ its[n] \in Item
    BY <1>1
  <2>2. good(x, n - 1)
    <3> HIDE DEF good
    <3> QED
      BY <2>1
  <2>3. its[n].id \in U => ~its[n].read
    BY DEF Clean
  <2>4. /\ Kept(x, r, U) /\ Stored(r)
        /\ IdsOf(r.toasts) \subseteq IdsOf(x.toasts) \cup (IF its[n].read THEN {} ELSE {its[n].id})
        /\ /\ Timely(x.toasts, {})
           /\ ~its[n].read /\ its[n].id \notin Repeats => its[n].id \notin IdsOf(x.toasts)
           => Timely(r.toasts, {})
    BY <2>1, <2>2, <2>3, ReceiveKept
  <2> HIDE DEF r
  <2>5. Kept(b, r, U)
    BY <2>2, <2>4, KeptAgain
  <2>6. 1..n = 1..(n - 1) \cup {n} /\ n \notin 1..(n - 1) /\ 1..n \subseteq DOMAIN its
    BY <1>1, <2>1
  <2>7. IdsOf(r.toasts) \subseteq IdsOf(b.toasts) \cup new(n)
    <3>1. IF its[n].read THEN new(n) = new(n - 1) ELSE new(n) = new(n - 1) \cup {its[n].id}
      BY <2>6
    <3> QED
      BY <2>2, <2>4, <3>1
  <2>8. ASSUME hyp, ~its[n].read, its[n].id \notin Repeats PROVE its[n].id \notin IdsOf(x.toasts)
    <3>1. its[n].id \in Unreads(its)
      BY <2>8 DEF Unreads
    <3>2. its[n].id \notin IdsOf(b.toasts)
      BY <2>8, <3>1 DEF Fresh
    <3>3. its[n].id \notin new(n - 1)
      BY <2>6, <2>8 DEF Fresh, Once
    <3> QED
      BY <2>2, <3>2, <3>3
  <2>9. hyp => Timely(r.toasts, {})
    BY <2>2, <2>4, <2>8
  <2>10. good(r, n)
    BY <2>4, <2>5, <2>7, <2>9
  <2>11. r \in Store
    BY <2>4 DEF Stored, StoreOK
  <2> HIDE DEF good
  <2> QED
    BY <2>1, <2>10, <2>11 DEF r
<1> HIDE DEF G
<1>4. FoldLeft(Receive, b, its) \in G[Len(its)]
  BY <1>2, <1>3, FoldInduction
<1>5. good(FoldLeft(Receive, b, its), Len(its))
  <2> HIDE DEF good
  <2> QED
    BY <1>1, <1>4 DEF G
<1>6. new(Len(its)) = Unreads(its)
  BY <1>1 DEF Unreads
<1> QED
  BY <1>5, <1>6

LEMMA RestartedKept ==
    ASSUME NEW t, Stored(t), NEW push \in Push
    PROVE  LET r == Restarted(t, push)
           IN  /\ Stored(r) /\ r.sent = t.sent /\ r.guid = push.guid
               /\ \A U : Innocent(t, U) => Innocent(r, U)
               /\ IdsOf(r.toasts) \subseteq IdsOf(t.toasts)
               /\ Timely(t.toasts, {}) => Timely(r.toasts, {})
<1> DEFINE new == {t.toasts[k].id : k \in {j \in DOMAIN t.toasts : t.toasts[j].timed}}
<1>1. t \in Store /\ t.toasts \in Seq(Toast)
  BY DEF Stored, StoreOK, Store
<1>2. CASE push.guid = t.guid
  <2>1. Restarted(t, push) = t
    BY <1>2 DEF Restarted
  <2> QED
    BY <1>2, <2>1
<1>3. CASE push.guid # t.guid
  <2> DEFINE r == [t EXCEPT !.list = <<>>, !.toasts = <<>>, !.guid = push.guid, !.stray = @ \cup new]
  <2>1. Restarted(t, push) = r
    BY <1>3 DEF Restarted
  <2>2. new \in SUBSET (Ids \cup Local)
    <3>1. \A k \in DOMAIN t.toasts : t.toasts[k] \in Toast
      BY <1>1
    <3> QED
      BY <3>1 DEF Toast
  <2> HIDE DEF new
  <2>3. push.guid \in 0..MaxActs
    BY DEF Push
  <2>4. r \in Store /\ r.list = <<>> /\ r.toasts = <<>> /\ r.guid = push.guid /\ r.sent = t.sent
    <3>1. t.stray \cup new \in SUBSET (Ids \cup Local)
      BY <1>1, <2>2 DEF Store
    <3>2. <<>> \in Seq(Item) /\ <<>> \in Seq(Toast)
      OBVIOUS
    <3> QED
      BY <1>1, <2>3, <3>1, <3>2 DEF Store
  <2> HIDE DEF r
  <2>5. Stored(r)
    BY <2>4, Bounds DEF Stored, StoreOK
  <2> QED
    BY <2>1, <2>4, <2>5 DEF Innocent, Clean, IdsOf, Timely
<1> QED
  BY <1>2, <1>3

LEMMA UpdateFromPollKept ==
    ASSUME NEW t, Stored(t), NEW push \in Push, NEW U \in SUBSET Urgent, Clean(push.items, U)
    PROVE  LET r == UpdateFromPoll(t, push)
           IN  /\ Stored(r) /\ \A c \in r.sent \ t.sent : c.op = "read"
               /\ Innocent(t, U) => Innocent(r, U)
               /\ IdsOf(r.toasts) \subseteq IdsOf(t.toasts) \cup Unreads(push.items)
               /\ Timely(t.toasts, {}) /\ Fresh(IdsOf(t.toasts), push.items) => Timely(r.toasts, {})
<1> DEFINE b == Restarted(t, push)
           f == FoldLeft(Receive, b, push.items)
           r == UpdateUnreadCount(f)
<1>1. UpdateFromPoll(t, push) = r
  BY DEF UpdateFromPoll
<1>2. /\ Stored(b) /\ b.sent = t.sent
      /\ Innocent(t, U) => Innocent(b, U)
      /\ IdsOf(b.toasts) \subseteq IdsOf(t.toasts)
      /\ Timely(t.toasts, {}) => Timely(b.toasts, {})
  BY RestartedKept
<1> HIDE DEF b
<1>3. push.items \in Seq(Item)
  BY DEF Push
<1>4. /\ Kept(b, f, U) /\ Stored(f)
      /\ IdsOf(f.toasts) \subseteq IdsOf(b.toasts) \cup Unreads(push.items)
      /\ Timely(b.toasts, {}) /\ Fresh(IdsOf(b.toasts), push.items) => Timely(f.toasts, {})
  BY <1>2, <1>3, AllReceived
<1> HIDE DEF f
<1>5. StoreOK(f)
  BY <1>4 DEF Stored
<1>6. StoreOK(r) /\ r.list = f.list /\ r.toasts = f.toasts /\ r.sent = f.sent
  BY <1>5, UnreadCounted
<1> HIDE DEF r
<1>7. Stored(r)
  BY <1>4, <1>6 DEF Stored
<1>8. \A c \in r.sent \ t.sent : c.op = "read"
  BY <1>2, <1>4, <1>6 DEF Kept
<1>9. Innocent(t, U) => Innocent(r, U)
  BY <1>2, <1>4, <1>6 DEF Kept, Innocent
<1>10. Fresh(IdsOf(t.toasts), push.items) => Fresh(IdsOf(b.toasts), push.items)
  BY <1>2 DEF Fresh
<1> QED
  BY <1>1, <1>2, <1>4, <1>6, <1>7, <1>8, <1>9, <1>10

LEMMA ToastsCleared ==
    ASSUME NEW t, Stored(t)
    PROVE  LET r == ClearToastStack(t)
           IN  Stored(r) /\ r.toasts = <<>> /\ r.list = t.list /\ r.sent = t.sent
<1>1. <<>> \in Seq(Toast) /\ Len(<<>>) <= MaxToasts
  BY Bounds
<1> QED
  BY <1>1 DEF ClearToastStack, Stored, StoreOK, Store

\* Emptying the stack, or leaving it alone.
LEMMA EmptyOrSame ==
    ASSUME NEW s \in Seq(Toast), NEW r, r = s \/ r = <<>>
    PROVE  IdsOf(r) \subseteq IdsOf(s) /\ (Timely(s, {}) => Timely(r, {}))
BY DEF IdsOf, Timely

LEMMA AllMarked ==
    ASSUME NEW t, Stored(t)
    PROVE  LET r == MarkAllAsRead(t)
           IN  /\ Stored(r) /\ (r.toasts = t.toasts \/ r.toasts = <<>>)
               /\ t.sent \subseteq r.sent /\ \A c \in r.sent \ t.sent : c.op = "all"
               /\ \A U : Innocent(t, U) /\ U \cap IdsOf(t.list) = {} => Innocent(r, U)
<1> DEFINE list == [k \in DOMAIN t.list |-> [t.list[k] EXCEPT !.read = TRUE]]
           call == [op |-> "all", ids |-> Ids]
           u == [t EXCEPT !.list = list, !.sent = @ \cup {call}]
           w == ClearToastStack(u)
           r == UpdateUnreadCount(w)
<1>1. CASE \A k \in DOMAIN t.list : t.list[k].read
  <2>1. MarkAllAsRead(t) = t
    BY <1>1 DEF MarkAllAsRead
  <2> QED
    BY <2>1
<1>2. CASE ~\A k \in DOMAIN t.list : t.list[k].read
  <2>1. MarkAllAsRead(t) = r
    BY <1>2, Zenon DEF MarkAllAsRead
  <2>2. /\ t \in Store /\ t.list \in Seq(Item) /\ Len(t.list) <= Limit /\ Len(t.toasts) <= MaxToasts
        /\ Len(t.list) \in Nat /\ DOMAIN t.list = 1..Len(t.list)
    BY DEF Stored, StoreOK, Store
  <2>3. \A k \in DOMAIN t.list : list[k] \in Item /\ list[k].id = t.list[k].id
    <3>1. \A n \in Item : [n EXCEPT !.read = TRUE] \in Item /\ [n EXCEPT !.read = TRUE].id = n.id
      BY DEF Item
    <3>2. \A k \in DOMAIN t.list : t.list[k] \in Item
      BY <2>2
    <3> QED
      BY <3>1, <3>2
  <2>4. list \in [1..Len(t.list) -> Item] /\ DOMAIN list = DOMAIN t.list
    BY <2>2, <2>3
  <2>5. call \in Call /\ call.op = "all"
    BY DEF Call
  <2> HIDE DEF list, call
  <2>6. list \in Seq(Item) /\ Len(list) = Len(t.list)
    BY <2>2, <2>4, MappedSeq
  <2>7. u \in Store /\ u.list = list /\ u.toasts = t.toasts /\ u.sent = t.sent \cup {call}
    BY <2>2, <2>5, <2>6 DEF Store
  <2> HIDE DEF u
  <2>8. Stored(u)
    BY <2>2, <2>6, <2>7 DEF Stored, StoreOK
  <2>9. Stored(w) /\ w.toasts = <<>> /\ w.list = list /\ w.sent = t.sent \cup {call}
    BY <2>7, <2>8, ToastsCleared
  <2> HIDE DEF w
  <2>10. StoreOK(r) /\ r.list = list /\ r.toasts = <<>> /\ r.sent = t.sent \cup {call}
    BY <2>9, UnreadCounted DEF Stored
  <2> HIDE DEF r
  <2>11. Stored(r)
    BY <2>10, Bounds DEF Stored
  <2>12. ASSUME NEW U, Innocent(t, U), U \cap IdsOf(t.list) = {} PROVE Innocent(r, U)
    <3>1. \A k \in DOMAIN list : list[k].id \notin U
      BY <2>3, <2>4, <2>12 DEF IdsOf
    <3> QED
      BY <2>5, <2>10, <2>12, <3>1 DEF Innocent, Clean
  <2> QED
    BY <2>1, <2>5, <2>10, <2>11, <2>12
<1> QED
  BY <1>1, <1>2

LEMMA AllCleared ==
    ASSUME NEW t, Stored(t)
    PROVE  LET r == ClearAll(t)
           IN  /\ Stored(r) /\ r.toasts = <<>>
               /\ \A c \in r.sent \ t.sent : c.op = "clear"
               /\ \A U : Innocent(t, U) => Innocent(r, U)
<1> DEFINE call == [op |-> "clear", ids |-> Ids]
           u == [t EXCEPT !.list = <<>>, !.unread = 0, !.sent = @ \cup {call}]
           r == ClearToastStack(u)
<1>1. ClearAll(t) = r
  BY DEF ClearAll
<1>2. t \in Store /\ Len(t.toasts) <= MaxToasts
  BY DEF Stored, StoreOK
<1>3. call \in Call /\ call.op = "clear"
  BY DEF Call
<1> HIDE DEF call
<1>4. <<>> \in Seq(Item) /\ 0 \in 0..Limit /\ Len(<<>>) <= Limit
  BY Bounds
<1>5. u \in Store /\ u.list = <<>> /\ u.toasts = t.toasts /\ u.sent = t.sent \cup {call}
  BY <1>2, <1>3, <1>4 DEF Store
<1> HIDE DEF u
<1>6. Stored(u)
  BY <1>2, <1>4, <1>5 DEF Stored, StoreOK
<1>7. Stored(r) /\ r.toasts = <<>> /\ r.list = <<>> /\ r.sent = t.sent \cup {call}
  BY <1>5, <1>6, ToastsCleared
<1> HIDE DEF r
<1>8. \A U : Innocent(t, U) => Innocent(r, U)
  BY <1>3, <1>7 DEF Innocent, Clean
<1> QED
  BY <1>1, <1>3, <1>7, <1>8

\* The stack with a toast of the tab's own.
LEMMA LocalToastAdded ==
    ASSUME NEW s \in Seq(Toast), Len(s) <= MaxToasts, NEW id \in Local, id \notin IdsOf(s)
    PROVE  LET same == {k \in DOMAIN s : id \in Grouped /\ s[k].id \in Grouped}
               rest == IF same = {} THEN s ELSE RemoveAt(s, CHOOSE k \in same : \A j \in same : k <= j)
               all == Append(rest, [id |-> id, timed |-> TRUE])
               r == IF Len(all) > MaxToasts THEN Tail(all) ELSE all
           IN  /\ r \in Seq(Toast) /\ Len(r) <= MaxToasts
               /\ IdsOf(r) \subseteq IdsOf(s) \cup {id}
               /\ Timely(s, {}) => Timely(r, {})
<1> DEFINE same == {k \in DOMAIN s : id \in Grouped /\ s[k].id \in Grouped}
           first == CHOOSE k \in same : \A j \in same : k <= j
           rest == IF same = {} THEN s ELSE RemoveAt(s, first)
           toast == [id |-> id, timed |-> TRUE]
           all == Append(rest, toast)
           r == IF Len(all) > MaxToasts THEN Tail(all) ELSE all
<1>1. Thinner(s, rest)
  <2>1. CASE same = {}
    BY <2>1, ThinnerSame
  <2>2. CASE same # {}
    <3>1. same \in SUBSET Nat /\ same \subseteq DOMAIN s
      OBVIOUS
    <3> HIDE DEF same
    <3>2. \E k \in same : \A j \in same : k <= j
      BY <2>2, <3>1, NatMinimum
    <3>3. first \in same
      BY <3>2
    <3> HIDE DEF first
    <3> QED
      BY <2>2, <3>1, <3>3, RemoveAtThins
  <2> QED
    BY <2>1, <2>2
<1> HIDE DEF rest
<1>2. rest \in Seq(Toast) /\ toast \in Toast /\ toast.id = id /\ toast.timed
  BY <1>1 DEF Thinner, Toast
<1> HIDE DEF toast
<1>3. /\ all \in Seq(Toast) /\ Len(all) = Len(rest) + 1 /\ DOMAIN all = 1..(Len(rest) + 1)
      /\ \A n \in DOMAIN rest : all[n] = rest[n]
      /\ all[Len(rest) + 1] = toast
  BY <1>2, AppendFacts
<1> HIDE DEF all
<1>4. /\ Len(s) \in Nat /\ Len(rest) \in Nat /\ Len(rest) <= Len(s) /\ MaxToasts \in Nat /\ 1 <= MaxToasts
      /\ DOMAIN rest = 1..Len(rest)
      /\ DOMAIN all = DOMAIN rest \cup {Len(rest) + 1} /\ Len(rest) + 1 \notin DOMAIN rest
  BY <1>1, <1>2, <1>3, Bounds DEF Thinner
<1>5. IdsOf(all) \subseteq IdsOf(s) \cup {id}
  <2>1. IdsOf(rest) \subseteq IdsOf(s)
    BY <1>1 DEF Thinner
  <2> QED
    <3>1. SUFFICES ASSUME NEW k \in DOMAIN all PROVE all[k].id \in IdsOf(s) \cup {id}
      BY DEF IdsOf
    <3>2. CASE k \in DOMAIN rest
      BY <1>3, <2>1, <3>2 DEF IdsOf
    <3>3. CASE k = Len(rest) + 1
      BY <1>2, <1>3, <3>3
    <3> QED
      BY <1>4, <3>2, <3>3
<1>6. ASSUME Timely(s, {}) PROVE Timely(all, {})
  <2>1. Timely(rest, {}) /\ id \notin IdsOf(rest)
    BY <1>1, <1>6 DEF Thinner
  <2> QED
    BY <1>2, <1>3, <1>4, <2>1 DEF Timely, IdsOf
<1>7. r \in Seq(Toast) /\ Len(r) <= MaxToasts /\ IdsOf(r) \subseteq IdsOf(all) /\ (Timely(all, {}) => Timely(r, {}))
  <2>1. CASE Len(all) > MaxToasts
    <3>1. r = Tail(all)
      BY <2>1
    <3> HIDE DEF r
    <3>2. /\ r \in Seq(Toast) /\ Len(r) = Len(all) - 1
          /\ \A k \in DOMAIN r : k + 1 \in DOMAIN all /\ r[k] = all[k + 1]
      BY <1>3, <1>4, <3>1
    <3>3. Len(r) <= MaxToasts
      BY <1>3, <1>4, <3>2
    <3>4. IdsOf(r) \subseteq IdsOf(all)
      BY <3>2 DEF IdsOf
    <3>5. \A i, j \in DOMAIN r : i + 1 = j + 1 => i = j
      BY <3>2
    <3>6. Timely(all, {}) => Timely(r, {})
      BY <3>2, <3>5 DEF Timely
    <3> QED
      BY <3>2, <3>3, <3>4, <3>6
  <2>2. CASE ~(Len(all) > MaxToasts)
    BY <1>3, <1>4, <2>2
  <2> QED
    BY <2>1, <2>2
<1> HIDE DEF r
<1> QED
  BY <1>5, <1>6, <1>7 DEF r, all, toast, rest

-----------------------------------------------------------------------------
(* The manager                                                             *)

Distinct(s) == \A j, k \in DOMAIN s : s[j].id = s[k].id => j = k

Filed(its, ups) ==
    /\ its \in Seq(Item) /\ Distinct(its)
    /\ ups \in Seq(Nat) /\ \A k \in DOMAIN ups : ups[k] \in DOMAIN its

\* What the next snapshot may bring to the stack of toasts.
Bring(cur, its, ups) == {its[ups[k]].id : k \in {j \in DOMAIN ups : j > cur /\ ~its[ups[j]].read}}

\* New items and updates, where only the notifications in new differ.
Refiled(its, ups, its1, ups1, new) ==
    /\ Filed(its1, ups1)
    /\ \A k \in DOMAIN its1 : its1[k] \in new \/ \E j \in DOMAIN its : its1[k] = its[j]
    /\ \A cur \in Nat : \A id \in Bring(cur, its1, ups1) :
           id \in Bring(cur, its, ups) \/ \E n \in new : n.id = id /\ ~n.read

LEMMA EnumerationGrows ==
    ASSUME NEW n \in Nat, NEW b \in Nat, NEW f \in [1..n -> 1..b],
           \A i, j \in 1..n : i < j => f[i] < f[j], NEW k \in 1..n
    PROVE  k <= f[k]
<1> DEFINE B == {i \in 1..n : ~(i <= f[i])}
<1>1. SUFFICES ASSUME B # {} PROVE FALSE
  OBVIOUS
<1>2. B \in SUBSET Nat
  OBVIOUS
<1>3. PICK i \in B : \A j \in B : i <= j
  <2> HIDE DEF B
  <2> QED
    BY <1>1, <1>2, NatMinimum
<1>4. i \in 1..n /\ f[i] \in 1..b /\ ~(i <= f[i])
  OBVIOUS
<1>5. i - 1 \in 1..n /\ i - 1 < i
  BY <1>4
<1>6. i - 1 \notin B
  BY <1>3, <1>5
<1>7. i - 1 <= f[i - 1] /\ f[i - 1] \in 1..b /\ f[i - 1] < f[i]
  BY <1>4, <1>5, <1>6
<1> QED
  BY <1>4, <1>5, <1>7

LEMMA RenumberIs ==
    ASSUME NEW b \in Nat, NEW ups \in Seq(Nat), \A k \in DOMAIN ups : ups[k] \in 1..b, NEW n \in Nat
    PROVE  /\ Renumber(ups, n) \in Seq(Nat)
           /\ \A k \in DOMAIN Renumber(ups, n) :
                 \E j \in DOMAIN ups : k <= j /\ ups[j] > n /\ Renumber(ups, n)[k] = ups[j] - n
<1> DEFINE S == {k \in DOMAIN ups : ups[k] > n}
           kept == Ordered(S)
           c == Cardinality(S)
           r == [k \in DOMAIN kept |-> ups[kept[k]] - n]
<1>1. Renumber(ups, n) = r
  BY DEF Renumber
<1>2. Len(ups) \in Nat /\ S \in SUBSET (1..Len(ups)) /\ \A k \in S : k \in DOMAIN ups /\ ups[k] > n
  OBVIOUS
<1> HIDE DEF S
<1>3. Enumerates(kept, S) /\ c \in Nat /\ DOMAIN kept = 1..c
  BY <1>2, OrderedFacts
<1> HIDE DEF kept
<1>4. kept \in [1..c -> 1..Len(ups)] /\ \A i, j \in 1..c : i < j => kept[i] < kept[j]
  BY <1>2, <1>3 DEF Enumerates
<1>5. \A k \in 1..c : kept[k] \in S
  BY <1>3 DEF Enumerates
<1> HIDE DEF c
<1>6. \A k \in 1..c : k <= kept[k]
  BY <1>2, <1>3, <1>4, EnumerationGrows
<1>7. \A k \in 1..c : kept[k] \in DOMAIN ups /\ ups[kept[k]] > n /\ ups[kept[k]] \in Nat /\ ups[kept[k]] - n \in Nat
  <2>1. \A k \in DOMAIN ups : ups[k] \in Nat
    OBVIOUS
  <2>2. SUFFICES ASSUME NEW k \in 1..c
                 PROVE  kept[k] \in DOMAIN ups /\ ups[kept[k]] > n /\ ups[kept[k]] \in Nat /\ ups[kept[k]] - n \in Nat
    OBVIOUS
  <2>3. kept[k] \in DOMAIN ups /\ ups[kept[k]] > n
    BY <1>2, <1>5
  <2> QED
    BY <2>1, <2>3
<1>8. DOMAIN r = 1..c /\ \A k \in 1..c : r[k] = ups[kept[k]] - n
  BY <1>3
<1>9. r = [k \in DOMAIN r |-> r[k]]
  OBVIOUS
<1> HIDE DEF r
<1>10. r \in [1..c -> Nat]
  BY <1>7, <1>8, <1>9
<1>11. r \in Seq(Nat)
  BY <1>3, <1>10, MappedSeq
<1> QED
  BY <1>1, <1>6, <1>7, <1>8, <1>11

LEMMA Shortened ==
    ASSUME NEW S, NEW its \in Seq(S), NEW n \in 0..Len(its)
    PROVE  /\ SubSeq(its, n + 1, Len(its)) \in Seq(S)
           /\ Len(SubSeq(its, n + 1, Len(its))) = Len(its) - n
           /\ \A k \in 1..(Len(its) - n) : SubSeq(its, n + 1, Len(its))[k] = its[k + n] /\ k + n \in DOMAIN its
OBVIOUS

LEMMA LimitEnforced ==
    ASSUME NEW its, NEW ups, Filed(its, ups), EnforceLimit(its, ups)
    PROVE  Refiled(its, ups, items', updates', {}) /\ Len(items') <= Limit
<1> DEFINE n == IF Len(its) > Limit THEN Len(its) - Limit ELSE 0
<1>1. its \in Seq(Item) /\ Len(its) \in Nat /\ DOMAIN its = 1..Len(its) /\ Limit \in Nat
  BY Bounds DEF Filed
<1>2. n \in Nat /\ n \in 0..Len(its) /\ Len(its) - n <= Limit
  BY <1>1
<1>3. items' = SubSeq(its, n + 1, Len(its)) /\ updates' = Renumber(ups, n)
  BY DEF EnforceLimit
<1> HIDE DEF n
<1> DEFINE d == Len(its) - n
           its1 == items'
           ups1 == updates'
<1>4. /\ its1 \in Seq(Item) /\ Len(its1) = d /\ DOMAIN its1 = 1..d /\ d \in Nat
      /\ \A k \in 1..d : its1[k] = its[k + n] /\ k + n \in DOMAIN its
  <2>1. its1 = SubSeq(its, n + 1, Len(its))
    BY <1>3
  <2> HIDE DEF its1
  <2>2. d \in Nat
    BY <1>1, <1>2
  <2>3. /\ its1 \in Seq(Item) /\ Len(its1) = d
        /\ \A k \in 1..d : its1[k] = its[k + n] /\ k + n \in DOMAIN its
    BY <1>1, <1>2, <2>1, Shortened
  <2> HIDE DEF d
  <2> QED
    BY <2>2, <2>3
<1>5. /\ ups1 \in Seq(Nat)
      /\ \A k \in DOMAIN ups1 : \E j \in DOMAIN ups : k <= j /\ ups[j] > n /\ ups1[k] = ups[j] - n
  BY <1>1, <1>2, <1>3, RenumberIs DEF Filed
<1>6. ups \in Seq(Nat) /\ DOMAIN ups \in SUBSET Nat /\ \A k \in DOMAIN ups : ups[k] \in 1..Len(its)
  BY <1>1 DEF Filed
<1>7. DOMAIN ups1 \in SUBSET Nat
  BY <1>5
<1> HIDE DEF its1, ups1
<1>8. \A k \in DOMAIN ups1 : \E j \in DOMAIN ups :
          k <= j /\ ups1[k] \in DOMAIN its1 /\ its1[ups1[k]] = its[ups[j]]
  <2>1. SUFFICES ASSUME NEW k \in DOMAIN ups1
                 PROVE  \E j \in DOMAIN ups : k <= j /\ ups1[k] \in DOMAIN its1 /\ its1[ups1[k]] = its[ups[j]]
    OBVIOUS
  <2>2. PICK j \in DOMAIN ups : k <= j /\ ups[j] > n /\ ups1[k] = ups[j] - n
    BY <1>5
  <2>3. ups[j] \in 1..Len(its)
    BY <1>6
  <2>4. ups1[k] \in 1..d /\ ups1[k] + n = ups[j]
    BY <1>1, <1>2, <2>2, <2>3
  <2> QED
    BY <1>4, <2>2, <2>4
<1>9. Distinct(its1)
  <2>1. \A i, k \in 1..d : its1[i].id = its1[k].id => i = k
    <3>1. \A i, k \in 1..d : k + n \in DOMAIN its
      BY <1>4
    <3>2. Distinct(its)
      BY DEF Filed
    <3>3. \A i, k \in 1..d : its1[i].id = its1[k].id => i + n = k + n
      BY <1>4, <3>2 DEF Distinct
    <3> QED
      BY <1>2, <3>3
  <2> QED
    BY <1>4, <2>1 DEF Distinct
<1>10. Filed(its1, ups1)
  BY <1>4, <1>5, <1>8, <1>9 DEF Filed
<1>11. ASSUME NEW cur \in Nat PROVE Bring(cur, its1, ups1) \subseteq Bring(cur, its, ups)
  <2>1. SUFFICES ASSUME NEW k \in DOMAIN ups1, k > cur, ~its1[ups1[k]].read
                 PROVE  its1[ups1[k]].id \in Bring(cur, its, ups)
    BY DEF Bring
  <2>2. PICK j \in DOMAIN ups : k <= j /\ its1[ups1[k]] = its[ups[j]]
    BY <1>8
  <2>3. j > cur
    BY <1>6, <1>7, <2>1, <2>2
  <2> QED
    BY <2>1, <2>2, <2>3 DEF Bring
<1>12. Len(its1) <= Limit
  BY <1>2, <1>4
<1>13. \A k \in DOMAIN its1 : \E j \in DOMAIN its : its1[k] = its[j]
  BY <1>4
<1> QED
  BY <1>10, <1>11, <1>12, <1>13 DEF Refiled, its1, ups1

LEMMA RefiledAgain ==
    ASSUME NEW its, NEW ups, NEW its1, NEW ups1, NEW its2, NEW ups2, NEW new,
           Refiled(its, ups, its1, ups1, new), Refiled(its1, ups1, its2, ups2, {})
    PROVE  Refiled(its, ups, its2, ups2, new)
<1>1. Filed(its2, ups2)
  BY DEF Refiled
<1>2. \A k \in DOMAIN its2 : its2[k] \in new \/ \E j \in DOMAIN its : its2[k] = its[j]
  <2>1. SUFFICES ASSUME NEW k \in DOMAIN its2
                 PROVE  its2[k] \in new \/ \E j \in DOMAIN its : its2[k] = its[j]
    OBVIOUS
  <2>2. PICK i \in DOMAIN its1 : its2[k] = its1[i]
    BY DEF Refiled
  <2> QED
    BY <2>2 DEF Refiled
<1>3. \A cur \in Nat : \A id \in Bring(cur, its2, ups2) :
          id \in Bring(cur, its, ups) \/ \E n \in new : n.id = id /\ ~n.read
  BY DEF Refiled
<1> QED
  BY <1>1, <1>2, <1>3 DEF Refiled

LEMMA Added ==
    ASSUME Filed(items, updates), Len(items) <= Limit, NEW item \in Item, AddNotification(item)
    PROVE  Refiled(items, updates, items', updates', {item}) /\ Len(items') <= Limit
<1> DEFINE old == Places(items, item.id)
<1>1. /\ items \in Seq(Item) /\ Len(items) \in Nat /\ DOMAIN items = 1..Len(items) /\ Limit \in Nat
      /\ updates \in Seq(Nat) /\ Len(updates) \in Nat /\ DOMAIN updates = 1..Len(updates)
      /\ \A k \in DOMAIN updates : updates[k] \in DOMAIN items
      /\ Distinct(items)
  BY Bounds DEF Filed
<1>2. CASE old # {}
  <2> DEFINE its1 == [k \in DOMAIN items |-> IF k \in old THEN item ELSE items[k]]
             more == SetToSeq(old)
             ups1 == updates \o more
  <2>1. items' = its1 /\ updates' = ups1
    BY <1>2 DEF AddNotification
  <2>2. old \in SUBSET (1..Len(items)) /\ \A k \in old : k \in DOMAIN items /\ items[k].id = item.id
    BY <1>1 DEF Places
  <2>3. \A k \in DOMAIN items : items[k].id = item.id => k \in old
    BY DEF Places
  <2> HIDE DEF old
  <2>4. /\ more \in [1..Len(more) -> old] /\ Len(more) \in Nat
        /\ \A k \in 1..Len(more) : more[k] \in old
    <3> DEFINE c == Cardinality(old)
    <3>1. PICK f : Enumerates(f, old)
      BY <1>1, <2>2, EnumerationExists
    <3>2. c \in Nat
      BY <1>1, <2>2, OrderedFacts
    <3>3. f \in [1..c -> old] /\ \A i, j \in 1..c : i < j => f[i] < f[j]
      BY <3>1 DEF Enumerates
    <3>4. IsInjective(f)
      <4>1. SUFFICES ASSUME NEW i \in 1..c, NEW j \in 1..c, f[i] = f[j] PROVE i = j
        BY <3>3 DEF IsInjective
      <4>2. f[i] \in old /\ old \in SUBSET Nat
        BY <2>2, <3>3
      <4>3. f[i] \in Nat /\ ~(f[i] < f[i])
        <5>1. \A x \in Nat : ~(x < x)
          OBVIOUS
        <5>2. f[i] \in Nat
          BY <4>2
        <5> QED
          BY <5>1, <5>2
      <4>4. ~(i < j) /\ ~(j < i)
        BY <3>3, <4>1, <4>3
      <4> QED
        BY <3>2, <4>4
    <3>5. more \in [1..c -> old]
      BY <3>3, <3>4 DEF SetToSeq
    <3> HIDE DEF more, c
    <3> QED
      BY <3>2, <3>5, MappedSeq
  <2>5. its1 \in [1..Len(items) -> Item] /\ DOMAIN its1 = DOMAIN items
    BY <1>1
  <2>6. \A k \in DOMAIN items : /\ its1[k].id = items[k].id /\ (k \in old => its1[k] = item)
                                /\ (k \notin old => its1[k] = items[k])
    BY <2>2
  <2> HIDE DEF its1, more
  <2>7. its1 \in Seq(Item) /\ Len(its1) = Len(items)
    BY <1>1, <2>5, MappedSeq
  <2>8. /\ ups1 \in Seq(Nat) /\ Len(ups1) = Len(updates) + Len(more)
        /\ \A k \in 1..(Len(updates) + Len(more)) :
              ups1[k] = IF k <= Len(updates) THEN updates[k] ELSE more[k - Len(updates)]
    <3>1. more \in Seq(Nat)
      <4>1. more \in [1..Len(more) -> Nat]
        <5>1. \A k \in old : k \in Nat
          BY <2>2
        <5>2. \A S : old \subseteq S => \A n : [n -> old] \subseteq [n -> S]
          OBVIOUS
        <5> QED
          BY <2>4, <5>1, <5>2, Zenon
      <4> QED
        BY <2>4, <4>1, MappedSeq
    <3> QED
      BY <1>1, <3>1
  <2> HIDE DEF ups1
  <2>9. \A k \in DOMAIN ups1 : (k \in DOMAIN updates /\ ups1[k] = updates[k]) \/ ups1[k] \in old
    <3>1. SUFFICES ASSUME NEW k \in DOMAIN ups1
                   PROVE  (k \in DOMAIN updates /\ ups1[k] = updates[k]) \/ ups1[k] \in old
      OBVIOUS
    <3>2. k \in 1..(Len(updates) + Len(more))
      BY <2>8
    <3>3. CASE k <= Len(updates)
      BY <1>1, <2>8, <3>2, <3>3
    <3>4. CASE ~(k <= Len(updates))
      <4>1. k - Len(updates) \in 1..Len(more)
        BY <1>1, <2>4, <3>2, <3>4
      <4> QED
        BY <2>4, <2>8, <3>2, <3>4, <4>1
    <3> QED
      BY <3>3, <3>4
  <2>10. Distinct(its1)
    BY <1>1, <2>5, <2>6 DEF Distinct
  <2>11. Filed(its1, ups1)
    BY <1>1, <2>2, <2>5, <2>7, <2>8, <2>9, <2>10 DEF Filed
  <2>12. \A k \in DOMAIN its1 : its1[k] = item \/ its1[k] = items[k]
    BY <2>5, <2>6
  <2>13. ASSUME NEW cur \in Nat, NEW k \in DOMAIN ups1, k > cur, ~its1[ups1[k]].read
         PROVE  its1[ups1[k]].id \in Bring(cur, items, updates) \/ its1[ups1[k]] = item
    <3>1. CASE ups1[k] \in old
      BY <2>2, <2>6, <3>1
    <3>2. CASE ups1[k] \notin old
      <4>1. k \in DOMAIN updates /\ ups1[k] = updates[k] /\ updates[k] \in DOMAIN items
        BY <1>1, <2>9, <3>2
      <4>2. its1[ups1[k]] = items[updates[k]]
        BY <2>6, <3>2, <4>1
      <4> QED
        BY <2>13, <4>1, <4>2 DEF Bring
    <3> QED
      BY <3>1, <3>2
  <2>14. ASSUME NEW cur \in Nat, NEW id \in Bring(cur, its1, ups1)
         PROVE  id \in Bring(cur, items, updates) \/ \E n \in {item} : n.id = id /\ ~n.read
    <3>1. PICK k \in DOMAIN ups1 : k > cur /\ ~its1[ups1[k]].read /\ id = its1[ups1[k]].id
      BY DEF Bring
    <3> QED
      BY <2>13, <3>1
  <2>15. Refiled(items, updates, its1, ups1, {item})
    BY <2>5, <2>11, <2>12, <2>14 DEF Refiled
  <2> QED
    BY <2>1, <2>7, <2>15
<1>3. CASE old = {}
  <2> DEFINE its1 == Append(items, item)
             ups1 == Append(updates, Len(items) + 1)
  <2>1. EnforceLimit(its1, ups1)
    BY <1>3 DEF AddNotification
  <2>2. \A k \in DOMAIN items : items[k].id # item.id
    BY <1>3 DEF Places
  <2>3. /\ its1 \in Seq(Item) /\ DOMAIN its1 = 1..(Len(items) + 1)
        /\ \A k \in DOMAIN items : its1[k] = items[k]
        /\ its1[Len(items) + 1] = item
    BY <1>1, AppendFacts
  <2>4. /\ ups1 \in Seq(Nat) /\ DOMAIN ups1 = 1..(Len(updates) + 1)
        /\ \A k \in DOMAIN updates : ups1[k] = updates[k]
        /\ ups1[Len(updates) + 1] = Len(items) + 1
    BY <1>1, AppendFacts
  <2> HIDE DEF its1, ups1
  <2>5. /\ DOMAIN its1 = DOMAIN items \cup {Len(items) + 1}
        /\ DOMAIN ups1 = DOMAIN updates \cup {Len(updates) + 1}
    BY <1>1, <2>3, <2>4
  <2>6. Distinct(its1)
    BY <1>1, <2>2, <2>3, <2>5 DEF Distinct
  <2>7. Filed(its1, ups1)
    BY <1>1, <2>3, <2>4, <2>5, <2>6 DEF Filed
  <2>8. \A k \in DOMAIN its1 : its1[k] \in {item} \/ \E j \in DOMAIN items : its1[k] = items[j]
    BY <2>3, <2>5
  <2>9. ASSUME NEW cur \in Nat, NEW id \in Bring(cur, its1, ups1)
        PROVE  id \in Bring(cur, items, updates) \/ \E n \in {item} : n.id = id /\ ~n.read
    <3>1. PICK k \in DOMAIN ups1 : k > cur /\ ~its1[ups1[k]].read /\ id = its1[ups1[k]].id
      BY DEF Bring
    <3>2. CASE k \in DOMAIN updates
      <4>1. its1[ups1[k]] = items[updates[k]]
        BY <1>1, <2>3, <2>4, <3>2
      <4> QED
        BY <3>1, <3>2, <4>1 DEF Bring
    <3>3. CASE k = Len(updates) + 1
      BY <2>3, <2>4, <3>1, <3>3
    <3> QED
      BY <2>5, <3>2, <3>3
  <2>10. Refiled(items, updates, its1, ups1, {item})
    BY <2>7, <2>8, <2>9 DEF Refiled
  <2>11. Refiled(its1, ups1, items', updates', {}) /\ Len(items') <= Limit
    BY <2>1, <2>7, LimitEnforced
  <2> QED
    BY <2>10, <2>11, RefiledAgain
<1> QED
  BY <1>2, <1>3

LEMMA ReadMarked ==
    ASSUME Filed(items, updates), NEW ids, MarkReadByIds(ids)
    PROVE  /\ Refiled(items, updates, items', updates', {n \in Item : n.read /\ n.id \in ids})
           /\ Len(items') = Len(items) /\ IdsOf(items') = IdsOf(items)
<1> DEFINE changed == {k \in DOMAIN items : items[k].id \in ids /\ ~items[k].read}
           new == {n \in Item : n.read /\ n.id \in ids}
           its1 == [k \in DOMAIN items |-> IF k \in changed THEN [items[k] EXCEPT !.read = TRUE] ELSE items[k]]
           more == Ordered(changed)
           ups1 == updates \o more
<1>1. /\ items \in Seq(Item) /\ Len(items) \in Nat /\ DOMAIN items = 1..Len(items)
      /\ updates \in Seq(Nat) /\ Len(updates) \in Nat /\ DOMAIN updates = 1..Len(updates)
      /\ \A k \in DOMAIN updates : updates[k] \in DOMAIN items
      /\ Distinct(items)
  BY DEF Filed
<1>2. items' = its1 /\ updates' = ups1
  BY DEF MarkReadByIds
<1>3. changed \in SUBSET (1..Len(items)) /\ \A k \in changed : items[k].id \in ids
  BY <1>1
<1>4. \A k \in DOMAIN items :
        /\ its1[k] \in Item /\ its1[k].id = items[k].id
        /\ its1[k] \in new \/ (k \notin changed /\ its1[k] = items[k])
        /\ k \in changed => its1[k].read
  <2>1. \A n \in Item : [n EXCEPT !.read = TRUE] \in Item /\ [n EXCEPT !.read = TRUE].id = n.id
                        /\ [n EXCEPT !.read = TRUE].read
    BY DEF Item
  <2>2. \A k \in DOMAIN items : items[k] \in Item
    BY <1>1
  <2> HIDE DEF changed
  <2>3. SUFFICES ASSUME NEW k \in DOMAIN items
                 PROVE  /\ its1[k] \in Item /\ its1[k].id = items[k].id
                        /\ its1[k] \in new \/ (k \notin changed /\ its1[k] = items[k])
                        /\ k \in changed => its1[k].read
    OBVIOUS
  <2>4. CASE k \in changed
    <3>1. its1[k] = [items[k] EXCEPT !.read = TRUE]
      BY <2>4
    <3> HIDE DEF its1
    <3> QED
      BY <1>3, <2>1, <2>2, <2>4, <3>1
  <2>5. CASE k \notin changed
    BY <2>2, <2>5
  <2> QED
    BY <2>4, <2>5
<1> HIDE DEF changed
<1>5. DOMAIN its1 = DOMAIN items /\ its1 = [k \in DOMAIN its1 |-> its1[k]]
  OBVIOUS
<1> HIDE DEF its1, new
<1>6. its1 \in [1..Len(items) -> Item]
  BY <1>1, <1>4, <1>5
<1>7. its1 \in Seq(Item) /\ Len(its1) = Len(items)
  BY <1>1, <1>6, MappedSeq
<1>8. more \in [1..Len(more) -> changed] /\ Len(more) \in Nat
  BY <1>1, <1>3, OrderedFacts DEF Enumerates
<1> HIDE DEF more
<1>9. more \in Seq(Nat) /\ \A k \in 1..Len(more) : more[k] \in changed
  <2>1. \A k \in changed : k \in Nat
    BY <1>3
  <2>2. \A S : changed \subseteq S => \A n : [n -> changed] \subseteq [n -> S]
    OBVIOUS
  <2>3. more \in [1..Len(more) -> Nat]
    BY <1>8, <2>1, <2>2, Zenon
  <2> QED
    BY <1>8, <2>3, MappedSeq
<1>10. /\ ups1 \in Seq(Nat) /\ Len(ups1) = Len(updates) + Len(more)
       /\ \A k \in 1..(Len(updates) + Len(more)) :
              ups1[k] = IF k <= Len(updates) THEN updates[k] ELSE more[k - Len(updates)]
  BY <1>1, <1>9
<1> HIDE DEF ups1
<1>11. \A k \in DOMAIN ups1 : (k \in DOMAIN updates /\ ups1[k] = updates[k]) \/ ups1[k] \in changed
  <2>1. SUFFICES ASSUME NEW k \in DOMAIN ups1
                 PROVE  (k \in DOMAIN updates /\ ups1[k] = updates[k]) \/ ups1[k] \in changed
    OBVIOUS
  <2>2. k \in 1..(Len(updates) + Len(more))
    BY <1>10
  <2>3. CASE k <= Len(updates)
    BY <1>1, <1>10, <2>2, <2>3
  <2>4. CASE ~(k <= Len(updates))
    <3>1. k - Len(updates) \in 1..Len(more)
      BY <1>1, <1>8, <2>2, <2>4
    <3> QED
      BY <1>9, <1>10, <2>2, <2>4, <3>1
  <2> QED
    BY <2>3, <2>4
<1>12. Distinct(its1)
  BY <1>1, <1>4, <1>5 DEF Distinct
<1>13. Filed(its1, ups1)
  BY <1>1, <1>3, <1>5, <1>7, <1>10, <1>11, <1>12 DEF Filed
<1>14. ASSUME NEW cur \in Nat, NEW id \in Bring(cur, its1, ups1)
       PROVE  id \in Bring(cur, items, updates)
  <2>1. PICK k \in DOMAIN ups1 : k > cur /\ ~its1[ups1[k]].read /\ id = its1[ups1[k]].id
    BY DEF Bring
  <2>2. ups1[k] \notin changed
    BY <1>1, <1>3, <1>4, <2>1
  <2>3. k \in DOMAIN updates /\ ups1[k] = updates[k] /\ updates[k] \in DOMAIN items
    BY <1>1, <1>11, <2>2
  <2>4. ~its1[updates[k]].read /\ id = items[updates[k]].id
    BY <1>4, <2>1, <2>3
  <2>5. its1[updates[k]] = items[updates[k]]
    BY <1>4, <2>3, <2>4 DEF new
  <2> QED
    BY <2>1, <2>3, <2>4, <2>5 DEF Bring
<1>15. \A k \in DOMAIN its1 : its1[k] \in new \/ \E j \in DOMAIN items : its1[k] = items[j]
  BY <1>4, <1>5
<1>16. IdsOf(its1) = IdsOf(items)
  BY <1>4, <1>5 DEF IdsOf
<1> QED
  BY <1>2, <1>7, <1>13, <1>14, <1>15, <1>16 DEF Refiled, new

\* A snapshot lists each item behind the cursor, once.
LEMMA OutputIs ==
    ASSUME Filed(items, updates), cursor \in Nat
    PROVE  /\ Output \in Seq(Item) /\ Once(Output) /\ Distinct(Output)
           /\ \A k \in DOMAIN updates : k > cursor => items[updates[k]].id \in IdsOf(Output)
           /\ \A k \in DOMAIN Output : \E j \in DOMAIN items : Output[k] = items[j]
           /\ Unreads(Output) \subseteq Bring(cursor, items, updates)
<1> DEFINE ups == SubSeq(updates, cursor + 1, Len(updates))
           first == {k \in DOMAIN ups : ups[k] \in DOMAIN items /\ \A j \in 1..(k - 1) : ups[j] # ups[k]}
           at == Ordered(first)
           c == Cardinality(first)
           out == [k \in DOMAIN at |-> items[ups[at[k]]]]
<1>1. /\ items \in Seq(Item) /\ Distinct(items) /\ \A k \in DOMAIN items : items[k] \in Item
      /\ updates \in Seq(Nat) /\ Len(updates) \in Nat /\ DOMAIN updates = 1..Len(updates)
  BY DEF Filed
<1>2. Output = out
  BY DEF Output
<1>3. /\ ups \in Seq(Nat) /\ Len(ups) \in Nat /\ DOMAIN ups = 1..Len(ups)
      /\ \A k \in DOMAIN ups : k + cursor \in DOMAIN updates /\ k + cursor > cursor /\ ups[k] = updates[k + cursor]
      /\ \A k \in DOMAIN updates : k > cursor => k - cursor \in DOMAIN ups
  <2>1. CASE cursor > Len(updates)
    <3>1. ups = <<>>
      BY <1>1, <2>1
    <3> HIDE DEF ups
    <3>2. \A k \in DOMAIN updates : ~(k > cursor)
      BY <1>1, <2>1
    <3> QED
      BY <3>1, <3>2
  <2>2. CASE ~(cursor > Len(updates))
    <3>1. cursor \in 0..Len(updates) /\ Len(updates) - cursor \in Nat
      BY <1>1, <2>2
    <3>2. /\ ups \in Seq(Nat) /\ Len(ups) = Len(updates) - cursor
          /\ \A k \in 1..(Len(updates) - cursor) : ups[k] = updates[k + cursor] /\ k + cursor \in DOMAIN updates
      BY <1>1, <3>1, Shortened
    <3> HIDE DEF ups
    <3>3. \A k \in 1..(Len(updates) - cursor) : k + cursor > cursor
      BY <1>1
    <3>4. Len(ups) \in Nat /\ DOMAIN ups = 1..(Len(updates) - cursor)
      BY <3>1, <3>2
    <3>5. \A k \in DOMAIN updates : k > cursor => k - cursor \in DOMAIN ups
      BY <1>1, <3>4
    <3> QED
      BY <3>2, <3>3, <3>4, <3>5
  <2> QED
    BY <2>1, <2>2
<1> HIDE DEF ups
<1>4. /\ first \in SUBSET (1..Len(ups))
      /\ \A k \in first : k \in DOMAIN ups /\ ups[k] \in DOMAIN items /\ \A j \in 1..(k - 1) : ups[j] # ups[k]
  BY <1>3
<1> HIDE DEF first
<1>5. Enumerates(at, first) /\ c \in Nat /\ DOMAIN at = 1..c
  BY <1>3, <1>4, OrderedFacts
<1> HIDE DEF at
<1>6. \A k \in 1..c : at[k] \in first
  BY <1>5 DEF Enumerates
<1>7. \A i, j \in 1..c : i < j => at[i] < at[j]
  BY <1>5 DEF Enumerates
<1> HIDE DEF c
<1>8. \A k \in 1..c : ups[at[k]] \in DOMAIN items /\ out[k] = items[ups[at[k]]] /\ at[k] \in DOMAIN ups
  BY <1>4, <1>5, <1>6
<1>9. DOMAIN out = 1..c /\ out = [k \in DOMAIN out |-> out[k]]
  BY <1>5
<1> HIDE DEF out
<1>10. out \in Seq(Item)
  <2>1. \A k \in 1..c : out[k] \in Item
    BY <1>1, <1>8
  <2>2. out \in [1..c -> Item]
    BY <1>9, <2>1
  <2> QED
    BY <1>5, <2>2, MappedSeq
<1>11. \A i, j \in 1..c : i < j => ups[at[i]] # ups[at[j]]
  <2>1. SUFFICES ASSUME NEW i \in 1..c, NEW j \in 1..c, i < j PROVE ups[at[i]] # ups[at[j]]
    OBVIOUS
  <2>2. at[i] \in Nat /\ at[j] \in Nat /\ 1 <= at[i] /\ at[i] < at[j]
    BY <1>3, <1>7, <1>8, <2>1
  <2>3. at[i] \in 1..(at[j] - 1)
    BY <2>2
  <2> QED
    BY <1>4, <1>6, <2>3
<1>12. \A i, j \in 1..c : out[i].id = out[j].id => i = j
  <2>1. SUFFICES ASSUME NEW i \in 1..c, NEW j \in 1..c, out[i].id = out[j].id PROVE i = j
    OBVIOUS
  <2>2. ups[at[i]] = ups[at[j]]
    BY <1>1, <1>8, <2>1 DEF Distinct
  <2>3. ~(i < j) /\ ~(j < i)
    BY <1>11, <2>2
  <2> QED
    BY <1>5, <2>3
<1>13. Once(out) /\ Distinct(out)
  BY <1>9, <1>12 DEF Once, Distinct
<1>14. Unreads(out) \subseteq Bring(cursor, items, updates)
  <2>1. SUFFICES ASSUME NEW k \in 1..c, ~out[k].read PROVE out[k].id \in Bring(cursor, items, updates)
    BY <1>9 DEF Unreads
  <2>2. out[k] = items[updates[at[k] + cursor]] /\ at[k] + cursor \in DOMAIN updates /\ at[k] + cursor > cursor
    BY <1>3, <1>8
  <2> QED
    BY <2>1, <2>2 DEF Bring
<1>15. ASSUME NEW k \in DOMAIN updates, k > cursor PROVE items[updates[k]].id \in IdsOf(out)
  <2> DEFINE S == {m \in DOMAIN ups : ups[m] = updates[k]}
  <2>1. k - cursor \in S
    BY <1>1, <1>3, <1>15
  <2>2. S \in SUBSET Nat
    BY <1>3
  <2>3. PICK m \in S : \A j \in S : m <= j
    <3> HIDE DEF S
    <3> QED
      BY <2>1, <2>2, NatMinimum
  <2>4. m \in 1..Len(ups) /\ ups[m] = updates[k] /\ updates[k] \in DOMAIN items
    BY <1>3 DEF Filed
  <2>5. ASSUME NEW j \in 1..(m - 1) PROVE ups[j] # ups[m]
    <3>1. j \in DOMAIN ups /\ ~(m <= j)
      BY <1>3, <2>4
    <3>2. j \notin S
      <4> HIDE DEF S
      <4> QED
        BY <2>3, <3>1
    <3> QED
      BY <2>4, <3>1, <3>2
  <2>6. m \in first
    BY <1>3, <2>4, <2>5 DEF first
  <2>7. PICK i \in 1..c : at[i] = m
    BY <1>5, <2>6 DEF Enumerates, c
  <2>8. out[i] = items[updates[k]]
    BY <1>8, <2>4, <2>7
  <2> QED
    BY <1>9, <2>8 DEF IdsOf
<1> QED
  BY <1>2, <1>8, <1>9, <1>10, <1>13, <1>14, <1>15

-----------------------------------------------------------------------------
(* The steps of the tab                                                    *)

\* What no step of the user, or of a timer, does to the store.
Moved(t, r, U) ==
    /\ Stored(r)
    /\ Innocent(t, U) => Innocent(r, U)
    /\ IdsOf(r.toasts) \subseteq IdsOf(t.toasts) \cup Local
    /\ Timely(t.toasts, {}) => Timely(r.toasts, {})

Clears(t) == \E c \in t.sent : c.op = "clear"

LEMMA KeptMoved ==
    ASSUME NEW t, Stored(t), NEW r, NEW U, Kept(t, r, U), Thinner(t.toasts, r.toasts)
    PROVE  Moved(t, r, U) /\ (Clears(r) => Clears(t))
<1>1. Len(t.toasts) \in Nat /\ Len(r.toasts) \in Nat /\ MaxToasts \in Nat
  BY Bounds DEF Stored, StoreOK, Store, Thinner
<1>2. Stored(r)
  BY <1>1 DEF Stored, Kept, Thinner
<1>3. Clears(r) => Clears(t)
  BY DEF Clears, Kept
<1> QED
  BY <1>2, <1>3 DEF Moved, Kept, Thinner

LEMMA CallTaken ==
    ASSUME NEW t, Stored(t), NEW call, NEW U
    PROVE  LET r == [t EXCEPT !.sent = @ \ {call}]
           IN  Moved(t, r, U) /\ (Clears(r) => Clears(t)) /\ r.sent = t.sent \ {call} /\ r.toasts = t.toasts
<1> DEFINE r == [t EXCEPT !.sent = @ \ {call}]
<1>1. t \in Store
  BY DEF Stored, StoreOK
<1>2. r \in Store /\ r.list = t.list /\ r.toasts = t.toasts /\ r.sent = t.sent \ {call}
  BY <1>1 DEF Store
<1> HIDE DEF r
<1>3. Stored(r)
  BY <1>2 DEF Stored, StoreOK
<1> QED
  BY <1>2, <1>3 DEF Moved, Innocent, Clears, r

LEMMA TabStep ==
    ASSUME Stored(tab), NEW U \in SUBSET Urgent, U \cap touched' = {},
           \/ \E id \in Ids : Click(id)
           \/ \E id \in Ids \cup Local : ToastTimer(id) \/ StrayTimer(id) \/ DismissToast(id)
           \/ \E id \in Local : LocalToast(id)
           \/ OpenModal \/ CloseModal
    PROVE  Moved(tab, tab', U) /\ (Clears(tab') => Clears(tab))
<1>1. tab \in Store /\ StoreOK(tab) /\ tab.toasts \in Seq(Toast)
  BY DEF Stored, StoreOK, Store
<1>2. CASE \E id \in Ids : Click(id)
  <2>1. PICK id \in Ids : Click(id)
    BY <1>2
  <2>2. tab' = MarkAsRead(tab, id) /\ id \notin U
    BY <2>1 DEF Click
  <2>3. StoreOK(tab') /\ Marked(tab, tab', {id})
    BY <1>1, <2>2, MarkAsReadIs
  <2>4. tab'.toasts = tab.toasts
    BY <2>3 DEF Marked
  <2> QED
    BY <1>1, <2>2, <2>3, <2>4, MarkedKept, KeptMoved, ThinnerSame
<1>3. CASE \E id \in Ids \cup Local : ToastTimer(id)
  <2>1. PICK id \in Ids \cup Local : ToastTimer(id)
    BY <1>3
  <2>2. tab' = RemoveFromToastStack(tab, id, FALSE)
    BY <2>1 DEF ToastTimer
  <2> QED
    BY <1>1, <2>2, RemovedKept, KeptMoved
<1>4. CASE \E id \in Ids \cup Local : StrayTimer(id)
  <2>1. PICK id \in Ids \cup Local : StrayTimer(id)
    BY <1>4
  <2> DEFINE t == [tab EXCEPT !.stray = @ \ {id}]
  <2>2. tab' = RemoveFromToastStack(t, id, FALSE)
    BY <2>1 DEF StrayTimer
  <2>3. t \in Store /\ t.list = tab.list /\ t.toasts = tab.toasts /\ t.sent = tab.sent
    BY <1>1 DEF Store
  <2> HIDE DEF t
  <2>4. Stored(t) /\ StoreOK(t)
    BY <2>3 DEF Stored, StoreOK
  <2>5. Moved(t, tab', U) /\ (Clears(tab') => Clears(t))
    BY <2>2, <2>4, RemovedKept, KeptMoved
  <2> QED
    BY <2>3, <2>5 DEF Moved, Innocent, Clears
<1>5. CASE \E id \in Ids \cup Local : DismissToast(id)
  <2>1. PICK id \in Ids \cup Local : DismissToast(id)
    BY <1>5
  <2>2. tab' = RemoveFromToastStack(tab, id, TRUE) /\ id \notin U
    BY <2>1 DEF DismissToast
  <2> QED
    BY <1>1, <2>2, RemovedKept, KeptMoved
<1>6. CASE \E id \in Local : LocalToast(id)
  <2>1. PICK id \in Local : LocalToast(id)
    BY <1>6
  <2> DEFINE same == {k \in DOMAIN tab.toasts : id \in Grouped /\ tab.toasts[k].id \in Grouped}
             rest == IF same = {} THEN tab.toasts
                     ELSE RemoveAt(tab.toasts, CHOOSE k \in same : \A j \in same : k <= j)
             all == Append(rest, [id |-> id, timed |-> TRUE])
             s == IF Len(all) > MaxToasts THEN Tail(all) ELSE all
  <2>2. tab' = [tab EXCEPT !.toasts = s] /\ id \notin IdsOf(tab.toasts)
    BY <2>1 DEF LocalToast
  <2>3. Len(tab.toasts) <= MaxToasts
    BY DEF Stored
  <2>4. /\ s \in Seq(Toast) /\ Len(s) <= MaxToasts
        /\ IdsOf(s) \subseteq IdsOf(tab.toasts) \cup {id}
        /\ Timely(tab.toasts, {}) => Timely(s, {})
    BY <1>1, <2>2, <2>3, LocalToastAdded
  <2> HIDE DEF s
  <2>5. tab' \in Store /\ tab'.list = tab.list /\ tab'.toasts = s /\ tab'.sent = tab.sent
    BY <1>1, <2>2, <2>4 DEF Store
  <2>6. Stored(tab')
    BY <1>1, <2>4, <2>5 DEF Stored, StoreOK
  <2> QED
    BY <2>4, <2>5, <2>6 DEF Moved, Innocent, Clears
<1>7. CASE OpenModal
  <2>1. tab' = ClearToastStack(tab)
    BY <1>7 DEF OpenModal
  <2>2. Stored(tab') /\ tab'.toasts = <<>> /\ tab'.list = tab.list /\ tab'.sent = tab.sent
    BY <2>1, ToastsCleared
  <2> QED
    BY <1>1, <2>2, EmptyOrSame DEF Moved, Innocent, Clears
<1>8. CASE CloseModal
  <2>1. tab' = MarkAllAsRead(tab) /\ U \cap IdsOf(tab.list) = {}
    BY <1>8 DEF CloseModal
  <2>2. /\ Stored(tab') /\ (tab'.toasts = tab.toasts \/ tab'.toasts = <<>>)
        /\ \A c \in tab'.sent \ tab.sent : c.op = "all"
        /\ Innocent(tab, U) => Innocent(tab', U)
    BY <2>1, AllMarked
  <2>3. Clears(tab') => Clears(tab)
    BY <2>2 DEF Clears
  <2> QED
    BY <1>1, <2>2, <2>3, EmptyOrSame DEF Moved
<1> QED
  BY <1>2, <1>3, <1>4, <1>5, <1>6, <1>7, <1>8

LEMMA ClearStep ==
    ASSUME Stored(tab), NEW U, ClearClicked
    PROVE  Moved(tab, tab', U)
<1>1. tab' = ClearAll(tab) /\ tab.toasts \in Seq(Toast)
  BY DEF ClearClicked, Stored, StoreOK, Store
<1>2. Stored(tab') /\ tab'.toasts = <<>> /\ (Innocent(tab, U) => Innocent(tab', U))
  BY <1>1, AllCleared
<1> QED
  BY <1>1, <1>2, EmptyOrSame DEF Moved

-----------------------------------------------------------------------------
(* Types                                                                   *)

ManagerOK ==
    /\ Filed(items, updates) /\ Len(items) <= Limit
    /\ owed \in BOOLEAN /\ exposed \subseteq Ids

\* Each clearing that has been asked for, or made, was an act of the user.
CountsOK ==
    /\ guid \in Nat /\ acts \in 0..MaxActs /\ guid <= acts
    /\ Clears(tab) => guid < acts

StreamOK ==
    /\ cursor \in Nat
    /\ snap \in [at : {"idle", "guid", "version"}, items : Seq(Item), guid : 0..MaxActs]
    /\ wire \in Seq(Push)

TabOK == Stored(tab) /\ modal \in BOOLEAN

HistoryOK ==
    /\ used \subseteq Ids /\ raised \in 0..MaxRaises
    /\ touched \subseteq Ids \cup Local
    /\ unsynced \subseteq {"read", "all", "clear"} \X Ids

Types == ManagerOK /\ CountsOK /\ StreamOK /\ TabOK /\ HistoryOK

LEMMA TypesImply == Types => TypeOK
<1>1. SUFFICES ASSUME Types PROVE TypeOK
  OBVIOUS
<1>2. guid \in 0..MaxActs
  BY <1>1, Bounds DEF Types, CountsOK
<1>3. /\ items \in Seq(Item) /\ Len(items) <= Limit
      /\ \A k \in DOMAIN updates : updates[k] \in DOMAIN items
      /\ owed \in BOOLEAN /\ exposed \subseteq Ids
  BY <1>1 DEF Types, ManagerOK, Filed
<1>4. /\ tab \in Store /\ Len(tab.list) <= Limit /\ Len(tab.toasts) <= MaxToasts /\ modal \in BOOLEAN
  BY <1>1 DEF Types, TabOK, Stored, StoreOK
<1> QED
  BY <1>1, <1>2, <1>3, <1>4 DEF Types, CountsOK, StreamOK, HistoryOK, TypeOK, Store

LEMMA InitTypes == Init => Types
<1>1. SUFFICES ASSUME Init PROVE Types
  OBVIOUS
<1>2. <<>> \in Seq(Item) /\ <<>> \in Seq(Toast) /\ <<>> \in Seq(Nat) /\ <<>> \in Seq(Push)
  OBVIOUS
<1>3. 0 \in 0..Limit /\ 0 \in 0..MaxActs /\ 0 \in 0..MaxRaises /\ 0 <= Limit /\ 0 <= MaxToasts
  BY Bounds
<1>4. ManagerOK
  <2>1. Filed(<<>>, <<>>) /\ Len(<<>>) = 0
    BY <1>2 DEF Filed, Distinct
  <2>2. items = <<>> /\ updates = <<>> /\ owed \in BOOLEAN /\ exposed \subseteq Ids
    BY <1>1 DEF Init
  <2> QED
    BY <1>3, <2>1, <2>2 DEF ManagerOK
<1>5. CountsOK
  BY <1>1, <1>3 DEF Init, CountsOK, Clears
<1>6. StreamOK
  BY <1>1, <1>2, <1>3 DEF Init, StreamOK, NoSnap
<1>7. TabOK
  BY <1>1, <1>2, <1>3 DEF Init, TabOK, Stored, StoreOK, Store
<1>8. HistoryOK
  BY <1>1, <1>3 DEF Init, HistoryOK
<1> QED
  BY <1>4, <1>5, <1>6, <1>7, <1>8 DEF Types

LEMMA AnnounceOK ==
    ASSUME ManagerOK, NEW changed \in SUBSET Ids, Announce(changed)
    PROVE  owed' \in BOOLEAN /\ exposed' \subseteq Ids
<1>1. owed' \in BOOLEAN
  BY Zenon DEF Announce
<1>2. IdsOf(items) \subseteq Ids
  <2>1. \A k \in DOMAIN items : items[k] \in Item
    BY DEF ManagerOK, Filed
  <2> QED
    BY <2>1 DEF IdsOf, Item
<1> DEFINE unsent == {id \in IdsOf(items) : LastUpdate(items, updates, id) > cursor}
           behind == {id \in changed \cup unsent : LastUpdate(items', updates', id) <= cursor}
           skipped == IF snap.at # "idle" THEN changed ELSE IF CursorAstray THEN behind ELSE {}
<1>3. exposed' = (exposed \ changed) \cup skipped
  BY DEF Announce
<1>4. skipped \subseteq Ids
  BY <1>2
<1> HIDE DEF skipped
<1> QED
  BY <1>1, <1>3, <1>4 DEF ManagerOK

\* A step of the manager or of a snapshot that leaves what it does not name.
LEMMA RaiseEffect ==
    ASSUME Types, NEW id \in Ids, Raise(id)
    PROVE  \E item \in Item :
              /\ item.id = id /\ ~item.read
              /\ Refiled(items, updates, items', updates', {item}) /\ Len(items') <= Limit
<1> DEFINE item == [id |-> id, stamp |-> raised + 1, read |-> FALSE]
<1>1. raised + 1 \in 1..MaxRaises
  BY Bounds DEF Types, HistoryOK, Raise
<1>2. item \in Item
  BY <1>1 DEF Item
<1>3. AddNotification(item)
  BY DEF Raise
<1>4. item.id = id /\ ~item.read
  OBVIOUS
<1> HIDE DEF item
<1>5. Refiled(items, updates, items', updates', {item}) /\ Len(items') <= Limit
  BY <1>2, <1>3, Added DEF Types, ManagerOK
<1> QED
  BY <1>2, <1>4, <1>5

LEMMA HandleEffect ==
    ASSUME Types, NEW call \in tab.sent, Handle(call)
    PROVE  /\ call \in Call
           /\ \/ /\ call.op = "clear"
                 /\ items' = <<>> /\ updates' = <<>> /\ guid' = guid + 1
                 /\ owed' = TRUE /\ exposed' = {} /\ touched' = touched
              \/ /\ call.op # "clear" /\ guid' = guid
                 /\ Refiled(items, updates, items', updates', {n \in Item : n.read /\ n.id \in call.ids})
                 /\ Len(items') <= Limit /\ IdsOf(items') = IdsOf(items)
                 /\ owed' \in BOOLEAN /\ exposed' \subseteq Ids
                 /\ touched' = IF call.op = "all" THEN touched \cup IdsOf(items) ELSE touched
<1>1. call \in Call
  BY DEF Types, TabOK, Stored, StoreOK, Store
<1>2. CASE call.op = "clear"
  BY <1>1, <1>2 DEF Handle, ClearAllNotifications
<1>3. CASE call.op # "clear"
  <2>1. MarkReadByIds(call.ids)
    BY <1>3 DEF Handle
  <2>2. Filed(items, updates) /\ Len(items) <= Limit /\ ManagerOK
    BY DEF Types, ManagerOK
  <2>3. /\ Refiled(items, updates, items', updates', {n \in Item : n.read /\ n.id \in call.ids})
        /\ Len(items') <= Limit /\ IdsOf(items') = IdsOf(items)
    BY <2>1, <2>2, ReadMarked
  <2> DEFINE changed == {items[k].id : k \in {j \in DOMAIN items : items[j].id \in call.ids /\ ~items[j].read}}
  <2>4. Announce(changed) /\ guid' = guid
    BY <2>1 DEF MarkReadByIds
  <2>5. changed \in SUBSET Ids
    <3>1. \A k \in DOMAIN items : items[k] \in Item
      BY <2>2 DEF Filed
    <3> QED
      BY <3>1 DEF Item
  <2> HIDE DEF changed
  <2>6. owed' \in BOOLEAN /\ exposed' \subseteq Ids
    BY <2>2, <2>4, <2>5, AnnounceOK
  <2>7. touched' = IF call.op = "all" THEN touched \cup IdsOf(items) ELSE touched
    BY DEF Handle
  <2> QED
    BY <1>1, <1>3, <2>3, <2>4, <2>6, <2>7
<1> QED
  BY <1>2, <1>3

LEMMA ManagerTyped == Types /\ [Next]_vars => ManagerOK'
<1>1. SUFFICES ASSUME Types, [Next]_vars PROVE ManagerOK'
  OBVIOUS
<1>2. ManagerOK
  BY <1>1 DEF Types
<1>3. CASE \E id \in Ids : Raise(id)
  <2>1. PICK id \in Ids : Raise(id)
    BY <1>3
  <2>2. Filed(items', updates') /\ Len(items') <= Limit
    BY <1>1, <2>1, RaiseEffect DEF Refiled
  <2>3. owed' \in BOOLEAN /\ exposed' \subseteq Ids
    BY <1>2, <2>1, AnnounceOK DEF Raise
  <2> QED
    BY <2>2, <2>3 DEF ManagerOK
<1>4. CASE \E call \in tab.sent : Handle(call)
  <2>1. PICK call \in tab.sent : Handle(call)
    BY <1>4
  <2>2. CASE call.op = "clear"
    <3>1. items' = <<>> /\ updates' = <<>> /\ owed' = TRUE /\ exposed' = {}
      BY <1>1, <2>1, <2>2, HandleEffect
    <3>2. Filed(<<>>, <<>>) /\ Len(<<>>) = 0
      BY DEF Filed, Distinct
    <3> QED
      BY <3>1, <3>2, Bounds DEF ManagerOK
  <2>3. CASE call.op # "clear"
    <3>1. Filed(items', updates') /\ Len(items') <= Limit /\ owed' \in BOOLEAN /\ exposed' \subseteq Ids
      BY <1>1, <2>1, <2>3, HandleEffect DEF Refiled
    <3> QED
      BY <3>1 DEF ManagerOK
  <2> QED
    BY <2>2, <2>3
<1>5. CASE SnapshotItems
  BY <1>2, <1>5 DEF SnapshotItems, ManagerOK, manager
<1>6. CASE UNCHANGED <<manager, owed, exposed>>
  BY <1>2, <1>6 DEF ManagerOK, manager
<1>7. UNCHANGED <<manager, owed, exposed>> \/ SnapshotItems
      \/ (\E id \in Ids : Raise(id)) \/ \E call \in tab.sent : Handle(call)
  BY <1>1 DEF Next, vars, Click, ToastTimer, StrayTimer, DismissToast, LocalToast, Fail,
              SnapshotGuid, SnapshotVersion, Deliver, OpenModal, CloseModal, ClearClicked
<1> QED
  BY <1>3, <1>4, <1>5, <1>6, <1>7

LEMMA StreamTyped == Types /\ [Next]_vars => StreamOK'
<1>1. SUFFICES ASSUME Types, [Next]_vars PROVE StreamOK'
  OBVIOUS
<1>2. /\ cursor \in Nat /\ wire \in Seq(Push)
      /\ snap \in [at : {"idle", "guid", "version"}, items : Seq(Item), guid : 0..MaxActs]
  BY <1>1 DEF Types, StreamOK
<1>3. guid \in 0..MaxActs /\ 0 \in 0..MaxActs /\ Filed(items, updates)
  BY <1>1, Bounds DEF Types, ManagerOK, CountsOK
<1>4. CASE SnapshotItems
  <2>1. Output \in Seq(Item)
    BY <1>2, <1>3, OutputIs
  <2>2. snap' = [at |-> "guid", items |-> Output, guid |-> 0] /\ UNCHANGED <<cursor, wire>>
    BY <1>4 DEF SnapshotItems
  <2> QED
    BY <1>2, <1>3, <2>1, <2>2 DEF StreamOK
<1>5. CASE SnapshotGuid
  BY <1>2, <1>3, <1>5 DEF SnapshotGuid, StreamOK
<1>6. CASE SnapshotVersion
  <2> DEFINE push == [items |-> snap.items, guid |-> snap.guid, version |-> Len(updates)]
  <2>1. Len(updates) \in Nat
    BY <1>3 DEF Filed
  <2>2. push \in Push
    BY <1>2, <2>1 DEF Push
  <2>3. cursor' = Len(updates) /\ wire' = Append(wire, push) /\ snap' = NoSnap
    BY <1>6 DEF SnapshotVersion
  <2> HIDE DEF push
  <2>4. wire' \in Seq(Push)
    BY <1>2, <2>2, <2>3
  <2>5. <<>> \in Seq(Item)
    OBVIOUS
  <2> QED
    BY <1>3, <2>1, <2>3, <2>4, <2>5 DEF StreamOK, NoSnap
<1>7. CASE Deliver
  <2>1. wire' = Tail(wire) /\ wire # <<>> /\ UNCHANGED <<cursor, snap>>
    BY <1>7 DEF Deliver
  <2>2. wire' \in Seq(Push)
    BY <1>2, <2>1
  <2> QED
    BY <1>2, <2>1, <2>2 DEF StreamOK
<1>8. CASE UNCHANGED stream
  BY <1>2, <1>8 DEF StreamOK, stream
<1>9. UNCHANGED stream \/ SnapshotItems \/ SnapshotGuid \/ SnapshotVersion \/ Deliver
  BY <1>1 DEF Next, vars, Raise, Handle, Click, ToastTimer, StrayTimer, DismissToast, LocalToast, Fail,
              OpenModal, CloseModal, ClearClicked
<1> QED
  BY <1>4, <1>5, <1>6, <1>7, <1>8, <1>9

LEMMA HistoryTyped == Types /\ [Next]_vars => HistoryOK'
<1>1. SUFFICES ASSUME Types, [Next]_vars PROVE HistoryOK'
  OBVIOUS
<1>2. /\ used \subseteq Ids /\ raised \in 0..MaxRaises
      /\ touched \subseteq Ids \cup Local
      /\ unsynced \subseteq {"read", "all", "clear"} \X Ids
  BY <1>1 DEF Types, HistoryOK
<1>3. /\ IdsOf(items) \subseteq Ids /\ IdsOf(tab.list) \subseteq Ids
      /\ \A call \in tab.sent : call \in Call
  <2>1. items \in Seq(Item) /\ tab.list \in Seq(Item) /\ \A call \in tab.sent : call \in Call
    BY <1>1 DEF Types, ManagerOK, TabOK, Stored, StoreOK, Store, Filed
  <2>2. (\A k \in DOMAIN items : items[k] \in Item) /\ (\A k \in DOMAIN tab.list : tab.list[k] \in Item)
    BY <2>1
  <2> QED
    BY <2>1, <2>2 DEF IdsOf, Item
<1>4. used' \subseteq Ids /\ raised' \in 0..MaxRaises
  <2>1. CASE \E id \in Ids : Raise(id)
    BY <1>2, <2>1, Bounds DEF Raise
  <2>2. UNCHANGED <<used, raised>> \/ \E id \in Ids : Raise(id)
    BY <1>1 DEF Next, vars, bounds, Handle, Click, ToastTimer, StrayTimer, DismissToast, LocalToast, Fail, Act,
                SnapshotItems, SnapshotGuid, SnapshotVersion, Deliver, OpenModal, CloseModal, ClearClicked
  <2> QED
    BY <1>2, <2>1, <2>2
<1>5. touched' \subseteq Ids \cup Local
  <2>1. \/ touched' = touched
        \/ \E id \in Ids \cup Local : touched' = touched \cup {id}
        \/ touched' = touched \cup IdsOf(tab.list)
        \/ touched' = touched \cup IdsOf(items)
    BY <1>1 DEF Next, vars, Raise, Handle, Click, ToastTimer, StrayTimer, DismissToast, LocalToast, Fail,
                SnapshotItems, SnapshotGuid, SnapshotVersion, Deliver, OpenModal, CloseModal, ClearClicked
  <2> QED
    BY <1>2, <1>3, <2>1
<1>6. unsynced' \subseteq {"read", "all", "clear"} \X Ids
  <2>1. \/ unsynced' \subseteq unsynced
        \/ \E call \in tab.sent : unsynced' = unsynced \cup {<<call.op, id>> : id \in call.ids}
    BY <1>1 DEF Next, vars, Raise, Handle, Click, ToastTimer, StrayTimer, DismissToast, LocalToast, Fail,
                SnapshotItems, SnapshotGuid, SnapshotVersion, Deliver, OpenModal, CloseModal, ClearClicked
  <2>2. \A call \in Call : call.op \in {"read", "all", "clear"} /\ call.ids \subseteq Ids
    BY DEF Call
  <2> QED
    BY <1>2, <1>3, <2>1, <2>2
<1> QED
  BY <1>4, <1>5, <1>6 DEF HistoryOK

\* The steps, as the proofs below tell them apart.
UserStep ==
    \/ \E id \in Ids : Click(id)
    \/ \E id \in Ids \cup Local : ToastTimer(id) \/ StrayTimer(id) \/ DismissToast(id)
    \/ \E id \in Local : LocalToast(id)
    \/ OpenModal \/ CloseModal

LEMMA StepCases ==
    ASSUME [Next]_vars
    PROVE  \/ \E id \in Ids : Raise(id)
           \/ \E call \in tab.sent : Handle(call)
           \/ \E call \in tab.sent : Fail(call)
           \/ UserStep \/ ClearClicked \/ Deliver
           \/ SnapshotItems \/ SnapshotGuid \/ SnapshotVersion
           \/ UNCHANGED vars
BY DEF Next, UserStep

LEMMA UserFrame ==
    ASSUME UserStep \/ ClearClicked
    PROVE  UNCHANGED <<items, updates, guid, owed, cursor, snap, wire, used, raised>> /\ touched \subseteq touched'
BY DEF UserStep, Click, ToastTimer, StrayTimer, DismissToast, LocalToast, OpenModal, CloseModal, ClearClicked,
       Act, manager, stream, bounds

LEMMA ActsGrow ==
    ASSUME Types, UserStep \/ ClearClicked
    PROVE  /\ acts' = acts \/ (acts' = acts + 1 /\ acts < MaxActs)
           /\ ClearClicked => acts' = acts + 1 /\ acts < MaxActs
BY DEF UserStep, Click, ToastTimer, StrayTimer, DismissToast, LocalToast, OpenModal, CloseModal, ClearClicked,
       Act, bounds

LEMMA CallEffect ==
    ASSUME Types, NEW call \in tab.sent, Handle(call) \/ Fail(call), NEW U
    PROVE  /\ Moved(tab, tab', U) /\ tab'.sent = tab.sent \ {call} /\ tab'.toasts = tab.toasts
           /\ Clears(tab') => Clears(tab)
<1>1. tab' = [tab EXCEPT !.sent = @ \ {call}]
  BY DEF Handle, Fail
<1> QED
  BY <1>1, CallTaken DEF Types, TabOK

LEMMA DeliverEffect ==
    ASSUME Types, Deliver, NEW U \in SUBSET Urgent, Clean(wire[1].items, U)
    PROVE  /\ wire' = Tail(wire) /\ wire # <<>> /\ 1 \in DOMAIN wire
           /\ Stored(tab') /\ (Clears(tab') => Clears(tab))
           /\ Innocent(tab, U) => Innocent(tab', U)
           /\ IdsOf(tab'.toasts) \subseteq IdsOf(tab.toasts) \cup Unreads(wire[1].items)
           /\ Timely(tab.toasts, {}) /\ Fresh(IdsOf(tab.toasts), wire[1].items) => Timely(tab'.toasts, {})
<1>1. wire' = Tail(wire) /\ wire # <<>> /\ tab' = UpdateFromPoll(tab, Head(wire))
  BY DEF Deliver
<1>2. wire \in Seq(Push) /\ Stored(tab)
  BY DEF Types, StreamOK, TabOK
<1>3. Head(wire) = wire[1] /\ 1 \in DOMAIN wire /\ wire[1] \in Push
  BY <1>1, <1>2
<1>4. /\ Stored(tab') /\ \A c \in tab'.sent \ tab.sent : c.op = "read"
      /\ Innocent(tab, U) => Innocent(tab', U)
      /\ IdsOf(tab'.toasts) \subseteq IdsOf(tab.toasts) \cup Unreads(wire[1].items)
      /\ Timely(tab.toasts, {}) /\ Fresh(IdsOf(tab.toasts), wire[1].items) => Timely(tab'.toasts, {})
  BY <1>1, <1>2, <1>3, UpdateFromPollKept
<1>5. Clears(tab') => Clears(tab)
  BY <1>4 DEF Clears
<1> QED
  BY <1>1, <1>3, <1>4, <1>5

LEMMA TabTyped == Types /\ [Next]_vars => TabOK'
<1>1. SUFFICES ASSUME Types, [Next]_vars PROVE TabOK'
  OBVIOUS
<1>2. Stored(tab) /\ modal \in BOOLEAN
  BY <1>1 DEF Types, TabOK
<1>3. modal' \in BOOLEAN
  BY <1>1, <1>2 DEF Next, vars, Raise, Handle, Click, ToastTimer, StrayTimer, DismissToast, LocalToast, Fail,
                    SnapshotItems, SnapshotGuid, SnapshotVersion, Deliver, OpenModal, CloseModal, ClearClicked
<1>4. Stored(tab')
  <2>1. CASE UserStep
    <3>1. {} \in SUBSET Urgent /\ {} \cap touched' = {}
      OBVIOUS
    <3> QED
      BY <1>2, <2>1, <3>1, TabStep DEF UserStep, Moved
  <2>2. CASE ClearClicked
    BY <1>2, <2>2, ClearStep DEF Moved
  <2>3. CASE Deliver
    <3>1. {} \in SUBSET Urgent /\ Clean(wire[1].items, {})
      BY DEF Clean
    <3> QED
      BY <1>1, <2>3, <3>1, DeliverEffect
  <2>4. CASE \E call \in tab.sent : Handle(call) \/ Fail(call)
    BY <1>1, <2>4, CallEffect DEF Moved
  <2>5. CASE tab' = tab
    BY <1>2, <2>5
  <2>6. (\E id \in Ids : Raise(id)) \/ SnapshotItems \/ SnapshotGuid \/ SnapshotVersion \/ UNCHANGED vars => tab' = tab
    BY DEF Raise, SnapshotItems, SnapshotGuid, SnapshotVersion, vars
  <2> QED
    BY <1>1, <2>1, <2>2, <2>3, <2>4, <2>5, <2>6, StepCases
<1> QED
  BY <1>3, <1>4 DEF TabOK

LEMMA CountsTyped == Types /\ [Next]_vars => CountsOK'
<1>1. SUFFICES ASSUME Types, [Next]_vars PROVE CountsOK'
  OBVIOUS
<1>2. /\ guid \in Nat /\ acts \in 0..MaxActs /\ guid <= acts /\ (Clears(tab) => guid < acts)
      /\ MaxActs \in Nat /\ Stored(tab)
  BY <1>1, Bounds DEF Types, CountsOK, TabOK
<1>3. SUFFICES /\ guid' \in Nat /\ acts' \in 0..MaxActs /\ guid' <= acts'
               /\ Clears(tab') => guid' < acts'
  BY DEF CountsOK, Clears
<1>4. CASE UserStep
  <2>1. {} \in SUBSET Urgent /\ {} \cap touched' = {}
    OBVIOUS
  <2>2. Clears(tab') => Clears(tab)
    BY <1>2, <1>4, <2>1, TabStep DEF UserStep
  <2>3. guid' = guid /\ (acts' = acts \/ (acts' = acts + 1 /\ acts < MaxActs))
    BY <1>1, <1>4, UserFrame, ActsGrow
  <2> QED
    BY <1>2, <2>2, <2>3
<1>5. CASE ClearClicked
  <2>1. guid' = guid /\ acts' = acts + 1 /\ acts < MaxActs
    BY <1>1, <1>5, UserFrame, ActsGrow
  <2> QED
    BY <1>2, <2>1
<1>6. CASE Deliver
  <2>1. {} \in SUBSET Urgent /\ Clean(wire[1].items, {})
    BY DEF Clean
  <2>2. Clears(tab') => Clears(tab)
    BY <1>1, <1>6, <2>1, DeliverEffect
  <2>3. guid' = guid /\ acts' = acts
    BY <1>6 DEF Deliver, manager, bounds
  <2> QED
    BY <1>2, <2>2, <2>3
<1>7. CASE \E call \in tab.sent : Fail(call)
  <2>1. PICK call \in tab.sent : Fail(call)
    BY <1>7
  <2>2. Clears(tab') => Clears(tab)
    BY <1>1, <2>1, CallEffect
  <2>3. guid' = guid /\ acts' = acts + 1 /\ acts < MaxActs
    BY <2>1 DEF Fail, Act, manager
  <2> QED
    BY <1>2, <2>2, <2>3
<1>8. CASE \E call \in tab.sent : Handle(call)
  <2>1. PICK call \in tab.sent : Handle(call)
    BY <1>8
  <2>2. tab'.sent = tab.sent \ {call} /\ (Clears(tab') => Clears(tab))
    BY <1>1, <2>1, CallEffect
  <2>3. acts' = acts
    BY <2>1 DEF Handle, bounds
  <2>4. CASE call.op = "clear"
    <3>1. guid' = guid + 1
      BY <1>1, <2>1, <2>4, HandleEffect
    <3>2. Clears(tab)
      BY <2>4 DEF Clears
    <3>3. ~Clears(tab')
      <4>1. \A c \in Call : c.op = "clear" => c = [op |-> "clear", ids |-> Ids]
        BY DEF Call
      <4>2. \A c \in tab.sent : c \in Call
        BY <1>2 DEF Stored, StoreOK, Store
      <4> QED
        BY <2>2, <2>4, <4>1, <4>2 DEF Clears
    <3> QED
      BY <1>2, <2>3, <3>1, <3>2, <3>3
  <2>5. CASE call.op # "clear"
    <3>1. guid' = guid
      BY <1>1, <2>1, <2>5, HandleEffect
    <3> QED
      BY <1>2, <2>2, <2>3, <3>1
  <2> QED
    BY <2>4, <2>5
<1>9. CASE UNCHANGED <<guid, acts, tab>>
  BY <1>2, <1>9
<1>10. (\E id \in Ids : Raise(id)) \/ SnapshotItems \/ SnapshotGuid \/ SnapshotVersion \/ UNCHANGED vars
           => UNCHANGED <<guid, acts, tab>>
  BY DEF Raise, SnapshotItems, SnapshotGuid, SnapshotVersion, vars, manager, bounds
<1> QED
  BY <1>1, <1>4, <1>5, <1>6, <1>7, <1>8, <1>9, <1>10, StepCases

LEMMA TypesKept == Types /\ [Next]_vars => Types'
BY ManagerTyped, CountsTyped, StreamTyped, TabTyped, HistoryTyped DEF Types

-----------------------------------------------------------------------------
(* What is urgent stays unread                                             *)

\* No notification that counts as unread is marked anywhere, and no request on its
\* way would mark it.
Innocence ==
    LET U == Urgent \ touched
    IN  /\ Clean(items, U) /\ Clean(snap.items, U)
        /\ \A i \in DOMAIN wire : Clean(wire[i].items, U)
        /\ Innocent(tab, U)

LEMMA InnocenceImplies == Innocence => UrgentStaysUnread
BY DEF Innocence, Innocent, Clean, UrgentStaysUnread, Places

LEMMA InitInnocence == Init => Innocence
BY DEF Init, Innocence, Innocent, Clean, NoSnap

LEMMA InnocenceKept == Types /\ Innocence /\ [Next]_vars => Innocence'
<1>1. SUFFICES ASSUME Types, Innocence, [Next]_vars PROVE Innocence'
  OBVIOUS
<1>2. PICK U : U = Urgent \ touched'
  OBVIOUS
<1>3. SUFFICES /\ Clean(items', U) /\ Clean(snap'.items, U)
               /\ \A i \in DOMAIN wire' : Clean(wire'[i].items, U)
               /\ Innocent(tab', U)
  BY <1>2 DEF Innocence, Clean, Innocent
<1>4. touched \subseteq touched'
  BY <1>1 DEF Next, vars, Raise, Handle, Click, ToastTimer, StrayTimer, DismissToast, LocalToast, Fail,
              SnapshotItems, SnapshotGuid, SnapshotVersion, Deliver, OpenModal, CloseModal, ClearClicked
<1>5. /\ Clean(items, U) /\ Clean(snap.items, U)
      /\ \A i \in DOMAIN wire : Clean(wire[i].items, U)
      /\ Innocent(tab, U)
  BY <1>1, <1>2, <1>4 DEF Innocence, Clean, Innocent
<1>6. U \in SUBSET Urgent /\ U \cap touched' = {}
  BY <1>2
<1>7. Filed(items, updates) /\ cursor \in Nat /\ wire \in Seq(Push) /\ Stored(tab)
  BY <1>1 DEF Types, ManagerOK, StreamOK, TabOK
<1>8. CASE UserStep
  <2>1. Innocent(tab', U)
    BY <1>5, <1>6, <1>7, <1>8, TabStep DEF Moved, UserStep
  <2>2. UNCHANGED <<items, snap, wire>>
    BY <1>8, UserFrame
  <2> QED
    BY <1>5, <2>1, <2>2
<1>9. CASE ClearClicked
  <2>1. Innocent(tab', U)
    BY <1>5, <1>7, <1>9, ClearStep DEF Moved
  <2>2. UNCHANGED <<items, snap, wire>>
    BY <1>9, UserFrame
  <2> QED
    BY <1>5, <2>1, <2>2
<1>10. CASE Deliver
  <2>1. wire # <<>> /\ 1 \in DOMAIN wire
    BY <1>7, <1>10 DEF Deliver
  <2>2. Innocent(tab', U) /\ wire' = Tail(wire)
    BY <1>1, <1>5, <1>6, <1>10, <2>1, DeliverEffect
  <2>3. \A i \in DOMAIN wire' : i + 1 \in DOMAIN wire /\ wire'[i] = wire[i + 1]
    BY <1>7, <2>1, <2>2
  <2>4. UNCHANGED <<items, snap>>
    BY <1>10 DEF Deliver, manager
  <2> QED
    BY <1>5, <2>2, <2>3, <2>4
<1>11. CASE \E id \in Ids : Raise(id)
  <2>1. PICK id \in Ids : Raise(id)
    BY <1>11
  <2>2. PICK item \in Item : ~item.read /\ Refiled(items, updates, items', updates', {item})
    BY <1>1, <2>1, RaiseEffect
  <2>3. Clean(items', U)
    BY <1>5, <2>2 DEF Refiled, Clean
  <2>4. UNCHANGED <<snap, wire, tab>>
    BY <2>1 DEF Raise, stream
  <2> QED
    BY <1>5, <2>3, <2>4
<1>12. CASE \E call \in tab.sent : Handle(call)
  <2>1. PICK call \in tab.sent : Handle(call)
    BY <1>12
  <2>2. Innocent(tab', U)
    BY <1>1, <1>5, <2>1, CallEffect DEF Moved
  <2>3. UNCHANGED <<snap, wire>>
    BY <2>1 DEF Handle, stream
  <2>4. Clean(items', U)
    <3>1. CASE call.op = "clear"
      <4>1. items' = <<>>
        BY <1>1, <2>1, <3>1, HandleEffect
      <4> QED
        BY <4>1 DEF Clean
    <3>2. CASE call.op # "clear"
      <4>1. /\ Refiled(items, updates, items', updates', {n \in Item : n.read /\ n.id \in call.ids})
            /\ IdsOf(items') = IdsOf(items) /\ call \in Call
            /\ touched' = IF call.op = "all" THEN touched \cup IdsOf(items) ELSE touched
        BY <1>1, <2>1, <3>2, HandleEffect
      <4>2. CASE call.op = "all"
        <5>1. IdsOf(items') \cap U = {}
          BY <1>6, <4>1, <4>2
        <5> QED
          BY <5>1 DEF Clean, IdsOf
      <4>3. CASE call.op = "read"
        <5>1. call.ids \cap U = {}
          BY <1>5, <2>1, <4>3 DEF Innocent
        <5> QED
          BY <1>5, <4>1, <5>1 DEF Clean, Refiled
      <4> QED
        BY <3>2, <4>1, <4>2, <4>3 DEF Call
    <3> QED
      BY <3>1, <3>2
  <2> QED
    BY <1>5, <2>2, <2>3, <2>4
<1>13. CASE \E call \in tab.sent : Fail(call)
  <2>1. PICK call \in tab.sent : Fail(call)
    BY <1>13
  <2>2. Innocent(tab', U)
    BY <1>1, <1>5, <2>1, CallEffect DEF Moved
  <2>3. UNCHANGED <<items, snap, wire>>
    BY <2>1 DEF Fail, stream, manager
  <2> QED
    BY <1>5, <2>2, <2>3
<1>14. CASE SnapshotItems
  <2>1. \A k \in DOMAIN Output : \E j \in DOMAIN items : Output[k] = items[j]
    BY <1>7, OutputIs
  <2>2. snap'.items = Output /\ UNCHANGED <<items, wire, tab>>
    BY <1>14 DEF SnapshotItems, manager
  <2>3. Clean(snap'.items, U)
    BY <1>5, <2>1, <2>2 DEF Clean
  <2> QED
    BY <1>5, <2>2, <2>3
<1>15. CASE SnapshotGuid
  <2>1. snap'.items = snap.items /\ UNCHANGED <<items, wire, tab>>
    BY <1>1, <1>15 DEF SnapshotGuid, manager, Types, StreamOK
  <2> QED
    BY <1>5, <2>1
<1>16. CASE SnapshotVersion
  <2> DEFINE push == [items |-> snap.items, guid |-> snap.guid, version |-> Len(updates)]
  <2>1. wire' = Append(wire, push) /\ snap' = NoSnap /\ UNCHANGED <<items, tab>>
    BY <1>16 DEF SnapshotVersion, manager
  <2>2. push.items = snap.items /\ push \in Push
    BY <1>1, <1>7 DEF Push, Types, StreamOK, Filed
  <2> HIDE DEF push
  <2>3. \A i \in DOMAIN wire' : (i \in DOMAIN wire /\ wire'[i] = wire[i]) \/ wire'[i] = push
    BY <1>7, <2>1, <2>2
  <2>4. Clean(<<>>, U) /\ snap'.items = <<>>
    BY <2>1 DEF NoSnap, Clean
  <2> QED
    BY <1>5, <2>1, <2>2, <2>3, <2>4
<1>17. CASE UNCHANGED vars
  BY <1>5, <1>17 DEF vars, manager, stream
<1> QED
  BY <1>1, <1>8, <1>9, <1>10, <1>11, <1>12, <1>13, <1>14, <1>15, <1>16, <1>17, StepCases

-----------------------------------------------------------------------------
(* Toasts have timers                                                      *)

\* A snapshot under way, or the next one, brings id to the tab as unread.
Coming(id) == IF snap.at = "idle" THEN id \in Bring(cursor, items, updates) ELSE id \in Unreads(snap.items)

Flying(id, i) == i \in DOMAIN wire /\ id \in Unreads(wire[i].items)

\* What is raised once is unread in one place at most, between the manager and
\* the stack of toasts.
Alone(id) ==
    /\ id \in IdsOf(tab.toasts) => id \in used /\ ~Coming(id) /\ \A i : ~Flying(id, i)
    /\ \A i : Flying(id, i) => id \in used /\ ~Coming(id) /\ \A j : Flying(id, j) => i = j
    /\ Coming(id) => id \in used

Bearers ==
    /\ IdsOf(items) \subseteq used
    /\ Timely(tab.toasts, {})
    /\ Once(snap.items) /\ \A i \in DOMAIN wire : Once(wire[i].items)
    /\ \A id \in Ids \ Repeats : Alone(id)

LEMMA BearersImply == Bearers => ToastsAreTimed
BY DEF Bearers, Timely, ToastsAreTimed, Places

LEMMA InitBearers == Init => Bearers
BY DEF Init, Bearers, IdsOf, Timely, Once, NoSnap, Alone, Coming, Flying, Bring, Unreads

LEMMA BringRecorded ==
    ASSUME Filed(items, updates), NEW id \in Bring(cursor, items, updates)
    PROVE  id \in IdsOf(items)
BY DEF Filed, Bring, IdsOf

LEMMA BearersKept == Types /\ Bearers /\ [Next]_vars => Bearers'
<1>1. SUFFICES ASSUME Types, Bearers, [Next]_vars PROVE Bearers'
  OBVIOUS
<1>2. Filed(items, updates) /\ cursor \in Nat /\ wire \in Seq(Push) /\ Stored(tab) /\ Ids \cap Local = {}
  BY <1>1, Bounds DEF Types, ManagerOK, StreamOK, TabOK
<1>3. /\ IdsOf(items) \subseteq used /\ Timely(tab.toasts, {})
      /\ Once(snap.items) /\ \A i \in DOMAIN wire : Once(wire[i].items)
      /\ \A id \in Ids \ Repeats : Alone(id)
  BY <1>1 DEF Bearers
\* It is enough that the notifications raised once move from one bearer to the next.
<1>4. ASSUME IdsOf(items') \subseteq used', used \subseteq used',
             Timely(tab'.toasts, {}), IdsOf(tab'.toasts) \subseteq IdsOf(tab.toasts) \cup Local,
             snap'.items = snap.items, wire' = wire,
             \A id \in Ids \ Repeats : Coming(id)' => Coming(id) \/ (id \notin used /\ id \in used')
      PROVE  Bearers'
  <2>1. SUFFICES ASSUME NEW id \in Ids \ Repeats PROVE Alone(id)'
    BY <1>3, <1>4 DEF Bearers, IdsOf, Timely, Once
  <2>2. Alone(id)
    BY <1>3
  <2>3. id \in IdsOf(tab'.toasts) => id \in IdsOf(tab.toasts)
    BY <1>2, <1>4
  <2>4. \A i : Flying(id, i)' <=> Flying(id, i)
    BY <1>4 DEF Flying
  <2>5. Coming(id)' => Coming(id) \/ (id \notin used /\ id \in used')
    BY <1>4
  <2> QED
    BY <1>4, <2>2, <2>3, <2>4, <2>5 DEF Alone, IdsOf
<1>5. CASE UserStep \/ ClearClicked
  <2>1. \E U : Moved(tab, tab', U)
    <3>1. {} \in SUBSET Urgent /\ {} \cap touched' = {}
      OBVIOUS
    <3> QED
      BY <1>2, <1>5, <3>1, TabStep, ClearStep DEF UserStep
  <2>2. UNCHANGED <<items, updates, cursor, snap, wire, used>>
    BY <1>5, UserFrame
  <2>3. \A id : Coming(id)' <=> Coming(id)
    BY <2>2 DEF Coming, Bring
  <2>4. IdsOf(items') \subseteq used'
    BY <1>3, <2>2
  <2> QED
    BY <1>3, <1>4, <2>1, <2>2, <2>3, <2>4 DEF Moved
<1>6. CASE \E id \in Ids : Raise(id)
  <2>1. PICK new \in Ids : Raise(new)
    BY <1>6
  <2>2. PICK item \in Item : item.id = new /\ Refiled(items, updates, items', updates', {item})
    BY <1>1, <2>1, RaiseEffect
  <2>3. UNCHANGED <<snap, wire, tab, cursor>> /\ used' = used \cup {new} /\ new \notin used \ Repeats
    BY <2>1 DEF Raise, stream
  <2>4. IdsOf(items') \subseteq used'
    <3>1. SUFFICES ASSUME NEW k \in DOMAIN items' PROVE items'[k].id \in used'
      BY DEF IdsOf
    <3>2. items'[k] = item \/ \E j \in DOMAIN items : items'[k] = items[j]
      BY <2>2 DEF Refiled
    <3> QED
      BY <1>3, <2>2, <2>3, <3>2 DEF IdsOf
  <2>5. ASSUME NEW id \in Ids \ Repeats, Coming(id)'
        PROVE  Coming(id) \/ (id \notin used /\ id \in used')
    <3>1. CASE snap.at = "idle"
      <4>1. id \in Bring(cursor, items', updates')
        BY <2>3, <2>5, <3>1 DEF Coming, Bring
      <4>2. id \in Bring(cursor, items, updates) \/ id = new
        BY <1>2, <2>2, <4>1 DEF Refiled
      <4> QED
        BY <2>3, <3>1, <4>2 DEF Coming
    <3>2. CASE snap.at # "idle"
      BY <2>3, <2>5, <3>2 DEF Coming, Unreads
    <3> QED
      BY <3>1, <3>2
  <2> QED
    BY <1>3, <1>4, <2>3, <2>4, <2>5
<1>7. CASE \E call \in tab.sent : Handle(call)
  <2>1. PICK call \in tab.sent : Handle(call)
    BY <1>7
  <2>2. UNCHANGED <<snap, wire, cursor, used>>
    BY <2>1 DEF Handle, stream, bounds
  <2>3. tab'.toasts = tab.toasts
    BY <1>1, <2>1, CallEffect
  <2>4. /\ IdsOf(items') \subseteq IdsOf(items)
        /\ \A id \in Bring(cursor, items', updates') : id \in Bring(cursor, items, updates)
    <3>1. CASE call.op = "clear"
      <4>1. items' = <<>> /\ updates' = <<>>
        BY <1>1, <2>1, <3>1, HandleEffect
      <4> QED
        BY <4>1 DEF IdsOf, Bring
    <3>2. CASE call.op # "clear"
      <4>1. /\ Refiled(items, updates, items', updates', {n \in Item : n.read /\ n.id \in call.ids})
            /\ IdsOf(items') = IdsOf(items)
        BY <1>1, <2>1, <3>2, HandleEffect
      <4> QED
        BY <1>2, <4>1 DEF Refiled
    <3> QED
      BY <3>1, <3>2
  <2>5. \A id : Coming(id)' => Coming(id)
    <3>1. SUFFICES ASSUME NEW id, Coming(id)' PROVE Coming(id)
      OBVIOUS
    <3>2. CASE snap.at = "idle"
      <4>1. id \in Bring(cursor, items', updates')
        BY <2>2, <3>1, <3>2 DEF Coming, Bring
      <4> QED
        BY <2>4, <3>2, <4>1 DEF Coming
    <3>3. CASE snap.at # "idle"
      BY <2>2, <3>1, <3>3 DEF Coming, Unreads
    <3> QED
      BY <3>2, <3>3
  <2> QED
    BY <1>3, <1>4, <2>2, <2>3, <2>4, <2>5
<1>8. CASE \E call \in tab.sent : Fail(call)
  <2>1. PICK call \in tab.sent : Fail(call)
    BY <1>8
  <2>2. UNCHANGED <<items, updates, cursor, snap, wire, used>>
    BY <2>1 DEF Fail, manager, stream, Act
  <2>3. tab'.toasts = tab.toasts
    BY <1>1, <2>1, CallEffect
  <2>4. \A id : Coming(id)' <=> Coming(id)
    BY <2>2 DEF Coming, Bring
  <2> QED
    BY <1>3, <1>4, <2>2, <2>3, <2>4
<1>9. CASE SnapshotGuid
  <2>1. /\ UNCHANGED <<items, updates, cursor, wire, tab, used>> /\ snap'.items = snap.items
        /\ snap.at # "idle" /\ snap'.at # "idle"
    BY <1>1, <1>9 DEF SnapshotGuid, manager, bounds, Types, StreamOK
  <2>2. \A id : Coming(id)' <=> Coming(id)
    BY <2>1 DEF Coming, Unreads
  <2> QED
    BY <1>3, <1>4, <2>1, <2>2
<1>10. CASE UNCHANGED vars
  <2>1. UNCHANGED <<items, updates, cursor, snap, wire, tab, used>>
    BY <1>10 DEF vars, manager, stream, bounds
  <2> QED
    BY <1>3, <2>1 DEF Bearers, IdsOf, Timely, Once, Alone, Coming, Flying, Bring, Unreads
<1>11. CASE SnapshotItems
  <2>1. UNCHANGED <<items, updates, cursor, wire, tab, used>> /\ snap.at = "idle"
    BY <1>11 DEF SnapshotItems, manager, bounds
  <2>2. snap'.items = Output /\ snap'.at # "idle"
    BY <1>11 DEF SnapshotItems
  <2>3. Once(Output) /\ Unreads(Output) \subseteq Bring(cursor, items, updates)
    BY <1>2, OutputIs
  <2>4. PICK out : out = Output
    OBVIOUS
  <2>5. \A id : Coming(id)' => Coming(id)
    BY <2>1, <2>2, <2>3, <2>4 DEF Coming, Unreads
  <2>6. \A id \in Ids \ Repeats : Alone(id)'
    BY <1>3, <2>1, <2>5 DEF Alone, Flying, IdsOf
  <2>7. Once(snap'.items)
    BY <2>2, <2>3
  <2> QED
    BY <1>3, <2>1, <2>6, <2>7 DEF Bearers, IdsOf, Timely, Once
<1>12. CASE SnapshotVersion
  <2> DEFINE push == [items |-> snap.items, guid |-> snap.guid, version |-> Len(updates)]
  <2>1. /\ wire' = Append(wire, push) /\ cursor' = Len(updates) /\ snap' = NoSnap /\ snap.at = "version"
        /\ UNCHANGED <<items, updates, tab, used>>
    BY <1>12 DEF SnapshotVersion, manager, bounds
  <2>2. push.items = snap.items /\ push \in Push
    BY <1>1, <1>2 DEF Push, Types, StreamOK, Filed
  <2> HIDE DEF push
  <2>3. /\ DOMAIN wire' = DOMAIN wire \cup {Len(wire) + 1} /\ Len(wire) + 1 \notin DOMAIN wire
        /\ wire'[Len(wire) + 1] = push /\ \A i \in DOMAIN wire : wire'[i] = wire[i]
    <3>1. /\ DOMAIN wire' = 1..(Len(wire) + 1) /\ wire'[Len(wire) + 1] = push
          /\ \A i \in DOMAIN wire : wire'[i] = wire[i]
      BY <1>2, <2>1, <2>2, AppendFacts
    <3>2. Len(wire) \in Nat /\ DOMAIN wire = 1..Len(wire)
      BY <1>2
    <3> QED
      BY <3>1, <3>2
  <2>4. \A id : ~Coming(id)'
    <3>1. \A k \in DOMAIN updates : ~(k > Len(updates))
      BY <1>2 DEF Filed
    <3> QED
      BY <2>1, <3>1 DEF Coming, Bring, NoSnap
  <2>5. ASSUME NEW id, NEW i
        PROVE  Flying(id, i)' <=> (Flying(id, i) \/ (i = Len(wire) + 1 /\ Coming(id)))
    BY <2>1, <2>2, <2>3 DEF Flying, Coming, Unreads
  <2>6. \A id, i : Flying(id, i) => i # Len(wire) + 1
    BY <2>3 DEF Flying
  <2>7. ASSUME NEW id \in Ids \ Repeats PROVE Alone(id)'
    <3>1. Alone(id)
      BY <1>3
    <3>2. id \in IdsOf(tab.toasts)' <=> id \in IdsOf(tab.toasts)
      BY <2>1 DEF IdsOf
    <3>3. used' = used
      BY <2>1
    <3> QED
      BY <2>4, <2>5, <2>6, <3>1, <3>2, <3>3 DEF Alone
  <2>8. \A i \in DOMAIN wire' : Once(wire'[i].items)
    BY <1>3, <2>2, <2>3
  <2>9. Once(snap'.items)
    BY <2>1 DEF NoSnap, Once
  <2>10. IdsOf(items') \subseteq used' /\ Timely(tab'.toasts, {})
    BY <1>3, <2>1
  <2> QED
    BY <2>7, <2>8, <2>9, <2>10 DEF Bearers, IdsOf, Timely, Once
<1>13. CASE Deliver
  <2>1. wire # <<>> /\ 1 \in DOMAIN wire
    BY <1>2, <1>13 DEF Deliver
  <2>2. {} \in SUBSET Urgent /\ Clean(wire[1].items, {})
    BY DEF Clean
  <2>3. /\ wire' = Tail(wire)
        /\ IdsOf(tab'.toasts) \subseteq IdsOf(tab.toasts) \cup Unreads(wire[1].items)
        /\ Timely(tab.toasts, {}) /\ Fresh(IdsOf(tab.toasts), wire[1].items) => Timely(tab'.toasts, {})
    BY <1>1, <1>13, <2>2, DeliverEffect
  <2>4. UNCHANGED <<items, updates, cursor, snap, used>>
    BY <1>13 DEF Deliver, manager, bounds
  <2>5. /\ \A i \in DOMAIN wire' : i + 1 \in DOMAIN wire /\ wire'[i] = wire[i + 1] /\ i + 1 # 1
        /\ \A i, j \in DOMAIN wire' : i + 1 = j + 1 => i = j
    <3>1. Len(wire) \in Nat /\ DOMAIN wire = 1..Len(wire)
      BY <1>2
    <3>2. DOMAIN wire' = 1..(Len(wire) - 1) /\ \A i \in 1..(Len(wire) - 1) : wire'[i] = wire[i + 1]
      BY <1>2, <2>1, <2>3
    <3> QED
      BY <3>1, <3>2
  <2>6. Unreads(wire[1].items) \subseteq Ids
    <3>1. wire[1].items \in Seq(Item)
      <4>1. wire[1] \in Push
        BY <1>2, <2>1
      <4> QED
        BY <4>1 DEF Push
    <3>2. \A k \in DOMAIN wire[1].items : wire[1].items[k] \in Item
      BY <3>1
    <3> QED
      BY <3>2 DEF Unreads, Item
  <2>7. Fresh(IdsOf(tab.toasts), wire[1].items)
    <3>1. Once(wire[1].items)
      BY <1>3, <2>1
    <3>2. ASSUME NEW id \in IdsOf(tab.toasts) \cap Unreads(wire[1].items) PROVE id \in Repeats
      <4>1. Flying(id, 1)
        BY <2>1, <3>2 DEF Flying
      <4> QED
        BY <1>3, <2>6, <3>2, <4>1 DEF Alone
    <3> QED
      BY <3>1, <3>2 DEF Fresh
  <2>8. \A id : Coming(id)' <=> Coming(id)
    BY <2>4 DEF Coming, Bring
  <2>9. \A id, i : Flying(id, i)' => i \in DOMAIN wire' /\ Flying(id, i + 1)
    BY <2>5 DEF Flying
  <2>10. ASSUME NEW id \in Ids \ Repeats PROVE Alone(id)'
    <3>1. Alone(id)
      BY <1>3
    <3>2. used' = used
      BY <2>4
    <3>3. ASSUME NEW i, Flying(id, i)'
          PROVE  /\ id \in used /\ ~Coming(id) /\ id \notin IdsOf(tab'.toasts)
                 /\ \A j : Flying(id, j)' => i = j
      <4>1. i \in DOMAIN wire' /\ Flying(id, i + 1)
        BY <2>9, <3>3
      <4>2. ~Flying(id, 1)
        BY <2>5, <3>1, <4>1 DEF Alone
      <4>3. id \notin Unreads(wire[1].items) /\ id \notin IdsOf(tab.toasts)
        BY <2>1, <3>1, <4>1, <4>2 DEF Flying, Alone
      <4>4. ASSUME NEW j, Flying(id, j)' PROVE i = j
        <5>1. j \in DOMAIN wire' /\ Flying(id, j + 1)
          BY <2>9, <4>4
        <5>2. i + 1 = j + 1
          BY <3>1, <4>1, <5>1 DEF Alone
        <5> QED
          BY <2>5, <4>1, <5>1, <5>2
      <4> QED
        BY <2>3, <3>1, <4>1, <4>3, <4>4 DEF Alone
    <3>4. ASSUME id \in IdsOf(tab'.toasts) PROVE id \in used /\ ~Coming(id)
      <4>1. id \in IdsOf(tab.toasts) \/ Flying(id, 1)
        BY <2>1, <2>3, <3>4 DEF Flying
      <4> QED
        BY <3>1, <4>1 DEF Alone
    <3>5. id \in IdsOf(tab.toasts)' <=> id \in IdsOf(tab'.toasts)
      BY DEF IdsOf
    <3> QED
      BY <2>8, <3>1, <3>2, <3>3, <3>4, <3>5 DEF Alone
  <2>11. \A i \in DOMAIN wire' : Once(wire'[i].items)
    BY <1>3, <2>5
  <2>12. IdsOf(items') \subseteq used' /\ Timely(tab'.toasts, {}) /\ Once(snap'.items)
    BY <1>3, <2>3, <2>4, <2>7
  <2> QED
    BY <2>10, <2>11, <2>12 DEF Bearers, IdsOf, Timely, Once
<1> QED
  BY <1>1, <1>5, <1>6, <1>7, <1>8, <1>9, <1>10, <1>11, <1>12, <1>13, StepCases
-----------------------------------------------------------------------------
(* What the manager owes                                                   *)

\* An update of id is behind the cursor.
Unsent(cur, its, ups, id) == \E k \in DOMAIN ups : k > cur /\ its[ups[k]].id = id

LEMMA LastUpdateIs ==
    ASSUME NEW its, NEW ups, Filed(its, ups), NEW cur \in Nat, NEW id
    PROVE  /\ LastUpdate(its, ups, id) \in Nat
           /\ Unsent(cur, its, ups, id) <=> ~(LastUpdate(its, ups, id) <= cur)
<1> DEFINE at == {k \in DOMAIN ups : ups[k] \in DOMAIN its /\ its[ups[k]].id = id}
           last == LastUpdate(its, ups, id)
<1>1. /\ at \in SUBSET Nat /\ Len(ups) \in Nat /\ \A k \in at : k <= Len(ups)
      /\ \A k \in DOMAIN ups : ups[k] \in DOMAIN its
  BY DEF Filed
<1>2. \A k : k \in at <=> k \in DOMAIN ups /\ its[ups[k]].id = id
  BY <1>1
<1>3. last = IF at = {} THEN 0 ELSE CHOOSE k \in at : \A j \in at : j <= k
  BY DEF LastUpdate
<1> HIDE DEF at, last
<1>4. CASE at = {}
  <2>1. last = 0
    BY <1>3, <1>4
  <2>2. ~Unsent(cur, its, ups, id)
    BY <1>2, <1>4 DEF Unsent
  <2> QED
    BY <2>1, <2>2 DEF last
<1>5. CASE at # {}
  <2>1. \E k \in at : \A j \in at : j <= k
    BY <1>1, <1>5, NatMaximum
  <2>2. last \in at /\ \A j \in at : j <= last
    BY <1>3, <1>5, <2>1
  <2>3. last \in Nat /\ at \subseteq Nat
    BY <1>1, <2>2
  <2>4. Unsent(cur, its, ups, id) <=> \E k \in at : k > cur
    BY <1>2 DEF Unsent
  <2>5. (\E k \in at : k > cur) <=> ~(last <= cur)
    BY <2>2, <2>3
  <2> QED
    BY <2>3, <2>4, <2>5 DEF last
<1> QED
  BY <1>4, <1>5

\* The updates that there were are still there, and all of changed has new ones.
Grown(changed) ==
    CursorAstray \/
      /\ \A id : Unsent(cursor, items, updates, id) => Unsent(cursor, items', updates', id)
      /\ \A id \in changed : Unsent(cursor, items', updates', id)

\* The last update of id will be in the next snapshot, or is known to be exposed.
Safe(id) == id \in exposed \/ (snap.at = "idle" /\ owed /\ Unsent(cursor, items, updates, id))

LEMMA AnnouncedSafe ==
    ASSUME Filed(items, updates), Filed(items, updates)', cursor \in Nat, UNCHANGED <<cursor, snap>>,
           NEW changed, Announce(changed), Grown(changed)
    PROVE  /\ \A id \in changed : Safe(id)'
           /\ \A id \in IdsOf(items) : Safe(id) => Safe(id)'
<1> DEFINE unsent == {id \in IdsOf(items) : LastUpdate(items, updates, id) > cursor}
           behind == {id \in changed \cup unsent : LastUpdate(items', updates', id) <= cursor}
           skipped == IF snap.at # "idle" THEN changed ELSE IF CursorAstray THEN behind ELSE {}
<1>1. exposed' = (exposed \ changed) \cup skipped /\ (owed' <=> owed \/ changed # {})
  BY DEF Announce
<1>2. \A id \in IdsOf(items) : Unsent(cursor, items, updates, id) => id \in unsent
  <2>1. \A x \in Nat : ~(x <= cursor) => x > cursor
    OBVIOUS
  <2> QED
    BY <2>1, LastUpdateIs
<1>3. \A id : Unsent(cursor, items', updates', id) <=> ~(LastUpdate(items', updates', id) <= cursor)
  BY LastUpdateIs
<1>4. \A id : Safe(id)' <=> (\/ id \in exposed'
                             \/ (snap.at = "idle" /\ owed' /\ Unsent(cursor, items', updates', id)))
  BY DEF Safe, Unsent
<1> HIDE DEF unsent
<1>5. ASSUME NEW id \in changed PROVE Safe(id)'
  <2>1. CASE snap.at # "idle"
    BY <1>1, <1>4, <1>5, <2>1
  <2>2. CASE snap.at = "idle" /\ CursorAstray
    BY <1>1, <1>3, <1>4, <1>5, <2>2
  <2>3. CASE snap.at = "idle" /\ ~CursorAstray
    BY <1>1, <1>4, <1>5, <2>3 DEF Grown
  <2> QED
    BY <2>1, <2>2, <2>3
<1>6. ASSUME NEW id \in IdsOf(items), Safe(id), id \notin changed PROVE Safe(id)'
  <2>1. CASE id \in exposed
    BY <1>1, <1>4, <1>6, <2>1
  <2>2. CASE snap.at = "idle" /\ owed /\ Unsent(cursor, items, updates, id)
    <3>1. CASE CursorAstray
      BY <1>1, <1>2, <1>3, <1>4, <2>2, <3>1
    <3>2. CASE ~CursorAstray
      BY <1>1, <1>4, <2>2, <3>2 DEF Grown
    <3> QED
      BY <3>1, <3>2
  <2> QED
    BY <1>6, <2>1, <2>2 DEF Safe
<1> QED
  BY <1>5, <1>6

\* More updates, of notifications that keep their places.
LEMMA LongerGrown ==
    ASSUME Filed(items, updates), cursor \in Nat, NEW more \in Seq(Nat), updates' = updates \o more,
           \A k \in DOMAIN items : k \in DOMAIN items' /\ items'[k].id = items[k].id,
           NEW changed, \A id \in changed : \E i \in DOMAIN more : items'[more[i]].id = id
    PROVE  Grown(changed)
<1>1. /\ updates \in Seq(Nat) /\ Len(updates) \in Nat /\ DOMAIN updates = 1..Len(updates)
      /\ \A k \in DOMAIN updates : updates[k] \in DOMAIN items
  BY DEF Filed
<1>2. Len(more) \in Nat /\ DOMAIN more = 1..Len(more)
  OBVIOUS
<1> DEFINE ups1 == updates \o more
<1>3. /\ DOMAIN ups1 = 1..(Len(updates) + Len(more))
      /\ \A k \in 1..(Len(updates) + Len(more)) :
              ups1[k] = IF k <= Len(updates) THEN updates[k] ELSE more[k - Len(updates)]
  BY <1>1, <1>2
<1>4. updates' = ups1
  OBVIOUS
<1> HIDE DEF ups1
<1>5. \A k \in DOMAIN updates : k \in DOMAIN updates' /\ updates'[k] = updates[k]
  BY <1>1, <1>2, <1>3, <1>4
<1>6. \A i \in DOMAIN more : Len(updates) + i \in DOMAIN updates' /\ updates'[Len(updates) + i] = more[i]
  <2>1. SUFFICES ASSUME NEW i \in 1..Len(more)
                 PROVE  Len(updates) + i \in DOMAIN updates' /\ updates'[Len(updates) + i] = more[i]
    BY <1>2
  <2>2. /\ Len(updates) + i \in 1..(Len(updates) + Len(more)) /\ ~(Len(updates) + i <= Len(updates))
        /\ (Len(updates) + i) - Len(updates) = i
    BY <1>1, <1>2
  <2> QED
    BY <1>3, <1>4, <2>2
<1>7. ASSUME NEW id, Unsent(cursor, items, updates, id) PROVE Unsent(cursor, items', updates', id)
  <2>1. PICK k \in DOMAIN updates : k > cursor /\ items[updates[k]].id = id
    BY <1>7 DEF Unsent
  <2>2. items'[updates'[k]].id = id
    BY <1>1, <1>5, <2>1
  <2> QED
    BY <1>5, <2>1, <2>2 DEF Unsent
<1>8. ASSUME ~CursorAstray, NEW id \in changed PROVE Unsent(cursor, items', updates', id)
  <2>1. cursor <= Len(updates)
    BY <1>1, <1>8 DEF CursorAstray
  <2>2. PICK i \in DOMAIN more : items'[more[i]].id = id
    OBVIOUS
  <2>3. Len(updates) + i > cursor
    BY <1>1, <1>2, <2>1, <2>2
  <2> QED
    BY <1>6, <2>2, <2>3 DEF Unsent
<1> QED
  BY <1>7, <1>8 DEF Grown

LEMMA OrderedUpto ==
    ASSUME NEW n \in Nat
    PROVE  Ordered(1..n) = [k \in 1..n |-> k]
<1>1. \A m \in Nat : Cardinality(1..m) = m
  <2>1. SUFFICES ASSUME NEW m \in Nat PROVE Cardinality(1..m) = m
    OBVIOUS
  <2> QED
    BY FS_Interval, 1 \in Int, m \in Int
<1>2. \A x \in 1..n : Cardinality({y \in 1..n : y <= x}) = x
  <2>1. SUFFICES ASSUME NEW x \in 1..n PROVE Cardinality({y \in 1..n : y <= x}) = x
    OBVIOUS
  <2>2. {y \in 1..n : y <= x} = 1..x /\ x \in Nat
    OBVIOUS
  <2> QED
    BY <1>1, <2>2
<1> DEFINE Below(x) == {y \in 1..n : y <= x}
<1>3. Ordered(1..n) = [k \in 1..n |-> CHOOSE x \in 1..n : Cardinality(Below(x)) = k]
  BY <1>1 DEF Ordered
<1>4. \A x \in 1..n : Cardinality(Below(x)) = x
  BY <1>2
<1> HIDE DEF Below
<1>5. \A k \in 1..n : (CHOOSE x \in 1..n : Cardinality(Below(x)) = k) = k
  BY <1>4
<1> QED
  BY <1>3, <1>5

LEMMA RenumberNone ==
    ASSUME NEW ups \in Seq(Nat), \A k \in DOMAIN ups : ups[k] > 0
    PROVE  Renumber(ups, 0) = ups
<1> DEFINE S == {k \in DOMAIN ups : ups[k] > 0}
           n == Len(ups)
<1>1. n \in Nat /\ DOMAIN ups = 1..n /\ \A k \in 1..n : ups[k] \in Nat
  OBVIOUS
<1>2. S = 1..n
  BY <1>1
<1> HIDE DEF n
<1>3. Ordered(S) = [k \in 1..n |-> k]
  BY <1>1, <1>2, OrderedUpto
<1>4. Renumber(ups, 0) = [k \in DOMAIN Ordered(S) |-> ups[Ordered(S)[k]] - 0]
  BY DEF Renumber
<1> HIDE DEF S
<1>5. Renumber(ups, 0) = [k \in 1..n |-> ups[k] - 0]
  BY <1>3, <1>4
<1>6. \A k \in 1..n : ups[k] - 0 = ups[k]
  BY <1>1
<1>7. ups = [k \in 1..n |-> ups[k]]
  BY <1>1
<1> QED
  BY <1>5, <1>6, <1>7

LEMMA SetToSeqIs ==
    ASSUME NEW b \in Nat, NEW S \in SUBSET (1..b)
    PROVE  /\ SetToSeq(S) \in Seq(S) /\ DOMAIN SetToSeq(S) = 1..Cardinality(S)
           /\ Cardinality(S) \in Nat /\ (S # {} => Cardinality(S) # 0)
<1> DEFINE c == Cardinality(S)
<1>1. PICK f : Enumerates(f, S)
  BY EnumerationExists
<1>2. c \in Nat /\ (S # {} => c # 0)
  <2>1. IsFiniteSet(S)
    BY EnumerationExists
  <2> QED
    BY <2>1, FS_CardinalityType, FS_EmptySet
<1>3. f \in [1..c -> S] /\ \A i, j \in 1..c : i < j => f[i] < f[j]
  BY <1>1 DEF Enumerates
<1>4. IsInjective(f)
  <2>1. SUFFICES ASSUME NEW i \in 1..c, NEW j \in 1..c, f[i] = f[j] PROVE i = j
    BY <1>3 DEF IsInjective
  <2>2. f[i] \in S
    BY <1>3
  <2>3. f[i] \in Nat
    <3>1. \A x \in S : x \in Nat
      OBVIOUS
    <3> QED
      BY <2>2, <3>1
  <2>4. ~(f[i] < f[i])
    <3>1. \A x \in Nat : ~(x < x)
      OBVIOUS
    <3> QED
      BY <2>3, <3>1
  <2>5. ~(i < j) /\ ~(j < i)
    BY <1>3, <2>1, <2>4
  <2> QED
    BY <1>2, <2>5
<1>5. SetToSeq(S) \in [1..c -> S]
  BY <1>3, <1>4 DEF SetToSeq
<1> HIDE DEF c
<1>6. SetToSeq(S) \in Seq(S) /\ DOMAIN SetToSeq(S) = 1..c
  BY <1>2, <1>5, MappedSeq
<1> QED
  BY <1>2, <1>6 DEF c

LEMMA WholeSeq ==
    ASSUME NEW S, NEW s \in Seq(S)
    PROVE  SubSeq(s, 1, Len(s)) = s
<1>1. Len(s) \in Nat /\ DOMAIN s = 1..Len(s) /\ s = [k \in 1..Len(s) |-> s[k]]
  OBVIOUS
<1>2. SubSeq(s, 1, Len(s)) = [k \in 1..Len(s) |-> s[k]]
  BY <1>1
<1> QED
  BY <1>1, <1>2

LEMMA RaiseGrown ==
    ASSUME Filed(items, updates), Len(items) <= Limit, cursor \in Nat,
           NEW item \in Item, AddNotification(item)
    PROVE  Grown({item.id})
<1> DEFINE old == Places(items, item.id)
<1>1. /\ items \in Seq(Item) /\ Len(items) \in Nat /\ DOMAIN items = 1..Len(items)
      /\ Limit \in Nat /\ 1 <= Limit
      /\ updates \in Seq(Nat) /\ Len(updates) \in Nat /\ DOMAIN updates = 1..Len(updates)
      /\ \A k \in DOMAIN updates : updates[k] \in DOMAIN items
      /\ Distinct(items)
  BY Bounds DEF Filed
<1>2. CASE old # {}
  <2> DEFINE more == SetToSeq(old)
  <2>1. /\ items' = [k \in DOMAIN items |-> IF k \in old THEN item ELSE items[k]]
        /\ updates' = updates \o more
    BY <1>2 DEF AddNotification
  <2>2. old \in SUBSET (1..Len(items)) /\ \A k \in old : k \in DOMAIN items /\ items[k].id = item.id
    BY <1>1 DEF Places
  <2> HIDE DEF old
  <2>3. \A k \in DOMAIN items : k \in DOMAIN items' /\ items'[k].id = items[k].id
    BY <2>1, <2>2
  <2>4. more \in Seq(old) /\ 1 \in DOMAIN more
    <3>1. /\ more \in Seq(old) /\ DOMAIN more = 1..Cardinality(old)
          /\ Cardinality(old) \in Nat /\ Cardinality(old) # 0
      BY <1>1, <1>2, <2>2, SetToSeqIs
    <3> HIDE DEF more
    <3>2. 1 \in 1..Cardinality(old)
      BY <3>1
    <3> QED
      BY <3>1, <3>2
  <2> HIDE DEF more
  <2>5. more[1] \in old
    BY <2>4
  <2>6. more \in Seq(Nat)
    <3>1. old \subseteq Nat
      BY <2>2
    <3>2. Len(more) \in Nat /\ DOMAIN more = 1..Len(more) /\ more \in [1..Len(more) -> old]
      BY <2>4
    <3>3. \A i \in 1..Len(more) : more[i] \in Nat
      BY <3>1, <3>2
    <3>4. more \in [1..Len(more) -> Nat]
      BY <3>2, <3>3
    <3> QED
      BY <3>2, <3>4, MappedSeq
  <2>7. \A id \in {item.id} : \E i \in DOMAIN more : items'[more[i]].id = id
    BY <2>1, <2>2, <2>4, <2>5
  <2> QED
    BY <2>1, <2>3, <2>6, <2>7, LongerGrown
<1>3. CASE old = {}
  <2> DEFINE its1 == Append(items, item)
             ups1 == Append(updates, Len(items) + 1)
             n == IF Len(its1) > Limit THEN Len(its1) - Limit ELSE 0
  <2>1. items' = SubSeq(its1, n + 1, Len(its1)) /\ updates' = Renumber(ups1, n)
    BY <1>3 DEF AddNotification, EnforceLimit
  <2>2. /\ its1 \in Seq(Item) /\ Len(its1) = Len(items) + 1
        /\ \A k \in DOMAIN items : its1[k] = items[k]
        /\ its1[Len(items) + 1] = item
    BY <1>1, AppendFacts
  <2>3. /\ ups1 \in Seq(Nat) /\ DOMAIN ups1 = 1..(Len(updates) + 1)
        /\ \A k \in DOMAIN updates : ups1[k] = updates[k]
        /\ ups1[Len(updates) + 1] = Len(items) + 1
    BY <1>1, AppendFacts
  <2>4. CASE n = 0
    <3>1. \A k \in DOMAIN ups1 : ups1[k] > 0
      <4>1. SUFFICES ASSUME NEW k \in DOMAIN ups1 PROVE ups1[k] > 0
        OBVIOUS
      <4>2. CASE k \in DOMAIN updates
        <5>1. ups1[k] = updates[k] /\ updates[k] \in 1..Len(items)
          BY <1>1, <2>3, <4>2
        <5> QED
          BY <1>1, <5>1
      <4>3. CASE k = Len(updates) + 1
        BY <1>1, <2>3, <4>3
      <4> HIDE DEF ups1
      <4> QED
        BY <1>1, <2>3, <4>1, <4>2, <4>3
    <3> DEFINE more == <<Len(items) + 1>>
    <3>2. updates' = updates \o more
      <4>1. Renumber(ups1, 0) = ups1
        BY <2>3, <3>1, RenumberNone
      <4>2. ups1 = updates \o more
        BY <1>1
      <4> QED
        BY <2>1, <2>4, <4>1, <4>2
    <3>3. items' = its1
      <4> HIDE DEF its1, n
      <4>1. SubSeq(its1, 1, Len(its1)) = its1
        BY <2>2, WholeSeq
      <4> QED
        BY <2>1, <2>4, <4>1
    <3> HIDE DEF its1, ups1, n
    <3>4. \A k \in DOMAIN items : k \in DOMAIN items' /\ items'[k].id = items[k].id
      BY <1>1, <2>2, <3>3
    <3>5. more \in Seq(Nat) /\ 1 \in DOMAIN more /\ more[1] = Len(items) + 1
      BY <1>1
    <3>6. \A id \in {item.id} : \E i \in DOMAIN more : items'[more[i]].id = id
      BY <2>2, <3>3, <3>5
    <3> HIDE DEF more
    <3> QED
      BY <3>2, <3>4, <3>5, <3>6, LongerGrown
  <2>5. CASE n # 0
    <3>1. n \in 1..Len(items) /\ n \in 0..Len(its1)
      BY <1>1, <2>2, <2>5
    <3> HIDE DEF its1, ups1, n
    <3>2. \A k \in DOMAIN items' : k \in 1..(Len(its1) - n) /\ items'[k] = its1[k + n]
      <4>1. Len(its1) \in Nat /\ n \in Nat
        BY <1>1, <2>2, <3>1
      <4>2. /\ items' \in Seq(Item) /\ Len(items') = Len(its1) - n
            /\ \A k \in 1..(Len(its1) - n) : items'[k] = its1[k + n]
        BY <2>1, <2>2, <3>1, Shortened
      <4> QED
        BY <4>1, <4>2
    <3>3. 1 \in DOMAIN items /\ items[1].id \in IdsOf(items)
      BY <1>1, <3>1 DEF IdsOf
    <3>4. ASSUME NEW k \in DOMAIN items' PROVE items'[k].id # items[1].id
      <4>1. k + n \in 2..(Len(items) + 1)
        BY <1>1, <2>2, <3>1, <3>2
      <4>2. CASE k + n \in DOMAIN items
        <5>1. items'[k] = items[k + n] /\ k + n # 1
          BY <2>2, <3>2, <4>1, <4>2
        <5> QED
          BY <1>1, <3>3, <4>2, <5>1 DEF Distinct
      <4>3. CASE k + n = Len(items) + 1
        <5>1. items'[k] = item
          BY <2>2, <3>2, <4>3
        <5> QED
          BY <1>3, <3>3, <5>1 DEF Places
      <4> QED
        BY <1>1, <4>1, <4>2, <4>3
    <3>5. items[1].id \notin IdsOf(items')
      BY <3>4 DEF IdsOf
    <3>6. CursorAstray
      BY <3>3, <3>5 DEF CursorAstray
    <3> QED
      BY <3>6 DEF Grown
  <2> QED
    BY <2>4, <2>5
<1> QED
  BY <1>2, <1>3

\* The ids of what a request marks read.
Marks(ids) == {items[k].id : k \in {j \in DOMAIN items : items[j].id \in ids /\ ~items[j].read}}

LEMMA ReadGrown ==
    ASSUME Filed(items, updates), cursor \in Nat, NEW ids, MarkReadByIds(ids)
    PROVE  /\ Announce(Marks(ids)) /\ guid' = guid /\ Grown(Marks(ids))
           /\ \A k \in DOMAIN items' :
                 /\ k \in DOMAIN items
                 /\ items'[k] = items[k] \/ items'[k].id \in Marks(ids)
                 /\ items'[k].id \in ids => items'[k].read
<1> DEFINE changed == {k \in DOMAIN items : items[k].id \in ids /\ ~items[k].read}
           its1 == [k \in DOMAIN items |-> IF k \in changed THEN [items[k] EXCEPT !.read = TRUE] ELSE items[k]]
           more == Ordered(changed)
<1>1. items' = its1 /\ updates' = updates \o more
  BY DEF MarkReadByIds
<1>2. Announce(Marks(ids)) /\ guid' = guid
  BY DEF MarkReadByIds, Marks
<1>3. /\ items \in Seq(Item) /\ Len(items) \in Nat /\ DOMAIN items = 1..Len(items)
      /\ \A k \in DOMAIN items : items[k] \in Item
  BY DEF Filed
<1>4. ASSUME NEW k \in DOMAIN items
      PROVE  /\ its1[k].id = items[k].id
             /\ its1[k] = items[k] \/ k \in changed
             /\ items[k].id \in ids => its1[k].read
  <2>1. items[k] \in Item
    BY <1>3
  <2>2. CASE k \in changed
    <3>1. its1[k] = [items[k] EXCEPT !.read = TRUE]
      BY <2>2
    <3> HIDE DEF its1, changed
    <3> QED
      BY <2>1, <2>2, <3>1 DEF Item
  <2>3. CASE k \notin changed
    BY <2>1, <2>3
  <2> QED
    BY <2>2, <2>3
<1>5. \A k \in changed : items[k].id \in Marks(ids)
  BY DEF Marks
<1>6. \A id \in Marks(ids) : \E k \in changed : items[k].id = id
  BY DEF Marks
<1>7. changed \in SUBSET (1..Len(items))
  BY <1>3
<1>8. DOMAIN its1 = DOMAIN items
  OBVIOUS
<1> HIDE DEF its1, changed
<1>9. /\ more \in Seq(changed) /\ DOMAIN more = 1..Cardinality(changed)
      /\ \A k \in changed : \E i \in DOMAIN more : more[i] = k
  BY <1>3, <1>7, OrderedFacts DEF Enumerates
<1> HIDE DEF more
<1>10. more \in Seq(Nat)
  <2>1. \A k \in changed : k \in Nat
    BY <1>7
  <2>2. Len(more) \in Nat /\ DOMAIN more = 1..Len(more) /\ more \in [1..Len(more) -> changed]
    BY <1>9
  <2>3. \A i \in 1..Len(more) : more[i] \in Nat
    BY <2>1, <2>2
  <2>4. more \in [1..Len(more) -> Nat]
    BY <2>2, <2>3
  <2> QED
    BY <2>2, <2>4, MappedSeq
<1>11. \A id \in Marks(ids) : \E i \in DOMAIN more : items'[more[i]].id = id
  <2>1. SUFFICES ASSUME NEW id \in Marks(ids) PROVE \E i \in DOMAIN more : items'[more[i]].id = id
    OBVIOUS
  <2>2. PICK k \in changed : items[k].id = id
    BY <1>6
  <2>3. PICK i \in DOMAIN more : more[i] = k
    BY <1>9
  <2>4. k \in DOMAIN items
    BY <1>3, <1>7
  <2> QED
    BY <1>1, <1>4, <2>2, <2>3, <2>4
<1>12. \A k \in DOMAIN items : k \in DOMAIN items' /\ items'[k].id = items[k].id
  BY <1>1, <1>4, <1>8
<1>13. Grown(Marks(ids))
  BY <1>1, <1>10, <1>11, <1>12, LongerGrown
<1>14. ASSUME NEW k \in DOMAIN items'
       PROVE  /\ k \in DOMAIN items
              /\ items'[k] = items[k] \/ items'[k].id \in Marks(ids)
              /\ items'[k].id \in ids => items'[k].read
  <2>1. k \in DOMAIN items
    BY <1>1, <1>8
  <2> QED
    BY <1>1, <1>4, <1>5, <2>1
<1> QED
  BY <1>2, <1>13, <1>14

\* What a raised notification, or one marked read, leaves to the others.
LEMMA RaiseSafe ==
    ASSUME Types, NEW id \in Ids, Raise(id)
    PROVE  /\ \A k \in DOMAIN items' : items'[k].id = id \/ \E j \in DOMAIN items : items'[k] = items[j]
           /\ Safe(id)'
           /\ \A i \in IdsOf(items) : Safe(i) => Safe(i)'
<1> DEFINE item == [id |-> id, stamp |-> raised + 1, read |-> FALSE]
<1>1. raised + 1 \in 1..MaxRaises
  BY Bounds DEF Types, HistoryOK, Raise
<1>2. item \in Item /\ item.id = id
  BY <1>1 DEF Item
<1>3. AddNotification(item) /\ Announce({id}) /\ UNCHANGED <<cursor, snap>>
  BY DEF Raise, stream
<1>4. Filed(items, updates) /\ Len(items) <= Limit /\ cursor \in Nat
  BY DEF Types, ManagerOK, StreamOK
<1> HIDE DEF item
<1>5. Refiled(items, updates, items', updates', {item})
  BY <1>2, <1>3, <1>4, Added
<1>6. Filed(items', updates')
  BY <1>5 DEF Refiled
<1>7. Grown({id})
  BY <1>2, <1>3, <1>4, RaiseGrown
<1>8. /\ \A i \in {id} : Safe(i)'
      /\ \A i \in IdsOf(items) : Safe(i) => Safe(i)'
  BY <1>3, <1>4, <1>6, <1>7, AnnouncedSafe
<1>9. \A k \in DOMAIN items' : items'[k].id = id \/ \E j \in DOMAIN items : items'[k] = items[j]
  BY <1>2, <1>5 DEF Refiled
<1> QED
  BY <1>8, <1>9

LEMMA ReadSafe ==
    ASSUME Types, NEW call \in tab.sent, Handle(call), call.op # "clear"
    PROVE  /\ \A k \in DOMAIN items' :
                 /\ \A i : i = items'[k].id => Safe(i)' \/ \E j \in DOMAIN items : items'[k] = items[j]
                 /\ items'[k].id \in call.ids => items'[k].read
           /\ \A i \in IdsOf(items) : Safe(i) => Safe(i)'
<1>1. MarkReadByIds(call.ids) /\ UNCHANGED <<cursor, snap>>
  BY DEF Handle, stream
<1>2. Filed(items, updates) /\ cursor \in Nat
  BY DEF Types, ManagerOK, StreamOK
<1>3. Filed(items', updates')
  BY <1>1, <1>2, ReadMarked DEF Refiled
<1>4. /\ Announce(Marks(call.ids)) /\ Grown(Marks(call.ids))
      /\ \A k \in DOMAIN items' :
            /\ k \in DOMAIN items
            /\ items'[k] = items[k] \/ items'[k].id \in Marks(call.ids)
            /\ items'[k].id \in call.ids => items'[k].read
  BY <1>1, <1>2, ReadGrown
<1>5. /\ \A i \in Marks(call.ids) : Safe(i)'
      /\ \A i \in IdsOf(items) : Safe(i) => Safe(i)'
  BY <1>1, <1>2, <1>3, <1>4, AnnouncedSafe
<1>6. ASSUME NEW k \in DOMAIN items', NEW i, i = items'[k].id
      PROVE  Safe(i)' \/ \E j \in DOMAIN items : items'[k] = items[j]
  <2>1. CASE items'[k] = items[k]
    BY <1>4, <2>1
  <2>2. CASE items'[k].id \in Marks(call.ids)
    BY <1>5, <1>6, <2>2
  <2> QED
    BY <1>4, <2>1, <2>2
<1> QED
  BY <1>4, <1>5, <1>6

-----------------------------------------------------------------------------
(* What the tab has                                                        *)

\* A request that marks id read is on its way.
Asked(t, id) == \E c \in t.sent : c.op \in {"read", "all"} /\ id \in c.ids

\* The store has n, but for marks of its own that the server will hear of or, for
\* the ids of X, has missed; or it has dropped n for another.
Has(t, n, X) ==
    \/ \E k \in DOMAIN t.list :
          /\ t.list[k].id = n.id /\ t.list[k].stamp = n.stamp
          /\ t.list[k].read = n.read \/ (t.list[k].read /\ (n.id \in X \/ Asked(t, n.id)))
    \/ n.id \notin IdsOf(t.list) /\ Len(t.list) = Limit

\* r has the notifications of t, some of them marked read, which it has told.
Held(t, r) ==
    /\ r.guid = t.guid /\ t.sent \subseteq r.sent
    /\ Len(r.list) = Len(t.list) /\ DOMAIN r.list = DOMAIN t.list
    /\ \A k \in DOMAIN t.list :
          /\ r.list[k].id = t.list[k].id /\ r.list[k].stamp = t.list[k].stamp
          /\ r.list[k].read = t.list[k].read \/ (r.list[k].read /\ Asked(r, t.list[k].id))

LEMMA HeldSame ==
    ASSUME NEW t, NEW r, r.guid = t.guid, r.sent = t.sent, r.list = t.list
    PROVE  Held(t, r)
BY DEF Held

LEMMA HeldAgain ==
    ASSUME NEW t, NEW u, NEW r, Held(t, u), Held(u, r)
    PROVE  Held(t, r)
<1>1. /\ r.guid = t.guid /\ t.sent \subseteq r.sent
      /\ Len(r.list) = Len(t.list) /\ DOMAIN r.list = DOMAIN t.list
  BY DEF Held
<1>2. \A id : Asked(u, id) => Asked(r, id)
  BY DEF Held, Asked
<1>3. ASSUME NEW k \in DOMAIN t.list
      PROVE  /\ r.list[k].id = t.list[k].id /\ r.list[k].stamp = t.list[k].stamp
             /\ r.list[k].read = t.list[k].read \/ (r.list[k].read /\ Asked(r, t.list[k].id))
  <2>1. /\ u.list[k].id = t.list[k].id /\ u.list[k].stamp = t.list[k].stamp
        /\ u.list[k].read = t.list[k].read \/ (u.list[k].read /\ Asked(u, t.list[k].id))
    BY DEF Held
  <2>2. /\ r.list[k].id = u.list[k].id /\ r.list[k].stamp = u.list[k].stamp
        /\ r.list[k].read = u.list[k].read \/ (r.list[k].read /\ Asked(r, u.list[k].id))
    BY DEF Held
  <2> QED
    BY <1>2, <2>1, <2>2
<1> QED
  BY <1>1, <1>3 DEF Held

LEMMA HeldHas ==
    ASSUME NEW t, NEW r, Held(t, r)
    PROVE  /\ r.guid = t.guid /\ (Clears(t) => Clears(r))
           /\ Distinct(t.list) => Distinct(r.list)
           /\ \A n, X : Has(t, n, X) => Has(r, n, X)
<1>1. r.guid = t.guid /\ (Clears(t) => Clears(r))
  BY DEF Held, Clears
<1>2. Distinct(t.list) => Distinct(r.list)
  BY DEF Held, Distinct
<1>3. \A id : Asked(t, id) => Asked(r, id)
  BY DEF Held, Asked
<1>4. IdsOf(r.list) = IdsOf(t.list) /\ Len(r.list) = Len(t.list)
  BY DEF Held, IdsOf
<1>5. ASSUME NEW n, NEW X, Has(t, n, X) PROVE Has(r, n, X)
  <2>1. CASE n.id \notin IdsOf(t.list) /\ Len(t.list) = Limit
    BY <1>4, <2>1 DEF Has
  <2>2. ASSUME NEW k \in DOMAIN t.list,
               t.list[k].id = n.id, t.list[k].stamp = n.stamp,
               t.list[k].read = n.read \/ (t.list[k].read /\ (n.id \in X \/ Asked(t, n.id)))
        PROVE  Has(r, n, X)
    <3>1. /\ k \in DOMAIN r.list /\ r.list[k].id = n.id /\ r.list[k].stamp = n.stamp
          /\ r.list[k].read = t.list[k].read \/ (r.list[k].read /\ Asked(r, n.id))
      BY <2>2 DEF Held
    <3>2. r.list[k].read = n.read \/ (r.list[k].read /\ (n.id \in X \/ Asked(r, n.id)))
      BY <1>3, <2>2, <3>1
    <3> QED
      BY <3>1, <3>2 DEF Has
  <2> QED
    BY <1>5, <2>1, <2>2 DEF Has
<1> QED
  BY <1>1, <1>2, <1>5

LEMMA MarkAsReadHolds ==
    ASSUME NEW t, StoreOK(t), NEW id \in Ids \cup Local
    PROVE  Held(t, MarkAsRead(t, id))
<1> DEFINE r == MarkAsRead(t, id)
           at == {k \in Places(t.list, id) : ~t.list[k].read}
           call == [op |-> "read", ids |-> {id}]
<1>1. StoreOK(r) /\ Marked(t, r, {id})
  BY MarkAsReadIs
<1>2. t.list \in Seq(Item) /\ r.list \in Seq(Item)
  BY <1>1 DEF StoreOK, Store
<1>3. CASE at = {}
  <2>1. r = t
    BY <1>3 DEF MarkAsRead
  <2> HIDE DEF r
  <2> QED
    BY <2>1, HeldSame DEF r
<1>4. CASE at # {}
  <2> DEFINE list == [k \in DOMAIN t.list |-> IF k \in at THEN [t.list[k] EXCEPT !.read = TRUE] ELSE t.list[k]]
             u == [t EXCEPT !.list = list, !.sent = @ \cup {call}]
  <2>1. r = UpdateUnreadCount(u)
    BY <1>4 DEF MarkAsRead
  <2>2. u.sent = t.sent \cup {call}
    BY DEF StoreOK, Store
  <2>3. UpdateUnreadCount(u).sent = u.sent
    BY DEF UpdateUnreadCount, StoreOK, Store
  <2>4. call \in r.sent
    BY <2>1, <2>2, <2>3
  <2>5. Asked(r, id)
    BY <2>4 DEF Asked
  <2> HIDE DEF r
  <2>6. /\ r.guid = t.guid /\ t.sent \subseteq r.sent /\ DOMAIN r.list = DOMAIN t.list
        /\ \A k \in DOMAIN t.list :
              /\ r.list[k].id = t.list[k].id /\ r.list[k].stamp = t.list[k].stamp
              /\ r.list[k].read # t.list[k].read => t.list[k].id = id /\ r.list[k].read
    BY <1>1 DEF Marked
  <2>7. Len(r.list) = Len(t.list)
    BY <1>2, <2>6
  <2> QED
    BY <2>5, <2>6, <2>7 DEF Held, r
<1> QED
  BY <1>3, <1>4

LEMMA RemovedHolds ==
    ASSUME NEW t, StoreOK(t), NEW id \in Ids \cup Local, NEW byUser \in BOOLEAN
    PROVE  Held(t, RemoveFromToastStack(t, id, byUser))
<1>1. CASE Places(t.toasts, id) = {}
  BY <1>1, HeldSame DEF RemoveFromToastStack
<1>2. CASE Places(t.toasts, id) # {}
  <2> DEFINE u == [t EXCEPT !.toasts = RemoveAt(@, FirstToast(t, id))]
  <2>1. RemoveFromToastStack(t, id, byUser) = IF byUser \/ id \notin Urgent THEN MarkAsRead(u, id) ELSE u
    BY <1>2 DEF RemoveFromToastStack, AfterToastRemoved
  <2>2. t \in Store /\ t.toasts \in Seq(Toast) /\ Len(t.list) <= Limit
    BY DEF StoreOK, Store
  <2>3. RemoveAt(t.toasts, FirstToast(t, id)) \in Seq(Toast)
    BY <1>2, <2>2, FirstToastIs, RemoveAtFacts
  <2>4. StoreOK(u) /\ u.list = t.list /\ u.guid = t.guid /\ u.sent = t.sent
    BY <2>2, <2>3 DEF StoreOK, Store
  <2> HIDE DEF u
  <2>5. Held(t, u) /\ Held(u, MarkAsRead(u, id))
    BY <2>4, HeldSame, MarkAsReadHolds
  <2> QED
    BY <2>1, <2>5, HeldAgain
<1> QED
  BY <1>1, <1>2

LEMMA ReplaceGroupHolds ==
    ASSUME NEW t, StoreOK(t), NEW id \in Ids \cup Local
    PROVE  Held(t, ReplaceGroup(t, id))
<1> DEFINE same == {k \in DOMAIN t.toasts : t.toasts[k].id \in Grouped}
           first == CHOOSE k \in same : \A j \in same : k <= j
<1>1. t.toasts \in Seq(Toast)
  BY DEF StoreOK, Store
<1>2. CASE id \in Grouped /\ same # {}
  <2>1. ReplaceGroup(t, id) = RemoveFromToastStack(t, t.toasts[first].id, FALSE)
    BY <1>2 DEF ReplaceGroup
  <2>2. same \in SUBSET Nat
    BY <1>1
  <2> HIDE DEF same
  <2>3. first \in same
    BY <1>2, <2>2, NatMinimum
  <2> HIDE DEF first
  <2>4. t.toasts[first].id \in Ids \cup Local
    <3>1. first \in DOMAIN t.toasts
      BY <2>3 DEF same
    <3>2. t.toasts[first] \in Toast
      BY <1>1, <3>1
    <3> QED
      BY <3>2 DEF Toast
  <2> QED
    BY <2>1, <2>4, RemovedHolds
<1>3. CASE ~(id \in Grouped /\ same # {})
  BY <1>3, HeldSame DEF ReplaceGroup
<1> QED
  BY <1>2, <1>3

LEMMA AddToToastStackHolds ==
    ASSUME NEW t, Stored(t), NEW id \in Ids \cup Local
    PROVE  Held(t, AddToToastStack(t, id))
<1> DEFINE room == ReplaceGroup(t, id)
           more == [room EXCEPT !.toasts = Append(@, [id |-> id, timed |-> FALSE])]
           less == LimitToasts(more)
           r == RestartToastTimer(less, id)
<1>0. AddToToastStack(t, id) = r
  BY DEF AddToToastStack
<1>1. StoreOK(t) /\ {} \in SUBSET Urgent
  BY DEF Stored
<1>2. Held(t, room)
  BY <1>1, ReplaceGroupHolds
<1>3. StoreOK(room)
  BY <1>1, ReplaceGroupKept DEF Kept
<1> HIDE DEF room
<1>4. Held(room, more) /\ StoreOK(more)
  <2>1. StoreOK(more)
    BY <1>3, PushedToast DEF Kept
  <2>2. more.guid = room.guid /\ more.sent = room.sent /\ more.list = room.list
    BY <1>3 DEF StoreOK, Store
  <2> HIDE DEF more
  <2> QED
    BY <2>1, <2>2, HeldSame
<1> HIDE DEF more
<1>5. Held(more, less) /\ StoreOK(less)
  <2>1. CASE Len(more.toasts) > MaxToasts
    <3>1. less = RemoveFromToastStack(more, Head(more.toasts).id, FALSE)
      BY <2>1 DEF LimitToasts
    <3>2. more.toasts \in Seq(Toast) /\ Len(more.toasts) \in Nat /\ MaxToasts \in Nat
      BY <1>4, Bounds DEF StoreOK, Store
    <3>3. Head(more.toasts) \in Toast
      <4>1. 1 \in DOMAIN more.toasts /\ Head(more.toasts) = more.toasts[1]
        BY <2>1, <3>2
      <4> QED
        BY <3>2, <4>1
    <3>4. Head(more.toasts).id \in Ids \cup Local
      BY <3>3 DEF Toast
    <3>5. FALSE \in BOOLEAN /\ (FALSE => Head(more.toasts).id \notin {})
      OBVIOUS
    <3>6. Held(more, less)
      BY <1>4, <3>1, <3>4, <3>5, RemovedHolds
    <3>7. StoreOK(less)
      BY <1>4, <3>1, <3>4, <3>5, RemovedIs
    <3> QED
      BY <3>6, <3>7
  <2>2. CASE ~(Len(more.toasts) > MaxToasts)
    <3>1. less = more
      BY <2>2 DEF LimitToasts
    <3> QED
      BY <1>4, <3>1, HeldSame
  <2> QED
    BY <2>1, <2>2
<1> HIDE DEF less
<1>6. Held(less, r)
  <2>1. CASE Places(less.toasts, id) = {}
    BY <2>1, HeldSame DEF RestartToastTimer
  <2>2. CASE Places(less.toasts, id) # {}
    <3> DEFINE s == [less.toasts EXCEPT ![FirstToast(less, id)].timed = TRUE]
    <3>1. r = [less EXCEPT !.toasts = s]
      BY <2>2 DEF RestartToastTimer
    <3> HIDE DEF s, r
    <3>2. r.guid = less.guid /\ r.sent = less.sent /\ r.list = less.list
      BY <1>5, <3>1 DEF StoreOK, Store
    <3> QED
      BY <3>2, HeldSame
  <2> QED
    BY <2>1, <2>2
<1> HIDE DEF r
<1> QED
  BY <1>0, <1>2, <1>4, <1>5, <1>6, HeldAgain

LEMMA AllMarkedHolds ==
    ASSUME NEW t, Stored(t)
    PROVE  Held(t, MarkAllAsRead(t))
<1> DEFINE list == [k \in DOMAIN t.list |-> [t.list[k] EXCEPT !.read = TRUE]]
           call == [op |-> "all", ids |-> Ids]
           u == [t EXCEPT !.list = list, !.sent = @ \cup {call}]
           w == ClearToastStack(u)
           r == UpdateUnreadCount(w)
<1>1. CASE \A k \in DOMAIN t.list : t.list[k].read
  BY <1>1, HeldSame DEF MarkAllAsRead
<1>2. CASE ~\A k \in DOMAIN t.list : t.list[k].read
  <2>1. MarkAllAsRead(t) = r
    BY <1>2, Zenon DEF MarkAllAsRead
  <2>2. t \in Store /\ t.list \in Seq(Item) /\ \A k \in DOMAIN t.list : t.list[k] \in Item
    <3>1. t \in Store /\ t.list \in Seq(Item)
      BY DEF Stored, StoreOK, Store
    <3> QED
      BY <3>1
  <2>3. \A n \in Item : LET m == [n EXCEPT !.read = TRUE]
                        IN m.id = n.id /\ m.stamp = n.stamp /\ m.read /\ n.id \in Ids
    BY DEF Item
  <2>4. /\ DOMAIN list = DOMAIN t.list
        /\ \A k \in DOMAIN t.list : /\ list[k].id = t.list[k].id /\ list[k].stamp = t.list[k].stamp
                                    /\ list[k].read /\ t.list[k].id \in Ids
    BY <2>2, <2>3
  <2>5. Len(list) = Len(t.list)
    BY <2>2
  <2> HIDE DEF list
  <2>6. u.list = list /\ u.guid = t.guid /\ u.sent = t.sent \cup {call} /\ DOMAIN u = DOMAIN t
    BY <2>2 DEF Store
  <2>7. \A x : x \in {"list", "guid", "sent"} => x \in DOMAIN t
    BY <2>2 DEF Store
  <2>8. w.list = u.list /\ w.guid = u.guid /\ w.sent = u.sent
    BY DEF ClearToastStack
  <2> HIDE DEF u, w
  <2>9. r.list = w.list /\ r.guid = w.guid /\ r.sent = w.sent
    BY DEF UpdateUnreadCount
  <2> HIDE DEF r
  <2>10. \A id \in Ids : Asked(r, id)
    <3>1. call.op = "all" /\ call.ids = Ids
      OBVIOUS
    <3> HIDE DEF call
    <3>2. call \in r.sent
      BY <2>6, <2>8, <2>9
    <3> QED
      BY <3>1, <3>2 DEF Asked
  <2> QED
    BY <2>1, <2>4, <2>5, <2>6, <2>8, <2>9, <2>10 DEF Held
<1> QED
  BY <1>1, <1>2

LEMMA UserStepHolds ==
    ASSUME Types, UserStep
    PROVE  Held(tab, tab')
<1>1. tab \in Store /\ StoreOK(tab) /\ Stored(tab)
  BY DEF Types, TabOK, Stored, StoreOK
<1>2. CASE \E id \in Ids : Click(id)
  <2>1. PICK id \in Ids : Click(id)
    BY <1>2
  <2> QED
    BY <1>1, <2>1, MarkAsReadHolds DEF Click
<1>3. CASE \E id \in Ids \cup Local : ToastTimer(id) \/ DismissToast(id)
  <2>1. PICK id \in Ids \cup Local : ToastTimer(id) \/ DismissToast(id)
    BY <1>3
  <2>2. \E byUser \in BOOLEAN : tab' = RemoveFromToastStack(tab, id, byUser)
    BY <2>1 DEF ToastTimer, DismissToast
  <2> QED
    BY <1>1, <2>2, RemovedHolds
<1>4. CASE \E id \in Ids \cup Local : StrayTimer(id)
  <2>1. PICK id \in Ids \cup Local : StrayTimer(id)
    BY <1>4
  <2> DEFINE t == [tab EXCEPT !.stray = @ \ {id}]
  <2>2. tab' = RemoveFromToastStack(t, id, FALSE)
    BY <2>1 DEF StrayTimer
  <2>3. t \in Store /\ t.list = tab.list /\ t.guid = tab.guid /\ t.sent = tab.sent
    BY <1>1 DEF Store
  <2> HIDE DEF t
  <2>4. StoreOK(t) /\ FALSE \in BOOLEAN
    BY <1>1, <2>3 DEF StoreOK
  <2>5. Held(tab, t) /\ Held(t, tab')
    BY <2>2, <2>3, <2>4, HeldSame, RemovedHolds
  <2> QED
    BY <2>5, HeldAgain
<1>5. CASE (\E id \in Local : LocalToast(id)) \/ OpenModal
  <2>1. \E s : tab' = [tab EXCEPT !.toasts = s]
    BY <1>5 DEF LocalToast, OpenModal, ClearToastStack
  <2>2. tab'.guid = tab.guid /\ tab'.sent = tab.sent /\ tab'.list = tab.list
    BY <1>1, <2>1 DEF Store
  <2> QED
    BY <2>2, HeldSame
<1>6. CASE CloseModal
  BY <1>1, <1>6, AllMarkedHolds DEF CloseModal
<1> QED
  BY <1>2, <1>3, <1>4, <1>5, <1>6 DEF UserStep

\* What one notification of a push makes of the store.
Gets(t, r, n) ==
    /\ r.guid = t.guid /\ Distinct(r.list) /\ (Clears(t) => Clears(r))
    /\ \A X : Has(r, n, X)
    /\ \A m, X : Has(t, m, X) /\ m.id # n.id => Has(r, m, X)

LEMMA GetsHeld ==
    ASSUME NEW t, NEW u, NEW r, NEW n, Gets(t, u, n), Held(u, r)
    PROVE  Gets(t, r, n)
<1>1. /\ r.guid = u.guid /\ (Clears(u) => Clears(r))
      /\ Distinct(u.list) => Distinct(r.list)
      /\ \A m, X : Has(u, m, X) => Has(r, m, X)
  BY HeldHas
<1> QED
  BY <1>1 DEF Gets

LEMMA AddOrUpdateGets ==
    ASSUME NEW t, Stored(t), Distinct(t.list), NEW n \in Item
    PROVE  Gets(t, AddOrUpdateNotification(t, n), n)
<1> DEFINE old == Places(t.list, n.id)
           put == [k \in DOMAIN t.list |-> IF k \in old THEN n ELSE t.list[k]]
           all == IF old = {} THEN <<n>> \o t.list ELSE put
           m == IF Len(all) > Limit THEN Limit ELSE Len(all)
           cut == SubSeq(all, 1, m)
           r == [t EXCEPT !.list = cut]
<1>0. AddOrUpdateNotification(t, n) = r
  BY DEF AddOrUpdateNotification
<1>1. /\ t \in Store /\ t.list \in Seq(Item) /\ Len(t.list) \in Nat /\ Len(t.list) <= Limit
      /\ DOMAIN t.list = 1..Len(t.list) /\ Limit \in Nat /\ 1 <= Limit
  BY Bounds DEF Stored, StoreOK, Store
<1>2. r.list = cut /\ r.guid = t.guid /\ r.sent = t.sent
  BY <1>1 DEF Store
<1> HIDE DEF r
<1>3. (\A id : Asked(r, id) <=> Asked(t, id)) /\ (Clears(t) => Clears(r))
  BY <1>2 DEF Asked, Clears
<1>4. CASE old # {}
  <2>1. all = put
    BY <1>4
  <2>2. put \in [1..Len(t.list) -> Item]
    BY <1>1
  <2>3. \A k \in DOMAIN t.list : /\ t.list[k].id = n.id => put[k] = n
                                 /\ t.list[k].id # n.id => put[k] = t.list[k]
    BY DEF Places
  <2>4. DOMAIN put = DOMAIN t.list
    OBVIOUS
  <2> HIDE DEF put
  <2>5. put \in Seq(Item) /\ Len(put) = Len(t.list)
    BY <1>1, <2>2, MappedSeq
  <2>6. m = Len(put)
    BY <1>1, <2>1, <2>5
  <2>7. cut = put
    BY <2>1, <2>5, <2>6, WholeSeq
  <2> HIDE DEF cut, m, all
  <2>8. \A k \in DOMAIN t.list : put[k].id = t.list[k].id
    BY <2>3
  <2>9. Distinct(put) /\ IdsOf(put) = IdsOf(t.list)
    BY <2>4, <2>8 DEF Distinct, IdsOf
  <2>10. PICK i \in DOMAIN t.list : put[i] = n
    <3>1. PICK i \in old : TRUE
      BY <1>4
    <3>2. i \in DOMAIN t.list /\ t.list[i].id = n.id
      BY DEF Places
    <3> QED
      BY <2>3, <3>1, <3>2
  <2>11. \A X : Has(r, n, X)
    BY <1>2, <2>4, <2>7, <2>10 DEF Has
  <2>12. ASSUME NEW x, NEW X, Has(t, x, X), x.id # n.id PROVE Has(r, x, X)
    <3>1. CASE x.id \notin IdsOf(t.list) /\ Len(t.list) = Limit
      BY <1>2, <2>5, <2>7, <2>9, <3>1 DEF Has
    <3>2. ASSUME NEW k \in DOMAIN t.list,
                 t.list[k].id = x.id, t.list[k].stamp = x.stamp,
                 t.list[k].read = x.read \/ (t.list[k].read /\ (x.id \in X \/ Asked(t, x.id)))
          PROVE  Has(r, x, X)
      <4>1. r.list[k] = t.list[k] /\ k \in DOMAIN r.list
        BY <1>2, <2>3, <2>4, <2>7, <2>12, <3>2
      <4> QED
        BY <1>3, <3>2, <4>1 DEF Has
    <3> QED
      BY <2>12, <3>1, <3>2 DEF Has
  <2> QED
    BY <1>0, <1>2, <1>3, <2>7, <2>9, <2>11, <2>12 DEF Gets
<1>5. CASE old = {}
  <2>1. all = <<n>> \o t.list
    BY <1>5
  <2>2. /\ all \in Seq(Item) /\ Len(all) = 1 + Len(t.list)
        /\ \A k \in 1..(1 + Len(t.list)) : all[k] = IF k <= 1 THEN n ELSE t.list[k - 1]
    <3>1. <<n>> \in Seq(Item) /\ Len(<<n>>) = 1 /\ <<n>>[1] = n
      OBVIOUS
    <3> QED
      BY <1>1, <2>1, <3>1
  <2>3. \A k \in DOMAIN t.list : t.list[k].id # n.id
    BY <1>5 DEF Places
  <2> HIDE DEF all, old
  <2>4. /\ m \in Nat /\ m <= 1 + Len(t.list) /\ m <= Limit /\ 1 <= m
        /\ m = 1 + Len(t.list) \/ m = Limit
    BY <1>1, <2>2
  <2> HIDE DEF m
  <2>5. /\ cut \in Seq(Item) /\ Len(cut) = m /\ DOMAIN cut = 1..m
        /\ \A k \in 1..m : cut[k] = all[k]
    BY <2>2, <2>4
  <2> HIDE DEF cut
  <2>6. 1 \in 1..m /\ cut[1] = n
    BY <1>1, <2>2, <2>4, <2>5
  <2>7. \A k \in 1..m : k # 1 => k - 1 \in DOMAIN t.list /\ cut[k] = t.list[k - 1]
    <3>1. SUFFICES ASSUME NEW k \in 1..m, k # 1
                   PROVE  k - 1 \in DOMAIN t.list /\ cut[k] = t.list[k - 1]
      OBVIOUS
    <3>2. k \in 1..(1 + Len(t.list)) /\ ~(k <= 1) /\ k - 1 \in 1..Len(t.list)
      BY <1>1, <2>4, <3>1
    <3> QED
      BY <1>1, <2>2, <2>5, <3>2
  <2>8. Distinct(cut)
    <3>1. SUFFICES ASSUME NEW j \in 1..m, NEW k \in 1..m, cut[j].id = cut[k].id PROVE j = k
      BY <2>5 DEF Distinct
    <3>2. CASE j = 1 \/ k = 1
      BY <2>3, <2>6, <2>7, <3>1, <3>2
    <3>3. CASE j # 1 /\ k # 1
      <4>1. j - 1 = k - 1
        BY <2>7, <3>1, <3>3 DEF Distinct
      <4> QED
        BY <2>4, <4>1
    <3> QED
      BY <3>2, <3>3
  <2>9. \A X : Has(r, n, X)
    BY <1>2, <2>5, <2>6 DEF Has
  <2>10. ASSUME NEW x, NEW X, Has(t, x, X), x.id # n.id PROVE Has(r, x, X)
    <3>1. CASE x.id \notin IdsOf(t.list) /\ Len(t.list) = Limit
      <4>1. m = Limit
        BY <1>1, <2>4, <3>1
      <4>2. x.id \notin IdsOf(cut)
        <5>1. SUFFICES ASSUME NEW k \in 1..m PROVE cut[k].id # x.id
          BY <2>5 DEF IdsOf
        <5> QED
          BY <2>6, <2>7, <2>10, <3>1 DEF IdsOf
      <4> QED
        BY <1>2, <2>5, <4>1, <4>2 DEF Has
    <3>2. ASSUME NEW k \in DOMAIN t.list,
                 t.list[k].id = x.id, t.list[k].stamp = x.stamp,
                 t.list[k].read = x.read \/ (t.list[k].read /\ (x.id \in X \/ Asked(t, x.id)))
          PROVE  Has(r, x, X)
      <4>1. CASE k + 1 \in 1..m
        <5>1. k + 1 # 1 /\ (k + 1) - 1 = k
          BY <1>1, <3>2
        <5>2. r.list[k + 1] = t.list[k] /\ k + 1 \in DOMAIN r.list
          BY <1>2, <2>5, <2>7, <4>1, <5>1
        <5> QED
          BY <1>3, <3>2, <5>2 DEF Has
      <4>2. CASE k + 1 \notin 1..m
        <5>1. k \in Nat /\ k <= Len(t.list) /\ 1 <= k
          BY <1>1, <3>2
        <5>2. m = Limit /\ ~(k + 1 <= m)
          BY <1>1, <2>4, <4>2, <5>1
        <5>3. ASSUME NEW j \in 1..m PROVE cut[j].id # x.id
          <6>1. CASE j = 1
            BY <2>6, <2>10, <6>1
          <6>2. CASE j # 1
            <7>1. j - 1 # k
              BY <2>4, <5>1, <5>2
            <7> QED
              BY <2>7, <3>2, <6>2, <7>1 DEF Distinct
          <6> QED
            BY <6>1, <6>2
        <5>4. x.id \notin IdsOf(cut)
          BY <2>5, <5>3 DEF IdsOf
        <5> QED
          BY <1>2, <2>5, <5>2, <5>4 DEF Has
      <4> QED
        BY <4>1, <4>2
    <3> QED
      BY <2>10, <3>1, <3>2 DEF Has
  <2> QED
    BY <1>0, <1>2, <1>3, <2>8, <2>9, <2>10 DEF Gets
<1> QED
  BY <1>4, <1>5

LEMMA ReceiveGets ==
    ASSUME NEW t, Stored(t), Distinct(t.list), NEW n \in Item
    PROVE  Gets(t, Receive(t, n), n) /\ Stored(Receive(t, n))
<1> DEFINE there == AddOrUpdateNotification(t, n)
           known == \E k \in Places(t.list, n.id) : t.list[k].stamp = n.stamp
<1>1. {} \in SUBSET Urgent /\ (n.id \in {} => ~n.read) /\ n.id \in Ids \cup Local
  BY DEF Item
<1>2. Kept(t, there, {}) /\ Stored(there)
  BY <1>1, AddOrUpdateKept
<1>3. Gets(t, there, n)
  BY AddOrUpdateGets
<1>4. Receive(t, n) = IF n.read \/ known THEN there ELSE AddToToastStack(there, n.id)
  BY DEF Receive
<1>5. Stored(Receive(t, n))
  BY <1>1, ReceiveKept
<1> HIDE DEF there, known
<1>6. Held(there, AddToToastStack(there, n.id))
  BY <1>1, <1>2, AddToToastStackHolds
<1>7. Gets(t, AddToToastStack(there, n.id), n)
  BY <1>3, <1>6, GetsHeld
<1> QED
  BY <1>3, <1>4, <1>5, <1>7

LEMMA AllGot ==
    ASSUME NEW b, Stored(b), Distinct(b.list), NEW its \in Seq(Item), Distinct(its)
    PROVE  LET r == FoldLeft(Receive, b, its)
           IN  /\ Stored(r) /\ r.guid = b.guid /\ Distinct(r.list) /\ (Clears(b) => Clears(r))
               /\ \A i \in DOMAIN its : \A X : Has(r, its[i], X)
               /\ \A m, X : Has(b, m, X) /\ m.id \notin IdsOf(its) => Has(r, m, X)
<1> DEFINE good(x, n) ==
               /\ Stored(x) /\ x.guid = b.guid /\ Distinct(x.list) /\ (Clears(b) => Clears(x))
               /\ \A i \in 1..n : \A X : Has(x, its[i], X)
               /\ \A m, X : Has(b, m, X) /\ m.id \notin IdsOf(its) => Has(x, m, X)
           G == [n \in Nat |-> {x \in Store : good(x, n)}]
<1>1. Len(its) \in Nat /\ DOMAIN its = 1..Len(its)
  OBVIOUS
<1>2. b \in G[0]
  <2>1. b \in Store
    BY DEF Stored, StoreOK
  <2>2. good(b, 0)
    OBVIOUS
  <2> HIDE DEF good
  <2> QED
    BY <2>1, <2>2
<1>3. ASSUME NEW n \in DOMAIN its, NEW x \in G[n - 1] PROVE Receive(x, its[n]) \in G[n]
  <2> DEFINE r == Receive(x, its[n])
  <2>1. n \in Nat /\ n - 1 \in Nat /\ its[n] \in Item
    BY <1>1
  <2>2. good(x, n - 1)
    <3> HIDE DEF good
    <3> QED
      BY <2>1
  <2>3. Gets(x, r, its[n]) /\ Stored(r)
    BY <2>1, <2>2, ReceiveGets
  <2> HIDE DEF r
  <2>4. \A i \in 1..n : i = n \/ (i \in 1..(n - 1) /\ i \in DOMAIN its /\ i # n)
    BY <1>1, <2>1
  <2>5. ASSUME NEW i \in 1..n, NEW X PROVE Has(r, its[i], X)
    <3>1. CASE i = n
      BY <2>3, <3>1 DEF Gets
    <3>2. CASE i # n
      <4>1. i \in 1..(n - 1) /\ its[i].id # its[n].id
        BY <2>4, <3>2 DEF Distinct
      <4>2. Has(x, its[i], X)
        BY <2>2, <4>1
      <4> QED
        BY <2>3, <4>1, <4>2 DEF Gets
    <3> QED
      BY <3>1, <3>2
  <2>6. ASSUME NEW m, NEW X, Has(b, m, X), m.id \notin IdsOf(its) PROVE Has(r, m, X)
    <3>1. m.id # its[n].id
      BY <2>6 DEF IdsOf
    <3>2. Has(x, m, X)
      BY <2>2, <2>6
    <3> QED
      BY <2>3, <3>1, <3>2 DEF Gets
  <2>7. good(r, n)
    BY <2>2, <2>3, <2>5, <2>6 DEF Gets
  <2>8. r \in Store
    BY <2>3 DEF Stored, StoreOK
  <2> HIDE DEF good
  <2> QED
    BY <2>1, <2>7, <2>8 DEF r
<1> HIDE DEF G
<1>4. FoldLeft(Receive, b, its) \in G[Len(its)]
  BY <1>2, <1>3, FoldInduction
<1>5. good(FoldLeft(Receive, b, its), Len(its))
  <2> HIDE DEF good
  <2> QED
    BY <1>1, <1>4 DEF G
<1> QED
  BY <1>1, <1>5

LEMMA DeliverGot ==
    ASSUME NEW t, Stored(t), Distinct(t.list), NEW push \in Push, Distinct(push.items)
    PROVE  LET r == UpdateFromPoll(t, push)
           IN  /\ r.guid = push.guid /\ Distinct(r.list) /\ (Clears(t) => Clears(r))
               /\ \A i \in DOMAIN push.items : \A X : Has(r, push.items[i], X)
               /\ \A m, X : Has(t, m, X) /\ t.guid = push.guid /\ m.id \notin IdsOf(push.items) => Has(r, m, X)
<1> DEFINE b == Restarted(t, push)
           f == FoldLeft(Receive, b, push.items)
           r == UpdateUnreadCount(f)
<1>1. UpdateFromPoll(t, push) = r /\ push.items \in Seq(Item)
  BY DEF UpdateFromPoll, Push
<1>2. Stored(b) /\ b.sent = t.sent /\ b.guid = push.guid
  BY RestartedKept
<1>3. t.guid = push.guid => b = t
  BY DEF Restarted
<1>4. Distinct(b.list)
  <2>1. CASE t.guid = push.guid
    BY <1>3, <2>1
  <2>2. CASE t.guid # push.guid
    <3>1. b.list = <<>>
      BY <2>2 DEF Restarted, Stored, StoreOK, Store
    <3> QED
      BY <3>1 DEF Distinct
  <2> QED
    BY <2>1, <2>2
<1>5. Clears(t) => Clears(b)
  BY <1>2 DEF Clears
<1> HIDE DEF b
<1>6. /\ Stored(f) /\ f.guid = b.guid /\ Distinct(f.list) /\ (Clears(b) => Clears(f))
      /\ \A i \in DOMAIN push.items : \A X : Has(f, push.items[i], X)
      /\ \A m, X : Has(b, m, X) /\ m.id \notin IdsOf(push.items) => Has(f, m, X)
  BY <1>1, <1>2, <1>4, AllGot
<1> HIDE DEF f
<1>7. StoreOK(f)
  BY <1>6 DEF Stored
<1>8. r.list = f.list /\ r.guid = f.guid /\ r.sent = f.sent
  BY <1>7, UnreadCounted
<1> HIDE DEF r
<1>9. Held(f, r)
  BY <1>8, HeldSame
<1>10. /\ r.guid = f.guid /\ (Clears(f) => Clears(r))
       /\ Distinct(f.list) => Distinct(r.list)
       /\ \A n, X : Has(f, n, X) => Has(r, n, X)
  BY <1>9, HeldHas
<1> QED
  BY <1>1, <1>2, <1>3, <1>5, <1>6, <1>10

LEMMA ClearAllGot ==
    ASSUME NEW t, Stored(t)
    PROVE  LET r == ClearAll(t)
           IN  r.guid = t.guid /\ Distinct(r.list) /\ Clears(r)
<1> DEFINE call == [op |-> "clear", ids |-> Ids]
           r == ClearAll(t)
<1>1. /\ r.guid = t.guid /\ r.list = <<>> /\ r.sent = t.sent \cup {call}
  BY DEF ClearAll, ClearToastStack, Stored, StoreOK, Store
<1>2. call.op = "clear"
  OBVIOUS
<1> HIDE DEF r, call
<1>3. Clears(r) /\ Distinct(r.list)
  BY <1>1, <1>2 DEF Clears, Distinct
<1> QED
  BY <1>1, <1>3 DEF r

-----------------------------------------------------------------------------
(* Nothing else is missed                                                  *)

In(n, s) == \E k \in DOMAIN s : s[k] = n

\* The ids whose marks the server may not have heard of.
Unheard == {id \in Ids : Failed({"read", "all"}, id)}

TabHas(n) ==
    \/ Failed({"clear"}, n.id) \/ Clears(tab)
    \/ tab.guid = guid /\ Has(tab, n, Unheard)

\* The last push that speaks of n brings it, under the guid that the manager has.
Flown(n) ==
    \E i \in DOMAIN wire :
        /\ wire[i].guid = guid /\ In(n, wire[i].items)
        /\ \A j \in DOMAIN wire : i < j => n.id \notin IdsOf(wire[j].items)

Arrived(n) == (\A i \in DOMAIN wire : n.id \notin IdsOf(wire[i].items)) /\ TabHas(n)

OnWay(n) ==
    \/ In(n, snap.items) /\ (snap.at = "version" => snap.guid = guid)
    \/ n.id \notin IdsOf(snap.items) /\ (Flown(n) \/ Arrived(n))

Covered(n) == Safe(n.id) \/ OnWay(n)

Covers == \A n \in Item : In(n, items) => Covered(n)

\* Neither lists nor pushes have a notification twice, and the guids come in order.
InOrder ==
    /\ Distinct(tab.list) /\ Distinct(snap.items)
    /\ \A i \in DOMAIN wire : Distinct(wire[i].items)
    /\ tab.guid <= guid
    /\ \A i \in DOMAIN wire :
          /\ tab.guid <= wire[i].guid /\ wire[i].guid <= guid
          /\ \A j \in DOMAIN wire : i < j => wire[i].guid <= wire[j].guid
    /\ snap.at = "idle" => snap.items = <<>>
    /\ snap.at = "version" =>
          /\ snap.guid <= guid /\ tab.guid <= snap.guid
          /\ \A i \in DOMAIN wire : wire[i].guid <= snap.guid

LEMMA InitInOrder == Init => InOrder /\ Covers
BY DEF Init, NoSnap, InOrder, Distinct, Covers, In

LEMMA TypesGive ==
    ASSUME Types
    PROVE  /\ Filed(items, updates) /\ cursor \in Nat /\ guid \in Nat /\ wire \in Seq(Push)
           /\ \A i \in DOMAIN wire : wire[i] \in Push /\ wire[i].guid \in Nat /\ wire[i].items \in Seq(Item)
           /\ snap.at \in {"idle", "guid", "version"} /\ snap.guid \in Nat /\ snap.items \in Seq(Item)
           /\ Stored(tab) /\ tab \in Store /\ tab.guid \in Nat
           /\ tab.list \in Seq(Item) /\ \A k \in DOMAIN tab.list : tab.list[k] \in Item
           /\ \A call \in tab.sent : call \in Call
<1>1. wire \in Seq(Push) /\ \A push \in Push : push.guid \in Nat /\ push.items \in Seq(Item)
  BY DEF Types, StreamOK, Push
<1>2. \A i \in DOMAIN wire : wire[i] \in Push
  BY <1>1
<1>3. Filed(items, updates) /\ cursor \in Nat /\ guid \in Nat
  BY DEF Types, ManagerOK, CountsOK, StreamOK
<1>4. snap.at \in {"idle", "guid", "version"} /\ snap.guid \in Nat /\ snap.items \in Seq(Item)
  BY DEF Types, StreamOK
<1>5. /\ Stored(tab) /\ tab \in Store /\ tab.guid \in Nat /\ tab.list \in Seq(Item)
      /\ \A call \in tab.sent : call \in Call
  BY DEF Types, TabOK, Stored, StoreOK, Store
<1>6. \A k \in DOMAIN tab.list : tab.list[k] \in Item
  BY <1>5
<1> QED
  BY <1>1, <1>2, <1>3, <1>4, <1>5, <1>6

LEMMA ClearHolds ==
    ASSUME Types, ClearClicked
    PROVE  tab'.guid = tab.guid /\ Distinct(tab'.list) /\ Clears(tab')
<1>1. Stored(tab) /\ tab' = ClearAll(tab)
  BY TypesGive DEF ClearClicked
<1> QED
  BY <1>1, ClearAllGot

LEMMA UserHolds ==
    ASSUME Types, UserStep \/ ClearClicked
    PROVE  /\ UNCHANGED <<manager, owed, stream, exposed, unsynced>>
           /\ tab'.guid = tab.guid /\ (Distinct(tab.list) => Distinct(tab'.list))
           /\ Clears(tab) => Clears(tab')
           /\ \A n, X : Has(tab, n, X) => Has(tab', n, X) \/ Clears(tab')
<1>1. UNCHANGED <<manager, owed, stream, exposed, unsynced>>
  BY DEF UserStep, Click, ToastTimer, StrayTimer, DismissToast, LocalToast, OpenModal, CloseModal, ClearClicked
<1>2. CASE UserStep
  <2>1. Held(tab, tab')
    BY <1>2, UserStepHolds
  <2> QED
    BY <1>1, <2>1, HeldHas
<1>3. CASE ClearClicked
  BY <1>1, <1>3, ClearHolds
<1> QED
  BY <1>2, <1>3

LEMMA CallHolds ==
    ASSUME Types, NEW call \in tab.sent, Handle(call) \/ Fail(call)
    PROVE  /\ tab'.guid = tab.guid /\ tab'.list = tab.list /\ tab'.sent = tab.sent \ {call}
           /\ UNCHANGED <<cursor, snap, wire>>
<1>1. tab' = [tab EXCEPT !.sent = @ \ {call}] /\ UNCHANGED <<cursor, snap, wire>>
  BY DEF Handle, Fail, stream
<1> QED
  BY <1>1, TypesGive DEF Store

LEMMA DeliverHolds ==
    ASSUME Types, InOrder, Deliver
    PROVE  /\ 1 \in DOMAIN wire /\ UNCHANGED <<manager, owed, cursor, snap, exposed, unsynced>>
           /\ \A i \in DOMAIN wire' : i + 1 \in DOMAIN wire /\ wire'[i] = wire[i + 1] /\ 1 < i + 1
           /\ \A i \in DOMAIN wire : i # 1 => i - 1 \in DOMAIN wire' /\ wire'[i - 1] = wire[i]
           /\ DOMAIN wire \subseteq Nat /\ DOMAIN wire' \subseteq Nat
           /\ tab'.guid = wire[1].guid /\ Distinct(tab'.list) /\ (Clears(tab) => Clears(tab'))
           /\ \A n, X : In(n, wire[1].items) => Has(tab', n, X)
           /\ \A n, X : /\ Has(tab, n, X) /\ tab.guid = wire[1].guid /\ n.id \notin IdsOf(wire[1].items)
                        => Has(tab', n, X)
<1>1. /\ wire # <<>> /\ wire' = Tail(wire) /\ tab' = UpdateFromPoll(tab, Head(wire))
      /\ UNCHANGED <<manager, owed, cursor, snap, exposed, unsynced>>
  BY DEF Deliver
<1>2. wire \in Seq(Push) /\ Len(wire) \in Nat /\ DOMAIN wire = 1..Len(wire) /\ Stored(tab)
  BY TypesGive
<1>3. Head(wire) = wire[1] /\ 1 \in DOMAIN wire /\ wire[1] \in Push
  BY <1>1, <1>2
<1>4. DOMAIN wire' = 1..(Len(wire) - 1) /\ \A i \in 1..(Len(wire) - 1) : wire'[i] = wire[i + 1]
  BY <1>1, <1>2
<1>5. /\ \A i \in DOMAIN wire' : i + 1 \in DOMAIN wire /\ wire'[i] = wire[i + 1] /\ 1 < i + 1
      /\ \A i \in DOMAIN wire : i # 1 => i - 1 \in DOMAIN wire' /\ wire'[i - 1] = wire[i]
      /\ DOMAIN wire \subseteq Nat /\ DOMAIN wire' \subseteq Nat
  BY <1>2, <1>4
<1>6. Distinct(tab.list) /\ Distinct(wire[1].items)
  BY <1>3 DEF InOrder
<1> DEFINE push == wire[1]
<1>7. /\ tab'.guid = push.guid /\ Distinct(tab'.list) /\ (Clears(tab) => Clears(tab'))
      /\ \A i \in DOMAIN push.items : \A X : Has(tab', push.items[i], X)
      /\ \A m, X : Has(tab, m, X) /\ tab.guid = push.guid /\ m.id \notin IdsOf(push.items) => Has(tab', m, X)
  <2>1. push \in Push /\ Distinct(push.items) /\ tab' = UpdateFromPoll(tab, push)
    BY <1>1, <1>3, <1>6
  <2> HIDE DEF push
  <2> QED
    BY <1>2, <1>6, <2>1, DeliverGot
<1>8. \A n, X : In(n, push.items) => Has(tab', n, X)
  BY <1>7 DEF In
<1> QED
  BY <1>1, <1>3, <1>5, <1>7, <1>8

LEMMA VersionHolds ==
    ASSUME Types, SnapshotVersion
    PROVE  /\ snap.at = "version" /\ snap' = NoSnap
           /\ UNCHANGED <<manager, owed, tab, exposed, unsynced>>
           /\ DOMAIN wire \subseteq 1..Len(wire) /\ Len(wire) \in Nat
           /\ DOMAIN wire' = DOMAIN wire \cup {Len(wire) + 1} /\ Len(wire) + 1 \notin DOMAIN wire
           /\ \A i \in DOMAIN wire : wire'[i] = wire[i] /\ i < Len(wire) + 1
           /\ wire'[Len(wire) + 1].items = snap.items /\ wire'[Len(wire) + 1].guid = snap.guid
<1> DEFINE push == [items |-> snap.items, guid |-> snap.guid, version |-> Len(updates)]
<1>1. /\ snap.at = "version" /\ snap' = NoSnap /\ wire' = Append(wire, push)
      /\ UNCHANGED <<manager, owed, tab, exposed, unsynced>>
  BY DEF SnapshotVersion
<1>2. push \in Push
  BY TypesGive DEF Push, Filed, Types, StreamOK
<1>3. push.items = snap.items /\ push.guid = snap.guid
  OBVIOUS
<1> HIDE DEF push
<1>4. /\ DOMAIN wire' = 1..(Len(wire) + 1) /\ wire'[Len(wire) + 1] = push
      /\ \A i \in DOMAIN wire : wire'[i] = wire[i]
  BY <1>1, <1>2, TypesGive, AppendFacts
<1>5. Len(wire) \in Nat /\ DOMAIN wire = 1..Len(wire)
  BY TypesGive
<1> QED
  BY <1>1, <1>3, <1>4, <1>5

LEMMA InOrderKept == Types /\ InOrder /\ [Next]_vars => InOrder'
<1>1. SUFFICES ASSUME Types, InOrder, [Next]_vars PROVE InOrder'
  OBVIOUS
<1>2. /\ guid \in Nat /\ tab.guid \in Nat /\ snap.guid \in Nat /\ \A i \in DOMAIN wire : wire[i].guid \in Nat
      /\ Filed(items, updates) /\ cursor \in Nat
  BY <1>1, TypesGive
<1>3. /\ Distinct(tab.list) /\ Distinct(snap.items)
      /\ \A i \in DOMAIN wire : Distinct(wire[i].items)
      /\ tab.guid <= guid
      /\ \A i \in DOMAIN wire :
            /\ tab.guid <= wire[i].guid /\ wire[i].guid <= guid
            /\ \A j \in DOMAIN wire : i < j => wire[i].guid <= wire[j].guid
      /\ snap.at = "idle" => snap.items = <<>>
      /\ snap.at = "version" =>
            /\ snap.guid <= guid /\ tab.guid <= snap.guid
            /\ \A i \in DOMAIN wire : wire[i].guid <= snap.guid
  BY <1>1 DEF InOrder
<1>4. ASSUME Distinct(tab'.list), tab'.guid = tab.guid, guid' = guid \/ guid' = guid + 1,
             UNCHANGED <<snap, wire>>
      PROVE  InOrder'
  <2>1. guid <= guid' /\ guid' \in Nat /\ \A x \in Nat : x <= guid => x <= guid'
    BY <1>2, <1>4
  <2> QED
    BY <1>2, <1>3, <1>4, <2>1 DEF InOrder, Distinct
<1>5. CASE UserStep \/ ClearClicked
  <2>1. UNCHANGED <<guid, snap, wire>>
    BY <1>1, <1>5, UserHolds DEF manager, stream
  <2> QED
    BY <1>1, <1>3, <1>4, <1>5, <2>1, UserHolds
<1>6. CASE \E id \in Ids : Raise(id)
  <2>1. UNCHANGED <<guid, snap, wire, tab>>
    BY <1>6 DEF Raise, stream
  <2> QED
    BY <1>3, <1>4, <2>1
<1>7. CASE \E call \in tab.sent : Handle(call)
  <2>1. PICK call \in tab.sent : Handle(call)
    BY <1>7
  <2>2. guid' = guid \/ guid' = guid + 1
    BY <1>1, <2>1, HandleEffect
  <2> QED
    BY <1>1, <1>3, <1>4, <2>1, <2>2, CallHolds
<1>8. CASE \E call \in tab.sent : Fail(call)
  <2>1. PICK call \in tab.sent : Fail(call)
    BY <1>8
  <2>2. guid' = guid
    BY <2>1 DEF Fail, manager
  <2> QED
    BY <1>1, <1>3, <1>4, <2>1, <2>2, CallHolds
<1>9. CASE SnapshotItems
  <2>1. UNCHANGED <<guid, wire, tab>> /\ snap' = [at |-> "guid", items |-> Output, guid |-> 0]
    BY <1>9 DEF SnapshotItems, manager
  <2>2. Distinct(Output)
    BY <1>2, OutputIs
  <2>3. PICK out : out = Output
    OBVIOUS
  <2>4. snap'.at = "guid" /\ snap'.items = out /\ Distinct(out)
    BY <2>1, <2>2, <2>3
  <2> QED
    BY <1>3, <2>1, <2>4 DEF InOrder, Distinct
<1>10. CASE SnapshotGuid
  <2>1. UNCHANGED <<guid, wire, tab>> /\ snap'.items = snap.items /\ snap'.at = "version" /\ snap'.guid = guid
    BY <1>1, <1>10 DEF SnapshotGuid, manager, Types, StreamOK
  <2> QED
    BY <1>2, <1>3, <2>1 DEF InOrder, Distinct
<1>11. CASE SnapshotVersion
  <2>1. /\ snap.at = "version" /\ snap' = NoSnap /\ UNCHANGED <<guid, tab>>
        /\ DOMAIN wire \subseteq 1..Len(wire) /\ Len(wire) \in Nat
        /\ DOMAIN wire' = DOMAIN wire \cup {Len(wire) + 1} /\ Len(wire) + 1 \notin DOMAIN wire
        /\ \A i \in DOMAIN wire : wire'[i] = wire[i] /\ i < Len(wire) + 1
        /\ wire'[Len(wire) + 1].items = snap.items /\ wire'[Len(wire) + 1].guid = snap.guid
    BY <1>1, <1>11, VersionHolds DEF manager
  <2>2. snap'.at = "idle" /\ snap'.items = <<>> /\ Distinct(snap'.items)
    BY <2>1 DEF NoSnap, Distinct
  <2>3. \A i \in DOMAIN wire' : Distinct(wire'[i].items)
    BY <1>3, <2>1
  <2>4. ASSUME NEW i \in DOMAIN wire'
        PROVE  /\ tab.guid <= wire'[i].guid /\ wire'[i].guid <= guid
               /\ \A j \in DOMAIN wire' : i < j => wire'[i].guid <= wire'[j].guid
    <3>1. CASE i \in DOMAIN wire
      <4>1. tab.guid <= wire'[i].guid /\ wire'[i].guid <= guid
        BY <1>3, <2>1, <3>1
      <4>2. ASSUME NEW j \in DOMAIN wire', i < j PROVE wire'[i].guid <= wire'[j].guid
        <5>1. CASE j \in DOMAIN wire
          BY <1>3, <2>1, <3>1, <4>2, <5>1
        <5>2. CASE j = Len(wire) + 1
          BY <1>3, <2>1, <3>1, <5>2
        <5> QED
          BY <2>1, <5>1, <5>2
      <4> QED
        BY <4>1, <4>2
    <3>2. CASE i = Len(wire) + 1
      <4>1. \A j \in DOMAIN wire' : ~(i < j)
        BY <2>1, <3>2
      <4> QED
        BY <1>3, <2>1, <3>2, <4>1
    <3> QED
      BY <2>1, <3>1, <3>2
  <2> QED
    BY <1>3, <2>1, <2>2, <2>3, <2>4 DEF InOrder, Distinct
<1>12. CASE Deliver
  <2>1. /\ 1 \in DOMAIN wire /\ UNCHANGED <<guid, snap>>
        /\ \A i \in DOMAIN wire' : i + 1 \in DOMAIN wire /\ wire'[i] = wire[i + 1] /\ 1 < i + 1
        /\ DOMAIN wire \subseteq Nat /\ DOMAIN wire' \subseteq Nat
        /\ tab'.guid = wire[1].guid /\ Distinct(tab'.list)
    BY <1>1, <1>12, DeliverHolds DEF manager
  <2>2. \A i \in DOMAIN wire' : Distinct(wire'[i].items)
    BY <1>3, <2>1
  <2>3. ASSUME NEW i \in DOMAIN wire'
        PROVE  /\ tab'.guid <= wire'[i].guid /\ wire'[i].guid <= guid
               /\ \A j \in DOMAIN wire' : i < j => wire'[i].guid <= wire'[j].guid
               /\ snap.at = "version" => wire'[i].guid <= snap.guid
    <3>1. i + 1 \in DOMAIN wire /\ wire'[i] = wire[i + 1] /\ 1 < i + 1
      BY <2>1
    <3>2. /\ wire[1].guid <= wire[i + 1].guid /\ wire[i + 1].guid <= guid
          /\ snap.at = "version" => wire[i + 1].guid <= snap.guid
      BY <1>3, <2>1, <3>1
    <3>3. ASSUME NEW j \in DOMAIN wire', i < j PROVE wire'[i].guid <= wire'[j].guid
      <4>1. j + 1 \in DOMAIN wire /\ wire'[j] = wire[j + 1] /\ i + 1 < j + 1
        BY <2>1, <3>3
      <4> QED
        BY <1>3, <3>1, <4>1
    <3> QED
      BY <2>1, <3>1, <3>2, <3>3
  <2>4. tab'.guid <= guid /\ (snap.at = "version" => tab'.guid <= snap.guid)
    BY <1>3, <2>1
  <2> QED
    BY <1>3, <2>1, <2>2, <2>3, <2>4 DEF InOrder, Distinct
<1>13. CASE UNCHANGED vars
  <2>1. UNCHANGED <<guid, snap, wire, tab>>
    BY <1>13 DEF vars, manager, stream
  <2> QED
    BY <1>3, <1>4, <2>1
<1> QED
  BY <1>1, <1>5, <1>6, <1>7, <1>8, <1>9, <1>10, <1>11, <1>12, <1>13, StepCases

\* What does not touch the pushes keeps all that the tab has, on its way or there.
LEMMA OnWayKept ==
    ASSUME NEW n, UNCHANGED <<guid, snap, wire>>, TabHas(n) => TabHas(n)', OnWay(n)
    PROVE  OnWay(n)'
<1>1. Arrived(n) => Arrived(n)'
  BY DEF Arrived, IdsOf
<1>2. Flown(n) => Flown(n)'
  BY DEF Flown, In, IdsOf
<1> QED
  BY <1>1, <1>2 DEF OnWay, In, IdsOf

LEMMA HasWider ==
    ASSUME NEW t, NEW n, NEW X, NEW Y, Has(t, n, X), n.id \in X => n.id \in Y
    PROVE  Has(t, n, Y)
BY DEF Has

LEMMA SafeFrame ==
    ASSUME UNCHANGED <<items, updates, owed, cursor, exposed>>, snap'.at = snap.at, NEW id
    PROVE  Safe(id)' <=> Safe(id)
BY DEF Safe, Unsent

LEMMA CoversKept == Types /\ InOrder /\ Covers /\ [Next]_vars => Covers'
<1>1. SUFFICES ASSUME Types, InOrder, Covers, [Next]_vars, NEW n \in Item, In(n, items') PROVE Covered(n)'
  BY DEF Covers, In
<1>2. /\ Filed(items, updates) /\ cursor \in Nat /\ guid \in Nat /\ n.id \in Ids
      /\ \A k \in DOMAIN tab.list : tab.list[k] \in Item
  BY <1>1, TypesGive DEF Item
<1>3. In(n, items) => Covered(n) /\ n.id \in IdsOf(items)
  BY <1>1 DEF Covers, In, IdsOf
<1>4. CASE UserStep \/ ClearClicked
  <2>1. /\ UNCHANGED <<items, updates, guid, owed, cursor, snap, wire, exposed, unsynced>>
        /\ tab'.guid = tab.guid /\ (Clears(tab) => Clears(tab'))
        /\ \A X : Has(tab, n, X) => Has(tab', n, X) \/ Clears(tab')
    BY <1>1, <1>4, UserHolds DEF manager, stream
  <2>2. Safe(n.id)' <=> Safe(n.id)
    BY <2>1, SafeFrame
  <2>3. TabHas(n) => TabHas(n)'
    <3>1. Unheard' = Unheard /\ (Failed({"clear"}, n.id)' <=> Failed({"clear"}, n.id))
      BY <2>1 DEF Unheard, Failed
    <3>2. TabHas(n)' <=> \/ Failed({"clear"}, n.id)' \/ Clears(tab')
                         \/ tab'.guid = guid' /\ Has(tab', n, Unheard')
      BY DEF TabHas, Clears, Has, IdsOf, Asked
    <3> QED
      BY <2>1, <3>1, <3>2 DEF TabHas
  <2>4. OnWay(n) => OnWay(n)'
    BY <2>1, <2>3, OnWayKept
  <2> QED
    BY <1>1, <1>3, <2>1, <2>2, <2>4 DEF Covered
<1>5. CASE \E id \in Ids : Raise(id)
  <2>1. PICK id \in Ids : Raise(id)
    BY <1>5
  <2>2. /\ \A k \in DOMAIN items' : items'[k].id = id \/ \E j \in DOMAIN items : items'[k] = items[j]
        /\ Safe(id)'
        /\ \A i \in IdsOf(items) : Safe(i) => Safe(i)'
    BY <1>1, <2>1, RaiseSafe
  <2>3. CASE n.id = id
    BY <2>2, <2>3 DEF Covered
  <2>4. CASE n.id # id
    <3>1. In(n, items)
      BY <1>1, <2>2, <2>4 DEF In
    <3>2. UNCHANGED <<guid, snap, wire, tab>> /\ unsynced' = {u \in unsynced : u[2] # id}
      BY <2>1 DEF Raise, stream
    <3>3. \A op : <<op, n.id>> \in unsynced' <=> <<op, n.id>> \in unsynced
      BY <2>4, <3>2
    <3>4. \A ops : Failed(ops, n.id)' <=> Failed(ops, n.id)
      BY <3>3 DEF Failed
    <3>5. n.id \in Unheard => n.id \in Unheard'
      BY <3>4 DEF Unheard
    <3>6. TabHas(n) => TabHas(n)'
      <4>1. Has(tab, n, Unheard) => Has(tab, n, Unheard')
        BY <3>5, HasWider
      <4>2. TabHas(n)' <=> \/ Failed({"clear"}, n.id)' \/ Clears(tab)
                           \/ tab.guid = guid /\ Has(tab, n, Unheard')
        BY <3>2 DEF TabHas, Clears, Has, IdsOf, Asked
      <4> QED
        BY <3>4, <4>1, <4>2 DEF TabHas
    <3>7. OnWay(n) => OnWay(n)'
      BY <3>2, <3>6, OnWayKept
    <3> QED
      BY <1>3, <2>2, <3>1, <3>7 DEF Covered
  <2> QED
    BY <2>3, <2>4
<1>6. CASE \E call \in tab.sent : Handle(call)
  <2>1. PICK call \in tab.sent : Handle(call)
    BY <1>6
  <2>2. call.op # "clear"
    <3>1. SUFFICES ASSUME call.op = "clear" PROVE FALSE
      OBVIOUS
    <3>2. items' = <<>>
      BY <1>1, <2>1, <3>1, HandleEffect
    <3> QED
      BY <1>1, <3>2 DEF In
  <2>3. /\ \A k \in DOMAIN items' :
              /\ \A i : i = items'[k].id => Safe(i)' \/ \E j \in DOMAIN items : items'[k] = items[j]
              /\ items'[k].id \in call.ids => items'[k].read
        /\ \A i \in IdsOf(items) : Safe(i) => Safe(i)'
    BY <1>1, <2>1, <2>2, ReadSafe
  <2>4. (Safe(n.id)' \/ In(n, items)) /\ (n.id \in call.ids => n.read)
    BY <1>1, <2>3 DEF In
  <2>5. SUFFICES ASSUME In(n, items) PROVE Covered(n)'
    BY <2>4 DEF Covered
  <2>6. /\ tab'.guid = tab.guid /\ tab'.list = tab.list /\ tab'.sent = tab.sent \ {call}
        /\ UNCHANGED <<guid, snap, wire, unsynced>>
    <3>1. guid' = guid
      BY <1>1, <2>1, <2>2, HandleEffect
    <3>2. unsynced' = unsynced
      BY <2>1 DEF Handle
    <3> QED
      BY <1>1, <2>1, <3>1, <3>2, CallHolds
  <2>7. Clears(tab) => Clears(tab')
    BY <2>2, <2>6 DEF Clears
  <2>8. Has(tab, n, Unheard) => Has(tab', n, Unheard)
    <3>1. SUFFICES ASSUME Has(tab, n, Unheard) PROVE Has(tab', n, Unheard)
      OBVIOUS
    <3>2. CASE n.id \notin IdsOf(tab.list) /\ Len(tab.list) = Limit
      BY <2>6, <3>2 DEF Has
    <3>3. ASSUME NEW k \in DOMAIN tab.list,
                 tab.list[k].id = n.id, tab.list[k].stamp = n.stamp,
                 tab.list[k].read = n.read \/ (tab.list[k].read /\ (n.id \in Unheard \/ Asked(tab, n.id)))
          PROVE  Has(tab', n, Unheard)
      <4>1. k \in DOMAIN tab'.list /\ tab'.list[k] = tab.list[k]
        BY <2>6, <3>3
      <4>2. CASE n.id \in call.ids
        <5>1. tab.list[k].read \in BOOLEAN /\ n.read \in BOOLEAN /\ n.read
          BY <1>2, <2>4, <4>2 DEF Item
        <5>2. tab.list[k].read
          BY <3>3, <5>1
        <5>3. tab.list[k].read = n.read
          BY <5>1, <5>2
        <5> QED
          BY <3>3, <4>1, <5>3 DEF Has
      <4>3. CASE n.id \notin call.ids
        <5>1. Asked(tab, n.id) => Asked(tab', n.id)
          BY <2>6, <4>3 DEF Asked
        <5> QED
          BY <3>3, <4>1, <5>1 DEF Has
      <4> QED
        BY <4>2, <4>3
    <3> QED
      BY <3>1, <3>2, <3>3 DEF Has
  <2>9. TabHas(n) => TabHas(n)'
    <3>1. Unheard' = Unheard /\ (Failed({"clear"}, n.id)' <=> Failed({"clear"}, n.id))
      BY <2>6 DEF Unheard, Failed
    <3>2. TabHas(n)' <=> \/ Failed({"clear"}, n.id)' \/ Clears(tab')
                         \/ tab'.guid = guid' /\ Has(tab', n, Unheard')
      BY DEF TabHas, Clears, Has, IdsOf, Asked
    <3> QED
      BY <2>6, <2>7, <2>8, <3>1, <3>2 DEF TabHas
  <2>10. OnWay(n) => OnWay(n)'
    BY <2>6, <2>9, OnWayKept
  <2> QED
    BY <1>3, <2>3, <2>5, <2>10 DEF Covered
<1>7. CASE \E call \in tab.sent : Fail(call)
  <2>1. PICK call \in tab.sent : Fail(call)
    BY <1>7
  <2>2. /\ UNCHANGED <<items, updates, guid, owed, exposed>>
        /\ unsynced' = unsynced \cup {<<call.op, id>> : id \in call.ids}
    BY <2>1 DEF Fail, manager
  <2>3. /\ tab'.guid = tab.guid /\ tab'.list = tab.list /\ tab'.sent = tab.sent \ {call}
        /\ UNCHANGED <<cursor, snap, wire>>
    BY <1>1, <2>1, CallHolds
  <2>4. \A c \in tab.sent : c.op = "clear" => n.id \in c.ids
    <3>1. \A c \in Call : c.op = "clear" => c.ids = Ids
      BY DEF Call
    <3> QED
      BY <1>1, <1>2, <3>1, TypesGive
  <2>5. \A ops, id : Failed(ops, id) => Failed(ops, id)'
    BY <2>2 DEF Failed
  <2>6. Clears(tab) => Clears(tab') \/ Failed({"clear"}, n.id)'
    <3>1. SUFFICES ASSUME Clears(tab), ~Clears(tab') PROVE Failed({"clear"}, n.id)'
      OBVIOUS
    <3>2. call.op = "clear"
      BY <2>3, <3>1 DEF Clears
    <3> QED
      BY <2>2, <2>4, <3>2 DEF Failed
  <2>7. n.id \in Unheard => n.id \in Unheard'
    BY <2>5 DEF Unheard
  <2>8. Asked(tab, n.id) => Asked(tab', n.id) \/ n.id \in Unheard'
    <3>1. SUFFICES ASSUME Asked(tab, n.id), ~Asked(tab', n.id) PROVE n.id \in Unheard'
      OBVIOUS
    <3>2. call.op \in {"read", "all"} /\ n.id \in call.ids
      BY <2>3, <3>1 DEF Asked
    <3>3. Failed({"read", "all"}, n.id)'
      BY <2>2, <3>2 DEF Failed
    <3> QED
      BY <1>2, <3>3 DEF Unheard
  <2>9. \A X : Has(tab, n, Unheard) /\ X = Unheard' => Has(tab', n, X)
    BY <2>3, <2>7, <2>8 DEF Has
  <2>10. TabHas(n) => TabHas(n)'
    <3>1. PICK X : X = Unheard'
      OBVIOUS
    <3>2. TabHas(n)' <=> \/ Failed({"clear"}, n.id)' \/ Clears(tab')
                         \/ tab'.guid = guid' /\ Has(tab', n, X)
      BY <3>1 DEF TabHas, Clears, Has, IdsOf, Asked
    <3> QED
      BY <2>2, <2>3, <2>5, <2>6, <2>9, <3>1, <3>2 DEF TabHas
  <2>11. Safe(n.id)' <=> Safe(n.id)
    BY <2>2, <2>3, SafeFrame
  <2>12. OnWay(n) => OnWay(n)'
    BY <2>2, <2>3, <2>10, OnWayKept
  <2> QED
    BY <1>1, <1>3, <2>2, <2>11, <2>12 DEF Covered
<1>8. CASE SnapshotItems
  <2>1. /\ UNCHANGED <<items, updates, guid, wire, tab, exposed, unsynced>>
        /\ snap.at = "idle" /\ snap' = [at |-> "guid", items |-> Output, guid |-> 0]
    BY <1>8 DEF SnapshotItems, manager
  <2>2. PICK out : out = Output
    OBVIOUS
  <2>3. /\ snap'.at = "guid" /\ snap'.items = out /\ snap.items = <<>>
        /\ \A k \in DOMAIN out : \E j \in DOMAIN items : out[k] = items[j]
        /\ \A k \in DOMAIN updates : k > cursor => items[updates[k]].id \in IdsOf(out)
    BY <1>1, <1>2, <2>1, <2>2, OutputIs DEF InOrder
  <2>4. n.id \in IdsOf(out) => In(n, out)
    <3>1. SUFFICES ASSUME NEW k \in DOMAIN out, out[k].id = n.id PROVE out[k] = n
      BY DEF IdsOf, In
    <3>2. PICK j \in DOMAIN items : out[k] = items[j]
      BY <2>3
    <3>3. PICK i \in DOMAIN items : items[i] = n
      BY <1>1, <2>1 DEF In
    <3>4. i = j
      BY <1>2, <3>1, <3>2, <3>3 DEF Filed, Distinct
    <3> QED
      BY <3>2, <3>3, <3>4
  <2>5. CASE n.id \in IdsOf(out)
    <3>1. In(n, snap'.items)
      BY <2>3, <2>4, <2>5
    <3>2. OnWay(n)' <=> \/ In(n, snap'.items) /\ (snap'.at = "version" => snap'.guid = guid')
                        \/ n.id \notin IdsOf(snap'.items) /\ (Flown(n)' \/ Arrived(n)')
      BY DEF OnWay, In, IdsOf
    <3> QED
      BY <2>3, <3>1, <3>2 DEF Covered
  <2>6. CASE n.id \notin IdsOf(out)
    <3>1. Covered(n)
      BY <1>1, <1>3, <2>1
    <3>2. Safe(n.id) => Safe(n.id)'
      BY <2>1, <2>3, <2>6 DEF Safe, Unsent
    <3>3. Flown(n)' <=> Flown(n)
      BY <2>1 DEF Flown, In, IdsOf
    <3>4. Arrived(n)' <=> Arrived(n)
      BY <2>1 DEF Arrived, TabHas, Clears, Failed, Has, Unheard, Asked, IdsOf
    <3>5. OnWay(n) => Flown(n) \/ Arrived(n)
      BY <2>3 DEF OnWay, In
    <3>6. OnWay(n)' <=> \/ In(n, snap'.items) /\ (snap'.at = "version" => snap'.guid = guid')
                        \/ n.id \notin IdsOf(snap'.items) /\ (Flown(n)' \/ Arrived(n)')
      BY DEF OnWay, In, IdsOf
    <3> QED
      BY <2>3, <2>6, <3>1, <3>2, <3>3, <3>4, <3>5, <3>6 DEF Covered
  <2> QED
    BY <2>5, <2>6
<1>9. CASE SnapshotGuid
  <2>1. /\ UNCHANGED <<items, updates, guid, owed, cursor, wire, tab, exposed, unsynced>>
        /\ snap.at = "guid" /\ snap'.items = snap.items /\ snap'.at = "version" /\ snap'.guid = guid
    BY <1>1, <1>9 DEF SnapshotGuid, manager, Types, StreamOK
  <2>2. Covered(n)
    BY <1>1, <1>3, <2>1
  <2>3. Safe(n.id) => Safe(n.id)'
    BY <2>1 DEF Safe
  <2>4. Flown(n)' <=> Flown(n)
    BY <2>1 DEF Flown, In, IdsOf
  <2>5. Arrived(n)' <=> Arrived(n)
    BY <2>1 DEF Arrived, TabHas, Clears, Failed, Has, Unheard, Asked, IdsOf
  <2>6. OnWay(n)' <=> \/ In(n, snap.items) /\ (snap'.at = "version" => snap'.guid = guid')
                      \/ n.id \notin IdsOf(snap.items) /\ (Flown(n)' \/ Arrived(n)')
    BY <2>1 DEF OnWay, In, IdsOf
  <2>7. OnWay(n) => OnWay(n)'
    BY <2>1, <2>4, <2>5, <2>6 DEF OnWay
  <2> QED
    BY <2>2, <2>3, <2>7 DEF Covered
<1>10. CASE SnapshotVersion
  <2>1. /\ snap.at = "version" /\ snap' = NoSnap
        /\ UNCHANGED <<items, updates, guid, owed, tab, exposed, unsynced>>
        /\ DOMAIN wire' = DOMAIN wire \cup {Len(wire) + 1} /\ Len(wire) + 1 \notin DOMAIN wire
        /\ Len(wire) \in Nat /\ DOMAIN wire \subseteq 1..Len(wire)
        /\ \A i \in DOMAIN wire : wire'[i] = wire[i] /\ i < Len(wire) + 1
        /\ wire'[Len(wire) + 1].items = snap.items /\ wire'[Len(wire) + 1].guid = snap.guid
    BY <1>1, <1>10, VersionHolds DEF manager
  <2>2. Covered(n)
    BY <1>1, <1>3, <2>1
  <2>3. Safe(n.id) => Safe(n.id)'
    BY <2>1 DEF Safe
  <2>4. snap'.items = <<>>
    BY <2>1 DEF NoSnap
  <2>5. Flown(n)' \/ Arrived(n)' => OnWay(n)'
    <3>1. n.id \notin IdsOf(snap.items)'
      BY <2>4 DEF IdsOf
    <3> QED
      BY <3>1 DEF OnWay
  <2>6. Flown(n)' <=> \E i \in DOMAIN wire' :
                          /\ wire'[i].guid = guid /\ In(n, wire'[i].items)
                          /\ \A j \in DOMAIN wire' : i < j => n.id \notin IdsOf(wire'[j].items)
    BY <2>1 DEF Flown, In, IdsOf
  <2>7. CASE In(n, snap.items) /\ snap.guid = guid
    <3> DEFINE i == Len(wire) + 1
    <3>1. i \in DOMAIN wire' /\ wire'[i].guid = guid /\ In(n, wire'[i].items)
      BY <2>1, <2>7
    <3>2. \A j \in DOMAIN wire' : ~(i < j)
      BY <2>1
    <3> HIDE DEF i
    <3> QED
      BY <2>5, <2>6, <3>1, <3>2 DEF Covered
  <2>8. CASE n.id \notin IdsOf(snap.items) /\ Flown(n)
    <3>1. PICK i \in DOMAIN wire : /\ wire[i].guid = guid /\ In(n, wire[i].items)
                                   /\ \A j \in DOMAIN wire : i < j => n.id \notin IdsOf(wire[j].items)
      BY <2>8 DEF Flown
    <3>2. i \in DOMAIN wire' /\ wire'[i].guid = guid /\ In(n, wire'[i].items)
      BY <2>1, <3>1
    <3>3. \A j \in DOMAIN wire' : i < j => n.id \notin IdsOf(wire'[j].items)
      BY <2>1, <2>8, <3>1
    <3> QED
      BY <2>5, <2>6, <3>2, <3>3 DEF Covered
  <2>9. CASE n.id \notin IdsOf(snap.items) /\ Arrived(n)
    <3>1. TabHas(n)' <=> TabHas(n)
      BY <2>1 DEF TabHas, Clears, Failed, Has, Unheard, Asked, IdsOf
    <3>2. \A i \in DOMAIN wire' : n.id \notin IdsOf(wire'[i].items)
      BY <2>1, <2>9 DEF Arrived
    <3>3. Arrived(n)' <=> (\A i \in DOMAIN wire' : n.id \notin IdsOf(wire'[i].items)) /\ TabHas(n)'
      BY DEF Arrived, IdsOf
    <3> QED
      BY <2>5, <2>9, <3>1, <3>2, <3>3 DEF Arrived, Covered
  <2>10. OnWay(n) => Covered(n)'
    BY <2>1, <2>7, <2>8, <2>9 DEF OnWay
  <2> QED
    BY <2>2, <2>3, <2>10 DEF Covered
<1>11. CASE Deliver
  <2>1. /\ 1 \in DOMAIN wire
        /\ UNCHANGED <<items, updates, guid, owed, cursor, snap, exposed, unsynced>>
        /\ \A i \in DOMAIN wire' : i + 1 \in DOMAIN wire /\ wire'[i] = wire[i + 1] /\ 1 < i + 1
        /\ \A i \in DOMAIN wire : i # 1 => i - 1 \in DOMAIN wire' /\ wire'[i - 1] = wire[i]
        /\ DOMAIN wire \subseteq Nat /\ DOMAIN wire' \subseteq Nat
        /\ tab'.guid = wire[1].guid /\ (Clears(tab) => Clears(tab'))
        /\ In(n, wire[1].items) => \A X : Has(tab', n, X)
        /\ \A X : /\ Has(tab, n, X) /\ tab.guid = wire[1].guid /\ n.id \notin IdsOf(wire[1].items)
                  => Has(tab', n, X)
    BY <1>1, <1>11, DeliverHolds DEF manager
  <2>2. Covered(n)
    BY <1>1, <1>3, <2>1
  <2>3. Safe(n.id)' <=> Safe(n.id)
    BY <2>1, SafeFrame
  <2>4. Unheard' = Unheard /\ (Failed({"clear"}, n.id)' <=> Failed({"clear"}, n.id))
    BY <2>1 DEF Unheard, Failed
  <2>5. TabHas(n)' <=> \/ Failed({"clear"}, n.id) \/ Clears(tab')
                       \/ tab'.guid = guid /\ Has(tab', n, Unheard)
    <3>1. TabHas(n)' <=> \/ Failed({"clear"}, n.id)' \/ Clears(tab')
                         \/ tab'.guid = guid' /\ Has(tab', n, Unheard')
      BY DEF TabHas, Clears, Has, IdsOf, Asked
    <3> QED
      BY <2>1, <2>4, <3>1
  <2>6. Arrived(n)' <=> (\A i \in DOMAIN wire' : n.id \notin IdsOf(wire'[i].items)) /\ TabHas(n)'
    BY DEF Arrived, IdsOf
  <2>7. ASSUME Flown(n) PROVE Flown(n)' \/ Arrived(n)'
    <3>1. PICK i \in DOMAIN wire : /\ wire[i].guid = guid /\ In(n, wire[i].items)
                                   /\ \A j \in DOMAIN wire : i < j => n.id \notin IdsOf(wire[j].items)
      BY <2>7 DEF Flown
    <3>2. CASE i = 1
      <4>1. TabHas(n)'
        BY <2>1, <2>5, <3>1, <3>2
      <4>2. \A j \in DOMAIN wire' : n.id \notin IdsOf(wire'[j].items)
        BY <2>1, <3>1, <3>2
      <4> QED
        BY <2>6, <4>1, <4>2
    <3>3. CASE i # 1
      <4>1. i - 1 \in DOMAIN wire' /\ wire'[i - 1] = wire[i]
        BY <2>1, <3>3
      <4>2. ASSUME NEW j \in DOMAIN wire', i - 1 < j PROVE n.id \notin IdsOf(wire'[j].items)
        <5>1. j + 1 \in DOMAIN wire /\ wire'[j] = wire[j + 1] /\ i < j + 1
          <6>1. i \in Nat /\ j \in Nat
            BY <2>1
          <6> QED
            BY <2>1, <4>2, <6>1
        <5> QED
          BY <3>1, <5>1
      <4>3. Flown(n)' <=> \E k \in DOMAIN wire' :
                              /\ wire'[k].guid = guid /\ In(n, wire'[k].items)
                              /\ \A j \in DOMAIN wire' : k < j => n.id \notin IdsOf(wire'[j].items)
        BY <2>1 DEF Flown, In, IdsOf
      <4> DEFINE k == i - 1
      <4>4. /\ k \in DOMAIN wire' /\ wire'[k].guid = guid /\ In(n, wire'[k].items)
            /\ \A j \in DOMAIN wire' : k < j => n.id \notin IdsOf(wire'[j].items)
        BY <3>1, <4>1, <4>2
      <4> HIDE DEF k
      <4> QED
        BY <4>3, <4>4
    <3> QED
      BY <3>2, <3>3
  <2>8. ASSUME Arrived(n) PROVE Flown(n)' \/ Arrived(n)'
    <3>1. n.id \notin IdsOf(wire[1].items) /\ TabHas(n)
      BY <2>1, <2>8 DEF Arrived
    <3>2. tab.guid = guid => wire[1].guid = guid
      <4>1. tab.guid <= wire[1].guid /\ wire[1].guid <= guid
        BY <1>1, <2>1 DEF InOrder
      <4>2. wire[1].guid \in Nat
        BY <1>1, <2>1, TypesGive
      <4> QED
        BY <1>2, <4>1, <4>2
    <3>3. TabHas(n)'
      BY <2>1, <2>5, <3>1, <3>2 DEF TabHas
    <3>4. \A i \in DOMAIN wire' : n.id \notin IdsOf(wire'[i].items)
      BY <2>1, <2>8 DEF Arrived
    <3> QED
      BY <2>6, <3>3, <3>4
  <2>9. Flown(n) \/ Arrived(n) => Flown(n)' \/ Arrived(n)'
    BY <2>7, <2>8
  <2>10. OnWay(n) => OnWay(n)'
    <3>1. OnWay(n)' <=> \/ In(n, snap.items) /\ (snap.at = "version" => snap.guid = guid)
                        \/ n.id \notin IdsOf(snap.items) /\ (Flown(n)' \/ Arrived(n)')
      BY <2>1 DEF OnWay, In, IdsOf
    <3> QED
      BY <2>9, <3>1 DEF OnWay
  <2> QED
    BY <2>2, <2>3, <2>10 DEF Covered
<1>12. CASE UNCHANGED vars
  <2>1. UNCHANGED <<items, updates, guid, owed, cursor, snap, wire, tab, exposed, unsynced>>
    BY <1>12 DEF vars, manager, stream
  <2>2. Safe(n.id)' <=> Safe(n.id)
    BY <2>1, SafeFrame
  <2>3. TabHas(n) => TabHas(n)'
    BY <2>1 DEF TabHas, Clears, Failed, Has, Unheard, Asked, IdsOf
  <2>4. OnWay(n) => OnWay(n)'
    BY <2>1, <2>3, OnWayKept
  <2> QED
    BY <1>1, <1>3, <2>1, <2>2, <2>4 DEF Covered
<1> QED
  BY <1>1, <1>4, <1>5, <1>6, <1>7, <1>8, <1>9, <1>10, <1>11, <1>12, StepCases

\* A full list without n has a notification that the manager, with n, has no room for.
LEMMA OtherDropped ==
    ASSUME Types, InOrder, NEW n \in Item, In(n, items), n.id \notin IdsOf(tab.list), Len(tab.list) = Limit
    PROVE  DroppedOther
<1>1. /\ items \in Seq(Item) /\ Len(items) \in Nat /\ Len(items) <= Limit /\ DOMAIN items = 1..Len(items)
      /\ tab.list \in Seq(Item) /\ DOMAIN tab.list = 1..Limit /\ Limit \in Nat
      /\ Distinct(tab.list)
  BY TypesGive, Bounds DEF Types, ManagerOK, Filed, InOrder
<1>2. SUFFICES ASSUME IdsOf(tab.list) \subseteq IdsOf(items) \ {n.id} PROVE FALSE
  BY DEF DroppedOther
<1>3. IsFiniteSet(IdsOf(items)) /\ Cardinality(IdsOf(items)) <= Len(items)
  <2>1. IsFiniteSet(1..Len(items)) /\ Cardinality(1..Len(items)) = Len(items)
    <3>1. \A m \in Nat : IsFiniteSet(1..m) /\ Cardinality(1..m) = m
      <4>1. SUFFICES ASSUME NEW m \in Nat PROVE IsFiniteSet(1..m) /\ Cardinality(1..m) = m
        OBVIOUS
      <4> QED
        BY FS_Interval, 1 \in Int, m \in Int
    <3> QED
      BY <1>1, <3>1
  <2> DEFINE f == [k \in 1..Len(items) |-> items[k].id]
  <2>2. f \in Surjection(1..Len(items), IdsOf(items))
    BY <1>1 DEF Surjection, IdsOf
  <2> HIDE DEF f
  <2> QED
    BY <2>1, <2>2, FS_Surjection
<1>4. IsFiniteSet(IdsOf(tab.list)) /\ Cardinality(IdsOf(tab.list)) = Limit
  <2> DEFINE f == [k \in 1..Limit |-> tab.list[k].id]
  <2>1. f \in [1..Limit -> IdsOf(tab.list)]
    BY <1>1 DEF IdsOf
  <2>2. \A i, j \in 1..Limit : f[i] = f[j] => i = j
    BY <1>1 DEF Distinct
  <2>3. \A id \in IdsOf(tab.list) : \E k \in 1..Limit : f[k] = id
    BY <1>1 DEF IdsOf
  <2> HIDE DEF f
  <2>4. f \in Bijection(1..Limit, IdsOf(tab.list))
    BY <2>1, <2>2, <2>3 DEF Bijection, Injection, Surjection, IsInjective
  <2> DEFINE S == IdsOf(tab.list)
  <2>5. ExistsBijection(1..Limit, S)
    BY <2>4 DEF ExistsBijection
  <2> HIDE DEF S
  <2>6. IsFiniteSet(S) /\ Cardinality(S) = Limit
    BY <1>1, <2>5, FS_CountingElements, FS_NatBijection
  <2> QED
    BY <2>6 DEF S
<1>5. n.id \in IdsOf(items)
  BY DEF In, IdsOf
<1>6. IsFiniteSet(IdsOf(items) \ {n.id}) /\ Cardinality(IdsOf(items) \ {n.id}) = Cardinality(IdsOf(items)) - 1
  BY <1>3, <1>5, FS_RemoveElement
<1>7. Cardinality(IdsOf(tab.list)) <= Cardinality(IdsOf(items) \ {n.id})
  BY <1>2, <1>6, FS_Subset
<1>8. Cardinality(IdsOf(items)) \in Nat
  BY <1>3, FS_CardinalityType
<1> QED
  BY <1>1, <1>3, <1>4, <1>6, <1>7, <1>8

LEMMA CoversImply == Types /\ InOrder /\ Covers => NothingElseIsMissed
<1>1. SUFFICES ASSUME Types, InOrder, Covers, AtRest, NEW i \in DOMAIN items
               PROVE  items[i].id \in exposed \/ DroppedOther \/ Shown(items[i])
  BY DEF NothingElseIsMissed
<1> DEFINE n == items[i]
<1>2. n \in Item /\ In(n, items) /\ items \in Seq(Item)
  BY <1>1, TypesGive DEF Filed, In
<1> HIDE DEF n
<1>3. ~owed /\ snap.at = "idle" /\ wire = <<>> /\ tab.sent = {} /\ snap.items = <<>>
  BY <1>1 DEF AtRest, InOrder
<1>4. ~Clears(tab) /\ ~Asked(tab, n.id) /\ ~Flown(n) /\ ~In(n, snap.items)
  BY <1>3 DEF Clears, Asked, Flown, In
<1>5. Safe(n.id) \/ OnWay(n)
  BY <1>1, <1>2 DEF Covers, Covered
<1>6. CASE Safe(n.id)
  BY <1>3, <1>6 DEF Safe, n
<1>7. CASE OnWay(n)
  <2>1. Failed({"clear"}, n.id) \/ Has(tab, n, Unheard)
    BY <1>4, <1>7 DEF OnWay, Arrived, TabHas
  <2>2. CASE Failed({"clear"}, n.id)
    BY <2>2 DEF Shown, n
  <2>3. CASE n.id \notin IdsOf(tab.list) /\ Len(tab.list) = Limit
    BY <1>1, <1>2, <2>3, OtherDropped
  <2>4. ASSUME NEW k \in DOMAIN tab.list,
               tab.list[k].id = n.id, tab.list[k].stamp = n.stamp,
               tab.list[k].read = n.read \/ (tab.list[k].read /\ n.id \in Unheard)
        PROVE  Shown(n)
    <3>1. n.id \in Unheard => Failed({"read", "all"}, n.id)
      BY DEF Unheard
    <3> QED
      BY <2>4, <3>1 DEF Shown
  <2> QED
    BY <1>4, <2>1, <2>2, <2>3, <2>4 DEF Has, n
<1> QED
  BY <1>5, <1>6, <1>7

-----------------------------------------------------------------------------
(* Theorems                                                                *)

LEMMA TypesAlways == Spec => []Types
<1>1. Init => Types
  BY InitTypes
<1>2. Types /\ [Next]_vars => Types'
  BY TypesKept
<1> QED
  BY <1>1, <1>2, PTL DEF Spec

\* The manager, the snapshots, the pushes and the store of the tab keep to their
\* types: neither list grows beyond its limit, every update leads to a notification,
\* and the guid changes no more often than the user has cleared the list.
THEOREM TypeCorrect == Spec => []TypeOK
<1>1. Types => TypeOK
  BY TypesImply
<1> QED
  BY <1>1, TypesAlways, PTL

\* A notification of high priority is marked read, in the tab or on the server, only
\* when the user has acted on it or on all.
THEOREM UrgentIsUntouched == Spec => []UrgentStaysUnread
<1>1. Init => Innocence
  BY InitInnocence
<1>2. Types /\ Innocence /\ [Next]_vars => Innocence'
  BY InnocenceKept
<1>3. Innocence => UrgentStaysUnread
  BY InnocenceImplies
<1> QED
  BY <1>1, <1>2, <1>3, TypesAlways, PTL DEF Spec

\* The toast of a notification that is raised once is on the stack once, with a timer
\* of its own.
THEOREM ToastsHaveTimers == Spec => []ToastsAreTimed
<1>1. Init => Bearers
  BY InitBearers
<1>2. Types /\ Bearers /\ [Next]_vars => Bearers'
  BY BearersKept
<1>3. Bearers => ToastsAreTimed
  BY BearersImply
<1> QED
  BY <1>1, <1>2, <1>3, TypesAlways, PTL DEF Spec


\* Once every push is delivered and every call answered, the tab shows what the
\* manager has, but for what a call that failed, a full list or a cursor beyond the
\* updates explains.
THEOREM NothingElseLost == Spec => []NothingElseIsMissed
<1>1. Init => InOrder /\ Covers
  BY InitInOrder
<1>2. Types /\ InOrder /\ Covers /\ [Next]_vars => (InOrder /\ Covers)'
  BY InOrderKept, CoversKept
<1>3. Types /\ InOrder /\ Covers => NothingElseIsMissed
  BY CoversImply
<1> QED
  BY <1>1, <1>2, <1>3, TypesAlways, PTL DEF Spec
=============================================================================
