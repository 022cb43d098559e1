--------------------------- MODULE RenderingProofs ---------------------------
(***************************************************************************)
(* Theorems about Rendering, for any types of items and any bounds.        *)
(***************************************************************************)
EXTENDS Rendering, FiniteSetTheorems, WellFoundedInduction, TLAPS

-----------------------------------------------------------------------------
(* Numbers and folds                                                       *)

LEMMA NatOrder ==
    \E R : IsWellFoundedOn(R, Nat) /\ \A x, y \in Nat : x < y => <<x, y>> \in R
<1>1. \A x, y \in Nat : x < y => <<x, y>> \in OpToRel(<, Nat)
  BY Zenon DEF OpToRel
<1> QED
  BY <1>1, NatLessThanWellFounded, Zenon

LEMMA NatMinimum ==
    ASSUME NEW S \in SUBSET Nat, S # {}
    PROVE  \E x \in S : \A y \in S : x <= y
<1>1. PICK R : IsWellFoundedOn(R, Nat) /\ \A x, y \in Nat : x < y => <<x, y>> \in R
  BY NatOrder
<1>2. PICK x \in S : \A y \in S : <<y, x>> \notin R
  <2>1. IsWellFoundedOn(R, Nat)
    BY <1>1
  <2> QED
    BY <2>1, WFMin
<1>3. \A y \in S : ~(y < x)
  BY <1>1, <1>2
<1> QED
  BY <1>3

\* A bounded set of numbers has a greatest one.
LEMMA NatMaximum ==
    ASSUME NEW S \in SUBSET Nat, S # {}, NEW b \in Nat, \A x \in S : x <= b
    PROVE  Max(S) \in S /\ \A y \in S : y <= Max(S)
<1> DEFINE B == {m \in Nat : \A x \in S : x <= m}
<1>1. B \in SUBSET Nat /\ B # {}
  OBVIOUS
<1>2. PICK d \in B : \A y \in B : d <= y
  <2> HIDE DEF B
  <2> QED
    BY <1>1, NatMinimum
<1>3. d \in S
  <2>1. SUFFICES ASSUME d \notin S PROVE FALSE
    OBVIOUS
  <2>2. \A x \in S : x \in Nat /\ x < d
    BY <2>1
  <2>3. d \in Nat /\ d # 0
    <3>1. PICK x \in S : TRUE
      OBVIOUS
    <3>2. x \in Nat /\ x < d /\ d \in Nat
      BY <2>2
    <3> QED
      BY <3>2
  <2>4. d - 1 \in Nat /\ \A x \in S : x <= d - 1
    BY <2>2, <2>3
  <2>5. d - 1 \in B
    BY <2>4
  <2> QED
    BY <1>2, <2>3, <2>5
<1> QED
  BY <1>2, <1>3 DEF Max

\* setMessages for a log of types T.
Drawn(T, p, its) == FoldLeft(LAMBDA q, i : SetMessage(q, i, T[i]), p, its)

LEMMA SetMessagesIsDrawn ==
    ASSUME NEW p, NEW its
    PROVE  SetMessages(p, its) = Drawn(log, p, its)
BY DEF SetMessages, Drawn

\* What it makes of the page, one item after the other.
IsFold(f, T, p, its) ==
    f = [s \in SUBSET DOMAIN its |-> IF s = {} THEN p
            ELSE SetMessage(f[s \ {Max(s)}], its[Max(s)], T[its[Max(s)]])]
Fold(T, p, its) == CHOOSE f : IsFold(f, T, p, its)

LEMMA FoldIs ==
    ASSUME NEW T, NEW p, NEW its
    PROVE  Drawn(T, p, its) = Fold(T, p, its)[DOMAIN its]
BY DEF Drawn, FoldLeft, MapThenFoldSet, Fold, IsFold

LEMMA FoldExists ==
    ASSUME NEW T, NEW p, NEW S, NEW its \in Seq(S)
    PROVE  IsFold(Fold(T, p, its), T, p, its)
<1> DEFINE n == Len(its)
           Part(b) == {s \in SUBSET (1..n) : s \subseteq 1..b}
           Folds(f, b) == f = [s \in Part(b) |->
                IF s = {} THEN p ELSE SetMessage(f[s \ {Max(s)}], its[Max(s)], T[its[Max(s)]])]
           B == {b \in Nat : ~\E f : Folds(f, b)}
<1>1. n \in Nat /\ DOMAIN its = 1..n
  OBVIOUS
<1>2. B = {}
  <2>1. SUFFICES ASSUME B # {} PROVE FALSE
    OBVIOUS
  <2>2. PICK b \in B : \A m \in B : b <= m
    <3>1. B \in SUBSET Nat
      OBVIOUS
    <3> HIDE DEF B
    <3> QED
      BY <2>1, <3>1, NatMinimum
  <2>3. b \in Nat /\ \A f : ~Folds(f, b)
    OBVIOUS
  <2>4. CASE b = 0
    <3> DEFINE f == [s \in Part(0) |-> p]
    <3>1. \A s \in Part(0) : s = {}
      OBVIOUS
    <3>2. Folds(f, 0)
      BY <3>1
    <3> QED
      BY <2>3, <2>4, <3>2
  <2>5. CASE b # 0
    <3>1. b - 1 \in Nat /\ b - 1 \notin B
      <4> HIDE DEF B
      <4> QED
        BY <2>2, <2>3, <2>5
    <3>2. PICK g : Folds(g, b - 1)
      BY <3>1
    <3> DEFINE f == [s \in Part(b) |-> IF s = {} THEN p
                        ELSE IF s \in Part(b - 1) THEN g[s]
                        ELSE SetMessage(g[s \ {Max(s)}], its[Max(s)], T[its[Max(s)]])]
    <3>3. ASSUME NEW s \in Part(b), s # {}
          PROVE  /\ Max(s) \in s /\ s \ {Max(s)} \in Part(b - 1)
      <4>1. s \in SUBSET Nat /\ \A x \in s : x <= b
        BY <2>3
      <4>2. Max(s) \in s /\ \A y \in s : y <= Max(s)
        BY <2>3, <3>3, <4>1, NatMaximum
      <4>3. ASSUME NEW y \in s \ {Max(s)} PROVE y \in 1..(b - 1)
        <5>1. y \in 1..b /\ Max(s) \in 1..b /\ y <= Max(s) /\ y # Max(s)
          BY <4>2
        <5> QED
          BY <2>3, <5>1
      <4> QED
        BY <4>2, <4>3
    <3>4. \A s \in Part(b - 1) : s \in Part(b)
      BY <2>3, <3>1
    <3>5. \A s \in Part(b - 1) : g[s] = IF s = {} THEN p ELSE SetMessage(g[s \ {Max(s)}], its[Max(s)], T[its[Max(s)]])
      BY <3>2
    <3>6. \A s \in Part(b - 1) : f[s] = g[s]
      BY <3>4, <3>5
    <3>7. ASSUME NEW s \in Part(b)
          PROVE  f[s] = IF s = {} THEN p ELSE SetMessage(f[s \ {Max(s)}], its[Max(s)], T[its[Max(s)]])
      <4>1. CASE s = {}
        BY <4>1
      <4>2. CASE s # {} /\ s \in Part(b - 1)
        BY <3>3, <3>4, <3>5, <3>6, <4>2
      <4>3. CASE s # {} /\ s \notin Part(b - 1)
        <5>1. f[s] = SetMessage(g[s \ {Max(s)}], its[Max(s)], T[its[Max(s)]])
          BY <4>3
        <5>2. f[s \ {Max(s)}] = g[s \ {Max(s)}]
          BY <3>3, <3>6, <4>3
        <5> QED
          BY <4>3, <5>1, <5>2
      <4> QED
        BY <4>1, <4>2, <4>3
    <3>8. f = [s \in Part(b) |-> f[s]]
      OBVIOUS
    <3> HIDE DEF f, Part
    <3>9. Folds(f, b)
      BY <3>7, <3>8
    <3> QED
      BY <2>3, <3>9
  <2> QED
    BY <2>4, <2>5
<1>3. PICK f : Folds(f, n)
  BY <1>1, <1>2
<1>4. Part(n) = SUBSET DOMAIN its
  BY <1>1
<1>5. IsFold(f, T, p, its)
  BY <1>3, <1>4 DEF IsFold
<1> QED
  BY <1>5 DEF Fold

LEMMA FoldStep ==
    ASSUME NEW T, NEW p, NEW S, NEW its \in Seq(S)
    PROVE  /\ Fold(T, p, its)[1..0] = p
           /\ \A n \in DOMAIN its :
                Fold(T, p, its)[1..n] = SetMessage(Fold(T, p, its)[1..(n - 1)], its[n], T[its[n]])
<1> DEFINE f == Fold(T, p, its)
<1>1. /\ Len(its) \in Nat /\ DOMAIN its = 1..Len(its)
      /\ \A s \in SUBSET DOMAIN its : f[s] = IF s = {} THEN p
            ELSE SetMessage(f[s \ {Max(s)}], its[Max(s)], T[its[Max(s)]])
  <2>1. IsFold(f, T, p, its)
    BY FoldExists
  <2> HIDE DEF f
  <2>2. f = [s \in SUBSET DOMAIN its |-> IF s = {} THEN p
                ELSE SetMessage(f[s \ {Max(s)}], its[Max(s)], T[its[Max(s)]])]
    BY <2>1 DEF IsFold
  <2>3. \A s \in SUBSET DOMAIN its : f[s] = IF s = {} THEN p
            ELSE SetMessage(f[s \ {Max(s)}], its[Max(s)], T[its[Max(s)]])
    BY ONLY <2>2, Zenon
  <2>4. Len(its) \in Nat /\ DOMAIN its = 1..Len(its)
    OBVIOUS
  <2> QED
    BY <2>3, <2>4, Zenon
<1> HIDE DEF f
<1>2. f[1..0] = p
  <2>1. 1..0 = {}
    OBVIOUS
  <2> QED
    BY <1>1, <2>1
<1>3. ASSUME NEW n \in DOMAIN its
      PROVE  f[1..n] = SetMessage(f[1..(n - 1)], its[n], T[its[n]])
  <2>1. n \in Nat /\ n >= 1
    BY <1>1
  <2>2. n \in 1..n /\ (1..n) \in SUBSET Nat /\ \A x \in 1..n : x <= n
    BY <2>1
  <2>3. Max(1..n) \in 1..n /\ \A y \in 1..n : y <= Max(1..n)
    BY <2>1, <2>2, NatMaximum
  <2>4. Max(1..n) = n
    BY <2>1, <2>2, <2>3
  <2>5. Max(1..n) = n /\ (1..n) \ {n} = 1..(n - 1) /\ 1..n # {} /\ 1..n \in SUBSET DOMAIN its
    BY <1>1, <2>1, <2>2, <2>4
  <2> QED
    BY <1>1, <2>5
<1> QED
  BY <1>2, <1>3 DEF f

\* If the page is in G[n] after n items, it is in G[Len(its)] after all.
LEMMA FoldInduction ==
    ASSUME NEW T, NEW p, NEW S, NEW its \in Seq(S), NEW G, p \in G[0],
           \A n \in DOMAIN its : \A x \in G[n - 1] : SetMessage(x, its[n], T[its[n]]) \in G[n]
    PROVE  Drawn(T, p, its) \in G[Len(its)]
<1> DEFINE f == Fold(T, p, its)
           B == {n \in 0..Len(its) : f[1..n] \notin G[n]}
<1>1. /\ Len(its) \in Nat /\ DOMAIN its = 1..Len(its)
      /\ f[1..0] = p
      /\ \A n \in DOMAIN its : f[1..n] = SetMessage(f[1..(n - 1)], its[n], T[its[n]])
  BY FoldStep
<1> HIDE DEF f
<1>2. B = {}
  <2>1. SUFFICES ASSUME B # {} PROVE FALSE
    OBVIOUS
  <2>2. PICK n \in B : \A m \in B : n <= m
    <3>1. B \in SUBSET Nat
      BY <1>1
    <3> HIDE DEF B
    <3> QED
      BY <2>1, <3>1, NatMinimum
  <2>3. n \in 0..Len(its) /\ f[1..n] \notin G[n]
    OBVIOUS
  <2>4. n # 0
    BY <1>1, <2>3
  <2>5. n \in DOMAIN its /\ n - 1 \in 0..Len(its) /\ n - 1 < n
    BY <1>1, <2>3, <2>4
  <2>6. f[1..(n - 1)] \in G[n - 1]
    <3>1. n - 1 \notin B
      <4> HIDE DEF B
      <4> QED
        BY <2>2, <2>5
    <3> QED
      BY <2>5, <3>1
  <2> QED
    BY <1>1, <2>3, <2>5, <2>6
<1>3. f[DOMAIN its] \in G[Len(its)]
  BY <1>1, <1>2
<1> QED
  BY <1>3, FoldIs DEF f

LEMMA DrawnNone ==
    ASSUME NEW T, NEW p
    PROVE  Drawn(T, p, <<>>) = p
<1>1. <<>> \in Seq({}) /\ DOMAIN <<>> = 1..0
  OBVIOUS
<1>2. Fold(T, p, <<>>)[1..0] = p
  BY <1>1, FoldStep
<1> QED
  BY <1>1, <1>2, FoldIs

\* Only the types of the items that are drawn matter.
LEMMA DrawnAlike ==
    ASSUME NEW T, NEW U, NEW p, NEW S, NEW its \in Seq(S), \A n \in DOMAIN its : T[its[n]] = U[its[n]]
    PROVE  Drawn(T, p, its) = Drawn(U, p, its)
<1> DEFINE G == [n \in 0..Len(its) |-> {Fold(U, p, its)[1..n]}]
<1>1. Len(its) \in Nat /\ DOMAIN its = 1..Len(its)
  OBVIOUS
<1>2. p \in G[0]
  BY <1>1, FoldStep
<1>3. ASSUME NEW n \in DOMAIN its, NEW x \in G[n - 1]
      PROVE  SetMessage(x, its[n], T[its[n]]) \in G[n]
  <2>1. n - 1 \in 0..Len(its) /\ n \in 0..Len(its)
    BY <1>1
  <2>2. x = Fold(U, p, its)[1..(n - 1)]
    BY <2>1
  <2>3. SetMessage(x, its[n], T[its[n]]) = Fold(U, p, its)[1..n]
    BY <2>2, FoldStep
  <2> QED
    BY <2>1, <2>3
<1>4. Drawn(T, p, its) \in G[Len(its)]
  <2> HIDE DEF G
  <2> QED
    BY <1>2, <1>3, FoldInduction
<1>5. Drawn(T, p, its) = Fold(U, p, its)[1..Len(its)]
  BY <1>1, <1>4
<1> QED
  BY <1>1, <1>5, FoldIs

\* One item more.
LEMMA DrawnMore ==
    ASSUME NEW T, NEW p, NEW S, NEW its \in Seq(S), NEW k \in S
    PROVE  Drawn(T, p, Append(its, k)) = SetMessage(Drawn(T, p, its), k, T[k])
<1> DEFINE new == SetMessage(Drawn(T, p, its), k, T[k])
           G == [n \in 0..(Len(its) + 1) |-> IF n = Len(its) + 1 THEN {new} ELSE {Fold(T, p, its)[1..n]}]
           all == Append(its, k)
<1>1. Len(its) \in Nat /\ DOMAIN its = 1..Len(its) /\ Drawn(T, p, its) = Fold(T, p, its)[1..Len(its)]
  BY FoldIs
<1>2. /\ all \in Seq(S) /\ Len(all) = Len(its) + 1 /\ DOMAIN all = 1..(Len(its) + 1)
      /\ all[Len(its) + 1] = k /\ \A n \in DOMAIN its : all[n] = its[n]
  BY <1>1
<1>3. p \in G[0]
  BY <1>1, FoldStep
<1> HIDE DEF all
<1>4. ASSUME NEW n \in DOMAIN all, NEW x \in G[n - 1]
      PROVE  SetMessage(x, all[n], T[all[n]]) \in G[n]
  <2>1. n - 1 \in 0..(Len(its) + 1) /\ n \in 0..(Len(its) + 1) /\ n - 1 # Len(its) + 1
    BY <1>1, <1>2
  <2>2. x = Fold(T, p, its)[1..(n - 1)]
    BY <2>1
  <2>3. CASE n = Len(its) + 1
    <3>1. n - 1 = Len(its) /\ all[n] = k
      <4>1. n - 1 = Len(its)
        <5>1. \A l \in Nat : (l + 1) - 1 = l
          OBVIOUS
        <5> QED
          BY <1>1, <2>3, <5>1, Zenon
      <4>2. all[n] = k
        BY <1>2, <2>3, Zenon
      <4> QED
        BY <4>1, <4>2
    <3> QED
      BY <1>1, <2>1, <2>2, <2>3, <3>1
  <2>4. CASE n # Len(its) + 1
    <3>1. n \in DOMAIN its /\ all[n] = its[n]
      BY <1>1, <1>2, <2>4
    <3>2. SetMessage(x, its[n], T[its[n]]) = Fold(T, p, its)[1..n]
      BY <2>2, <3>1, FoldStep
    <3> QED
      BY <2>1, <2>4, <3>1, <3>2
  <2> QED
    BY <2>3, <2>4
<1>5. Drawn(T, p, all) \in G[Len(all)]
  <2> HIDE DEF G
  <2> QED
    BY <1>2, <1>3, <1>4, FoldInduction
<1>6. Drawn(T, p, all) = new
  <2> HIDE DEF new
  <2> QED
    BY <1>1, <1>2, <1>5
<1> QED
  BY <1>6 DEF all

-----------------------------------------------------------------------------
(* The page                                                                *)

BoxRecords == [kind : {"message", "process"}, id : Nat, steps : Seq(Nat), answers : Seq(Nat), closed : BOOLEAN]
GroupRecords == [position : {"left", "mid", "right"}, boxes : Seq(BoxRecords)]

\* Box b of group g is on the page.
On(p, g, b) == g \in DOMAIN p /\ b \in DOMAIN p[g].boxes
BoxAt(p, g, b) == p[g].boxes[b]

\* Item i is in part r of it.
In(box, i, r) ==
    \/ r = "message" /\ box.kind = "message" /\ box.id = i
    \/ r = "step" /\ i \in ToSet(box.steps)
    \/ r = "answer" /\ i \in ToSet(box.answers)
At(p, i, g, b, r) == On(p, g, b) /\ In(BoxAt(p, g, b), i, r)

IsOpen(box) == box.kind = "process" /\ ~IsComplete(box)

FitBox(position, box) ==
    /\ box.kind = "message" => box.steps = <<>> /\ box.answers = <<>> /\ ~box.closed
    /\ box.kind = "process" => position = "left" /\ box.steps # <<>>
    /\ IsInjective(box.steps) /\ IsInjective(box.answers)

\* The shape of the page.
Shaped(p) ==
    /\ p \in Seq(GroupRecords)
    /\ \A g \in DOMAIN p : p[g].boxes # <<>>
    /\ \A g, b : On(p, g, b) => FitBox(p[g].position, BoxAt(p, g, b))

OpenLast(p) ==
    \A g, b : On(p, g, b) /\ IsOpen(BoxAt(p, g, b)) =>
        /\ g = Len(p)
        /\ \A c \in DOMAIN p[g].boxes : c > b => BoxAt(p, g, c).kind = "message"

NoneOpen(p) == \A g, b : On(p, g, b) => ~IsOpen(BoxAt(p, g, b))

LEMMA OnIsTyped ==
    ASSUME NEW p \in Seq(GroupRecords), NEW g, NEW b, On(p, g, b)
    PROVE  /\ g \in Nat /\ b \in Nat /\ g \in 1..Len(p) /\ b \in 1..Len(p[g].boxes)
           /\ p[g] \in GroupRecords /\ p[g].boxes \in Seq(BoxRecords) /\ BoxAt(p, g, b) \in BoxRecords
<1>1. p[g] \in GroupRecords /\ g \in 1..Len(p) /\ Len(p) \in Nat
  BY DEF On
<1>2. p[g].boxes \in Seq(BoxRecords)
  BY <1>1 DEF GroupRecords
<1>3. b \in DOMAIN p[g].boxes
  BY DEF On
<1> HIDE DEF GroupRecords
<1>4. p[g].boxes[b] \in BoxRecords /\ b \in 1..Len(p[g].boxes) /\ Len(p[g].boxes) \in Nat
  BY <1>2, <1>3
<1> QED
  BY <1>1, <1>2, <1>4 DEF BoxAt

\* One box of the last group is changed.
LEMMA InLastFacts ==
    ASSUME NEW p \in Seq(GroupRecords), NEW box, On(p, Len(p), box), NEW new \in BoxRecords
    PROVE  LET q == InLast(p, box, new)
           IN  /\ q \in Seq(GroupRecords) /\ Len(q) = Len(p)
               /\ \A g \in DOMAIN p : q[g].position = p[g].position /\ DOMAIN q[g].boxes = DOMAIN p[g].boxes
                                      /\ (p[g].boxes # <<>> => q[g].boxes # <<>>)
               /\ \A g, b : On(q, g, b) <=> On(p, g, b)
               /\ BoxAt(q, Len(p), box) = new
               /\ \A g, b : On(p, g, b) /\ ~(g = Len(p) /\ b = box) => BoxAt(q, g, b) = BoxAt(p, g, b)
<1> DEFINE n == Len(p)
           q == InLast(p, box, new)
           last == p[n]
           boxes == [last.boxes EXCEPT ![box] = new]
<1>1. /\ n \in Nat /\ n \in DOMAIN p /\ DOMAIN p = 1..n /\ last \in GroupRecords
      /\ box \in DOMAIN last.boxes /\ last.boxes \in Seq(BoxRecords)
  BY OnIsTyped DEF On
<1>2. boxes \in Seq(BoxRecords) /\ DOMAIN boxes = DOMAIN last.boxes /\ (last.boxes # <<>> => boxes # <<>>)
  <2>1. boxes \in Seq(BoxRecords) /\ DOMAIN boxes = DOMAIN last.boxes
    BY <1>1
  <2>2. boxes # <<>>
    BY <1>1, <2>1
  <2> QED
    BY <2>1, <2>2
<1>3. boxes[box] = new /\ \A b \in DOMAIN last.boxes : b # box => boxes[b] = last.boxes[b]
  BY <1>1
<1>4. q = [p EXCEPT ![n] = [p[n] EXCEPT !.boxes = [p[n].boxes EXCEPT ![box] = new]]]
  BY DEF InLast
<1>5. q = [p EXCEPT ![n] = [last EXCEPT !.boxes = boxes]]
  BY <1>4
<1> DEFINE group == [last EXCEPT !.boxes = boxes]
<1> HIDE DEF boxes, last
<1>6. group \in GroupRecords /\ group.boxes = boxes /\ group.position = last.position
  BY <1>1, <1>2 DEF GroupRecords
<1> HIDE DEF group, q
<1>7. q \in Seq(GroupRecords) /\ Len(q) = n /\ DOMAIN q = DOMAIN p
  BY <1>1, <1>5, <1>6 DEF group
<1>8. q[n] = group /\ \A g \in DOMAIN p : g # n => q[g] = p[g]
  BY <1>1, <1>5 DEF group
<1>9. p[n] = last
  BY DEF last
<1> HIDE DEF n
<1>10. \A g \in DOMAIN p : q[g].position = p[g].position /\ DOMAIN q[g].boxes = DOMAIN p[g].boxes
                                      /\ (p[g].boxes # <<>> => q[g].boxes # <<>>)
  BY <1>2, <1>6, <1>8, <1>9
<1>11. \A g, b : On(q, g, b) <=> On(p, g, b)
  BY <1>7, <1>10 DEF On
<1>12. BoxAt(q, n, box) = new
  BY <1>3, <1>6, <1>8 DEF BoxAt
<1>13. \A g, b : On(p, g, b) /\ ~(g = n /\ b = box) => BoxAt(q, g, b) = BoxAt(p, g, b)
  BY <1>3, <1>6, <1>8, <1>9 DEF BoxAt, On
<1> QED
  BY <1>7, <1>10, <1>11, <1>12, <1>13 DEF n, q

\* q is the page p with a new box at its end.
Extended(p, q, box, position) ==
    /\ q \in Seq(GroupRecords) /\ Len(q) \in Nat /\ Len(q) >= Len(p)
    /\ \A g \in DOMAIN p : q[g].position = p[g].position
    /\ \A g \in DOMAIN q : q[g].boxes # <<>>
    /\ \E c \in Nat :
          /\ \A g, b : On(q, g, b) <=> On(p, g, b) \/ (g = Len(q) /\ b = c)
          /\ ~On(p, Len(q), c)
          /\ \A g, b : On(p, g, b) => BoxAt(q, g, b) = BoxAt(p, g, b)
          /\ BoxAt(q, Len(q), c) = box /\ q[Len(q)].position = position
          /\ \A b \in DOMAIN q[Len(q)].boxes : b <= c

LEMMA AppendBoxFacts ==
    ASSUME NEW p, Shaped(p), NEW box \in BoxRecords, NEW position \in {"left", "mid", "right"}, NEW force \in BOOLEAN
    PROVE  Extended(p, AppendBox(p, box, position, force), box, position)
<1> DEFINE q == AppendBox(p, box, position, force)
           n == Len(p)
<1>1. p \in Seq(GroupRecords) /\ n \in Nat /\ DOMAIN p = 1..n /\ \A g \in DOMAIN p : p[g].boxes # <<>> /\ p[g] \in GroupRecords
  BY DEF Shaped
<1>2. CASE ~force /\ p # <<>> /\ Last(p).position = position
  <2> DEFINE boxes == Append(p[n].boxes, box)
             c == Len(p[n].boxes) + 1
             group == [p[n] EXCEPT !.boxes = boxes]
  <2>1. n \in DOMAIN p /\ p[n] \in GroupRecords
    BY <1>1, <1>2
  <2>2. p[n].boxes \in Seq(BoxRecords) /\ Len(p[n].boxes) \in Nat /\ p[n].position = position
    BY <1>2, <2>1 DEF GroupRecords, Last
  <2>3. q = [p EXCEPT ![n] = group]
    BY <1>2 DEF AppendBox
  <2>4. /\ boxes \in Seq(BoxRecords) /\ DOMAIN boxes = 1..c /\ DOMAIN p[n].boxes = 1..(c - 1) /\ c \in Nat
        /\ boxes[c] = box /\ \A b \in DOMAIN p[n].boxes : boxes[b] = p[n].boxes[b]
    BY <2>2
  <2>5. boxes # <<>> /\ c >= 1
    BY <2>2
  <2> HIDE DEF boxes, c
  <2>6. group \in GroupRecords /\ group.boxes = boxes /\ group.position = position
    BY <2>1, <2>2, <2>4 DEF GroupRecords
  <2> HIDE DEF group
  <2>7. q \in Seq(GroupRecords) /\ Len(q) = n /\ DOMAIN q = 1..n
    BY <1>1, <2>1, <2>3, <2>6
  <2>8. q[n] = group /\ \A g \in DOMAIN p : g # n => q[g] = p[g]
    BY <1>1, <2>1, <2>3
  <2> HIDE DEF q, n
  <2>9. \A g \in DOMAIN p : q[g].position = p[g].position
    BY <2>2, <2>6, <2>8
  <2>10. \A g \in DOMAIN q : q[g].boxes # <<>>
    BY <1>1, <2>5, <2>6, <2>7, <2>8
  <2>11. \A b : b \in 1..c <=> b \in 1..(c - 1) \/ b = c
    BY <2>4, <2>5
  <2>12. \A g, b : On(q, g, b) <=> On(p, g, b) \/ (g = Len(q) /\ b = c)
    <3>1. ASSUME NEW g, NEW b PROVE On(q, g, b) <=> On(p, g, b) \/ (g = n /\ b = c)
      <4>1. CASE g = n
        BY <1>1, <2>1, <2>4, <2>6, <2>7, <2>8, <2>11, <4>1 DEF On
      <4>2. CASE g # n
        BY <1>1, <2>7, <2>8, <4>2 DEF On
      <4> QED
        BY <4>1, <4>2
    <3> QED
      BY <2>7, <3>1
  <2>13. ~On(p, Len(q), c)
    BY <2>4, <2>7 DEF On
  <2>14. \A g, b : On(p, g, b) => BoxAt(q, g, b) = BoxAt(p, g, b)
    BY <2>4, <2>6, <2>8 DEF On, BoxAt
  <2>15. BoxAt(q, Len(q), c) = box /\ q[Len(q)].position = position /\ \A b \in DOMAIN q[Len(q)].boxes : b <= c
    BY <2>4, <2>6, <2>7, <2>8 DEF BoxAt
  <2>16. Len(q) \in Nat /\ Len(q) >= Len(p)
    BY <1>1, <2>7 DEF n
  <2> QED
    BY <2>4, <2>7, <2>9, <2>10, <2>12, <2>13, <2>14, <2>15, <2>16 DEF Extended, q
<1>3. CASE ~(~force /\ p # <<>> /\ Last(p).position = position)
  <2> DEFINE group == [position |-> position, boxes |-> <<box>>]
  <2>1. q = Append(p, group)
    BY <1>3 DEF AppendBox
  <2>2. <<box>> \in Seq(BoxRecords) /\ <<box>> # <<>> /\ DOMAIN <<box>> = {1} /\ <<box>>[1] = box
    OBVIOUS
  <2>3. group \in GroupRecords /\ group.boxes = <<box>> /\ group.position = position
    BY <2>2 DEF GroupRecords
  <2> HIDE DEF group
  <2>4. q \in Seq(GroupRecords) /\ Len(q) = n + 1 /\ DOMAIN q = 1..(n + 1) /\ q[n + 1] = group /\ \A g \in DOMAIN p : q[g] = p[g]
    BY <1>1, <2>1, <2>3
  <2> HIDE DEF q, n
  <2>5. \A g : g \in 1..(n + 1) <=> g \in 1..n \/ g = n + 1
    BY <1>1
  <2>6. n + 1 \notin DOMAIN p /\ n + 1 \in Nat
    BY <1>1
  <2>7. \A g \in DOMAIN p : q[g].position = p[g].position
    BY <2>4
  <2>8. \A g \in DOMAIN q : q[g].boxes # <<>>
    BY <1>1, <2>2, <2>3, <2>4, <2>5
  <2>9. \A g, b : On(q, g, b) <=> On(p, g, b) \/ (g = Len(q) /\ b = 1)
    <3>1. ASSUME NEW g, NEW b PROVE On(q, g, b) <=> On(p, g, b) \/ (g = n + 1 /\ b = 1)
      <4>1. CASE g = n + 1
        BY <2>2, <2>3, <2>4, <2>5, <2>6, <4>1 DEF On
      <4>2. CASE g # n + 1
        BY <1>1, <2>4, <2>5, <4>2 DEF On
      <4> QED
        BY <4>1, <4>2
    <3> QED
      BY <2>4, <3>1
  <2>10. ~On(p, Len(q), 1)
    BY <2>4, <2>6 DEF On
  <2>11. \A g, b : On(p, g, b) => BoxAt(q, g, b) = BoxAt(p, g, b)
    BY <2>4 DEF On, BoxAt
  <2>12. BoxAt(q, Len(q), 1) = box /\ q[Len(q)].position = position /\ \A b \in DOMAIN q[Len(q)].boxes : b <= 1
    <3>1. q[Len(q)] = group
      BY <2>4
    <3> QED
      BY <2>2, <2>3, <3>1 DEF BoxAt
  <2>13. Len(q) \in Nat /\ Len(q) >= Len(p)
    BY <1>1, <2>4 DEF n
  <2> QED
    BY <2>4, <2>7, <2>8, <2>9, <2>10, <2>11, <2>12, <2>13 DEF Extended, q
<1> QED
  BY <1>2, <1>3

-----------------------------------------------------------------------------
(* What the draws do to the page                                           *)

Same(p, q) == Len(q) = Len(p) /\ \A i, g, b, r : At(q, i, g, b, r) <=> At(p, i, g, b, r)

\* Item i is in one part more, of the last group.
GrownAt(p, q, i, r, c) ==
    \A j, g, b, s : At(q, j, g, b, s) <=> At(p, j, g, b, s) \/ (j = i /\ g = Len(q) /\ b = c /\ s = r)
Grown(p, q, i, r) == Len(q) \in Nat /\ Len(q) >= Len(p) /\ \E c : GrownAt(p, q, i, r, c)

LEMMA BoxesOn ==
    ASSUME NEW p
    PROVE  \A box : box \in Boxes(p) <=> \E g, b : On(p, g, b) /\ box = BoxAt(p, g, b)
BY DEF Boxes, On, BoxAt, ToSet

LEMMA HasStepAt ==
    ASSUME NEW p, NEW i
    PROVE  HasStep(p, i) <=> \E g, b : At(p, i, g, b, "step")
<1>1. \A box : In(box, i, "step") <=> i \in ToSet(box.steps)
  BY DEF In
<1> QED
  BY <1>1, BoxesOn DEF HasStep, At

LEMMA HasMessageAt ==
    ASSUME NEW p, NEW i
    PROVE  HasMessage(p, i) <=> \E g, b, r : r # "step" /\ At(p, i, g, b, r)
<1>1. \A box : i \in ToSet(box.answers) \/ (box.kind = "message" /\ box.id = i)
                  <=> \E r : r # "step" /\ In(box, i, r)
  BY DEF In
<1> QED
  BY <1>1, BoxesOn DEF HasMessage, At

LEMMA NewMessage ==
    ASSUME NEW i \in Nat
    PROVE  /\ Message(i) \in BoxRecords /\ ~IsOpen(Message(i)) /\ Message(i).kind = "message"
           /\ \A position : FitBox(position, Message(i))
           /\ \A j, r : In(Message(i), j, r) <=> j = i /\ r = "message"
<1>1. /\ Message(i).kind = "message" /\ Message(i).id = i /\ Message(i).steps = <<>>
      /\ Message(i).answers = <<>> /\ Message(i).closed = FALSE
  BY DEF Message
<1>2. Message(i) \in BoxRecords
  <2>1. <<>> \in Seq(Nat)
    OBVIOUS
  <2> QED
    BY <2>1 DEF Message, BoxRecords
<1> HIDE DEF Message
<1>3. ToSet(<<>>) = {} /\ IsInjective(<<>>)
  BY DEF ToSet, IsInjective
<1>4. ~IsOpen(Message(i))
  BY <1>1 DEF IsOpen
<1>5. \A position : FitBox(position, Message(i))
  BY <1>1, <1>3 DEF FitBox
<1>6. \A j, r : In(Message(i), j, r) <=> j = i /\ r = "message"
  BY <1>1, <1>3 DEF In
<1> QED
  BY <1>1, <1>2, <1>4, <1>5, <1>6

LEMMA NewProcess ==
    ASSUME NEW i \in Nat
    PROVE  /\ Process(i) \in BoxRecords /\ FitBox("left", Process(i))
           /\ \A j, r : In(Process(i), j, r) <=> j = i /\ r = "step"
<1>1. /\ Process(i).kind = "process" /\ Process(i).id = i /\ Process(i).steps = <<i>>
      /\ Process(i).answers = <<>> /\ Process(i).closed = FALSE
  BY DEF Process
<1>2. Process(i) \in BoxRecords
  <2>1. <<>> \in Seq(Nat) /\ <<i>> \in Seq(Nat)
    OBVIOUS
  <2> QED
    BY <2>1 DEF Process, BoxRecords
<1> HIDE DEF Process
<1>3. ToSet(<<>>) = {} /\ IsInjective(<<>>)
  BY DEF ToSet, IsInjective
<1>4. ToSet(<<i>>) = {i} /\ IsInjective(<<i>>) /\ <<i>> # <<>>
  BY DEF ToSet, IsInjective
<1>5. FitBox("left", Process(i))
  BY <1>1, <1>3, <1>4 DEF FitBox
<1>6. \A j, r : In(Process(i), j, r) <=> j = i /\ r = "step"
  BY <1>1, <1>3, <1>4 DEF In
<1> QED
  BY <1>2, <1>5, <1>6

\* The last process group, or none.
LEMMA LastProcessFacts ==
    ASSUME NEW p, Shaped(p), OpenLast(p), NEW allowCompleted \in BOOLEAN
    PROVE  LET b == LastProcess(p, allowCompleted)
           IN  /\ b \in Nat
               /\ b = 0 => NoneOpen(p)
               /\ b # 0 => /\ On(p, Len(p), b) /\ BoxAt(p, Len(p), b).kind = "process"
                           /\ \A c \in DOMAIN p[Len(p)].boxes : c > b => BoxAt(p, Len(p), c).kind = "message"
                           /\ BoxAt(p, Len(p), b) = Last(p).boxes[b]
                           /\ ~allowCompleted => IsOpen(BoxAt(p, Len(p), b))
<1> DEFINE n == Len(p)
           b == LastProcess(p, allowCompleted)
<1>1. p \in Seq(GroupRecords) /\ n \in Nat /\ DOMAIN p = 1..n
  BY DEF Shaped
<1>2. CASE p = <<>>
  <2>1. b = 0 /\ NoneOpen(p)
    BY <1>2 DEF LastProcess, NoneOpen, On
  <2> QED
    BY <2>1
<1>3. CASE p # <<>>
  <2> DEFINE boxes == Last(p).boxes
             S == {c \in 1..Len(boxes) : boxes[c].kind = "process"}
             last == IF S # {} THEN Max(S) ELSE 0
  <2>1. n \in DOMAIN p /\ Last(p) = p[n] /\ p[n] \in GroupRecords
    BY <1>1, <1>3 DEF Last
  <2>2. boxes \in Seq(BoxRecords) /\ Len(boxes) \in Nat /\ DOMAIN boxes = 1..Len(boxes)
    BY <2>1 DEF GroupRecords
  <2>3. b = IF last > 0 /\ ~allowCompleted /\ IsComplete(boxes[last]) THEN 0 ELSE last
    BY <1>3 DEF LastProcess, SelectLastInSeq
  <2>4. /\ last \in Nat
        /\ last = 0 => S = {}
        /\ last # 0 => last \in S /\ \A c \in S : c <= last
    <3>1. CASE S = {}
      BY <3>1
    <3>2. CASE S # {}
      <4>1. S \in SUBSET Nat /\ \A c \in S : c <= Len(boxes)
        BY <2>2
      <4>2. Max(S) \in S /\ \A c \in S : c <= Max(S)
        <5> HIDE DEF S, boxes
        <5> QED
          BY <2>2, <3>2, <4>1, NatMaximum
      <4>3. Max(S) \in Nat /\ Max(S) # 0
        BY <2>2, <4>2
      <4> QED
        BY <3>2, <4>2, <4>3
    <3> QED
      BY <3>1, <3>2
  <2>5. \A c \in 1..Len(boxes) : boxes[c].kind = "process" \/ boxes[c].kind = "message"
    <3>1. \A c \in 1..Len(boxes) : boxes[c] \in BoxRecords
      <4> HIDE DEF boxes, BoxRecords
      <4> QED
        BY <2>2
    <3>2. \A box \in BoxRecords : box.kind = "process" \/ box.kind = "message"
      BY DEF BoxRecords
    <3> HIDE DEF boxes
    <3> QED
      BY <3>1, <3>2
  <2>6. \A c : On(p, n, c) <=> c \in 1..Len(boxes)
    BY <2>1, <2>2 DEF On
  <2>7. \A c : BoxAt(p, n, c) = boxes[c]
    BY <2>1 DEF BoxAt
  <2>8. DOMAIN p[n].boxes = 1..Len(boxes)
    BY <2>1, <2>2
  <2> HIDE DEF boxes, last, b
  <2>9. b \in Nat /\ (b # 0 => b = last /\ last # 0 /\ (~allowCompleted => ~IsComplete(boxes[last])))
    BY <2>3, <2>4
  <2>10. ASSUME b = 0 PROVE NoneOpen(p)
    <3>1. SUFFICES ASSUME NEW g, NEW c, On(p, g, c), IsOpen(BoxAt(p, g, c)) PROVE FALSE
      BY DEF NoneOpen
    <3>2. g = n /\ \A d \in 1..Len(boxes) : d > c => BoxAt(p, g, d).kind = "message"
      BY <2>8, <3>1 DEF OpenLast
    <3>3. c \in S
      BY <2>6, <2>7, <3>1, <3>2 DEF IsOpen
    <3>4. last # 0 /\ last \in S /\ c <= last /\ ~(c < last)
      <4>1. last # 0 /\ last \in S /\ c <= last
        BY <2>4, <3>3
      <4>2. last \in 1..Len(boxes) /\ BoxAt(p, g, last).kind = "process"
        BY <2>7, <3>2, <4>1
      <4>3. ~(last > c)
        BY <3>2, <4>2
      <4> QED
        BY <4>1, <4>3
    <3>5. c = last
      BY <2>2, <2>4, <3>3, <3>4
    <3>6. IsComplete(boxes[last])
      BY <2>3, <2>4, <2>10, <3>4
    <3> QED
      BY <2>7, <3>1, <3>2, <3>5, <3>6 DEF IsOpen
  <2>11. ASSUME b # 0
         PROVE  /\ On(p, n, b) /\ BoxAt(p, n, b).kind = "process"
                /\ \A c \in DOMAIN p[n].boxes : c > b => BoxAt(p, n, c).kind = "message"
                /\ BoxAt(p, n, b) = Last(p).boxes[b]
                /\ ~allowCompleted => IsOpen(BoxAt(p, n, b))
    <3>1. b \in S /\ b \in 1..Len(boxes) /\ boxes[b].kind = "process"
      BY <2>4, <2>9, <2>11
    <3>2. On(p, n, b) /\ BoxAt(p, n, b).kind = "process"
      BY <2>6, <2>7, <3>1
    <3>3. ASSUME NEW c \in 1..Len(boxes), c > b PROVE BoxAt(p, n, c).kind = "message"
      <4>1. c \notin S
        BY <2>2, <2>4, <2>9, <2>11, <3>3
      <4> QED
        BY <2>5, <2>7, <4>1
    <3>4. BoxAt(p, n, b) = Last(p).boxes[b]
      BY <2>7 DEF boxes
    <3>5. ~allowCompleted => IsOpen(BoxAt(p, n, b))
      BY <2>7, <2>9, <2>11, <3>2 DEF IsOpen
    <3> QED
      BY <2>8, <3>2, <3>3, <3>4, <3>5
  <2> QED
    BY <2>9, <2>10, <2>11 DEF b
<1> QED
  BY <1>2, <1>3

\* A box is exchanged for one that is no more open and has at most one part more.
LEMMA ChangeFacts ==
    ASSUME NEW p, Shaped(p), OpenLast(p), NEW b, On(p, Len(p), b), NEW new \in BoxRecords,
           BoxAt(p, Len(p), b).kind = "process", new.kind = "process", FitBox("left", new),
           \A c \in DOMAIN p[Len(p)].boxes : c > b => BoxAt(p, Len(p), c).kind = "message"
    PROVE  LET q == InLast(p, b, new)
           IN  /\ Shaped(q) /\ OpenLast(q) /\ (~IsOpen(new) => NoneOpen(q))
               /\ (\A i, r : In(new, i, r) <=> In(BoxAt(p, Len(p), b), i, r)) => Same(p, q)
               /\ \A i, r : (\A j, s : In(new, j, s) <=> In(BoxAt(p, Len(p), b), j, s) \/ (j = i /\ s = r))
                                => Grown(p, q, i, r)
<1> DEFINE q == InLast(p, b, new)
           n == Len(p)
           old == BoxAt(p, n, b)
<1>1. p \in Seq(GroupRecords) /\ n \in Nat /\ DOMAIN p = 1..n /\ n \in DOMAIN p
  BY DEF Shaped, On
<1>2. /\ q \in Seq(GroupRecords) /\ Len(q) = n /\ DOMAIN q = DOMAIN p
      /\ \A g \in DOMAIN p : q[g].position = p[g].position /\ DOMAIN q[g].boxes = DOMAIN p[g].boxes
                             /\ (p[g].boxes # <<>> => q[g].boxes # <<>>)
      /\ \A g, c : On(q, g, c) <=> On(p, g, c)
      /\ BoxAt(q, n, b) = new
      /\ \A g, c : On(p, g, c) /\ ~(g = n /\ c = b) => BoxAt(q, g, c) = BoxAt(p, g, c)
  <2>1. /\ q \in Seq(GroupRecords) /\ Len(q) = n
        /\ \A g \in DOMAIN p : q[g].position = p[g].position /\ DOMAIN q[g].boxes = DOMAIN p[g].boxes
                               /\ (p[g].boxes # <<>> => q[g].boxes # <<>>)
        /\ \A g, c : On(q, g, c) <=> On(p, g, c)
        /\ BoxAt(q, n, b) = new
        /\ \A g, c : On(p, g, c) /\ ~(g = n /\ c = b) => BoxAt(q, g, c) = BoxAt(p, g, c)
    BY <1>1, InLastFacts
  <2>2. DOMAIN q = DOMAIN p
    <3> HIDE DEF q
    <3> QED
      BY <1>1, <2>1
  <2> HIDE DEF q, n
  <2> QED
    BY <2>1, <2>2
<1>3. p[n].position = "left"
  BY DEF Shaped, FitBox
<1> HIDE DEF q, n, old
<1>4. Shaped(q)
  <2>1. \A g \in DOMAIN q : q[g].boxes # <<>>
    BY <1>2 DEF Shaped
  <2>2. ASSUME NEW g, NEW c, On(q, g, c) PROVE FitBox(q[g].position, BoxAt(q, g, c))
    <3>1. On(p, g, c) /\ g \in DOMAIN p /\ q[g].position = p[g].position /\ FitBox(p[g].position, BoxAt(p, g, c))
      BY <1>2, <2>2 DEF Shaped, On
    <3>2. CASE g = n /\ c = b
      BY <1>2, <1>3, <3>1, <3>2
    <3>3. CASE ~(g = n /\ c = b)
      BY <1>2, <3>1, <3>3
    <3> QED
      BY <3>2, <3>3
  <2> QED
    BY <1>2, <2>1, <2>2 DEF Shaped
<1>5. b \in Nat /\ \A c \in DOMAIN p[n].boxes : c \in Nat
  BY <1>1, OnIsTyped DEF n, On
\* An open box is the last process group, so it is this one.
<1>6. ASSUME NEW g, NEW c, On(p, g, c), IsOpen(BoxAt(p, g, c)) PROVE g = n /\ c = b
  <2>1. g = n /\ \A d \in DOMAIN p[n].boxes : d > c => BoxAt(p, n, d).kind = "message"
    BY <1>6 DEF OpenLast, n
  <2>2. c \in DOMAIN p[n].boxes /\ b \in DOMAIN p[n].boxes /\ BoxAt(p, n, c).kind # "message" /\ BoxAt(p, n, b).kind # "message"
    BY <1>6, <2>1 DEF On, IsOpen, n
  <2>3. ~(b > c) /\ ~(c > b)
    BY <2>1, <2>2 DEF n
  <2> QED
    BY <1>5, <2>1, <2>2, <2>3
<1>7. ASSUME NEW g, NEW c, On(q, g, c), IsOpen(BoxAt(q, g, c)) PROVE g = n /\ c = b /\ IsOpen(new)
  <2>1. CASE g = n /\ c = b
    BY <1>2, <1>7, <2>1
  <2>2. CASE ~(g = n /\ c = b)
    BY <1>2, <1>6, <1>7, <2>2
  <2> QED
    BY <2>1, <2>2
<1>8. NoneOpen(q) \/ IsOpen(new)
  BY <1>7 DEF NoneOpen
<1>9. OpenLast(q)
  <2>1. ASSUME NEW c \in DOMAIN q[n].boxes, c > b PROVE BoxAt(q, n, c).kind = "message"
    <3>1. c \in DOMAIN p[n].boxes /\ On(p, n, c) /\ c # b
      BY <1>1, <1>2, <1>5, <2>1 DEF On
    <3> QED
      BY <1>2, <2>1, <3>1 DEF n
  <2> QED
    BY <1>2, <1>7, <2>1 DEF OpenLast
<1>10. \A j, g, c, s : At(q, j, g, c, s) <=> IF g = n /\ c = b THEN In(new, j, s) ELSE At(p, j, g, c, s)
  <2>1. SUFFICES ASSUME NEW j, NEW g, NEW c, NEW s
                 PROVE  At(q, j, g, c, s) <=> IF g = n /\ c = b THEN In(new, j, s) ELSE At(p, j, g, c, s)
    OBVIOUS
  <2>2. On(p, n, b)
    BY DEF n
  <2>3. CASE g = n /\ c = b
    BY <1>2, <2>2, <2>3 DEF At
  <2>4. CASE ~(g = n /\ c = b)
    BY <1>2, <2>4 DEF At
  <2> QED
    BY <2>3, <2>4
<1>11. \A j, s : At(p, j, n, b, s) <=> In(old, j, s)
  BY DEF At, n, old
<1>12. ASSUME \A i, r : In(new, i, r) <=> In(old, i, r) PROVE Same(p, q)
  <2>1. \A i, g, c, r : At(q, i, g, c, r) <=> At(p, i, g, c, r)
    BY <1>10, <1>11, <1>12
  <2> QED
    BY <1>2, <2>1 DEF Same, n
<1>13. ASSUME NEW i, NEW r, \A j, s : In(new, j, s) <=> In(old, j, s) \/ (j = i /\ s = r)
       PROVE  Grown(p, q, i, r)
  <2>1. \A j, g, c, s : At(q, j, g, c, s) <=> At(p, j, g, c, s) \/ (j = i /\ g = n /\ c = b /\ s = r)
    BY <1>10, <1>11, <1>13
  <2>2. Len(q) \in Nat /\ Len(q) >= Len(p)
    BY <1>1, <1>2 DEF n
  <2>3. GrownAt(p, q, i, r, b)
    BY <1>2, <2>1 DEF GrownAt
  <2> QED
    BY <2>2, <2>3 DEF Grown
<1> QED
  BY <1>4, <1>8, <1>9, <1>12, <1>13 DEF q, n, old

\* A box with one part is put at the end of a page without an open group.
LEMMA ExtendedFacts ==
    ASSUME NEW p, Shaped(p), NoneOpen(p), NEW q, NEW box, NEW position, FitBox(position, box),
           Extended(p, q, box, position), NEW i, NEW r, \A j, s : In(box, j, s) <=> j = i /\ s = r
    PROVE  Shaped(q) /\ OpenLast(q) /\ (~IsOpen(box) => NoneOpen(q)) /\ Grown(p, q, i, r)
<1>1. /\ q \in Seq(GroupRecords) /\ Len(q) \in Nat /\ Len(q) >= Len(p)
      /\ \A g \in DOMAIN p : q[g].position = p[g].position
      /\ \A g \in DOMAIN q : q[g].boxes # <<>>
  BY DEF Extended
<1>2. PICK c \in Nat :
          /\ \A g, b : On(q, g, b) <=> On(p, g, b) \/ (g = Len(q) /\ b = c)
          /\ ~On(p, Len(q), c)
          /\ \A g, b : On(p, g, b) => BoxAt(q, g, b) = BoxAt(p, g, b)
          /\ BoxAt(q, Len(q), c) = box /\ q[Len(q)].position = position
          /\ \A b \in DOMAIN q[Len(q)].boxes : b <= c
  BY DEF Extended
<1>3. Shaped(q)
  <2>1. ASSUME NEW g, NEW b, On(q, g, b) PROVE FitBox(q[g].position, BoxAt(q, g, b))
    <3>1. CASE On(p, g, b)
      <4>1. g \in DOMAIN p /\ FitBox(p[g].position, BoxAt(p, g, b))
        BY <3>1 DEF Shaped, On
      <4> QED
        BY <1>1, <1>2, <3>1, <4>1
    <3>2. CASE g = Len(q) /\ b = c
      BY <1>2, <3>2
    <3> QED
      BY <1>2, <2>1, <3>1, <3>2
  <2> QED
    BY <1>1, <2>1 DEF Shaped
<1>4. ASSUME NEW g, NEW b, On(q, g, b), IsOpen(BoxAt(q, g, b)) PROVE g = Len(q) /\ b = c /\ IsOpen(box)
  <2>1. ~On(p, g, b)
    BY <1>2, <1>4 DEF NoneOpen
  <2> QED
    BY <1>2, <1>4, <2>1
<1>5. OpenLast(q)
  <2>1. \A b \in DOMAIN q[Len(q)].boxes : ~(b > c)
    <3>1. ASSUME NEW b \in DOMAIN q[Len(q)].boxes PROVE b \in Nat
      <4>1. On(q, Len(q), c)
        BY <1>2
      <4>2. On(q, Len(q), b)
        BY <4>1 DEF On
      <4> QED
        BY <1>1, <4>2, OnIsTyped
    <3> QED
      BY <1>2, <3>1
  <2> QED
    BY <1>4, <2>1 DEF OpenLast
<1>6. ~IsOpen(box) => NoneOpen(q)
  BY <1>4 DEF NoneOpen
<1>7. Grown(p, q, i, r)
  <2>1. ASSUME NEW j, NEW g, NEW b, NEW s
        PROVE  At(q, j, g, b, s) <=> At(p, j, g, b, s) \/ (j = i /\ g = Len(q) /\ b = c /\ s = r)
    <3>1. CASE On(p, g, b)
      BY <1>2, <3>1 DEF At
    <3>2. CASE g = Len(q) /\ b = c
      BY <1>2, <3>2 DEF At
    <3>3. CASE ~On(p, g, b) /\ ~(g = Len(q) /\ b = c)
      BY <1>2, <3>3 DEF At
    <3> QED
      BY <3>1, <3>2, <3>3
  <2>2. GrownAt(p, q, i, r, c)
    BY <2>1 DEF GrownAt
  <2> QED
    BY <1>1, <2>2 DEF Grown
<1> QED
  BY <1>3, <1>5, <1>6, <1>7

\* appendToMessageGroup for a message
LEMMA AppendMessageFacts ==
    ASSUME NEW p, Shaped(p), NoneOpen(p), NEW i \in Nat, NEW position \in {"left", "mid", "right"}, NEW force \in BOOLEAN
    PROVE  LET q == AppendBox(p, Message(i), position, force)
           IN  Shaped(q) /\ OpenLast(q) /\ NoneOpen(q) /\ Grown(p, q, i, "message")
<1> DEFINE q == AppendBox(p, Message(i), position, force)
<1>1. /\ Message(i) \in BoxRecords /\ ~IsOpen(Message(i)) /\ FitBox(position, Message(i))
      /\ \A j, r : In(Message(i), j, r) <=> j = i /\ r = "message"
  BY NewMessage
<1>2. Extended(p, q, Message(i), position)
  BY <1>1, AppendBoxFacts
<1> HIDE DEF q
<1>3. Shaped(q) /\ OpenLast(q) /\ (~IsOpen(Message(i)) => NoneOpen(q)) /\ Grown(p, q, i, "message")
  BY <1>1, <1>2, ExtendedFacts
<1> QED
  BY <1>1, <1>3 DEF q

LEMMA CompleteLastFacts ==
    ASSUME NEW p, Shaped(p), OpenLast(p)
    PROVE  LET q == CompleteLast(p) IN Shaped(q) /\ OpenLast(q) /\ NoneOpen(q) /\ Same(p, q)
<1> DEFINE b == LastProcess(p, FALSE)
           q == CompleteLast(p)
<1>1. /\ b \in Nat
      /\ b = 0 => NoneOpen(p)
      /\ b # 0 => /\ On(p, Len(p), b) /\ BoxAt(p, Len(p), b).kind = "process"
                  /\ \A c \in DOMAIN p[Len(p)].boxes : c > b => BoxAt(p, Len(p), c).kind = "message"
                  /\ BoxAt(p, Len(p), b) = Last(p).boxes[b]
  BY LastProcessFacts
<1>2. CASE b = 0
  <2>1. q = p
    BY <1>2 DEF CompleteLast
  <2>2. Same(p, p)
    BY DEF Same
  <2> QED
    BY <1>1, <1>2, <2>1, <2>2
<1>3. CASE b # 0
  <2> DEFINE old == Last(p).boxes[b]
             new == [old EXCEPT !.closed = TRUE]
  <2>1. q = InLast(p, b, new)
    BY <1>3 DEF CompleteLast
  <2>2. old \in BoxRecords /\ old.kind = "process" /\ old = BoxAt(p, Len(p), b) /\ On(p, Len(p), b)
    BY <1>1, <1>3, OnIsTyped DEF Shaped
  <2>3. FitBox("left", old)
    BY <2>2 DEF Shaped, FitBox
  <2> HIDE DEF old
  <2>4. /\ new \in BoxRecords /\ new.kind = old.kind /\ new.id = old.id /\ new.steps = old.steps
        /\ new.answers = old.answers /\ new.closed = TRUE
    BY <2>2 DEF BoxRecords
  <2> HIDE DEF new
  <2>5. ~IsOpen(new) /\ FitBox("left", new) /\ \A i, r : In(new, i, r) <=> In(old, i, r)
    <3>1. ~IsOpen(new)
      BY <2>4 DEF IsOpen, IsComplete
    <3>2. FitBox("left", new)
      BY <2>2, <2>3, <2>4 DEF FitBox
    <3>3. \A i, r : In(new, i, r) <=> In(old, i, r)
      BY <2>4 DEF In
    <3> QED
      BY <3>1, <3>2, <3>3
  <2> HIDE DEF b, q
  <2>6. Shaped(q) /\ OpenLast(q) /\ NoneOpen(q) /\ Same(p, q)
    BY <1>1, <1>3, <2>1, <2>2, <2>4, <2>5, ChangeFacts
  <2> QED
    BY <2>6 DEF q
<1> QED
  BY <1>2, <1>3

\* drawStandaloneMessage, drawMessageUser
LEMMA StandaloneFacts ==
    ASSUME NEW p, Shaped(p), OpenLast(p), NEW i \in Nat, NEW position \in {"left", "mid", "right"}, NEW force \in BOOLEAN
    PROVE  LET q == DrawStandaloneMessage(p, i, position, force)
           IN  /\ Shaped(q) /\ OpenLast(q)
               /\ HasMessage(p, i) => Same(p, q)
               /\ ~HasMessage(p, i) => Grown(p, q, i, "message")
<1> DEFINE m == CompleteLast(p)
           q == DrawStandaloneMessage(p, i, position, force)
<1>1. Shaped(m) /\ OpenLast(m) /\ NoneOpen(m) /\ Same(p, m)
  BY CompleteLastFacts
<1>2. q = IF HasMessage(m, i) THEN m ELSE AppendBox(m, Message(i), position, force)
  BY DEF DrawStandaloneMessage
<1> HIDE DEF m, q
<1>3. HasMessage(m, i) <=> HasMessage(p, i)
  BY <1>1, HasMessageAt DEF Same
<1>4. CASE HasMessage(m, i)
  BY <1>1, <1>2, <1>3, <1>4 DEF q
<1>5. CASE ~HasMessage(m, i)
  <2>1. Shaped(q) /\ OpenLast(q) /\ Grown(m, q, i, "message")
    BY <1>1, <1>2, <1>5, AppendMessageFacts
  <2>2. Len(q) \in Nat /\ Len(q) >= Len(p)
    BY <1>1, <2>1 DEF Same, Grown
  <2>3. PICK c : GrownAt(m, q, i, "message", c)
    BY <2>1 DEF Grown
  <2>4. GrownAt(p, q, i, "message", c)
    BY <1>1, <2>3 DEF Same, GrownAt
  <2>5. Grown(p, q, i, "message")
    BY <2>2, <2>4 DEF Grown
  <2> QED
    BY <1>3, <1>5, <2>1, <2>5 DEF q
<1> QED
  BY <1>4, <1>5

LEMMA AppendNew ==
    ASSUME NEW s \in Seq(Nat), NEW i \in Nat, i \notin ToSet(s), IsInjective(s)
    PROVE  /\ Append(s, i) \in Seq(Nat) /\ Append(s, i) # <<>> /\ IsInjective(Append(s, i))
           /\ \A j : j \in ToSet(Append(s, i)) <=> j \in ToSet(s) \/ j = i
<1> DEFINE n == Len(s)
           u == Append(s, i)
<1>1. n \in Nat /\ DOMAIN s = 1..n
  OBVIOUS
<1>2. u \in Seq(Nat) /\ DOMAIN u = 1..(n + 1) /\ u[n + 1] = i /\ \A k \in 1..n : u[k] = s[k]
  BY <1>1
<1>3. \A k : k \in 1..(n + 1) <=> k \in 1..n \/ k = n + 1
  BY <1>1
<1>4. u # <<>>
  <2>1. Len(u) = n + 1
    BY <1>1
  <2> QED
    BY <1>1, <2>1
<1> HIDE DEF u, n
<1>5. \A k \in 1..n : s[k] # i
  BY <1>1 DEF ToSet
<1>6. IsInjective(u)
  <2>1. SUFFICES ASSUME NEW k \in 1..(n + 1), NEW l \in 1..(n + 1), u[k] = u[l] PROVE k = l
    BY <1>2 DEF IsInjective
  <2>2. CASE k = n + 1 /\ l = n + 1
    BY <2>2
  <2>3. CASE k = n + 1 /\ l # n + 1
    BY <1>2, <1>3, <1>5, <2>1, <2>3
  <2>4. CASE k # n + 1 /\ l = n + 1
    BY <1>2, <1>3, <1>5, <2>1, <2>4
  <2>5. CASE k # n + 1 /\ l # n + 1
    <3>1. k \in 1..n /\ l \in 1..n /\ s[k] = s[l]
      BY <1>2, <1>3, <2>1, <2>5
    <3> QED
      BY <1>1, <3>1 DEF IsInjective
  <2> QED
    BY <2>2, <2>3, <2>4, <2>5
<1>7. \A j : j \in ToSet(u) <=> j \in ToSet(s) \/ j = i
  BY <1>1, <1>2, <1>3 DEF ToSet
<1> QED
  BY <1>2, <1>4, <1>6, <1>7 DEF u

\* drawProcessStep
LEMMA ProcessStepFacts ==
    ASSUME NEW p, Shaped(p), OpenLast(p), NEW i \in Nat, NEW allowCompleted \in BOOLEAN
    PROVE  LET q == DrawProcessStep(p, i, allowCompleted)
           IN  /\ Shaped(q) /\ OpenLast(q)
               /\ HasStep(p, i) => q = p
               /\ ~HasStep(p, i) => Grown(p, q, i, "step")
<1> DEFINE b == LastProcess(p, allowCompleted)
           q == DrawProcessStep(p, i, allowCompleted)
<1>1. /\ b \in Nat
      /\ b = 0 => NoneOpen(p)
      /\ b # 0 => /\ On(p, Len(p), b) /\ BoxAt(p, Len(p), b).kind = "process"
                  /\ \A c \in DOMAIN p[Len(p)].boxes : c > b => BoxAt(p, Len(p), c).kind = "message"
                  /\ BoxAt(p, Len(p), b) = Last(p).boxes[b]
  BY LastProcessFacts
<1>2. CASE HasStep(p, i)
  <2>1. q = p
    BY <1>2 DEF DrawProcessStep
  <2> QED
    BY <1>2, <2>1
<1>3. CASE ~HasStep(p, i) /\ b = 0
  <2>1. q = AppendBox(p, Process(i), "left", FALSE)
    BY <1>3 DEF DrawProcessStep
  <2>2. /\ Process(i) \in BoxRecords /\ FitBox("left", Process(i))
        /\ \A j, r : In(Process(i), j, r) <=> j = i /\ r = "step"
    BY NewProcess
  <2>3. Extended(p, q, Process(i), "left")
    BY <2>1, <2>2, AppendBoxFacts
  <2> HIDE DEF q, b
  <2>4. Shaped(q) /\ OpenLast(q) /\ Grown(p, q, i, "step")
    BY <1>1, <1>3, <2>2, <2>3, ExtendedFacts
  <2> QED
    BY <1>3, <2>4 DEF q
<1>4. CASE ~HasStep(p, i) /\ b # 0
  <2> DEFINE old == Last(p).boxes[b]
             new == [old EXCEPT !.steps = Append(old.steps, i)]
  <2>1. q = InLast(p, b, new)
    BY <1>4 DEF DrawProcessStep
  <2>2. old \in BoxRecords /\ old.kind = "process" /\ old = BoxAt(p, Len(p), b) /\ On(p, Len(p), b)
    BY <1>1, <1>4, OnIsTyped DEF Shaped
  <2>3. FitBox("left", old)
    BY <2>2 DEF Shaped, FitBox
  <2>4. i \notin ToSet(old.steps)
    BY <1>4, <2>2, HasStepAt DEF At, In
  <2> HIDE DEF old
  <2>5. old.steps \in Seq(Nat) /\ IsInjective(old.steps)
    BY <2>2, <2>3 DEF BoxRecords, FitBox
  <2> DEFINE steps == Append(old.steps, i)
  <2>6. /\ steps \in Seq(Nat) /\ steps # <<>> /\ IsInjective(steps)
        /\ \A j : j \in ToSet(steps) <=> j \in ToSet(old.steps) \/ j = i
    BY <2>4, <2>5, AppendNew
  <2> HIDE DEF steps
  <2>7. /\ new \in BoxRecords /\ new.kind = old.kind /\ new.id = old.id /\ new.steps = steps
        /\ new.answers = old.answers /\ new.closed = old.closed
    BY <2>2, <2>6 DEF BoxRecords, steps
  <2> HIDE DEF new
  <2>8. FitBox("left", new) /\ \A j, s : In(new, j, s) <=> In(old, j, s) \/ (j = i /\ s = "step")
    <3>1. FitBox("left", new)
      BY <2>2, <2>3, <2>6, <2>7 DEF FitBox
    <3>2. \A j, s : In(new, j, s) <=> In(old, j, s) \/ (j = i /\ s = "step")
      BY <2>6, <2>7 DEF In
    <3> QED
      BY <3>1, <3>2
  <2> HIDE DEF b, q
  <2>9. Shaped(q) /\ OpenLast(q) /\ Grown(p, q, i, "step")
    BY <1>1, <1>4, <2>1, <2>2, <2>7, <2>8, ChangeFacts
  <2> QED
    BY <1>4, <2>9 DEF q
<1> QED
  BY <1>2, <1>3, <1>4

\* drawMessageResponse
LEMMA ResponseFacts ==
    ASSUME NEW p, Shaped(p), OpenLast(p), NEW i \in Nat
    PROVE  LET q == DrawMessageResponse(p, i)
           IN  /\ Shaped(q) /\ OpenLast(q)
               /\ HasMessage(p, i) => q = p
               /\ ~HasMessage(p, i) => Grown(p, q, i, "message") \/ Grown(p, q, i, "answer")
<1> DEFINE b == LastProcess(p, TRUE)
           q == DrawMessageResponse(p, i)
<1>1. /\ b \in Nat
      /\ b = 0 => NoneOpen(p)
      /\ b # 0 => /\ On(p, Len(p), b) /\ BoxAt(p, Len(p), b).kind = "process"
                  /\ \A c \in DOMAIN p[Len(p)].boxes : c > b => BoxAt(p, Len(p), c).kind = "message"
                  /\ BoxAt(p, Len(p), b) = Last(p).boxes[b]
  BY LastProcessFacts
<1>2. CASE HasMessage(p, i)
  <2>1. q = p
    BY <1>2 DEF DrawMessageResponse
  <2> QED
    BY <1>2, <2>1
<1>3. CASE ~HasMessage(p, i) /\ b = 0
  <2>1. q = AppendBox(p, Message(i), "left", FALSE)
    BY <1>3 DEF DrawMessageResponse
  <2> HIDE DEF q, b
  <2>2. Shaped(q) /\ OpenLast(q) /\ Grown(p, q, i, "message")
    BY <1>1, <1>3, <2>1, AppendMessageFacts
  <2> QED
    BY <1>3, <2>2 DEF q
<1>4. CASE ~HasMessage(p, i) /\ b # 0
  <2> DEFINE old == Last(p).boxes[b]
             new == [old EXCEPT !.answers = Append(old.answers, i)]
  <2>1. q = InLast(p, b, new)
    BY <1>4 DEF DrawMessageResponse
  <2>2. old \in BoxRecords /\ old.kind = "process" /\ old = BoxAt(p, Len(p), b) /\ On(p, Len(p), b)
    BY <1>1, <1>4, OnIsTyped DEF Shaped
  <2>3. FitBox("left", old)
    BY <2>2 DEF Shaped, FitBox
  <2>4. i \notin ToSet(old.answers)
    BY <1>4, <2>2, HasMessageAt DEF At, In
  <2> HIDE DEF old
  <2>5. old.answers \in Seq(Nat) /\ IsInjective(old.answers)
    BY <2>2, <2>3 DEF BoxRecords, FitBox
  <2> DEFINE answers == Append(old.answers, i)
  <2>6. /\ answers \in Seq(Nat) /\ IsInjective(answers)
        /\ \A j : j \in ToSet(answers) <=> j \in ToSet(old.answers) \/ j = i
    BY <2>4, <2>5, AppendNew
  <2> HIDE DEF answers
  <2>7. /\ new \in BoxRecords /\ new.kind = old.kind /\ new.id = old.id /\ new.steps = old.steps
        /\ new.answers = answers /\ new.closed = old.closed
    BY <2>2, <2>6 DEF BoxRecords, answers
  <2> HIDE DEF new
  <2>8. FitBox("left", new) /\ \A j, s : In(new, j, s) <=> In(old, j, s) \/ (j = i /\ s = "answer")
    <3>1. FitBox("left", new)
      BY <2>2, <2>3, <2>6, <2>7 DEF FitBox
    <3>2. \A j, s : In(new, j, s) <=> In(old, j, s) \/ (j = i /\ s = "answer")
      BY <2>6, <2>7 DEF In
    <3> QED
      BY <3>1, <3>2
  <2> HIDE DEF b, q
  <2>9. Shaped(q) /\ OpenLast(q) /\ Grown(p, q, i, "answer")
    BY <1>1, <1>4, <2>1, <2>2, <2>7, <2>8, ChangeFacts
  <2> QED
    BY <1>4, <2>9 DEF q
<1> QED
  BY <1>2, <1>3, <1>4

\* An item of type t can be such a part.
Suits(t, r) ==
    \/ r = "step" /\ t \in {"agent", "util", "warning"}
    \/ r = "answer" /\ t = "response"
    \/ r = "message" /\ t \in AllTypes \ {"agent", "util"}

\* The item is in part r and nothing moves, or it comes in part r of the last group.
DrawnAs(p, q, i, r) ==
    LET has == IF r = "step" THEN HasStep(p, i) ELSE HasMessage(p, i)
    IN  (has /\ Same(p, q)) \/ (~has /\ Grown(p, q, i, r))

\* getMessageHandler
LEMMA SetMessageFacts ==
    ASSUME NEW p, Shaped(p), OpenLast(p), NEW i \in Nat, NEW t \in AllTypes
    PROVE  LET q == SetMessage(p, i, t)
           IN  /\ Shaped(q) /\ OpenLast(q)
               /\ \E r : Suits(t, r) /\ DrawnAs(p, q, i, r)
               /\ t \in {"agent", "util"} /\ HasStep(p, i) => q = p
               /\ t = "response" /\ HasMessage(p, i) => q = p
<1> DEFINE q == SetMessage(p, i, t)
           Goal == /\ Shaped(q) /\ OpenLast(q)
                   /\ \E r : Suits(t, r) /\ DrawnAs(p, q, i, r)
                   /\ t \in {"agent", "util"} /\ HasStep(p, i) => q = p
                   /\ t = "response" /\ HasMessage(p, i) => q = p
<1>1. Same(p, p)
  BY DEF Same
<1>2. ASSUME NEW position \in {"left", "mid", "right"}, NEW force \in BOOLEAN,
             q = DrawStandaloneMessage(p, i, position, force), t \in AllTypes \ {"agent", "util", "response"}
      PROVE  Goal
  <2>1. /\ Shaped(q) /\ OpenLast(q)
        /\ HasMessage(p, i) => Same(p, q)
        /\ ~HasMessage(p, i) => Grown(p, q, i, "message")
    BY <1>2, StandaloneFacts
  <2>2. Suits(t, "message") /\ DrawnAs(p, q, i, "message")
    BY <1>2, <2>1 DEF Suits, DrawnAs
  <2> HIDE DEF q
  <2> QED
    BY <1>2, <2>1, <2>2
<1>3. ASSUME NEW allow \in BOOLEAN, q = DrawProcessStep(p, i, allow), t \in {"agent", "util", "warning"}
      PROVE  Goal
  <2>1. /\ Shaped(q) /\ OpenLast(q)
        /\ HasStep(p, i) => q = p
        /\ ~HasStep(p, i) => Grown(p, q, i, "step")
    BY <1>3, ProcessStepFacts
  <2> HIDE DEF q
  <2>2. Suits(t, "step") /\ DrawnAs(p, q, i, "step")
    BY <1>1, <1>3, <2>1 DEF Suits, DrawnAs
  <2> QED
    BY <1>3, <2>1, <2>2
<1>4. CASE t = "response"
  <2>1. q = DrawMessageResponse(p, i)
    BY <1>4 DEF SetMessage
  <2>2. /\ Shaped(q) /\ OpenLast(q)
        /\ HasMessage(p, i) => q = p
        /\ ~HasMessage(p, i) => Grown(p, q, i, "message") \/ Grown(p, q, i, "answer")
    BY <2>1, ResponseFacts
  <2> HIDE DEF q
  <2>3. Suits(t, "message") /\ Suits(t, "answer")
    BY <1>4 DEF Suits, AllTypes
  <2>4. DrawnAs(p, q, i, "message") \/ DrawnAs(p, q, i, "answer")
    BY <1>1, <2>2 DEF DrawnAs
  <2>5. \E r : Suits(t, r) /\ DrawnAs(p, q, i, r)
    BY <2>3, <2>4
  <2>6. t \notin {"agent", "util"}
    BY <1>4
  <2> QED
    BY <2>2, <2>5, <2>6 DEF q
<1>5. CASE t = "user"
  <2>1. q = DrawStandaloneMessage(p, i, "right", TRUE) /\ t \in AllTypes \ {"agent", "util", "response"}
    BY <1>5 DEF SetMessage, DrawMessageUser, AllTypes
  <2> QED
    BY <1>2, <2>1
<1>6. CASE t = "agent"
  <2>1. q = DrawProcessStep(p, i, FALSE)
    BY <1>6 DEF SetMessage
  <2> QED
    BY <1>3, <1>6, <2>1
<1>7. CASE t = "util"
  <2>1. q = DrawProcessStep(p, i, TRUE)
    BY <1>7 DEF SetMessage
  <2> QED
    BY <1>3, <1>7, <2>1
<1>8. CASE t = "warning"
  <2>1. q = DrawProcessStep(p, i, FALSE) \/ q = DrawStandaloneMessage(p, i, "mid", FALSE)
    BY <1>8 DEF SetMessage, DrawMessageWarning
  <2>2. t \in AllTypes \ {"agent", "util", "response"}
    BY <1>8 DEF AllTypes
  <2> QED
    BY <1>2, <1>3, <1>8, <2>1, <2>2
<1>9. CASE t \in {"error", "default"}
  <2>1. q = DrawStandaloneMessage(p, i, "mid", FALSE) \/ q = DrawStandaloneMessage(p, i, "left", FALSE)
    BY <1>9 DEF SetMessage
  <2>2. t \in AllTypes \ {"agent", "util", "response"}
    BY <1>9 DEF AllTypes
  <2> QED
    BY <1>2, <2>1, <2>2
<1> QED
  BY <1>4, <1>5, <1>6, <1>7, <1>8, <1>9 DEF AllTypes

-----------------------------------------------------------------------------
(* The page of the first d items                                           *)

Placed(p, T, d) ==
    /\ \A i, g, b, r : At(p, i, g, b, r) => i \in 1..d /\ Suits(T[i], r)
    /\ \A i \in 1..d : \E g, b, r : At(p, i, g, b, r)

\* Once as a step and once as something else.
PlacedOnce(p) ==
    \A i, g, b, r, h, c, s :
        At(p, i, g, b, r) /\ At(p, i, h, c, s) /\ (r = "step" <=> s = "step") => g = h /\ b = c /\ r = s

InOrder(p, T) ==
    \A i, j \in Nat : i < j /\ T[i] # "warning" /\ T[j] # "warning" =>
        \A g, b, r, h, c, s : At(p, i, g, b, r) /\ At(p, j, h, c, s) => g <= h

PageOf(p, T, d) ==
    Shaped(p) /\ OpenLast(p) /\ Placed(p, T, d) /\ PlacedOnce(p) /\ InOrder(p, T)

LEMMA EmptyPage ==
    ASSUME NEW T
    PROVE  PageOf(<<>>, T, 0)
<1>1. \A g, b : ~On(<<>>, g, b)
  BY DEF On
<1>2. <<>> \in Seq(GroupRecords) /\ DOMAIN <<>> = {} /\ 1..0 = {}
  OBVIOUS
<1>3. Shaped(<<>>)
  BY <1>1, <1>2 DEF Shaped
<1>4. OpenLast(<<>>)
  BY <1>1 DEF OpenLast
<1>5. \A i, g, b, r : ~At(<<>>, i, g, b, r)
  BY <1>1 DEF At
<1>6. Placed(<<>>, T, 0)
  BY <1>2, <1>5 DEF Placed
<1>7. PlacedOnce(<<>>) /\ InOrder(<<>>, T)
  BY <1>5 DEF PlacedOnce, InOrder
<1> QED
  BY <1>3, <1>4, <1>6, <1>7 DEF PageOf

\* An item that is drawn for the first time, or again.
LEMMA PageStep ==
    ASSUME NEW T, NEW d \in Nat, NEW p, PageOf(p, T, d), NEW i \in 1..(d + 1), T[i] \in AllTypes
    PROVE  LET q == SetMessage(p, i, T[i])
           IN  /\ PageOf(q, T, IF i = d + 1 THEN d + 1 ELSE d)
               /\ i <= d /\ T[i] \in {"agent", "util", "response"} => q = p
<1> DEFINE q == SetMessage(p, i, T[i])
           e == IF i = d + 1 THEN d + 1 ELSE d
<1>1. /\ Shaped(q) /\ OpenLast(q)
      /\ \E r : Suits(T[i], r) /\ DrawnAs(p, q, i, r)
      /\ T[i] \in {"agent", "util"} /\ HasStep(p, i) => q = p
      /\ T[i] = "response" /\ HasMessage(p, i) => q = p
  BY SetMessageFacts DEF PageOf
<1> HIDE DEF q
<1>2. i \in Nat /\ d + 1 \in Nat /\ (i # d + 1 => i \in 1..d) /\ d + 1 \notin 1..d
      /\ \A j : j \in 1..(d + 1) <=> j \in 1..d \/ j = d + 1
  OBVIOUS
<1>3. PICK r : Suits(T[i], r) /\ DrawnAs(p, q, i, r)
  BY <1>1
<1>4. /\ \A j, g, b, s : At(p, j, g, b, s) => j \in 1..d /\ Suits(T[j], s)
      /\ \A j \in 1..d : \E g, b, s : At(p, j, g, b, s)
  BY DEF PageOf, Placed
<1>5. PlacedOnce(p) /\ InOrder(p, T) /\ Shaped(p)
  BY DEF PageOf
<1>6. (r = "step" => HasStep(p, i)) /\ (r # "step" => HasMessage(p, i))
        <=> \E g, b, s : At(p, i, g, b, s) /\ (s = "step" <=> r = "step")
  BY HasStepAt, HasMessageAt
<1>7. ASSUME Same(p, q) /\ (r = "step" => HasStep(p, i)) /\ (r # "step" => HasMessage(p, i))
      PROVE  PageOf(q, T, e)
  <2>1. i \in 1..d /\ e = d
    BY <1>2, <1>4, <1>6, <1>7
  <2>2. \A j, g, b, s : At(q, j, g, b, s) <=> At(p, j, g, b, s)
    BY <1>7 DEF Same
  <2>3. Placed(q, T, d)
    BY <1>4, <2>2 DEF Placed
  <2>4. PlacedOnce(q)
    BY <1>5, <2>2 DEF PlacedOnce
  <2>5. InOrder(q, T)
    BY <1>5, <2>2 DEF InOrder
  <2> QED
    BY <1>1, <2>1, <2>3, <2>4, <2>5 DEF PageOf
<1>8. ASSUME Grown(p, q, i, r) /\ ~((r = "step" => HasStep(p, i)) /\ (r # "step" => HasMessage(p, i)))
      PROVE  PageOf(q, T, e)
  <2>1. PICK c : GrownAt(p, q, i, r, c)
    BY <1>8 DEF Grown
  <2>2. /\ Len(q) \in Nat /\ Len(p) \in Nat /\ Len(q) >= Len(p)
        /\ \A j, g, b, s : At(p, j, g, b, s) => g \in Nat /\ g <= Len(p)
    <3>1. Len(q) \in Nat /\ Len(p) \in Nat /\ Len(q) >= Len(p) /\ p \in Seq(GroupRecords)
      BY <1>5, <1>8 DEF Grown, Shaped
    <3>2. ASSUME NEW j, NEW g, NEW b, NEW s, At(p, j, g, b, s) PROVE g \in Nat /\ g <= Len(p)
      <4>1. g \in 1..Len(p)
        BY <3>1, <3>2 DEF At, On
      <4> QED
        BY <3>1, <4>1
    <3> QED
      BY <3>1, <3>2
  <2>3. \A j, g, b, s : At(q, j, g, b, s) <=> At(p, j, g, b, s) \/ (j = i /\ g = Len(q) /\ b = c /\ s = r)
    BY <2>1 DEF GrownAt
  <2>4. \A g, b, s : At(p, i, g, b, s) => ~(s = "step" <=> r = "step")
    BY <1>6, <1>8
  \* An item that comes in a second part is a warning.
  <2>5. \A g, b, s : At(p, i, g, b, s) => T[i] = "warning"
    <3>1. ASSUME NEW g, NEW b, NEW s, At(p, i, g, b, s) PROVE T[i] = "warning"
      <4>1. Suits(T[i], s) /\ ~(s = "step" <=> r = "step")
        BY <1>4, <2>4, <3>1
      <4> QED
        BY <1>3, <4>1 DEF Suits
    <3> QED
      BY <3>1
  <2>6. i # d + 1 => T[i] = "warning"
    BY <1>2, <1>4, <2>5
  <2>7. Placed(q, T, e)
    <3>1. ASSUME NEW j, NEW g, NEW b, NEW s, At(q, j, g, b, s) PROVE j \in 1..e /\ Suits(T[j], s)
      <4>1. CASE At(p, j, g, b, s)
        BY <1>2, <1>4, <4>1
      <4>2. CASE j = i /\ s = r
        BY <1>2, <1>3, <4>2
      <4> QED
        BY <2>3, <3>1, <4>1, <4>2
    <3>2. ASSUME NEW j \in 1..e PROVE \E g, b, s : At(q, j, g, b, s)
      <4>1. j \in 1..d \/ j = i
        BY <1>2
      <4> QED
        BY <1>4, <2>3, <4>1
    <3> QED
      BY <3>1, <3>2 DEF Placed
  <2>8. PlacedOnce(q)
    <3>1. SUFFICES ASSUME NEW j, NEW g, NEW b, NEW s, NEW h, NEW k, NEW u,
                          At(q, j, g, b, s), At(q, j, h, k, u), s = "step" <=> u = "step"
                   PROVE  g = h /\ b = k /\ s = u
      BY DEF PlacedOnce
    <3>2. CASE At(p, j, g, b, s) /\ At(p, j, h, k, u)
      BY <1>5, <3>1, <3>2 DEF PlacedOnce
    <3>3. CASE ~At(p, j, g, b, s) /\ ~At(p, j, h, k, u)
      BY <2>3, <3>1, <3>3
    <3>4. CASE At(p, j, g, b, s) /\ ~At(p, j, h, k, u)
      BY <2>3, <2>4, <3>1, <3>4
    <3>5. CASE ~At(p, j, g, b, s) /\ At(p, j, h, k, u)
      BY <2>3, <2>4, <3>1, <3>5
    <3> QED
      BY <3>2, <3>3, <3>4, <3>5
  <2>9. InOrder(q, T)
    <3>1. SUFFICES ASSUME NEW j \in Nat, NEW l \in Nat, j < l, T[j] # "warning", T[l] # "warning",
                          NEW g, NEW b, NEW s, NEW h, NEW k, NEW u, At(q, j, g, b, s), At(q, l, h, k, u)
                   PROVE  g <= h
      BY DEF InOrder
    <3>2. CASE At(p, j, g, b, s) /\ At(p, l, h, k, u)
      BY <1>5, <3>1, <3>2 DEF InOrder
    <3>3. CASE At(p, j, g, b, s) /\ ~At(p, l, h, k, u)
      <4>1. h = Len(q) /\ g \in Nat /\ g <= Len(p)
        BY <2>2, <2>3, <3>1, <3>3
      <4> QED
        BY <2>2, <4>1
    <3>4. CASE ~At(p, j, g, b, s)
      <4>1. j = i /\ g = Len(q)
        BY <2>3, <3>1, <3>4
      <4>2. j = d + 1
        BY <2>6, <3>1, <4>1
      <4>3. ~At(p, l, h, k, u)
        <5>1. l \notin 1..d
          BY <3>1, <4>2
        <5> QED
          BY <1>4, <5>1
      <4>4. l = i
        BY <2>3, <3>1, <4>3
      <4> QED
        BY <3>1, <4>1, <4>4
    <3> QED
      BY <3>2, <3>3, <3>4
  <2> QED
    BY <1>1, <2>7, <2>8, <2>9 DEF PageOf
<1>9. ASSUME i <= d, T[i] \in {"agent", "util", "response"} PROVE q = p
  <2>1. i \in 1..d
    BY <1>9
  <2>2. PICK g, b, s : At(p, i, g, b, s) /\ Suits(T[i], s)
    BY <1>4, <2>1
  <2>3. CASE T[i] \in {"agent", "util"}
    <3>1. s = "step"
      BY <2>2, <2>3 DEF Suits
    <3> QED
      BY <1>1, <2>2, <2>3, <3>1, HasStepAt
  <2>4. CASE T[i] = "response"
    <3>1. s # "step"
      BY <2>2, <2>4 DEF Suits
    <3> QED
      BY <1>1, <2>2, <2>4, <3>1, HasMessageAt
  <2> QED
    BY <1>9, <2>3, <2>4
<1>10. PageOf(q, T, e)
  <2>1. \/ Same(p, q) /\ (r = "step" => HasStep(p, i)) /\ (r # "step" => HasMessage(p, i))
        \/ Grown(p, q, i, r) /\ ~((r = "step" => HasStep(p, i)) /\ (r # "step" => HasMessage(p, i)))
    BY <1>3 DEF DrawnAs
  <2> QED
    BY <1>7, <1>8, <2>1
<1> QED
  BY <1>9, <1>10 DEF q

-----------------------------------------------------------------------------
(* Drawing a snapshot                                                      *)

Upto(d) == [i \in 1..d |-> i]

\* What drawing the first d items once makes of an empty page.
First(T, d) == Drawn(T, <<>>, Upto(d))

\* The items that come next are in the list, in their order.
Ahead(its, d) ==
    /\ IsInjective(its)
    /\ \A k \in DOMAIN its : \A m \in (d + 1)..(its[k] - 1) : \E l \in 1..(k - 1) : its[l] = m
Covers(its, d, n) == (d + 1)..n \subseteq ToSet(its)

\* What was drawn before is left as it is.
Calm(its, T, d) == \A i \in ToSet(its) : i <= d => T[i] \in {"agent", "util", "response"}

LEMMA UptoFacts ==
    ASSUME NEW d \in Nat
    PROVE  /\ Upto(d) \in Seq(1..d) /\ Upto(d) \in Seq(Nat) /\ Len(Upto(d)) = d /\ DOMAIN Upto(d) = 1..d
           /\ \A i \in 1..d : Upto(d)[i] = i
           /\ Upto(d + 1) = Append(Upto(d), d + 1)
<1>1. /\ Upto(d) \in Seq(1..d) /\ Upto(d) \in Seq(Nat) /\ Len(Upto(d)) = d /\ DOMAIN Upto(d) = 1..d
      /\ \A i \in 1..d : Upto(d)[i] = i
  BY DEF Upto
<1>2. /\ Upto(d + 1) \in Seq(Nat) /\ Len(Upto(d + 1)) = d + 1
      /\ \A i \in 1..(d + 1) : Upto(d + 1)[i] = i
  BY DEF Upto
<1> DEFINE more == Append(Upto(d), d + 1)
           all == Upto(d + 1)
<1>3. more \in Seq(Nat) /\ Len(more) = d + 1 /\ more[d + 1] = d + 1 /\ \A i \in 1..d : more[i] = i
  BY <1>1
<1>4. \A i \in 1..(d + 1) : i \in 1..d \/ i = d + 1
  OBVIOUS
<1> HIDE DEF more, all
<1>5. \A i \in 1..(d + 1) : more[i] = i
  BY <1>3, <1>4
<1>6. all \in Seq(Nat) /\ Len(all) = d + 1 /\ \A i \in 1..(d + 1) : all[i] = i
  BY <1>2 DEF all
<1>7. more = all
  BY <1>3, <1>5, <1>6
<1> QED
  BY <1>1, <1>7 DEF more, all

LEMMA FirstMore ==
    ASSUME NEW T, NEW d \in Nat
    PROVE  First(T, 0) = <<>> /\ First(T, d + 1) = SetMessage(First(T, d), d + 1, T[d + 1])
<1>1. Upto(0) = <<>>
  BY DEF Upto
<1>2. First(T, 0) = <<>>
  BY <1>1, DrawnNone DEF First
<1>3. Upto(d) \in Seq(Nat) /\ Upto(d + 1) = Append(Upto(d), d + 1)
  BY UptoFacts, Zenon
<1>4. d + 1 \in Nat
  OBVIOUS
<1>5. Drawn(T, <<>>, Append(Upto(d), d + 1)) = SetMessage(Drawn(T, <<>>, Upto(d)), d + 1, T[d + 1])
  <2> DEFINE u == Upto(d)
             k == d + 1
  <2>1. u \in Seq(Nat) /\ k \in Nat
    BY <1>3, <1>4
  <2> HIDE DEF u, k
  <2>2. Drawn(T, <<>>, Append(u, k)) = SetMessage(Drawn(T, <<>>, u), k, T[k])
    BY <2>1, DrawnMore
  <2> QED
    BY <2>2 DEF u, k
<1> QED
  BY <1>2, <1>3, <1>5 DEF First

LEMMA FirstAlike ==
    ASSUME NEW T, NEW U, NEW d \in Nat, \A i \in 1..d : T[i] = U[i]
    PROVE  First(T, d) = First(U, d)
<1>1. Upto(d) \in Seq(Nat) /\ \A n \in DOMAIN Upto(d) : T[Upto(d)[n]] = U[Upto(d)[n]]
  BY UptoFacts
<1>2. Drawn(T, <<>>, Upto(d)) = Drawn(U, <<>>, Upto(d))
  BY <1>1, DrawnAlike
<1> QED
  BY <1>2 DEF First

LEMMA UptoIsAhead ==
    ASSUME NEW n \in Nat, NEW d \in Nat
    PROVE  Ahead(Upto(n), d) /\ Covers(Upto(n), d, n)
<1>1. DOMAIN Upto(n) = 1..n /\ \A i \in 1..n : Upto(n)[i] = i
  BY UptoFacts
<1>2. IsInjective(Upto(n))
  BY <1>1 DEF IsInjective
<1>3. ASSUME NEW k \in 1..n, NEW m \in (d + 1)..(k - 1) PROVE \E l \in 1..(k - 1) : Upto(n)[l] = m
  <2>1. m \in 1..n /\ m \in 1..(k - 1)
    OBVIOUS
  <2> QED
    BY <1>1, <2>1
<1>4. Ahead(Upto(n), d)
  BY <1>1, <1>2, <1>3 DEF Ahead
<1>5. ASSUME NEW m \in (d + 1)..n PROVE m \in ToSet(Upto(n))
  <2>1. m \in 1..n
    OBVIOUS
  <2> QED
    BY <1>1, <2>1 DEF ToSet
<1> QED
  BY <1>4, <1>5 DEF Covers

\* A snapshot leaves every item on the page, and the page of the first draw if nothing but
\* steps and responses was drawn again.
LEMMA DrawnPage ==
    ASSUME NEW T \in Seq(AllTypes), NEW d \in 0..Len(T), NEW p, PageOf(p, T, d),
           NEW its \in Seq(1..Len(T)), Ahead(its, d), Covers(its, d, Len(T))
    PROVE  LET q == Drawn(T, p, its)
           IN  /\ PageOf(q, T, Len(T))
               /\ p = First(T, d) /\ Calm(its, T, d) => q = First(T, Len(T))
<1> DEFINE q == Drawn(T, p, its)
           N == Len(T)
           Seen(n) == {its[j] : j \in 1..n}
           Good(x, n, e) == /\ \A i : i \in 1..e <=> i \in 1..d \/ i \in Seen(n)
                            /\ PageOf(x, T, e)
                            /\ p = First(T, d) /\ Calm(its, T, d) => x = First(T, e)
           G == [n \in 0..Len(its) |-> {x \in Seq(GroupRecords) : \E e \in d..N : Good(x, n, e)}]
<1>1. /\ N \in Nat /\ d \in Nat /\ d <= N /\ d \in d..N /\ Len(its) \in Nat /\ DOMAIN its = 1..Len(its)
      /\ \A k \in DOMAIN its : its[k] \in 1..N
      /\ \A i \in 1..N : T[i] \in AllTypes
  OBVIOUS
<1>2. p \in G[0]
  <2>1. Seen(0) = {}
    OBVIOUS
  <2> HIDE DEF Seen
  <2>2. Good(p, 0, d)
    BY <2>1
  <2>3. p \in Seq(GroupRecords) /\ 0 \in 0..Len(its)
    BY <1>1 DEF PageOf, Shaped
  <2> HIDE DEF Good
  <2> QED
    BY <1>1, <2>2, <2>3
<1>3. ASSUME NEW n \in DOMAIN its, NEW x \in G[n - 1]
      PROVE  SetMessage(x, its[n], T[its[n]]) \in G[n]
  <2> DEFINE i == its[n]
             y == SetMessage(x, i, T[i])
  <2>1. n - 1 \in 0..Len(its) /\ n \in 0..Len(its) /\ n \in Nat /\ n >= 1
    BY <1>1
  <2>2. PICK e \in d..N : Good(x, n - 1, e)
    <3> HIDE DEF Good
    <3> QED
      BY <2>1
  <2>3. e \in Nat /\ d <= e /\ e <= N /\ i \in 1..N /\ T[i] \in AllTypes
    BY <1>1
  <2>4. \A j : j \in Seen(n) <=> j \in Seen(n - 1) \/ j = i
    <3>1. \A k : k \in 1..n <=> k \in 1..(n - 1) \/ k = n
      BY <2>1
    <3> QED
      BY <3>1
  <2>5. i \in 1..(e + 1)
    <3>1. SUFFICES ASSUME i > e + 1 PROVE FALSE
      BY <2>3
    <3>2. e + 1 \in (d + 1)..(i - 1)
      BY <2>3, <3>1
    <3>3. PICK l \in 1..(n - 1) : its[l] = e + 1
      BY <3>2 DEF Ahead
    <3>4. e + 1 \in Seen(n - 1)
      BY <3>3
    <3>5. e + 1 \in 1..e
      BY <2>2, <3>4
    <3> QED
      BY <2>3, <3>5
  <2>6. i <= e => i <= d
    <3>1. SUFFICES ASSUME i <= e, ~(i <= d) PROVE FALSE
      OBVIOUS
    <3>2. i \in 1..e /\ i \notin 1..d
      BY <1>1, <2>3, <3>1
    <3>3. PICK l \in 1..(n - 1) : its[l] = i
      BY <2>2, <3>2
    <3>4. l \in DOMAIN its /\ l # n
      BY <1>1, <2>1
    <3> QED
      BY <3>3, <3>4 DEF Ahead, IsInjective
  <2> DEFINE f == IF i = e + 1 THEN e + 1 ELSE e
  <2>7. PageOf(x, T, e) /\ (p = First(T, d) /\ Calm(its, T, d) => x = First(T, e))
    BY <2>2
  <2>8. PageOf(y, T, f) /\ (i <= e /\ T[i] \in {"agent", "util", "response"} => y = x)
    BY <2>3, <2>5, <2>7, PageStep
  <2>9. f \in d..N /\ (i # e + 1 => i \in 1..e /\ i <= d)
    BY <1>1, <2>3, <2>5, <2>6
  <2>10. \A j : j \in 1..f <=> j \in 1..d \/ j \in Seen(n)
    <3>1. \A j : j \in 1..e <=> j \in 1..d \/ j \in Seen(n - 1)
      BY <2>2
    <3>2. \A j : j \in 1..(e + 1) <=> j \in 1..e \/ j = e + 1
      BY <2>3
    <3> HIDE DEF Seen, i
    <3>3. CASE i = e + 1
      BY <2>4, <3>1, <3>2, <3>3
    <3>4. CASE i # e + 1
      BY <2>4, <2>9, <3>1, <3>4
    <3> QED
      BY <3>3, <3>4
  <2>11. ASSUME p = First(T, d), Calm(its, T, d) PROVE y = First(T, f)
    <3>1. x = First(T, e)
      BY <2>7, <2>11
    <3>2. CASE i = e + 1
      <4>1. First(T, e + 1) = SetMessage(First(T, e), e + 1, T[e + 1])
        BY <2>3, FirstMore
      <4> HIDE DEF i
      <4> QED
        BY <3>1, <3>2, <4>1
    <3>3. CASE i # e + 1
      <4>1. i \in ToSet(its)
        BY DEF ToSet
      <4>2. T[i] \in {"agent", "util", "response"} /\ i <= e
        BY <2>3, <2>9, <2>11, <3>3, <4>1 DEF Calm
      <4> QED
        BY <2>8, <3>1, <3>3, <4>2
    <3> QED
      BY <3>2, <3>3
  <2>12. y \in Seq(GroupRecords)
    BY <2>8 DEF PageOf, Shaped
  <2>13. Good(y, n, f)
    <3> HIDE DEF y, f, Seen
    <3> QED
      BY <2>8, <2>10, <2>11
  <2> HIDE DEF Good, f, y
  <2>14. y \in G[n]
    BY <2>1, <2>9, <2>12, <2>13
  <2> QED
    BY <2>14 DEF y
<1>4. q \in G[Len(its)]
  <2> HIDE DEF G
  <2> QED
    BY <1>2, <1>3, FoldInduction
<1>5. PICK e \in d..N : Good(q, Len(its), e)
  <2> HIDE DEF Good, q
  <2> QED
    BY <1>1, <1>4
<1>6. e = N
  <2>1. SUFFICES ASSUME e # N PROVE FALSE
    OBVIOUS
  <2>2. e + 1 \in (d + 1)..N /\ e + 1 \notin 1..e
    BY <1>1, <2>1
  <2>3. e + 1 \in Seen(Len(its))
    BY <1>1, <2>2 DEF Covers, ToSet
  <2> QED
    BY <1>5, <2>2, <2>3
<1> QED
  BY <1>5, <1>6

-----------------------------------------------------------------------------
(* The inductive invariant                                                 *)

Counted ==
    /\ log \in Seq(Types) /\ Len(log) <= MaxItems
    /\ drawn \in 0..Len(log) /\ redrawn \in BOOLEAN
    /\ changes \in 0..MaxUpdates /\ fulls \in 0..MaxFulls

\* The items still to be drawn are to be sent, in their order.
Queued ==
    /\ updates \in Seq(Nat) /\ ToSet(updates) \subseteq DOMAIN log
    /\ Ahead(updates, drawn) /\ Covers(updates, drawn, Len(log))

PageInv == PageOf(page, log, drawn) /\ (~redrawn => page = First(log, drawn))

IInv == Counted /\ Queued /\ PageInv

LEMMA LogFacts ==
    ASSUME Counted
    PROVE  /\ Len(log) \in Nat /\ DOMAIN log = 1..Len(log) /\ log \in Seq(AllTypes)
           /\ drawn \in Nat /\ drawn <= Len(log) /\ MaxItems \in Nat
<1>1. Types \subseteq AllTypes /\ MaxItems \in Nat
  BY RenderingAssumption
<1>2. log \in Seq(Types)
  BY DEF Counted
<1>3. Len(log) \in Nat /\ DOMAIN log = 1..Len(log) /\ log \in Seq(AllTypes)
  BY <1>1, <1>2
<1> QED
  BY <1>1, <1>3 DEF Counted

\* One item more to send.
LEMMA AheadMore ==
    ASSUME NEW its \in Seq(Nat), NEW d \in Nat, Ahead(its, d), NEW k \in Nat, k \notin ToSet(its),
           (d + 1)..(k - 1) \subseteq ToSet(its)
    PROVE  /\ Append(its, k) \in Seq(Nat) /\ Ahead(Append(its, k), d)
           /\ \A j : j \in ToSet(Append(its, k)) <=> j \in ToSet(its) \/ j = k
<1> DEFINE u == Append(its, k)
           n == Len(its)
<1>1. n \in Nat /\ DOMAIN its = 1..n
  OBVIOUS
<1>2. u \in Seq(Nat) /\ DOMAIN u = 1..(n + 1) /\ u[n + 1] = k /\ \A m \in 1..n : u[m] = its[m]
  BY <1>1
<1>3. u \in Seq(Nat) /\ IsInjective(u) /\ \A j : j \in ToSet(u) <=> j \in ToSet(its) \/ j = k
  BY AppendNew DEF Ahead
<1> HIDE DEF u, n
<1>4. ASSUME NEW l \in 1..(n + 1), NEW m \in (d + 1)..(u[l] - 1) PROVE \E i \in 1..(l - 1) : u[i] = m
  <2>1. CASE l \in 1..n
    <3>1. PICK i \in 1..(l - 1) : its[i] = m
      BY <1>1, <1>2, <1>4, <2>1 DEF Ahead
    <3>2. i \in 1..n
      BY <1>1, <2>1
    <3> QED
      BY <1>2, <3>1, <3>2
  <2>2. CASE l = n + 1
    <3>1. m \in ToSet(its)
      BY <1>2, <1>4, <2>2
    <3>2. PICK i \in 1..n : its[i] = m
      BY <1>1, <3>1 DEF ToSet
    <3>3. i \in 1..(l - 1)
      BY <1>1, <2>2
    <3> QED
      BY <1>2, <3>2, <3>3
  <2> QED
    BY <1>1, <2>1, <2>2
<1>5. Ahead(u, d)
  BY <1>2, <1>3, <1>4 DEF Ahead
<1> QED
  BY <1>3, <1>5 DEF u

\* The items that are not drawn do not matter for the page.
LEMMA PageAlike ==
    ASSUME NEW T, NEW U, NEW p, NEW d \in Nat, PageOf(p, T, d), \A i \in 1..d : T[i] = U[i]
    PROVE  PageOf(p, U, d)
<1>1. \A i, g, b, r : At(p, i, g, b, r) => i \in 1..d /\ Suits(T[i], r)
  BY DEF PageOf, Placed
<1>2. Placed(p, U, d)
  BY <1>1 DEF PageOf, Placed
<1>3. InOrder(p, U)
  <2>1. SUFFICES ASSUME NEW i \in Nat, NEW j \in Nat, i < j, U[i] # "warning", U[j] # "warning",
                        NEW g, NEW b, NEW r, NEW h, NEW c, NEW s, At(p, i, g, b, r), At(p, j, h, c, s)
                 PROVE  g <= h
    BY DEF InOrder
  <2>2. T[i] # "warning" /\ T[j] # "warning"
    BY <1>1, <2>1
  <2> QED
    BY <2>1, <2>2 DEF PageOf, InOrder
<1> QED
  BY <1>2, <1>3 DEF PageOf

LEMMA InitIInv ==
    ASSUME Init
    PROVE  IInv
<1>1. /\ log = <<>> /\ updates = <<>> /\ page = <<>>
      /\ drawn = 0 /\ redrawn = FALSE /\ changes = 0 /\ fulls = 0
  BY DEF Init
<1>2. <<>> \in Seq(Types) /\ <<>> \in Seq(Nat) /\ Len(<<>>) = 0 /\ DOMAIN <<>> = {} /\ (0 + 1)..0 = {}
  OBVIOUS
<1>3. Counted
  <2>1. Len(log) = 0 /\ log \in Seq(Types)
    BY <1>1, <1>2
  <2>2. 0 \in 0..0 /\ 0 \in 0..MaxUpdates /\ 0 \in 0..MaxFulls /\ 0 <= MaxItems
    BY RenderingAssumption
  <2> QED
    BY <1>1, <2>1, <2>2 DEF Counted
<1>4. Queued
  BY <1>1, <1>2 DEF Queued, ToSet, Ahead, IsInjective, Covers
<1>5. PageInv
  <2>1. First(<<>>, 0) = <<>>
    BY FirstMore, 0 \in Nat
  <2> QED
    BY <1>1, <2>1, EmptyPage DEF PageInv
<1> QED
  BY <1>3, <1>4, <1>5 DEF IInv

LEMMA LogItemKeeps ==
    ASSUME IInv, LogItem
    PROVE  IInv'
<1> DEFINE n == Len(log)
<1>1. PICK t \in Types : log' = Append(log, t)
  BY DEF LogItem
<1>2. /\ n < MaxItems /\ updates' = Append(updates, n + 1)
      /\ page' = page /\ drawn' = drawn /\ redrawn' = redrawn /\ changes' = changes /\ fulls' = fulls
  BY DEF LogItem
<1>3. Counted /\ Queued /\ PageInv
  BY DEF IInv
<1>4. n \in Nat /\ DOMAIN log = 1..n /\ drawn \in Nat /\ drawn <= n /\ MaxItems \in Nat /\ log \in Seq(Types)
  BY <1>3, LogFacts DEF Counted
<1>5. log' \in Seq(Types) /\ Len(log') = n + 1 /\ DOMAIN log' = 1..(n + 1) /\ \A i \in 1..n : log'[i] = log[i]
  BY <1>1, <1>4
<1>6. Counted'
  BY <1>2, <1>3, <1>4, <1>5 DEF Counted
<1>7. Queued'
  <2>1. updates \in Seq(Nat) /\ ToSet(updates) \subseteq 1..n /\ Ahead(updates, drawn) /\ Covers(updates, drawn, n)
    BY <1>3, <1>4 DEF Queued
  <2>2. n + 1 \notin ToSet(updates) /\ n + 1 \in Nat /\ (n + 1) - 1 = n
    BY <1>4, <2>1
  <2>3. /\ updates' \in Seq(Nat) /\ Ahead(updates', drawn)
        /\ \A j : j \in ToSet(updates') <=> j \in ToSet(updates) \/ j = n + 1
    <3>1. (drawn + 1)..((n + 1) - 1) \subseteq ToSet(updates)
      BY <2>1, <2>2 DEF Covers
    <3> HIDE DEF n
    <3> QED
      BY <1>2, <1>4, <2>1, <2>2, <3>1, AheadMore
  <2>4. ToSet(updates') \subseteq 1..(n + 1)
    <3>1. \A i \in 1..n : i \in 1..(n + 1)
      BY <1>4
    <3>2. n + 1 \in 1..(n + 1)
      BY <1>4
    <3> HIDE DEF n
    <3> QED
      BY <2>1, <2>3, <3>1, <3>2
  <2>5. Covers(updates', drawn, n + 1)
    <3>1. ASSUME NEW i \in (drawn + 1)..(n + 1) PROVE i \in ToSet(updates')
      <4>1. i \in (drawn + 1)..n \/ i = n + 1
        BY <1>4
      <4> HIDE DEF n
      <4> QED
        BY <2>1, <2>3, <4>1 DEF Covers
    <3> QED
      BY <3>1 DEF Covers
  <2> HIDE DEF n
  <2> QED
    BY <1>2, <1>5, <2>3, <2>4, <2>5 DEF Queued
<1>8. PageInv'
  <2>1. \A i \in 1..drawn : log[i] = log'[i]
    BY <1>4, <1>5
  <2>2. PageOf(page, log', drawn) /\ First(log, drawn) = First(log', drawn)
    BY <1>3, <1>4, <2>1, PageAlike, FirstAlike DEF PageInv
  <2> QED
    BY <1>2, <1>3, <2>2 DEF PageInv
<1> QED
  BY <1>6, <1>7, <1>8 DEF IInv

LEMMA UpdateItemKeeps ==
    ASSUME IInv, UpdateItem
    PROVE  IInv'
<1> DEFINE n == Len(log)
<1>1. PICK i \in DOMAIN log : updates' = IF i \in ToSet(updates) THEN updates ELSE Append(updates, i)
  BY DEF UpdateItem
<1>2. /\ changes < MaxUpdates /\ changes' = changes + 1 /\ log' = log
      /\ page' = page /\ drawn' = drawn /\ redrawn' = redrawn /\ fulls' = fulls
  BY DEF UpdateItem
<1>3. Counted /\ Queued /\ PageInv
  BY DEF IInv
<1>4. n \in Nat /\ DOMAIN log = 1..n /\ drawn \in Nat /\ drawn <= n /\ i \in Nat
  BY <1>3, LogFacts
<1>5. Counted'
  BY <1>2, <1>3, RenderingAssumption DEF Counted
<1>6. PageInv'
  BY <1>2, <1>3 DEF PageInv
<1>7. CASE i \in ToSet(updates)
  BY <1>1, <1>2, <1>3, <1>5, <1>6, <1>7 DEF Queued, IInv
<1>8. CASE i \notin ToSet(updates)
  <2>1. updates \in Seq(Nat) /\ ToSet(updates) \subseteq DOMAIN log /\ Ahead(updates, drawn) /\ Covers(updates, drawn, n)
    BY <1>3 DEF Queued
  <2>2. i <= drawn
    <3>1. SUFFICES ASSUME i > drawn PROVE FALSE
      BY <1>4
    <3>2. i \in (drawn + 1)..n
      BY <1>4, <3>1
    <3> QED
      BY <1>8, <2>1, <3>2 DEF Covers
  <2>3. (drawn + 1)..(i - 1) \subseteq ToSet(updates)
    BY <1>4, <2>2
  <2>4. /\ updates' \in Seq(Nat) /\ Ahead(updates', drawn)
        /\ \A j : j \in ToSet(updates') <=> j \in ToSet(updates) \/ j = i
    BY <1>1, <1>4, <1>8, <2>1, <2>3, AheadMore
  <2>5. Covers(updates', drawn, n) /\ ToSet(updates') \subseteq DOMAIN log
    BY <2>1, <2>4 DEF Covers
  <2>6. Queued'
    BY <1>2, <2>4, <2>5 DEF Queued
  <2> QED
    BY <1>5, <1>6, <2>6 DEF IInv
<1> QED
  BY <1>7, <1>8

\* Nothing is left to send.
LEMMA QueueEmpties ==
    ASSUME Counted, log' = log, drawn' = Len(log), updates' = <<>>
    PROVE  Queued'
<1>1. Len(log) \in Nat /\ (Len(log) + 1)..Len(log) = {}
  BY LogFacts
<1>2. <<>> \in Seq(Nat) /\ DOMAIN <<>> = {} /\ ToSet(<<>>) = {}
  BY DEF ToSet
<1>3. Ahead(<<>>, Len(log)) /\ Covers(<<>>, Len(log), Len(log))
  BY <1>1, <1>2 DEF Ahead, Covers, IsInjective
<1> QED
  BY <1>2, <1>3 DEF Queued

LEMMA RenderKeeps ==
    ASSUME Counted, PageInv, NEW its \in Seq(1..Len(log)), Ahead(its, drawn), Covers(its, drawn, Len(log)), Render(its)
    PROVE  Queued' /\ PageInv' /\ log' = log /\ drawn' = Len(log) /\ redrawn' \in BOOLEAN
<1>1. /\ page' = Drawn(log, page, its) /\ drawn' = Len(log) /\ updates' = <<>> /\ log' = log
      /\ redrawn' = (redrawn \/ \E i \in ToSet(its) : i <= drawn /\ log[i] \notin {"agent", "util", "response"})
  BY SetMessagesIsDrawn DEF Render
<1>2. log \in Seq(AllTypes) /\ drawn \in 0..Len(log)
  BY LogFacts DEF Counted
<1>3. PageOf(page, log, drawn) /\ (~redrawn => page = First(log, drawn))
  BY DEF PageInv
<1>4. /\ PageOf(page', log, Len(log))
      /\ page = First(log, drawn) /\ Calm(its, log, drawn) => page' = First(log, Len(log))
  BY <1>1, <1>2, <1>3, DrawnPage
<1>5. ~redrawn' => page' = First(log, Len(log))
  <2>1. ASSUME ~redrawn' PROVE ~redrawn /\ Calm(its, log, drawn)
    BY <1>1, <2>1 DEF Calm
  <2> QED
    BY <1>3, <1>4, <2>1
<1>6. PageInv'
  BY <1>1, <1>4, <1>5 DEF PageInv
<1>7. redrawn' \in BOOLEAN
  BY <1>1, Zenon DEF Counted
<1> QED
  BY <1>1, <1>6, <1>7, QueueEmpties

LEMMA ApplyDeltaKeeps ==
    ASSUME IInv, ApplyDelta
    PROVE  IInv'
<1>1. Counted /\ Queued /\ PageInv
  BY DEF IInv
<1>2. Render(updates) /\ changes' = changes /\ fulls' = fulls
  BY DEF ApplyDelta
<1>3. updates \in Seq(1..Len(log))
  <2>1. updates \in Seq(Nat) /\ DOMAIN log = 1..Len(log) /\ ToSet(updates) \subseteq DOMAIN log
    BY <1>1, LogFacts DEF Queued
  <2>2. \A k \in DOMAIN updates : updates[k] \in 1..Len(log)
    BY <2>1 DEF ToSet
  <2> QED
    BY <2>1, <2>2
<1>4. Queued' /\ PageInv' /\ log' = log /\ drawn' = Len(log) /\ redrawn' \in BOOLEAN
  BY <1>1, <1>2, <1>3, RenderKeeps DEF Queued
<1>5. Counted'
  BY <1>1, <1>2, <1>4, LogFacts DEF Counted
<1> QED
  BY <1>4, <1>5 DEF IInv

LEMMA WholeIsUpto ==
    ASSUME Counted
    PROVE  Whole = Upto(Len(log)) /\ Whole \in Seq(1..Len(log))
<1>1. DOMAIN log = 1..Len(log) /\ Len(log) \in Nat
  BY LogFacts
<1>2. Whole = Upto(Len(log))
  BY <1>1 DEF Whole, Upto
<1> QED
  BY <1>1, <1>2, UptoFacts

LEMMA ApplyFullKeeps ==
    ASSUME IInv, ApplyFull
    PROVE  IInv'
<1>1. Counted /\ PageInv
  BY DEF IInv
<1>2. Render(Whole) /\ changes' = changes /\ fulls < MaxFulls /\ fulls' = fulls + 1
  BY DEF ApplyFull
<1>3. Whole \in Seq(1..Len(log)) /\ Ahead(Whole, drawn) /\ Covers(Whole, drawn, Len(log))
  BY <1>1, LogFacts, WholeIsUpto, UptoIsAhead
<1>4. Queued' /\ PageInv' /\ log' = log /\ drawn' = Len(log) /\ redrawn' \in BOOLEAN
  BY <1>1, <1>2, <1>3, RenderKeeps
<1>5. Counted'
  BY <1>1, <1>2, <1>4, LogFacts, RenderingAssumption DEF Counted
<1> QED
  BY <1>4, <1>5 DEF IInv

LEMMA ReloadKeeps ==
    ASSUME IInv, Reload
    PROVE  IInv'
<1>1. Counted
  BY DEF IInv
<1>2. /\ page' = Drawn(log, <<>>, Whole) /\ redrawn' = FALSE /\ drawn' = Len(log) /\ updates' = <<>>
      /\ log' = log /\ changes' = changes /\ fulls < MaxFulls /\ fulls' = fulls + 1
  BY SetMessagesIsDrawn DEF Reload
<1>3. Whole = Upto(Len(log)) /\ Whole \in Seq(1..Len(log)) /\ Len(log) \in Nat /\ log \in Seq(AllTypes)
  BY <1>1, LogFacts, WholeIsUpto
<1>4. Queued'
  BY <1>1, <1>2, QueueEmpties
<1>5. PageOf(page', log, Len(log))
  <2>1. PageOf(<<>>, log, 0) /\ 0 \in 0..Len(log)
    BY <1>3, EmptyPage
  <2>2. Ahead(Whole, 0) /\ Covers(Whole, 0, Len(log))
    BY <1>3, UptoIsAhead, 0 \in Nat
  <2> QED
    BY <1>2, <1>3, <2>1, <2>2, DrawnPage
<1>6. page' = First(log, Len(log))
  BY <1>2, <1>3 DEF First
<1>7. PageInv'
  BY <1>2, <1>5, <1>6 DEF PageInv
<1>8. Counted'
  <2>1. fulls' \in 0..MaxFulls /\ Len(log) \in 0..Len(log)
    BY <1>1, <1>2, <1>3, RenderingAssumption DEF Counted
  <2>2. redrawn' \in BOOLEAN
    BY <1>2
  <2> QED
    BY <1>1, <1>2, <2>1, <2>2 DEF Counted
<1> QED
  BY <1>4, <1>7, <1>8 DEF IInv

LEMMA StutterKeeps ==
    ASSUME IInv, UNCHANGED vars
    PROVE  IInv'
BY DEF IInv, Counted, Queued, PageInv, vars

\* The queue of the items that changed has the new ones in their order, the page has every
\* item that was drawn, and both are so again after each step.
THEOREM PageInvariant == Spec => []IInv
<1>1. Init => IInv
  BY InitIInv
<1>2. IInv /\ [Next]_vars => IInv'
  <2>1. SUFFICES ASSUME IInv, [Next]_vars PROVE IInv'
    OBVIOUS
  <2>2. CASE LogItem
    BY <2>1, <2>2, LogItemKeeps
  <2>3. CASE UpdateItem
    BY <2>1, <2>3, UpdateItemKeeps
  <2>4. CASE ApplyDelta
    BY <2>1, <2>4, ApplyDeltaKeeps
  <2>5. CASE ApplyFull
    BY <2>1, <2>5, ApplyFullKeeps
  <2>6. CASE Reload
    BY <2>1, <2>6, ReloadKeeps
  <2>7. CASE UNCHANGED vars
    BY <2>1, <2>7, StutterKeeps
  <2> QED
    BY <2>1, <2>2, <2>3, <2>4, <2>5, <2>6, <2>7 DEF Next
<1> QED
  BY <1>1, <1>2, PTL DEF Spec

-----------------------------------------------------------------------------
(* What the page promises                                                  *)

LEMMA PlaceIsAt ==
    ASSUME NEW i
    PROVE  /\ \A x \in Places(i) : x = <<x[1], x[2], x[3]>> /\ At(page, i, x[1], x[2], x[3])
           /\ \A g, b, r : At(page, i, g, b, r) => <<g, b, r>> \in Places(i)
<1> DEFINE Kinds == {"message", "step", "answer"}
           All == UNION {{g} \X (DOMAIN page[g].boxes) \X Kinds : g \in DOMAIN page}
           Is(x) == LET box == page[x[1]].boxes[x[2]]
                    IN  CASE x[3] = "message" -> box.kind = "message" /\ box.id = i
                          [] x[3] = "step" -> i \in ToSet(box.steps)
                          [] x[3] = "answer" -> i \in ToSet(box.answers)
<1>1. Places(i) = {x \in All : Is(x)}
  BY DEF Places
<1>2. ASSUME NEW x \in All
      PROVE  x = <<x[1], x[2], x[3]>> /\ On(page, x[1], x[2]) /\ x[3] \in Kinds
  <2>1. PICK g \in DOMAIN page : x \in {g} \X (DOMAIN page[g].boxes) \X Kinds
    OBVIOUS
  <2> QED
    BY <2>1 DEF On
<1>3. ASSUME NEW g, NEW b, NEW r \in Kinds, On(page, g, b)
      PROVE  <<g, b, r>> \in All
  <2>1. g \in DOMAIN page /\ <<g, b, r>> \in {g} \X (DOMAIN page[g].boxes) \X Kinds
    BY <1>3 DEF On
  <2> QED
    BY <2>1
<1>4. ASSUME NEW x, x[3] \in Kinds PROVE Is(x) <=> In(BoxAt(page, x[1], x[2]), i, x[3])
  BY <1>4 DEF In, BoxAt
<1>5. \A box, r : In(box, i, r) => r \in Kinds
  BY DEF In
<1> HIDE DEF All, Is
<1>6. ASSUME NEW x \in Places(i) PROVE x = <<x[1], x[2], x[3]>> /\ At(page, i, x[1], x[2], x[3])
  BY <1>1, <1>2, <1>4 DEF At
<1>7. ASSUME NEW g, NEW b, NEW r, At(page, i, g, b, r) PROVE <<g, b, r>> \in Places(i)
  <2> DEFINE x == <<g, b, r>>
  <2>1. r \in Kinds /\ On(page, g, b) /\ In(BoxAt(page, g, b), i, r)
    BY <1>5, <1>7 DEF At
  <2>2. x[1] = g /\ x[2] = b /\ x[3] = r /\ x \in All
    BY <1>3, <2>1
  <2> HIDE DEF x
  <2>3. Is(x)
    BY <1>4, <2>1, <2>2
  <2> QED
    BY <1>1, <2>2, <2>3 DEF x
<1> QED
  BY <1>6, <1>7

\* Every variable keeps its type, a message has neither steps nor responses, and a process
\* group has a step and is on the left.
THEOREM TypeCorrect == Spec => []TypeOK
<1>1. IInv => TypeOK
  <2>1. SUFFICES ASSUME IInv PROVE TypeOK
    OBVIOUS
  <2>2. Counted /\ Queued /\ Shaped(page)
    BY <2>1 DEF IInv, PageInv, PageOf
  <2>3. ASSUME NEW g \in DOMAIN page
        PROVE  /\ page[g].position \in {"left", "mid", "right"} /\ page[g].boxes # <<>>
               /\ \A box \in ToSet(page[g].boxes) :
                     /\ box.kind = "message" => box.steps = <<>> /\ box.answers = <<>> /\ ~box.closed
                     /\ box.kind = "process" => page[g].position = "left" /\ box.steps # <<>>
    <3>1. page[g] \in GroupRecords /\ page[g].boxes # <<>>
      BY <2>2 DEF Shaped
    <3>2. page[g].position \in {"left", "mid", "right"}
      BY <3>1 DEF GroupRecords
    <3>3. ASSUME NEW box \in ToSet(page[g].boxes) PROVE FitBox(page[g].position, box)
      <4>1. PICK b \in DOMAIN page[g].boxes : box = page[g].boxes[b]
        BY <3>3 DEF ToSet
      <4>2. On(page, g, b) /\ BoxAt(page, g, b) = box
        BY <4>1 DEF On, BoxAt
      <4> QED
        BY <2>2, <4>2 DEF Shaped
    <3> QED
      BY <3>1, <3>2, <3>3 DEF FitBox
  <2> QED
    BY <2>2, <2>3 DEF Counted, Queued, TypeOK
<1> QED
  BY <1>1, PageInvariant, PTL

\* Only the last process group can be open, and it is in the last message group.
THEOREM OpenGroupStaysLast == Spec => []OpenGroupIsLast
<1>1. IInv => OpenGroupIsLast
  <2>1. SUFFICES ASSUME IInv, NEW g \in DOMAIN page, NEW b \in DOMAIN page[g].boxes,
                        page[g].boxes[b].kind = "process", ~IsComplete(page[g].boxes[b])
                 PROVE  g = Len(page) /\ \A c \in (b + 1)..Len(page[g].boxes) : page[g].boxes[c].kind = "message"
    BY DEF OpenGroupIsLast
  <2>2. Shaped(page) /\ OpenLast(page) /\ page \in Seq(GroupRecords)
    BY <2>1 DEF IInv, PageInv, PageOf, Shaped
  <2>3. On(page, g, b) /\ IsOpen(BoxAt(page, g, b))
    BY <2>1 DEF On, IsOpen, BoxAt
  <2>4. g = Len(page) /\ \A c \in DOMAIN page[g].boxes : c > b => BoxAt(page, g, c).kind = "message"
    BY <2>2, <2>3 DEF OpenLast
  <2>5. b \in Nat /\ DOMAIN page[g].boxes = 1..Len(page[g].boxes) /\ Len(page[g].boxes) \in Nat
    BY <2>2, <2>3, OnIsTyped
  <2>6. ASSUME NEW c \in (b + 1)..Len(page[g].boxes) PROVE page[g].boxes[c].kind = "message"
    <3>1. c \in DOMAIN page[g].boxes /\ c > b
      BY <2>5
    <3> QED
      BY <2>4, <3>1 DEF BoxAt
  <2> QED
    BY <2>4, <2>6
<1> QED
  BY <1>1, PageInvariant, PTL

\* What the deltas have built is what a reload would draw, unless an item that is not a
\* step or a response was drawn again.
THEOREM DeltasDrawTheLog == Spec => []PageIsTheLog
<1>1. IInv => PageIsTheLog
  BY SetMessagesIsDrawn DEF IInv, PageInv, PageIsTheLog, First, Upto
<1> QED
  BY <1>1, PageInvariant, PTL

\* An item is never in a message group before the one of an earlier item.
THEOREM OrderOfTheLog == Spec => []PageFollowsTheLog
<1>1. IInv => PageFollowsTheLog
  <2>1. SUFFICES ASSUME IInv, NEW i \in 1..drawn, NEW j \in 1..drawn, i < j,
                        "warning" \notin {log[i], log[j]}, NEW x \in Places(i), NEW y \in Places(j)
                 PROVE  x[1] <= y[1]
    BY DEF PageFollowsTheLog
  <2>2. InOrder(page, log) /\ i \in Nat /\ j \in Nat /\ log[i] # "warning" /\ log[j] # "warning"
    BY <2>1 DEF IInv, PageInv, PageOf
  <2>3. At(page, i, x[1], x[2], x[3]) /\ At(page, j, y[1], y[2], y[3])
    BY PlaceIsAt
  <2> QED
    BY <2>1, <2>2, <2>3 DEF InOrder
<1> QED
  BY <1>1, PageInvariant, PTL

LEMMA TwoAtMost ==
    ASSUME NEW a, NEW b
    PROVE  IsFiniteSet({a, b}) /\ Cardinality({a, b}) \in {1, 2} /\ Cardinality({a}) = 1
<1>1. IsFiniteSet({a}) /\ Cardinality({a}) = 1
  BY FS_Singleton
<1>2. {a, b} = {a} \cup {b}
  OBVIOUS
<1>3. IsFiniteSet({a} \cup {b}) /\ Cardinality({a} \cup {b}) = IF b \in {a} THEN 1 ELSE 1 + 1
  BY <1>1, FS_AddElement
<1> QED
  BY <1>1, <1>2, <1>3

\* What was drawn is on the page once, and a warning at most twice; what was not drawn is
\* not on the page.
THEOREM NoItemTwice == Spec => []EachItemOnce
<1>1. IInv => EachItemOnce
  <2>1. SUFFICES ASSUME IInv PROVE EachItemOnce
    OBVIOUS
  <2>2. Counted /\ Shaped(page) /\ Placed(page, log, drawn) /\ PlacedOnce(page)
    BY <2>1 DEF IInv, PageInv, PageOf
  <2>3. ASSUME NEW box \in Boxes(page) PROVE IsInjective(box.steps) /\ IsInjective(box.answers)
    <3>1. PICK g, b : On(page, g, b) /\ box = BoxAt(page, g, b)
      BY <2>3, BoxesOn
    <3> QED
      BY <2>2, <3>1 DEF Shaped, FitBox
  <2>4. ASSUME NEW i \in DOMAIN log
        PROVE  LET n == Cardinality(Places(i))
               IN  IF i > drawn THEN n = 0 ELSE IF log[i] = "warning" THEN n \in {1, 2} ELSE n = 1
    <3>1. i \in Nat /\ i >= 1 /\ drawn \in Nat
      BY <2>2, LogFacts
    <3>2. \A x \in Places(i) : x = <<x[1], x[2], x[3]>> /\ At(page, i, x[1], x[2], x[3])
      BY PlaceIsAt
    <3>3. CASE i > drawn
      <4>1. i \notin 1..drawn
        BY <3>1, <3>3
      <4>2. Places(i) = {}
        BY <2>2, <3>2, <4>1 DEF Placed
      <4> QED
        BY <3>3, <4>2, FS_EmptySet
    <3>4. CASE ~(i > drawn)
      <4>1. i \in 1..drawn
        BY <3>1, <3>4
      <4>2. PICK x : x \in Places(i)
        <5>1. PICK g, b, r : At(page, i, g, b, r)
          BY <2>2, <4>1 DEF Placed
        <5> QED
          BY <5>1, PlaceIsAt
      <4>3. ASSUME NEW y \in Places(i), NEW z \in Places(i), y[3] = "step" <=> z[3] = "step" PROVE y = z
        <5>1. y[1] = z[1] /\ y[2] = z[2] /\ y[3] = z[3]
          BY <2>2, <3>2, <4>3 DEF PlacedOnce
        <5>2. y = <<y[1], y[2], y[3]>> /\ z = <<z[1], z[2], z[3]>>
          BY <3>2
        <5> QED
          BY ONLY <5>1, <5>2, Zenon
      <4>4. ASSUME log[i] # "warning" PROVE Places(i) = {x}
        <5>1. ASSUME NEW y \in Places(i), NEW z \in Places(i) PROVE y[3] = "step" <=> z[3] = "step"
          <6>1. Suits(log[i], y[3]) /\ Suits(log[i], z[3])
            BY <2>2, <3>2 DEF Placed
          <6> QED
            BY <4>4, <6>1 DEF Suits
        <5> QED
          BY <4>2, <4>3, <5>1
      <4>5. \E y : Places(i) = {x, y}
        <5>1. CASE \E y \in Places(i) : y # x
          <6>1. PICK y \in Places(i) : y # x
            BY <5>1
          <6>2. ~(y[3] = "step" <=> x[3] = "step")
            BY <4>2, <4>3, <6>1
          <6>3. \A z \in Places(i) : z = x \/ z = y
            BY <4>2, <4>3, <6>1, <6>2
          <6> QED
            BY <4>2, <6>1, <6>3
        <5>2. CASE ~\E y \in Places(i) : y # x
          <6>1. Places(i) = {x, x}
            BY <4>2, <5>2
          <6> QED
            BY <6>1
        <5> QED
          BY <5>1, <5>2
      <4>6. Cardinality(Places(i)) \in {1, 2} /\ (log[i] # "warning" => Cardinality(Places(i)) = 1)
        BY <4>4, <4>5, TwoAtMost
      <4> QED
        BY <3>4, <4>6
    <3> QED
      BY <3>3, <3>4
  <2> QED
    BY <2>3, <2>4 DEF EachItemOnce
<1> QED
  BY <1>1, PageInvariant, PTL

=============================================================================
