--------------------------- MODULE ChatQueueProofs ---------------------------
(***************************************************************************)
(* Theorems about ChatQueue, for any number of messages, operations at a   *)
(* time, clicks and hooks that wait.                                       *)
(***************************************************************************)
EXTENDS ChatQueue, FiniteSetTheorems, WellFoundedInduction, TLAPS

Kinds == {"none", "add", "remove", "clear", "send", "all", "next"}
Sending == {"send", "all", "next"}
Stages == {"-", "get", "change", "set", "sync", "publish", "send"}

Operation ==
    [kind : Kinds, item : Items \cup {None}, at : Stages, list : Lists \cup {None},
     from : Lists \cup {None}, seen : Seq(Items), hand : Seq(Items)]

\* The types of the variables, by who writes them.
ServerTyped ==
    /\ heap \in [Lists -> Seq(Items)] /\ cell \in Lists \cup {None}
    /\ output \in Seq(Items) /\ ops \in [Ops -> Operation]

GhostsTyped ==
    /\ accepted \subseteq Items /\ removed \subseteq Items
    /\ sent \in [Items -> Nat] /\ raced \in BOOLEAN

TabTyped ==
    /\ typed \in 0..MaxItems /\ direct \subseteq Items /\ pending \subseteq Items
    /\ chain \in Seq(Items) /\ adding \in Items \cup {None} /\ givenUp \subseteq Items
    /\ shown \in Seq(Items)

Typed == ServerTyped /\ GhostsTyped /\ TabTyped

AgentTyped ==
    /\ running \in {"no", "yes", "ending"} /\ busy \in BOOLEAN
    /\ senders \in 0..MaxSenders

\* What an operation holds at each of its steps. Only those that send have messages in hand.
OpShape(o) ==
    /\ o.kind = "none" => o.at = "-"
    /\ o.kind = "add" => o.item \in Items
    /\ o.at = "get" => o.kind \in {"add", "remove"} \cup Sending
    /\ o.at = "change" => o.kind \in {"add"} \cup Sending /\ o.list # None
    /\ o.at = "set" => o.kind # "none" /\ (o.kind # "clear" => o.list # None)
    /\ o.at = "sync" => o.kind \in {"add", "remove"} \cup Sending
    /\ o.at = "send" => o.kind \in Sending
    /\ o.at \notin {"change", "set"} \/ o.kind = "clear" => o.list = None /\ o.from = None
    /\ o.list # o.from => o.kind \in {"add", "remove"}
    /\ o.kind = "remove" /\ o.at = "set" => o.list # o.from
    /\ o.kind \notin Sending => o.hand = <<>>

UnheldAreEmpty == \A l \in Lists : l \notin Held(cell, ops) => heap[l] = <<>>

\* A list that an operation made and that is not the queue yet is its own.
Own(o) == o.list # None /\ o.list # o.from

OwnIsPrivate ==
    \A k \in Ops : Own(ops[k]) =>
        /\ ops[k].list # cell
        /\ \A j \in Ops \ {k} : ops[k].list # ops[j].list /\ ops[k].list # ops[j].from

\* What is on it is what the operation put there.
OwnHas(o, s) ==
    /\ o.kind = "add" /\ o.at = "change" => s = <<>> /\ o.seen = <<>>
    /\ o.kind = "add" /\ o.at = "set" => s = <<o.item>> /\ o.seen = <<>>
    /\ o.kind = "remove" => s = RemoveFirst(o.seen, o.item)

OwnContent == \A k \in Ops : Own(ops[k]) => OwnHas(ops[k], heap[ops[k].list])

ListsInv ==
    /\ \A k \in Ops : OpShape(ops[k])
    /\ UnheldAreEmpty /\ OwnIsPrivate /\ OwnContent

\* An add that has not put its message on a list.
Unread(o) == o.kind = "add" /\ o.at \in {"get", "change"}

\* A message on its way to the server, by the queue or straight.
New(i, t, acc, s) == i \in 1..t /\ i \notin acc /\ s[i] = 0

Lined(s) == IsInjective(s) /\ ToSet(s) \subseteq accepted

Taken ==
    /\ \A l \in Lists : Lined(heap[l])
    /\ \A k \in Ops : ToSet(ops[k].seen) \cup ToSet(ops[k].hand) \subseteq accepted
    /\ ToSet(output) \subseteq accepted /\ ToSet(shown) \subseteq accepted
    /\ removed \subseteq accepted /\ accepted \subseteq 1..typed

AddsAreNew ==
    /\ \A k \in Ops : Unread(ops[k]) => New(ops[k].item, typed, accepted, sent) /\ ops[k].item \notin direct
    /\ \A k \in Ops : ops[k].kind = "add" => ops[k].item \in 1..typed
    /\ \A j, k \in Ops :
          j # k /\ ops[j].kind = "add" /\ ops[k].kind = "add" => ops[j].item # ops[k].item

ChainIsNew ==
    /\ \A n \in DOMAIN chain :
          /\ New(chain[n], typed, accepted, sent) /\ chain[n] \notin direct /\ adding < chain[n]
          /\ \A k \in Ops : ~AddOp(k, chain[n])
    /\ \A m, n \in DOMAIN chain : m < n => chain[m] < chain[n]
    /\ adding <= typed

DirectIsNew == \A i \in direct : New(i, typed, accepted, sent)
UntypedIsUnsent == \A i \in Items : i > typed => sent[i] = 0

\* A message the queue has not taken has been sent straight, or the tab still has it.
Somewhere ==
    \A i \in 1..typed : i \in accepted \/ sent[i] = 1 \/ i \in direct \cup pending \cup givenUp

NewInv == Taken /\ AddsAreNew /\ ChainIsNew /\ DirectIsNew /\ UntypedIsUnsent /\ Somewhere

\* In order but for the messages in the set.
InOrder(s, but) ==
    \A m, n \in DOMAIN s : m < n /\ s[m] \notin but /\ s[n] \notin but => s[m] < s[n]

\* The one add the tab waits for is the only one that may put a message on a list out of
\* turn, and it is newer than all on the lists.
OrderInv ==
    /\ \A l \in Lists : InOrder(heap[l], givenUp)
    /\ \A k \in Ops : Unread(ops[k]) /\ ops[k].item \notin givenUp =>
          ops[k].item = adding /\ \A j \in accepted \ givenUp : j < adding
    /\ \A j \in accepted \ givenUp : \A n \in DOMAIN chain : j < chain[n]

Detached(i) == \E k \in Ops : AddOp(k, i) /\ ops[k].at = "set" /\ ops[k].list # ops[k].from

\* A message the queue has taken is in one place only.
OnePlace(i) ==
    /\ i \in ToSet(Queue) \/ Detached(i) \/ InHand(i) \/ sent[i] = 1 \/ i \in removed
    /\ i \in ToSet(Queue) => ~Detached(i) /\ ~InHand(i) /\ sent[i] = 0 /\ i \notin removed
    /\ Detached(i) => ~InHand(i) /\ sent[i] = 0 /\ i \notin removed
    /\ InHand(i) => sent[i] = 0 /\ i \notin removed
    /\ sent[i] \in {0, 1}
    /\ sent[i] = 1 => i \notin removed

OneHand == \A i \in Items : \A j, k \in Ops :
               i \in ToSet(ops[j].hand) /\ i \in ToSet(ops[k].hand) => j = k

PlaceInv == ~raced => OneHand /\ \A i \in accepted : OnePlace(i)

\* What is not published yet will be.
PublishInv == ~raced => output = Queue \/ \E k \in Ops : ops[k].at \in {"set", "sync", "publish"}

-----------------------------------------------------------------------------
(* Sequences                                                               *)

LEMMA NatOrder ==
    \E R : IsWellFoundedOn(R, Nat) /\ \A x, y \in Nat : x < y => <<x, y>> \in R
<1>1. \A x, y \in Nat : x < y => <<x, y>> \in OpToRel(<, Nat)
  BY Zenon DEF OpToRel
<1> QED
  BY <1>1, NatLessThanWellFounded, Zenon

LEMMA NatMinimum ==
    ASSUME NEW S \in SUBSET Nat, S # {}
    PROVE  \E x \in S : \A y \in S : x <= y
<1>1. PICK R : IsWellFoundedOn(R, Nat) /\ \A x, y \in Nat : x < y => <<x, y>> \in R
  BY NatOrder
<1>2. PICK x \in S : \A y \in S : <<y, x>> \notin R
  <2>1. IsWellFoundedOn(R, Nat)
    BY <1>1
  <2> QED
    BY <2>1, WFMin
<1>3. \A y \in S : ~(y < x)
  BY <1>1, <1>2
<1> QED
  BY <1>3

LEMMA RemoveAtFacts ==
    ASSUME NEW S, NEW s \in Seq(S), NEW n \in DOMAIN s
    PROVE  /\ RemoveAt(s, n) \in Seq(S)
           /\ Len(RemoveAt(s, n)) = Len(s) - 1
           /\ \A m \in 1..(Len(s) - 1) : RemoveAt(s, n)[m] = IF m < n THEN s[m] ELSE s[m + 1]
<1> DEFINE front == SubSeq(s, 1, n - 1)
           back == SubSeq(s, n + 1, Len(s))
<1>1. n \in Nat /\ 1 <= n /\ n <= Len(s) /\ Len(s) \in Nat
  OBVIOUS
<1>2. /\ front \in Seq(S) /\ Len(front) = n - 1
      /\ \A m \in 1..(n - 1) : front[m] = s[m]
  BY <1>1
<1>3. /\ back \in Seq(S) /\ Len(back) = Len(s) - n
      /\ \A m \in 1..(Len(s) - n) : back[m] = s[n + m]
  BY <1>1
<1>4. RemoveAt(s, n) = front \o back
  BY DEF RemoveAt
<1> HIDE DEF front, back
<1>5. /\ front \o back \in Seq(S) /\ Len(front \o back) = Len(s) - 1
      /\ \A m \in 1..(Len(s) - 1) :
            (front \o back)[m] = IF m < n THEN front[m] ELSE back[m - (n - 1)]
  <2>1. /\ front \o back \in Seq(S) /\ Len(front \o back) = Len(front) + Len(back)
        /\ \A m \in 1..(Len(front) + Len(back)) :
              (front \o back)[m] = IF m <= Len(front) THEN front[m] ELSE back[m - Len(front)]
    BY <1>2, <1>3
  <2>2. Len(front) + Len(back) = Len(s) - 1
    BY <1>1, <1>2, <1>3
  <2>3. \A m \in 1..(Len(s) - 1) : m <= Len(front) <=> m < n
    BY <1>1, <1>2
  <2> QED
    BY <1>2, <2>1, <2>2, <2>3
<1>6. ASSUME NEW m \in 1..(Len(s) - 1)
      PROVE  (front \o back)[m] = IF m < n THEN s[m] ELSE s[m + 1]
  <2>1. CASE m < n
    BY <1>1, <1>2, <1>5, <2>1
  <2>2. CASE ~(m < n)
    <3>1. m - (n - 1) \in 1..(Len(s) - n) /\ n + (m - (n - 1)) = m + 1
      BY <1>1, <2>2
    <3>2. back[m - (n - 1)] = s[m + 1]
      BY <3>1, <1>3
    <3> QED
      BY <1>5, <2>2, <3>2
  <2> QED
    BY <2>1, <2>2
<1> QED
  BY <1>4, <1>5, <1>6

LEMMA RemoveFirstIs ==
    ASSUME NEW S, NEW s \in Seq(S), NEW e
    PROVE  \/ e \notin ToSet(s) /\ RemoveFirst(s, e) = s
           \/ \E n \in DOMAIN s : s[n] = e /\ RemoveFirst(s, e) = RemoveAt(s, n)
<1> DEFINE I == {n \in 1..Len(s) : s[n] = e}
<1>1. RemoveFirst(s, e) = IF I # {} THEN RemoveAt(s, Min(I)) ELSE s
  BY DEF RemoveFirst, SelectInSeq
<1>2. CASE I = {}
  BY <1>1, <1>2 DEF ToSet
<1>3. CASE I # {}
  <2>1. I \in SUBSET Nat /\ \A n \in I : n \in DOMAIN s /\ s[n] = e
    OBVIOUS
  <2> HIDE DEF I
  <2>2. PICK x \in I : \A y \in I : x <= y
    BY <1>3, <2>1, NatMinimum
  <2>3. Min(I) \in I
    BY <2>2 DEF Min
  <2> QED
    BY <1>1, <1>3, <2>1, <2>3
<1> QED
  BY <1>2, <1>3

LEMMA RemoveFirstFacts ==
    ASSUME NEW S, NEW s \in Seq(S), NEW e
    PROVE  /\ RemoveFirst(s, e) \in Seq(S)
           /\ \A m, n \in DOMAIN RemoveFirst(s, e) : m < n =>
                 \E a, b \in DOMAIN s :
                    a < b /\ RemoveFirst(s, e)[m] = s[a] /\ RemoveFirst(s, e)[n] = s[b]
           /\ IsInjective(s) => /\ IsInjective(RemoveFirst(s, e))
                                /\ ToSet(RemoveFirst(s, e)) = ToSet(s) \ {e}
<1> DEFINE r == RemoveFirst(s, e)
<1>1. CASE e \notin ToSet(s) /\ r = s
  BY <1>1
<1>2. CASE \E n \in DOMAIN s : s[n] = e /\ r = RemoveAt(s, n)
  <2>1. PICK n \in DOMAIN s : s[n] = e /\ r = RemoveAt(s, n)
    BY <1>2
  <2> HIDE DEF r
  <2>2. n \in 1..Len(s) /\ Len(s) \in Nat
    OBVIOUS
  <2>3. /\ r \in Seq(S) /\ Len(r) = Len(s) - 1 /\ DOMAIN r = 1..(Len(s) - 1)
        /\ \A m \in DOMAIN r : r[m] = IF m < n THEN s[m] ELSE s[m + 1]
    <3>1. /\ r \in Seq(S) /\ Len(r) = Len(s) - 1
          /\ \A m \in 1..(Len(s) - 1) : r[m] = IF m < n THEN s[m] ELSE s[m + 1]
      BY <2>1, RemoveAtFacts
    <3>2. DOMAIN r = 1..(Len(s) - 1)
      BY <3>1
    <3> QED
      BY <3>1, <3>2
  <2> DEFINE Old(m) == IF m < n THEN m ELSE m + 1
  <2>4. /\ \A m \in DOMAIN r : Old(m) \in DOMAIN s /\ Old(m) # n /\ r[m] = s[Old(m)]
        /\ \A m, l \in DOMAIN r : m < l => Old(m) < Old(l)
        /\ \A a \in DOMAIN s : a # n => \E m \in DOMAIN r : Old(m) = a
    <3>1. \A m \in DOMAIN r : Old(m) \in DOMAIN s /\ Old(m) # n /\ r[m] = s[Old(m)]
      BY <2>2, <2>3
    <3>2. \A m, l \in DOMAIN r : m < l => Old(m) < Old(l)
      BY <2>2, <2>3
    <3>3. ASSUME NEW a \in DOMAIN s, a # n PROVE \E m \in DOMAIN r : Old(m) = a
      <4>1. CASE a < n
        BY <2>2, <2>3, <3>3, <4>1
      <4>2. CASE a > n
        <5>1. a - 1 \in DOMAIN r /\ Old(a - 1) = a
          BY <2>2, <2>3, <4>2
        <5> QED
          BY <5>1
      <4> QED
        BY <2>2, <3>3, <4>1, <4>2
    <3> QED
      BY <3>1, <3>2, <3>3
  <2> HIDE DEF Old
  <2>5. \A m, l \in DOMAIN r : m < l => \E a, b \in DOMAIN s : a < b /\ r[m] = s[a] /\ r[l] = s[b]
    BY <2>4
  <2>6. ASSUME IsInjective(s) PROVE IsInjective(r)
    <3>1. \A m, l \in DOMAIN r : r[m] = r[l] => Old(m) = Old(l)
      BY <2>4, <2>6 DEF IsInjective
    <3>2. \A m, l \in DOMAIN r : Old(m) = Old(l) => m = l
      BY <2>2, <2>3 DEF Old
    <3> QED
      BY <3>1, <3>2 DEF IsInjective
  <2>7. ASSUME IsInjective(s) PROVE ToSet(r) = ToSet(s) \ {e}
    <3>1. \A a \in DOMAIN s : s[a] = e => a = n
      BY <2>1, <2>7 DEF IsInjective
    <3>2. \A x : x \in ToSet(r) => x \in ToSet(s) \ {e}
      BY <2>4, <3>1 DEF ToSet
    <3>3. \A x : x \in ToSet(s) \ {e} => x \in ToSet(r)
      BY <2>1, <2>4 DEF ToSet
    <3> QED
      BY <3>2, <3>3
  <2> QED
    BY <2>3, <2>5, <2>6, <2>7 DEF r
<1> QED
  BY <1>1, <1>2, RemoveFirstIs

LEMMA ToSetFacts ==
    ASSUME NEW S, NEW s \in Seq(S)
    PROVE  /\ ToSet(s) \subseteq S
           /\ s = <<>> <=> ToSet(s) = {}
           /\ s # <<>> => Head(s) \in ToSet(s)
<1>1. \A n \in DOMAIN s : s[n] \in S
  OBVIOUS
<1>2. s # <<>> => 1 \in DOMAIN s /\ Head(s) = s[1]
  OBVIOUS
<1>3. s = <<>> => ToSet(s) = {}
  BY DEF ToSet
<1> QED
  BY <1>1, <1>2, <1>3 DEF ToSet

LEMMA AppendFacts ==
    ASSUME NEW S, NEW s \in Seq(S), NEW e \in S
    PROVE  /\ Append(s, e) \in Seq(S) /\ Append(s, e) # <<>>
           /\ ToSet(Append(s, e)) = ToSet(s) \cup {e}
           /\ IsInjective(s) /\ e \notin ToSet(s) => IsInjective(Append(s, e))
<1> DEFINE r == Append(s, e)
<1>1. /\ r \in Seq(S) /\ DOMAIN r = 1..(Len(s) + 1) /\ DOMAIN s = 1..Len(s) /\ Len(s) \in Nat
      /\ \A n \in DOMAIN s : r[n] = s[n]
      /\ r[Len(s) + 1] = e
  OBVIOUS
<1> HIDE DEF r
<1>2. \A n \in DOMAIN r : n \in DOMAIN s \/ n = Len(s) + 1
  BY <1>1
<1>3. DOMAIN s \subseteq DOMAIN r /\ Len(s) + 1 \in DOMAIN r /\ r # <<>>
  BY <1>1
<1>4. ToSet(r) = ToSet(s) \cup {e}
  <2>1. \A x : x \in ToSet(r) => x \in ToSet(s) \cup {e}
    BY <1>1, <1>2 DEF ToSet
  <2>2. \A x : x \in ToSet(s) \cup {e} => x \in ToSet(r)
    BY <1>1, <1>3 DEF ToSet
  <2> QED
    BY <2>1, <2>2
<1>5. ASSUME IsInjective(s), e \notin ToSet(s) PROVE IsInjective(r)
  BY <1>1, <1>2, <1>5 DEF IsInjective, ToSet
<1> QED
  BY <1>1, <1>3, <1>4, <1>5 DEF r

\* An append keeps the order if what is appended is newer than all that count.
LEMMA AppendInOrder ==
    ASSUME NEW s \in Seq(Items), NEW e \in Items, NEW but, InOrder(s, but),
           e \in but \/ \A x \in ToSet(s) : x \in but \/ x < e
    PROVE  InOrder(Append(s, e), but)
<1> DEFINE r == Append(s, e)
<1>1. /\ DOMAIN r = 1..(Len(s) + 1) /\ DOMAIN s = 1..Len(s) /\ Len(s) \in Nat
      /\ \A n \in DOMAIN s : r[n] = s[n]
      /\ r[Len(s) + 1] = e
  OBVIOUS
<1> HIDE DEF r
<1>2. ASSUME NEW m \in DOMAIN r, NEW n \in DOMAIN r, m < n, r[m] \notin but, r[n] \notin but
      PROVE  r[m] < r[n]
  <2>1. m \in DOMAIN s /\ r[m] = s[m]
    BY <1>1, <1>2
  <2>2. CASE n \in DOMAIN s
    BY <1>1, <1>2, <2>1, <2>2 DEF InOrder
  <2>3. CASE n = Len(s) + 1
    BY <1>1, <1>2, <2>1, <2>3 DEF ToSet
  <2> QED
    BY <1>1, <2>2, <2>3
<1> QED
  BY <1>2 DEF InOrder, r

LEMMA RemoveInOrder ==
    ASSUME NEW s \in Seq(Items), NEW e, NEW but, InOrder(s, but)
    PROVE  InOrder(RemoveFirst(s, e), but)
<1> DEFINE r == RemoveFirst(s, e)
<1>1. \A m, n \in DOMAIN r : m < n => \E a, b \in DOMAIN s : a < b /\ r[m] = s[a] /\ r[n] = s[b]
  BY RemoveFirstFacts
<1> HIDE DEF r
<1> QED
  BY <1>1 DEF InOrder, r

LEMMA EmptyFacts ==
    /\ <<>> \in Seq(Items) /\ ToSet(<<>>) = {} /\ IsInjective(<<>>)
    /\ \A but : InOrder(<<>>, but)
BY DEF ToSet, IsInjective, InOrder

LEMMA OneItemFacts ==
    ASSUME NEW i \in Items
    PROVE  <<i>> = Append(<<>>, i) /\ <<i>> \in Seq(Items) /\ ToSet(<<i>>) = {i}
BY DEF ToSet

-----------------------------------------------------------------------------
(* Lists and operations                                                    *)

LEMMA Bounds ==
    /\ MaxItems \in Nat /\ MaxOps \in Nat /\ MaxSenders \in Nat /\ MaxActs \in Nat
    /\ Items \subseteq Nat /\ Ops \subseteq Nat /\ Lists \subseteq Nat
    /\ None = 0 /\ None \notin Items /\ None \notin Lists
BY QueueAssumption DEF Items, Ops, Lists, None

LEMMA NoOpFacts ==
    /\ NoOp \in Operation /\ NoOp.kind = "none" /\ NoOp.at = "-" /\ NoOp.item = None
    /\ NoOp.list = None /\ NoOp.from = None /\ NoOp.seen = <<>> /\ NoOp.hand = <<>>
BY EmptyFacts DEF NoOp, Operation, Kinds, Stages

\* There is always a list nobody holds.
LEMMA FreshListFacts ==
    ASSUME ServerTyped
    PROVE  FreshList \in Lists /\ FreshList \notin Held(cell, ops)
<1> DEFINE lists == {ops[k].list : k \in Ops}
           froms == {ops[k].from : k \in Ops}
<1>1. IsFiniteSet(Ops) /\ Cardinality(Ops) = MaxOps
  BY Bounds, QueueAssumption, FS_Interval DEF Ops
<1>2. IsFiniteSet(lists) /\ Cardinality(lists) <= MaxOps
  <2>1. [k \in Ops |-> ops[k].list] \in Surjection(Ops, lists)
    BY DEF Surjection
  <2> QED
    BY <1>1, <2>1, FS_Surjection
<1>3. IsFiniteSet(froms) /\ Cardinality(froms) <= MaxOps
  <2>1. [k \in Ops |-> ops[k].from] \in Surjection(Ops, froms)
    BY DEF Surjection
  <2> QED
    BY <1>1, <2>1, FS_Surjection
<1>4. Held(cell, ops) = {cell} \cup (lists \cup froms)
  BY DEF Held
<1> HIDE DEF lists, froms
<1>5. IsFiniteSet(lists \cup froms) /\ Cardinality(lists \cup froms) <= 2 * MaxOps
  <2>1. lists \cap froms \in SUBSET lists
    OBVIOUS
  <2>2. IsFiniteSet(lists \cap froms)
    BY <1>2, <2>1, FS_Subset
  <2>3. Cardinality(lists \cap froms) \in Nat /\ Cardinality(lists) \in Nat /\ Cardinality(froms) \in Nat
    BY <1>2, <1>3, <2>2, FS_CardinalityType
  <2>4. /\ IsFiniteSet(lists \cup froms)
        /\ Cardinality(lists \cup froms)
              = Cardinality(lists) + Cardinality(froms) - Cardinality(lists \cap froms)
    BY <1>2, <1>3, FS_Union
  <2> QED
    BY <1>2, <1>3, <2>3, <2>4, Bounds
<1>6. /\ IsFiniteSet(Held(cell, ops)) /\ Cardinality(Held(cell, ops)) \in Nat
      /\ Cardinality(Held(cell, ops)) <= 2 * MaxOps + 1
  <2>1. Held(cell, ops) = (lists \cup froms) \cup {cell}
    BY <1>4
  <2>2. /\ IsFiniteSet(Held(cell, ops))
        /\ Cardinality(Held(cell, ops)) = IF cell \in lists \cup froms
                                          THEN Cardinality(lists \cup froms)
                                          ELSE Cardinality(lists \cup froms) + 1
    BY <1>5, <2>1, FS_AddElement
  <2>3. Cardinality(lists \cup froms) \in Nat /\ Cardinality(Held(cell, ops)) \in Nat
    BY <1>5, <2>2, FS_CardinalityType
  <2> QED
    BY <1>5, <2>2, <2>3, Bounds
<1>7. Cardinality(Lists) = 2 * MaxOps + 2
  BY Bounds, FS_Interval DEF Lists
<1>8. ~ (Lists \subseteq Held(cell, ops))
  <2>1. SUFFICES ASSUME Lists \subseteq Held(cell, ops) PROVE FALSE
    OBVIOUS
  <2>2. Cardinality(Lists) <= Cardinality(Held(cell, ops))
    BY <1>6, <2>1, FS_Subset
  <2> QED
    BY <1>6, <1>7, <2>2, Bounds
<1>9. \E l \in Lists : l \notin Held(cell, ops)
  BY <1>8
<1> QED
  BY <1>9 DEF FreshList

LEMMA FreeOpFacts ==
    ASSUME \E k \in Ops : ops[k] = NoOp
    PROVE  FreeOp \in Ops /\ ops[FreeOp] = NoOp
<1> DEFINE F == {k \in Ops : ops[k] = NoOp}
<1>1. F \in SUBSET Nat /\ F # {} /\ \A k \in F : k \in Ops /\ ops[k] = NoOp
  BY Bounds
<1>2. \A k \in Ops : k \notin F => ops[k] # NoOp
  OBVIOUS
<1> HIDE DEF F
<1>3. PICK k \in F : \A j \in F : k <= j
  BY <1>1, NatMinimum
<1>4. \A j \in Ops : j < k => ops[j] # NoOp
  BY <1>1, <1>2, <1>3, Bounds
<1>5. \E l \in Ops : ops[l] = NoOp /\ \A j \in Ops : j < l => ops[j] # NoOp
  BY <1>1, <1>4
<1> QED
  BY <1>5 DEF FreeOp

-----------------------------------------------------------------------------
(* What the steps do to the lists and to the operations                    *)

\* Operation k becomes what the arguments say, and no other one changes.
Became(k, kind, item, at, list, from, seen, hand) ==
    /\ ops' \in [Ops -> Operation]
    /\ \A j \in Ops \ {k} : ops'[j] = ops[j]
    /\ ops'[k].kind = kind /\ ops'[k].item = item /\ ops'[k].at = at
    /\ ops'[k].list = list /\ ops'[k].from = from
    /\ ops'[k].seen = seen /\ ops'[k].hand = hand

\* The lists are those of h, but for the ones nobody holds any more.
Wrote(h) ==
    /\ heap' \in [Lists -> Seq(Items)]
    /\ \A l \in Lists : heap'[l] = IF l \in Held(cell', ops') THEN h[l] ELSE <<>>

Changed(list, s) == Wrote([heap EXCEPT ![list] = s])

Fresh(l) == l \in Lists /\ l # cell /\ \A k \in Ops : ops[k].list # l /\ ops[k].from # l

LEMMA StepIs ==
    ASSUME ServerTyped, NEW k \in Ops, NEW o \in Operation,
           NEW h \in [Lists -> Seq(Items)], NEW c \in Lists \cup {None},
           Write(h, c, [ops EXCEPT ![k] = o])
    PROVE  /\ Wrote(h) /\ cell' = c /\ cell' \in Lists \cup {None}
           /\ Became(k, o.kind, o.item, o.at, o.list, o.from, o.seen, o.hand)
<1>1. /\ ops' \in [Ops -> Operation] /\ ops'[k] = o
      /\ \A j \in Ops \ {k} : ops'[j] = ops[j]
  BY DEF Write, ServerTyped
<1>2. cell' = c /\ Held(cell', ops') = Held(c, [ops EXCEPT ![k] = o])
  BY DEF Write
<1>3. heap' = [l \in Lists |-> IF l \in Held(cell', ops') THEN h[l] ELSE <<>>]
  BY <1>2 DEF Write
<1>4. Wrote(h)
  BY <1>3, EmptyFacts DEF Wrote
<1> QED
  BY <1>1, <1>2, <1>4 DEF Became

LEMMA FreshFacts == ASSUME ServerTyped PROVE Fresh(FreshList)
BY FreshListFacts DEF Fresh, Held

LEMMA QueueType ==
    ASSUME ServerTyped
    PROVE  Queue \in Seq(Items) /\ (cell # None => Queue = heap[cell]) /\ (cell = None => Queue = <<>>)
BY EmptyFacts DEF ServerTyped, Queue, Content

LEMMA EndEffect ==
    ASSUME ServerTyped, NEW k \in Ops, End(k)
    PROVE  /\ Wrote(heap) /\ cell' = cell
           /\ Became(k, "none", None, "-", None, None, <<>>, <<>>)
<1>1. Write(heap, cell, [ops EXCEPT ![k] = NoOp])
  BY DEF End, Step
<1> QED
  BY <1>1, StepIs, NoOpFacts DEF ServerTyped

LEMMA BeginEffect ==
    ASSUME ServerTyped, NEW kind \in Kinds \ {"none"}, NEW i \in Items \cup {None}, Begin(kind, i)
    PROVE  /\ ~raced
           /\ \E k \in Ops :
                 /\ ops[k] = NoOp /\ Wrote(heap) /\ cell' = cell
                 /\ Became(k, kind, i, IF kind = "clear" THEN "set" ELSE "get",
                           None, None, <<>>, <<>>)
<1> DEFINE at == IF kind = "clear" THEN "set" ELSE "get"
           o == [NoOp EXCEPT !.kind = kind, !.item = i, !.at = at]
<1>1. ~raced /\ FreeOp \in Ops /\ ops[FreeOp] = NoOp
  BY FreeOpFacts DEF Begin
<1>2. /\ o \in Operation /\ o.kind = kind /\ o.item = i /\ o.at = at
      /\ o.list = None /\ o.from = None /\ o.seen = <<>> /\ o.hand = <<>>
  BY NoOpFacts DEF Operation, Stages
<1>3. Write(heap, cell, [ops EXCEPT ![FreeOp] = o])
  BY DEF Begin, Step
<1> HIDE DEF o, at
<1>4. /\ Wrote(heap) /\ cell' = cell
      /\ Became(FreeOp, kind, i, at, None, None, <<>>, <<>>)
  BY <1>1, <1>2, <1>3, StepIs DEF ServerTyped
<1> QED
  BY <1>1, <1>4 DEF at

GetEffect(k) ==
    LET o == ops[k]
    IN  \/ /\ Queue = <<>> /\ o.kind \in Sending /\ o.hand = <<>>
           /\ Wrote(heap) /\ Became(k, "none", None, "-", None, None, <<>>, <<>>)
        \/ /\ Queue = <<>> /\ o.kind \in Sending
           /\ Wrote(heap) /\ Became(k, o.kind, o.item, "send", o.list, o.from, o.seen, o.hand)
        \/ /\ Queue # <<>> /\ o.kind \in {"add"} \cup Sending /\ cell \in Lists
           /\ Wrote(heap) /\ Became(k, o.kind, o.item, "change", cell, cell, Queue, o.hand)
        \/ /\ Queue = <<>> /\ o.kind = "add"
           /\ \E l : Fresh(l) /\ Changed(l, <<>>)
                     /\ Became(k, o.kind, o.item, "change", l, cell, <<>>, o.hand)
        \/ /\ o.kind = "remove"
           /\ \E l : Fresh(l) /\ Changed(l, RemoveFirst(Queue, o.item))
                     /\ Became(k, o.kind, o.item, "set", l, cell, Queue, o.hand)

LEMMA GetIs ==
    ASSUME ServerTyped, NEW k \in Ops, OpShape(ops[k]), Get(k)
    PROVE  GetEffect(k) /\ cell' = cell /\ ops[k].at = "get"
           /\ UNCHANGED <<output, accepted, sent, removed, raced, running>>
<1> DEFINE o == ops[k]
<1>1. /\ o \in Operation /\ o.at = "get" /\ o.kind \in {"add", "remove"} \cup Sending
      /\ UNCHANGED <<output, accepted, sent, removed, raced, running>>
      /\ cell \in Lists \cup {None} /\ heap \in [Lists -> Seq(Items)]
  BY DEF ServerTyped, Get, OpShape, ghosts
<1>2. CASE Queue = <<>> /\ o.kind \in Sending /\ o.hand = <<>>
  <2>1. End(k)
    BY <1>2 DEF Get, Sending
  <2> QED
    BY <1>1, <1>2, <2>1, EndEffect DEF GetEffect
<1>3. CASE Queue = <<>> /\ o.kind \in Sending /\ o.hand # <<>>
  <2> DEFINE p == [o EXCEPT !.at = "send"]
  <2>1. Step(k, p)
    BY <1>3 DEF Get, Sending
  <2>2. /\ p \in Operation /\ p.kind = o.kind /\ p.item = o.item /\ p.at = "send"
        /\ p.list = o.list /\ p.from = o.from /\ p.seen = o.seen /\ p.hand = o.hand
    BY <1>1 DEF Operation, Stages
  <2> HIDE DEF p, o
  <2>3. /\ Wrote(heap) /\ cell' = cell
        /\ Became(k, o.kind, o.item, "send", o.list, o.from, o.seen, o.hand)
    BY <1>1, <2>1, <2>2, StepIs DEF Step
  <2> QED
    BY <1>1, <1>3, <2>3 DEF GetEffect, o
<1>4. CASE ~(Queue = <<>> /\ o.kind \in Sending)
  <2> DEFINE fresh == o.kind = "remove" \/ Queue = <<>>
             list == IF fresh THEN FreshList ELSE cell
             rest == IF o.kind = "remove" THEN RemoveFirst(Queue, o.item) ELSE Queue
             at == IF o.kind = "remove" THEN "set" ELSE "change"
             p == [o EXCEPT !.list = list, !.from = cell, !.seen = Queue, !.at = at]
  <2>1. Write([heap EXCEPT ![list] = rest], cell, [ops EXCEPT ![k] = p])
    BY <1>1, <1>4 DEF Get, Sending
  <2>2. Fresh(FreshList) /\ FreshList \in Lists
    BY FreshFacts, FreshListFacts
  <2>3. ~fresh => cell \in Lists /\ Queue = heap[cell]
    BY <1>1, QueueType
  <2>4. list \in Lists /\ rest \in Seq(Items)
    BY <2>2, <2>3, QueueType, RemoveFirstFacts
  <2>5. /\ p \in Operation /\ p.kind = o.kind /\ p.item = o.item /\ p.at = at
        /\ p.list = list /\ p.from = cell /\ p.seen = Queue /\ p.hand = o.hand
    <3> HIDE DEF list
    <3>1. at \in Stages
      BY DEF Stages
    <3> HIDE DEF at
    <3> QED
      BY <1>1, <2>4, <3>1, QueueType DEF Operation
  <2>6. /\ Changed(list, rest) /\ cell' = cell
        /\ Became(k, o.kind, o.item, at, list, cell, Queue, o.hand)
    <3> HIDE DEF p, list, rest, at, o
    <3>1. [heap EXCEPT ![list] = rest] \in [Lists -> Seq(Items)]
      BY <1>1, <2>4
    <3> QED
      BY <1>1, <2>1, <2>5, <3>1, StepIs DEF Changed
  <2> HIDE DEF p
  <2>7. CASE o.kind = "remove"
    BY <1>1, <2>2, <2>6, <2>7 DEF GetEffect
  <2>8. CASE o.kind # "remove" /\ Queue = <<>>
    BY <1>1, <1>4, <2>2, <2>6, <2>8 DEF GetEffect
  <2>9. CASE o.kind # "remove" /\ Queue # <<>>
    <3>1. [heap EXCEPT ![cell] = Queue] = heap
      BY <1>1, <2>3, <2>9
    <3>2. Wrote(heap) /\ Became(k, o.kind, o.item, "change", cell, cell, Queue, o.hand)
      BY <2>6, <2>9, <3>1 DEF Changed
    <3> QED
      BY <1>1, <2>3, <2>6, <2>9, <3>2 DEF GetEffect
  <2> QED
    BY <2>7, <2>8, <2>9
<1> QED
  BY <1>2, <1>3, <1>4

ChangeEffect(k) ==
    LET o == ops[k]
        gone == cell # o.from
    IN  \/ /\ o.kind = "add"
           /\ Changed(o.list, Append(heap[o.list], o.item))
           /\ Became(k, o.kind, o.item, "set", o.list, o.from, o.seen, o.hand)
           /\ accepted' = accepted \cup {o.item} /\ raced' = (raced \/ gone)
        \/ /\ o.kind \in Sending /\ Wrote(heap)
           /\ Became(k, "none", None, "-", None, None, <<>>, <<>>)
           /\ accepted' = accepted /\ raced' = (raced \/ o.hand # <<>>)
        \/ /\ o.kind \in Sending
           /\ \E i \in ToSet(heap[o.list]) :
                 /\ Changed(o.list, RemoveFirst(heap[o.list], i))
                 /\ Became(k, o.kind, o.item, "set", o.list, o.from, o.seen, Append(o.hand, i))
           /\ accepted' = accepted /\ raced' = (raced \/ gone)

LEMMA ChangeIs ==
    ASSUME ServerTyped, NEW k \in Ops, OpShape(ops[k]), Change(k)
    PROVE  ChangeEffect(k) /\ cell' = cell /\ ops[k].at = "change" /\ ops[k].list \in Lists
           /\ UNCHANGED <<output, sent, removed, running>>
<1> DEFINE o == ops[k]
           list == heap[o.list]
<1>1. /\ o \in Operation /\ o.at = "change" /\ o.kind \in {"add"} \cup Sending
      /\ UNCHANGED <<output, sent, removed, running>>
      /\ cell \in Lists \cup {None} /\ heap \in [Lists -> Seq(Items)]
      /\ o.kind = "add" => o.item \in Items
      /\ o.list \in Lists
  BY DEF ServerTyped, Change, OpShape, Operation
<1>2. list \in Seq(Items)
  BY <1>1
<1>3. CASE o.kind = "add"
  <2> DEFINE p == [o EXCEPT !.at = "set"]
  <2>1. /\ Write([heap EXCEPT ![o.list] = Append(list, o.item)], cell, [ops EXCEPT ![k].at = "set"])
        /\ accepted' = accepted \cup {o.item} /\ raced' = (raced \/ cell # o.from)
    BY <1>3 DEF Change
  <2>2. /\ p \in Operation /\ p.kind = o.kind /\ p.item = o.item /\ p.at = "set"
        /\ p.list = o.list /\ p.from = o.from /\ p.seen = o.seen /\ p.hand = o.hand
    BY <1>1 DEF Operation, Stages
  <2>3. [ops EXCEPT ![k].at = "set"] = [ops EXCEPT ![k] = p]
    BY DEF ServerTyped
  <2>4. Append(list, o.item) \in Seq(Items)
    BY <1>1, <1>2, <1>3, AppendFacts
  <2>5. [heap EXCEPT ![o.list] = Append(list, o.item)] \in [Lists -> Seq(Items)]
    BY <1>1, <2>4
  <2>6. Write([heap EXCEPT ![o.list] = Append(list, o.item)], cell, [ops EXCEPT ![k] = p])
    BY <2>1, <2>3
  <2> HIDE DEF p, o, list
  <2>7. /\ Changed(o.list, Append(list, o.item)) /\ cell' = cell
        /\ Became(k, o.kind, o.item, "set", o.list, o.from, o.seen, o.hand)
    BY <1>1, <2>2, <2>5, <2>6, StepIs DEF Changed
  <2> QED
    BY <1>1, <1>3, <2>1, <2>7 DEF ChangeEffect, o, list
<1>4. CASE /\ o.kind \in Sending
           /\ list = <<>> \/ (o.kind = "send" /\ o.item \notin ToSet(list))
  <2>1. End(k) /\ raced' = (raced \/ o.hand # <<>>) /\ accepted' = accepted
    BY <1>4 DEF Change, Sending
  <2> QED
    BY <1>1, <1>4, <2>1, EndEffect DEF ChangeEffect
<1>5. CASE /\ o.kind \in Sending
           /\ ~(list = <<>> \/ (o.kind = "send" /\ o.item \notin ToSet(list)))
  <2> DEFINE i == IF o.kind \in {"add", "send"} THEN o.item ELSE Head(list)
             p == [o EXCEPT !.at = "set", !.hand = Append(@, i)]
  <2>1. /\ Write([heap EXCEPT ![o.list] = RemoveFirst(list, i)], cell, [ops EXCEPT ![k] = p])
        /\ accepted' = accepted /\ raced' = (raced \/ cell # o.from)
    BY <1>5 DEF Change, Sending
  <2>2. i \in ToSet(list) /\ i \in Items
    BY <1>2, <1>5, ToSetFacts DEF Sending
  <2> HIDE DEF i
  <2>3. Append(o.hand, i) \in Seq(Items)
    BY <1>1, <2>2, AppendFacts DEF Operation
  <2>4. /\ p \in Operation /\ p.kind = o.kind /\ p.item = o.item /\ p.at = "set"
        /\ p.list = o.list /\ p.from = o.from /\ p.seen = o.seen /\ p.hand = Append(o.hand, i)
    BY <1>1, <2>3 DEF Operation, Stages
  <2>5. RemoveFirst(list, i) \in Seq(Items)
    BY <1>2, RemoveFirstFacts
  <2>6. [heap EXCEPT ![o.list] = RemoveFirst(list, i)] \in [Lists -> Seq(Items)]
    BY <1>1, <2>5
  <2> HIDE DEF p, o, list
  <2>7. /\ Changed(o.list, RemoveFirst(list, i)) /\ cell' = cell
        /\ Became(k, o.kind, o.item, "set", o.list, o.from, o.seen, Append(o.hand, i))
    BY <1>1, <2>1, <2>4, <2>6, StepIs DEF Changed
  <2> QED
    BY <1>1, <1>5, <2>1, <2>2, <2>7 DEF ChangeEffect, o, list
<1> QED
  BY <1>1, <1>3, <1>4, <1>5

SetEffect(k) ==
    LET o == ops[k]
    IN  \/ /\ o.kind = "clear"
           /\ Fresh(cell') /\ Wrote(heap)
           /\ Became(k, o.kind, o.item, "publish", None, None, <<>>, o.hand)
           /\ raced' = raced /\ removed' = removed \cup ToSet(Queue)
        \/ /\ o.kind # "clear" /\ o.list \in Lists
           /\ cell' = o.list /\ Wrote(heap)
           /\ Became(k, o.kind, o.item, "sync", None, None, <<>>, o.hand)
           /\ raced' = (raced \/ cell # o.from \/ (o.list # o.from /\ Queue # o.seen))
           /\ removed' = removed \cup (IF o.kind = "remove" THEN {o.item} \cap ToSet(Queue) ELSE {})

LEMMA SetIs ==
    ASSUME ServerTyped, GhostsTyped, NEW k \in Ops, OpShape(ops[k]), Set(k)
    PROVE  SetEffect(k) /\ ops[k].at = "set" /\ cell' \in Lists
           /\ UNCHANGED <<output, accepted, sent, running>>
<1> DEFINE o == ops[k]
           list == IF o.kind = "clear" THEN FreshList ELSE o.list
           at == IF o.kind = "clear" THEN "publish" ELSE "sync"
           p == [o EXCEPT !.list = None, !.from = None, !.seen = <<>>, !.at = at]
<1>1. /\ o \in Operation /\ o.at = "set"
      /\ UNCHANGED <<output, accepted, sent, running>>
      /\ cell \in Lists \cup {None} /\ heap \in [Lists -> Seq(Items)]
      /\ o.kind # "clear" => o.list \in Lists
  BY DEF ServerTyped, Set, OpShape, Operation
<1>2. /\ Write(heap, list, [ops EXCEPT ![k].list = None, ![k].from = None, ![k].seen = <<>>,
                                       ![k].at = at])
      /\ raced' = (raced \/ (o.kind # "clear"
                               /\ (cell # o.from \/ (list # o.from /\ Queue # o.seen))))
      /\ removed' = removed \cup CASE o.kind = "clear" -> ToSet(Queue)
                                   [] o.kind = "remove" -> {o.item} \cap ToSet(Queue)
                                   [] OTHER -> {}
  BY DEF Set
<1>3. Fresh(FreshList) /\ FreshList \in Lists
  BY FreshFacts, FreshListFacts
<1>4. list \in Lists
  BY <1>1, <1>3
<1>5. [ops EXCEPT ![k].list = None, ![k].from = None, ![k].seen = <<>>, ![k].at = at]
        = [ops EXCEPT ![k] = p]
  BY DEF ServerTyped
<1>6. /\ p \in Operation /\ p.kind = o.kind /\ p.item = o.item /\ p.at = at
      /\ p.list = None /\ p.from = None /\ p.seen = <<>> /\ p.hand = o.hand
  <2>1. at \in Stages
    BY DEF Stages
  <2> HIDE DEF at
  <2> QED
    BY <1>1, <2>1, EmptyFacts DEF Operation
<1>7. Write(heap, list, [ops EXCEPT ![k] = p])
  BY <1>2, <1>5
<1>8. /\ Wrote(heap) /\ cell' = list
      /\ Became(k, o.kind, o.item, at, None, None, <<>>, o.hand)
  <2> HIDE DEF p, list, at, o
  <2> QED
    BY <1>1, <1>4, <1>6, <1>7, StepIs
<1>9. CASE o.kind = "clear"
  <2>1. raced' = raced
    BY <1>2, <1>9, Zenon DEF GhostsTyped
  <2>2. removed' = removed \cup ToSet(Queue)
    BY <1>2, <1>9
  <2> QED
    BY <1>1, <1>3, <1>8, <1>9, <2>1, <2>2 DEF SetEffect
<1>10. CASE o.kind # "clear"
  <2>1. raced' = (raced \/ cell # o.from \/ (o.list # o.from /\ Queue # o.seen))
    BY <1>2, <1>10
  <2>2. removed' = removed \cup (IF o.kind = "remove" THEN {o.item} \cap ToSet(Queue) ELSE {})
    BY <1>2, <1>10
  <2> QED
    BY <1>1, <1>8, <1>10, <2>1, <2>2 DEF SetEffect
<1> QED
  BY <1>9, <1>10

LEMMA SyncIs ==
    ASSUME ServerTyped, NEW k \in Ops, Sync(k)
    PROVE  /\ Wrote(heap) /\ cell' = cell /\ ops[k].at = "sync"
           /\ Became(k, ops[k].kind, ops[k].item, "publish", ops[k].list, ops[k].from, Queue, ops[k].hand)
           /\ UNCHANGED <<output, accepted, sent, removed, raced, running>>
<1> DEFINE o == ops[k]
           p == [o EXCEPT !.at = "publish", !.seen = Queue]
<1>1. /\ o \in Operation /\ o.at = "sync"
      /\ UNCHANGED <<output, accepted, sent, removed, raced, running>>
      /\ cell \in Lists \cup {None} /\ heap \in [Lists -> Seq(Items)]
  BY DEF ServerTyped, Sync, ghosts
<1>2. /\ p \in Operation /\ p.kind = o.kind /\ p.item = o.item /\ p.at = "publish"
      /\ p.list = o.list /\ p.from = o.from /\ p.seen = Queue /\ p.hand = o.hand
  BY <1>1, QueueType DEF Operation, Stages
<1>3. Write(heap, cell, [ops EXCEPT ![k] = p])
  BY DEF Sync, Step
<1> HIDE DEF p
<1> QED
  BY <1>1, <1>2, <1>3, StepIs

PublishEffect(k) ==
    LET o == ops[k]
    IN  \/ /\ o.kind \in {"add", "remove", "clear"}
           /\ Became(k, "none", None, "-", None, None, <<>>, <<>>)
        \/ /\ o.kind \notin {"add", "remove", "clear"}
           /\ \E at \in {"get", "send"} :
                 /\ at = "get" => o.kind = "all"
                 /\ Became(k, o.kind, o.item, at, o.list, o.from, <<>>, o.hand)

LEMMA PublishIs ==
    ASSUME ServerTyped, NEW k \in Ops, Publish(k)
    PROVE  /\ PublishEffect(k) /\ Wrote(heap) /\ cell' = cell /\ ops[k].at = "publish"
           /\ output' = ops[k].seen /\ raced' = (raced \/ ops[k].seen # Queue)
           /\ UNCHANGED <<accepted, sent, removed, running>>
<1> DEFINE o == ops[k]
           at == IF o.kind = "all" THEN "get" ELSE "send"
           p == [o EXCEPT !.seen = <<>>, !.at = at]
<1>1. /\ o \in Operation /\ o.at = "publish" /\ output' = o.seen
      /\ raced' = (raced \/ o.seen # Queue)
      /\ UNCHANGED <<accepted, sent, removed, running>>
      /\ cell \in Lists \cup {None} /\ heap \in [Lists -> Seq(Items)]
  BY DEF ServerTyped, Publish
<1>2. CASE o.kind \in {"add", "remove", "clear"}
  <2>1. End(k)
    BY <1>2 DEF Publish
  <2> QED
    BY <1>1, <1>2, <2>1, EndEffect DEF PublishEffect
<1>3. CASE o.kind \notin {"add", "remove", "clear"}
  <2>1. Write(heap, cell, [ops EXCEPT ![k] = p])
    BY <1>3 DEF Publish, Step
  <2>2. at \in Stages /\ at \in {"get", "send"} /\ (at = "get" => o.kind = "all")
    BY DEF Stages
  <2> HIDE DEF at
  <2>3. /\ p \in Operation /\ p.kind = o.kind /\ p.item = o.item /\ p.at = at
        /\ p.list = o.list /\ p.from = o.from /\ p.seen = <<>> /\ p.hand = o.hand
    BY <1>1, <2>2, EmptyFacts DEF Operation
  <2> HIDE DEF p
  <2>4. /\ Wrote(heap) /\ cell' = cell
        /\ Became(k, o.kind, o.item, at, o.list, o.from, <<>>, o.hand)
    BY <1>1, <2>1, <2>3, StepIs
  <2> QED
    BY <1>1, <1>3, <2>2, <2>4 DEF PublishEffect
<1> QED
  BY <1>2, <1>3

LEMMA SendIs ==
    ASSUME ServerTyped, GhostsTyped, NEW k \in Ops, Send(k)
    PROVE  /\ Wrote(heap) /\ cell' = cell /\ ops[k].at = "send"
           /\ Became(k, "none", None, "-", None, None, <<>>, <<>>)
           /\ sent' = [i \in Items |-> IF i \in ToSet(ops[k].hand) THEN sent[i] + 1 ELSE sent[i]]
           /\ UNCHANGED <<output, accepted, removed, raced>>
BY EndEffect DEF Send, Communicate

\* A request of the user or a hook makes an operation, and leaves the tab as it is.
Starts(kind, i) ==
    /\ kind \in {"remove", "clear", "send", "all", "next"} /\ i \in Items \cup {None}
    /\ Begin(kind, i)
    /\ UNCHANGED <<output, ghosts, tab>>

\* The tab gives up a message: one it has pending, or the one it adds.
GaveUp(i) ==
    /\ givenUp' = givenUp \cup {i} /\ pending \subseteq pending' \cup {i} /\ pending' \subseteq pending
    /\ \/ adding' = adding /\ UNCHANGED server
       \/ /\ i = adding /\ adding' = None /\ UNCHANGED output
          /\ \/ UNCHANGED server
             \/ \E k \in Ops : AddOp(k, i) /\ ops[k].at = "get" /\ End(k)
    /\ UNCHANGED <<ghosts, typed, direct, chain, shown>>

Operates(k) == ~raced /\ UNCHANGED tab /\ (Get(k) \/ Change(k) \/ Set(k) \/ Sync(k) \/ Publish(k) \/ Send(k))

\* All that a step can be, as far as messages are concerned.
LEMMA NextCases ==
    ASSUME Typed, [Next]_vars
    PROVE  \/ \E k \in Ops : Operates(k)
           \/ \E kind, i : Starts(kind, i)
           \/ TypeMessage \/ DirectArrives \/ DirectFails \/ AddStarts \/ AddReturns \/ Snapshot
           \/ \E i \in Items : GaveUp(i)
           \/ UNCHANGED <<server, ghosts, tab>>
<1>1. CASE Operate
  BY <1>1 DEF Operate, Operates
<1>2. CASE ProcessQueue \/ RunEnds \/ DelayedSendGivesUp
  BY <1>2 DEF ProcessQueue, RunEnds, DelayedSendGivesUp
<1>3. CASE DelayedSend
  BY <1>3 DEF DelayedSend, Starts
<1>4. CASE AddFails
  <2>1. adding \in Items
    BY <1>4 DEF AddFails, Typed, TabTyped
  <2>2. GaveUp(adding)
    BY <1>4 DEF AddFails, AddGivenUp, GaveUp, server
  <2> QED
    BY <2>1, <2>2
<1>5. ASSUME RemovePending PROVE \E i \in Items : GaveUp(i)
  <2>1. PICK i \in pending :
          /\ pending' = pending \ {i}
          /\ IF adding = i THEN AddGivenUp
             ELSE givenUp' = givenUp \cup {i} /\ UNCHANGED <<server, adding>>
    BY <1>5 DEF RemovePending
  <2>2. UNCHANGED <<ghosts, typed, direct, chain, shown>>
    BY <1>5 DEF RemovePending
  <2>3. GaveUp(i)
    BY <2>1, <2>2 DEF AddGivenUp, GaveUp, server
  <2> QED
    BY <2>1, <2>3 DEF Typed, TabTyped
<1>6. CASE RemoveItem
  <2>1. CASE RemovePending
    BY <2>1, <1>5
  <2>2. CASE \E i \in ToSet(shown) \ pending : Begin("remove", i) /\ UNCHANGED <<output, agent, ghosts, tab>>
    <3>1. ToSet(shown) \subseteq Items
      BY ToSetFacts DEF Typed, TabTyped
    <3> QED
      BY <2>2, <3>1 DEF Starts
  <2> QED
    BY <1>6, <2>1, <2>2 DEF RemoveItem
<1>7. ASSUME NEW kind \in {"clear", "send", "all"}, NEW i \in Items \cup {None}, Click(kind, i)
      PROVE  Starts(kind, i)
  BY <1>7 DEF Click, Starts
<1>8. CASE ClearQueue \/ SendAll
  BY <1>7, <1>8 DEF ClearQueue, SendAll
<1>9. CASE SendItem
  <2>1. ToSet(shown) \cup pending \subseteq Items
    BY ToSetFacts DEF Typed, TabTyped
  <2> QED
    BY <1>7, <1>9, <2>1 DEF SendItem
<1>10. CASE UNCHANGED vars
  BY <1>10 DEF vars
<1> QED
  BY <1>1, <1>2, <1>3, <1>4, <1>6, <1>8, <1>9, <1>10 DEF Next

-----------------------------------------------------------------------------
(* The types                                                               *)

LEMMA TypesAtFirst == ASSUME Init PROVE Typed /\ AgentTyped
<1>1. heap \in [Lists -> Seq(Items)] /\ cell = None /\ output = <<>>
  BY EmptyFacts DEF Init
<1>2. ops \in [Ops -> Operation]
  BY NoOpFacts DEF Init
<1>3. ServerTyped
  BY <1>1, <1>2, EmptyFacts DEF ServerTyped
<1>4. sent \in [Items -> Nat] /\ typed \in 0..MaxItems /\ adding = None
  BY Bounds DEF Init, None
<1>5. GhostsTyped
  BY <1>4 DEF Init, GhostsTyped
<1>6. TabTyped
  BY <1>4, EmptyFacts DEF Init, TabTyped
<1>7. senders \in 0..MaxSenders /\ running \in {"no", "yes", "ending"}
  BY Bounds DEF Init
<1>8. busy \in BOOLEAN
  BY DEF Init
<1> QED
  BY <1>3, <1>5, <1>6, <1>7, <1>8 DEF Typed, AgentTyped

LEMMA OperateTyped ==
    ASSUME Typed, ListsInv, NEW k \in Ops, Operates(k)
    PROVE  Typed'
<1>1. ops[k] \in Operation /\ OpShape(ops[k]) /\ TabTyped'
  BY DEF Typed, ServerTyped, ListsInv, Operates, tab, TabTyped
<1>2. CASE Get(k)
  <2>1. /\ GetEffect(k) /\ cell' = cell
        /\ UNCHANGED <<output, accepted, sent, removed, raced, running>>
    BY <1>1, <1>2, GetIs DEF Typed
  <2>2. heap' \in [Lists -> Seq(Items)] /\ ops' \in [Ops -> Operation]
    BY <2>1 DEF GetEffect, Changed, Wrote, Became
  <2> QED
    BY <1>1, <2>1, <2>2 DEF Typed, ServerTyped, GhostsTyped
<1>3. CASE Change(k)
  <2>1. /\ ChangeEffect(k) /\ cell' = cell
        /\ UNCHANGED <<output, sent, removed, running>>
    BY <1>1, <1>3, ChangeIs DEF Typed
  <2>2. heap' \in [Lists -> Seq(Items)] /\ ops' \in [Ops -> Operation]
    BY <2>1 DEF ChangeEffect, Changed, Wrote, Became
  <2>3. accepted' \subseteq Items
    BY <1>1, <2>1 DEF ChangeEffect, OpShape, Typed, GhostsTyped
  <2>4. raced' \in BOOLEAN
    <3>1. \E b \in BOOLEAN : raced' = b
      BY <2>1, Zenon DEF ChangeEffect
    <3> QED
      BY <3>1
  <2> QED
    BY <1>1, <2>1, <2>2, <2>3, <2>4 DEF Typed, ServerTyped, GhostsTyped
<1>4. CASE Set(k)
  <2>1. SetEffect(k) /\ cell' \in Lists /\ UNCHANGED <<output, accepted, sent, running>>
    BY <1>1, <1>4, SetIs DEF Typed
  <2>2. heap' \in [Lists -> Seq(Items)] /\ ops' \in [Ops -> Operation]
    BY <2>1 DEF SetEffect, Changed, Wrote, Became
  <2>3. ToSet(Queue) \subseteq Items
    BY QueueType, ToSetFacts DEF Typed
  <2>4. removed' \subseteq Items
    BY <2>1, <2>3 DEF SetEffect, Typed, GhostsTyped
  <2>5. raced' \in BOOLEAN
    <3>1. raced \in BOOLEAN
      BY DEF Typed, GhostsTyped
    <3>2. \E b \in BOOLEAN : raced' = b
      BY <2>1, <3>1, Zenon DEF SetEffect
    <3> QED
      BY <3>2
  <2> QED
    BY <1>1, <2>1, <2>2, <2>4, <2>5 DEF Typed, ServerTyped, GhostsTyped
<1>5. CASE Sync(k)
  <2>1. /\ cell' = cell /\ heap' \in [Lists -> Seq(Items)] /\ ops' \in [Ops -> Operation]
        /\ UNCHANGED <<output, accepted, sent, removed, raced, running>>
    BY <1>5, SyncIs DEF Typed, Wrote, Became
  <2> QED
    BY <1>1, <2>1 DEF Typed, ServerTyped, GhostsTyped
<1>6. CASE Publish(k)
  <2>1. /\ PublishEffect(k) /\ Wrote(heap) /\ cell' = cell
        /\ output' = ops[k].seen /\ raced' = (raced \/ ops[k].seen # Queue)
        /\ UNCHANGED <<accepted, sent, removed, running>>
    BY <1>6, PublishIs DEF Typed
  <2>2. heap' \in [Lists -> Seq(Items)] /\ ops' \in [Ops -> Operation]
    BY <2>1 DEF PublishEffect, Wrote, Became
  <2>3. raced' \in BOOLEAN
    <3>1. \E b \in BOOLEAN : raced' = b
      BY <2>1, Zenon
    <3> QED
      BY <3>1
  <2>4. output' \in Seq(Items)
    BY <1>1, <2>1 DEF Operation
  <2> QED
    BY <1>1, <2>1, <2>2, <2>3, <2>4 DEF Typed, ServerTyped, GhostsTyped
<1>7. CASE Send(k)
  <2>1. /\ cell' = cell /\ heap' \in [Lists -> Seq(Items)] /\ ops' \in [Ops -> Operation]
        /\ sent' = [i \in Items |-> IF i \in ToSet(ops[k].hand) THEN sent[i] + 1 ELSE sent[i]]
        /\ UNCHANGED <<output, accepted, removed, raced>>
    BY <1>7, SendIs DEF Typed, Wrote, Became
  <2>2. sent' \in [Items -> Nat]
    BY <2>1 DEF Typed, GhostsTyped
  <2> QED
    BY <1>1, <2>1, <2>2 DEF Typed, ServerTyped, GhostsTyped
<1> QED
  BY <1>2, <1>3, <1>4, <1>5, <1>6, <1>7 DEF Operates

LEMMA TypedStep ==
    ASSUME Typed, ListsInv, [Next]_vars
    PROVE  Typed'
<1>1. ASSUME NEW kind, NEW i, Starts(kind, i) PROVE Typed'
  <2>1. /\ kind \in Kinds \ {"none"} /\ i \in Items \cup {None} /\ Begin(kind, i)
        /\ UNCHANGED <<output, ghosts, tab>>
    BY <1>1 DEF Starts, Kinds
  <2>2. heap' \in [Lists -> Seq(Items)] /\ ops' \in [Ops -> Operation] /\ cell' = cell
    BY <2>1, BeginEffect DEF Typed, Wrote, Became
  <2> QED
    BY <2>1, <2>2 DEF Typed, ServerTyped, GhostsTyped, TabTyped, ghosts, tab
<1>2. CASE TypeMessage
  <2>1. typed' \in 0..MaxItems /\ typed' \in Items /\ typed' = typed + 1
    BY <1>2, Bounds DEF TypeMessage, Typed, TabTyped, Items
  <2>2. chain' \in Seq(Items) /\ pending' \subseteq Items /\ direct' \subseteq Items
    <3>1. Append(chain, typed + 1) \in Seq(Items)
      BY <2>1, AppendFacts DEF Typed, TabTyped
    <3>2. \/ pending' = pending \cup {typed + 1} /\ chain' = Append(chain, typed + 1)
             /\ UNCHANGED direct
          \/ direct' = direct \cup {typed + 1} /\ UNCHANGED <<pending, chain>>
      BY <1>2 DEF TypeMessage
    <3> QED
      BY <2>1, <3>1, <3>2 DEF Typed, TabTyped
  <2>3. UNCHANGED <<server, ghosts, adding, givenUp, shown>>
    BY <1>2 DEF TypeMessage
  <2> QED
    BY <2>1, <2>2, <2>3 DEF Typed, ServerTyped, GhostsTyped, TabTyped, server, ghosts
<1>3. CASE DirectArrives
  BY <1>3 DEF DirectArrives, Communicate, Typed, ServerTyped, GhostsTyped, TabTyped, server
<1>4. CASE DirectFails
  BY <1>4 DEF DirectFails, Typed, ServerTyped, GhostsTyped, TabTyped, server, ghosts
<1>5. CASE AddStarts
  <2>1. /\ chain # <<>> /\ chain' = Tail(chain)
        /\ UNCHANGED <<ghosts, typed, direct, pending, givenUp, shown, output>>
        /\ \/ UNCHANGED <<server, adding>>
           \/ adding' = Head(chain) /\ Begin("add", Head(chain))
    BY <1>5 DEF AddStarts, server
  <2>2. Head(chain) \in Items /\ Tail(chain) \in Seq(Items)
    BY <2>1 DEF Typed, TabTyped
  <2>3. CASE UNCHANGED <<server, adding>>
    BY <2>1, <2>2, <2>3 DEF Typed, ServerTyped, GhostsTyped, TabTyped, server, ghosts
  <2>4. CASE adding' = Head(chain) /\ Begin("add", Head(chain))
    <3>1. heap' \in [Lists -> Seq(Items)] /\ ops' \in [Ops -> Operation] /\ cell' = cell
      BY <2>2, <2>4, BeginEffect DEF Typed, Wrote, Became, Kinds
    <3> QED
      BY <2>1, <2>2, <2>4, <3>1 DEF Typed, ServerTyped, GhostsTyped, TabTyped, ghosts
  <2> QED
    BY <2>1, <2>3, <2>4
<1>6. CASE AddReturns
  BY <1>6 DEF AddReturns, Typed, ServerTyped, GhostsTyped, TabTyped, server, ghosts
<1>7. CASE Snapshot
  BY <1>7 DEF Snapshot, Typed, ServerTyped, GhostsTyped, TabTyped, server, ghosts
<1>8. ASSUME NEW i \in Items, GaveUp(i) PROVE Typed'
  <2>1. /\ givenUp' \subseteq Items /\ pending' \subseteq Items /\ adding' \in Items \cup {None}
        /\ UNCHANGED <<ghosts, typed, direct, chain, shown, output>>
        /\ UNCHANGED <<heap, cell, ops>> \/ \E k \in Ops : End(k)
    BY <1>8 DEF GaveUp, Typed, TabTyped, server
  <2>2. heap' \in [Lists -> Seq(Items)] /\ ops' \in [Ops -> Operation] /\ cell' = cell
    BY <2>1, EndEffect DEF Typed, ServerTyped, Wrote, Became
  <2> QED
    BY <2>1, <2>2 DEF Typed, ServerTyped, GhostsTyped, TabTyped, ghosts
<1>9. CASE UNCHANGED <<server, ghosts, tab>>
  BY <1>9 DEF Typed, ServerTyped, GhostsTyped, TabTyped, server, ghosts, tab
<1> QED
  BY <1>1, <1>2, <1>3, <1>4, <1>5, <1>6, <1>7, <1>8, <1>9, NextCases, OperateTyped

LEMMA AgentTypedStep ==
    ASSUME Typed, ListsInv, AgentTyped, [Next]_vars
    PROVE  AgentTyped'
<1>0. MaxSenders \in Nat /\ senders \in Nat
  BY Bounds DEF AgentTyped
<1>1. CASE Operate
  <2>1. UNCHANGED <<senders, busy>>
    BY <1>1 DEF Operate, tab
  <2>2. running' \in {running, "yes"}
    BY <1>1 DEF Operate, Get, Change, Set, Sync, Publish, Send, Communicate
  <2> QED
    BY <2>1, <2>2 DEF AgentTyped
<1>2. CASE ProcessQueue \/ RunEnds \/ DelayedSend \/ DelayedSendGivesUp
  BY <1>0, <1>2 DEF ProcessQueue, RunEnds, DelayedSend, DelayedSendGivesUp, AgentTyped, tab
<1>3. CASE TypeMessage \/ DirectFails \/ AddStarts \/ AddReturns \/ AddFails
  BY <1>3 DEF TypeMessage, DirectFails, AddStarts, AddReturns, AddFails, AgentTyped, agent
<1>4. CASE DirectArrives
  BY <1>4 DEF DirectArrives, Communicate, AgentTyped
<1>5. CASE RemoveItem \/ ClearQueue \/ SendItem \/ SendAll
  BY <1>5 DEF RemoveItem, RemovePending, ClearQueue, SendItem, SendAll, Click, AgentTyped, agent, tab
<1>6. CASE Snapshot
  BY <1>6 DEF Snapshot, AgentTyped, agent
<1>7. CASE UNCHANGED vars
  BY <1>7 DEF vars, agent, tab, AgentTyped
<1> QED
  BY <1>1, <1>2, <1>3, <1>4, <1>5, <1>6, <1>7 DEF Next

-----------------------------------------------------------------------------
(* The lists of the operations                                             *)

\* A step of operation k keeps what is said of the lists, if it leaves the own lists of the
\* others alone and what it has afterwards is as it should be.
LEMMA ListsKept ==
    ASSUME ServerTyped, ListsInv, NEW k \in Ops, NEW h, Wrote(h),
           NEW kind, NEW item, NEW at, NEW list, NEW from, NEW seen, NEW hand,
           Became(k, kind, item, at, list, from, seen, hand),
           cell' \in Lists \cup {None}, OpShape(ops'[k]),
           \A j \in Ops \ {k} : Own(ops[j]) =>
              /\ h[ops[j].list] = heap[ops[j].list]
              /\ ops[j].list # list /\ ops[j].list # from /\ ops[j].list # cell',
           Own(ops'[k]) =>
              /\ list # cell' /\ OwnHas(ops'[k], h[list])
              /\ \A j \in Ops \ {k} : list # ops[j].list /\ list # ops[j].from
    PROVE  ListsInv'
<1>1. /\ ops' \in [Ops -> Operation] /\ ops'[k].list = list /\ ops'[k].from = from
      /\ \A j \in Ops \ {k} : ops'[j] = ops[j]
  BY DEF Became
<1>2. \A l \in Lists : heap'[l] = IF l \in Held(cell', ops') THEN h[l] ELSE <<>>
  BY DEF Wrote
<1>3. \A j \in Ops : OpShape(ops'[j])
  BY <1>1 DEF ListsInv
<1>4. UnheldAreEmpty'
  BY <1>2 DEF UnheldAreEmpty
<1>5. ASSUME NEW j \in Ops, Own(ops'[j])
      PROVE  /\ ops'[j].list # cell'
             /\ \A m \in Ops \ {j} : ops'[j].list # ops'[m].list /\ ops'[j].list # ops'[m].from
             /\ OwnHas(ops'[j], h[ops'[j].list])
  <2>1. CASE j = k
    BY <1>1, <1>5, <2>1
  <2>2. CASE j # k
    <3>1. j \in Ops \ {k} /\ ops'[j] = ops[j] /\ Own(ops[j])
      BY <1>1, <1>5, <2>2
    <3>2. /\ h[ops[j].list] = heap[ops[j].list]
          /\ ops[j].list # list /\ ops[j].list # from /\ ops[j].list # cell'
      BY <3>1
    <3>3. OwnHas(ops[j], heap[ops[j].list])
      BY <3>1 DEF ListsInv, OwnContent
    <3>4. \A m \in Ops \ {j} : ops[j].list # ops[m].list /\ ops[j].list # ops[m].from
      BY <3>1 DEF ListsInv, OwnIsPrivate
    <3> QED
      BY <1>1, <3>1, <3>2, <3>3, <3>4
  <2> QED
    BY <2>1, <2>2
<1>6. OwnIsPrivate'
  BY <1>5 DEF OwnIsPrivate
<1>7. OwnContent'
  <2>1. SUFFICES ASSUME NEW j \in Ops, Own(ops'[j]) PROVE OwnHas(ops'[j], heap'[ops'[j].list])
    BY DEF OwnContent
  <2>2. ops'[j].list \in Lists
    BY <1>1, <2>1 DEF Own, Operation
  <2>3. heap'[ops'[j].list] = h[ops'[j].list]
    BY <1>2, <2>2 DEF Held
  <2> QED
    BY <1>5, <2>1, <2>3
<1> QED
  BY <1>3, <1>4, <1>6, <1>7 DEF ListsInv

\* A step that only reads lists, or lets them go.
LEMMA ListsRead ==
    ASSUME ServerTyped, ListsInv, NEW k \in Ops, Wrote(heap), cell' = cell,
           NEW kind, NEW item, NEW at, NEW list, NEW from, NEW seen, NEW hand,
           Became(k, kind, item, at, list, from, seen, hand), OpShape(ops'[k]),
           list \in {None, cell, ops[k].list}, from \in {None, cell, ops[k].from},
           ~Own(ops'[k])
    PROVE  ListsInv'
<1>1. cell' \in Lists \cup {None}
  BY DEF ServerTyped
<1>2. ASSUME NEW j \in Ops \ {k}, Own(ops[j])
      PROVE  /\ ops[j].list # list /\ ops[j].list # from /\ ops[j].list # cell'
  <2>1. /\ ops[j].list # cell /\ ops[j].list # None
        /\ ops[j].list # ops[k].list /\ ops[j].list # ops[k].from
    BY <1>2 DEF ListsInv, OwnIsPrivate, Own
  <2> QED
    BY <2>1
<1> QED
  BY <1>1, <1>2, ListsKept

LEMMA NobodyOwns == ASSUME NEW o, o.list = None \/ o.list = o.from PROVE ~Own(o)
BY DEF Own

\* A new list is nobody's own.
LEMMA ListsMade ==
    ASSUME ServerTyped, ListsInv, NEW k \in Ops, NEW l, Fresh(l), NEW s, Changed(l, s),
           NEW kind, NEW item, NEW at, NEW seen, NEW hand,
           Became(k, kind, item, at, l, cell, seen, hand), OpShape(ops'[k]), cell' = cell,
           OwnHas(ops'[k], s)
    PROVE  ListsInv'
<1> DEFINE h == [heap EXCEPT ![l] = s]
<1>1. /\ cell' \in Lists \cup {None} /\ heap \in [Lists -> Seq(Items)]
      /\ l \in Lists /\ l # cell /\ \A j \in Ops : ops[j].list # l /\ ops[j].from # l
  BY DEF ServerTyped, Fresh
<1>2. Wrote(h) /\ h[l] = s /\ \A m \in Lists : m # l => h[m] = heap[m]
  BY <1>1 DEF Changed
<1> HIDE DEF h
<1>3. ASSUME NEW j \in Ops \ {k}, Own(ops[j])
      PROVE  /\ h[ops[j].list] = heap[ops[j].list]
             /\ ops[j].list # l /\ ops[j].list # cell /\ ops[j].list # cell'
  <2>1. ops[j].list # cell /\ ops[j].list \in Lists
    BY <1>3 DEF ListsInv, OwnIsPrivate, Own, ServerTyped, Operation
  <2> QED
    BY <1>1, <1>2, <2>1
<1> QED
  BY <1>1, <1>2, <1>3, ListsKept

LEMMA OperateLists ==
    ASSUME Typed, ListsInv, NEW k \in Ops, Operates(k)
    PROVE  ListsInv'
<1> DEFINE o == ops[k]
<1>1. /\ ServerTyped /\ GhostsTyped /\ OpShape(o) /\ o \in Operation
      /\ cell \in Lists \cup {None} /\ heap \in [Lists -> Seq(Items)]
  BY DEF Typed, ServerTyped, ListsInv
<1>2. CASE Get(k)
  <2>1. GetEffect(k) /\ cell' = cell /\ o.at = "get"
    BY <1>1, <1>2, GetIs
  <2>2. CASE /\ o.kind \in Sending /\ o.hand = <<>>
             /\ Wrote(heap) /\ Became(k, "none", None, "-", None, None, <<>>, <<>>)
    <3>1. OpShape(ops'[k]) /\ ~Own(ops'[k])
      BY <2>2, NobodyOwns DEF Became, OpShape, Sending
    <3> QED
      BY <1>1, <2>1, <2>2, <3>1, ListsRead
  <2>3. CASE /\ o.kind \in Sending
             /\ Wrote(heap) /\ Became(k, o.kind, o.item, "send", o.list, o.from, o.seen, o.hand)
    <3>1. OpShape(ops'[k]) /\ ~Own(ops'[k])
      BY <1>1, <2>1, <2>3 DEF Became, OpShape, Sending, Own
    <3> QED
      BY <1>1, <2>1, <2>3, <3>1, ListsRead
  <2>4. CASE /\ o.kind \in {"add"} \cup Sending /\ cell \in Lists
             /\ Wrote(heap) /\ Became(k, o.kind, o.item, "change", cell, cell, Queue, o.hand)
    <3>1. OpShape(ops'[k]) /\ ~Own(ops'[k])
      BY <1>1, <2>4, Bounds DEF Became, OpShape, Sending, Own
    <3> QED
      BY <1>1, <2>1, <2>4, <3>1, ListsRead
  <2>5. CASE /\ Queue = <<>> /\ o.kind = "add"
             /\ \E l : Fresh(l) /\ Changed(l, <<>>)
                       /\ Became(k, o.kind, o.item, "change", l, cell, <<>>, o.hand)
    <3>1. PICK l : Fresh(l) /\ Changed(l, <<>>)
                   /\ Became(k, o.kind, o.item, "change", l, cell, <<>>, o.hand)
      BY <2>5
    <3>2. OpShape(ops'[k])
      BY <1>1, <2>1, <2>5, <3>1, Bounds DEF Became, OpShape, Sending, Fresh
    <3>3. OwnHas(ops'[k], <<>>)
      BY <2>5, <3>1 DEF Became, OwnHas
    <3> QED
      BY <1>1, <2>1, <3>1, <3>2, <3>3, ListsMade
  <2>6. CASE /\ o.kind = "remove"
             /\ \E l : Fresh(l) /\ Changed(l, RemoveFirst(Queue, o.item))
                       /\ Became(k, o.kind, o.item, "set", l, cell, Queue, o.hand)
    <3>1. PICK l : Fresh(l) /\ Changed(l, RemoveFirst(Queue, o.item))
                   /\ Became(k, o.kind, o.item, "set", l, cell, Queue, o.hand)
      BY <2>6
    <3>2. OpShape(ops'[k])
      BY <1>1, <2>1, <2>6, <3>1, Bounds DEF Became, OpShape, Sending, Fresh
    <3>3. OwnHas(ops'[k], RemoveFirst(Queue, o.item))
      BY <2>6, <3>1 DEF Became, OwnHas
    <3> QED
      BY <1>1, <2>1, <3>1, <3>2, <3>3, ListsMade
  <2> QED
    BY <2>1, <2>2, <2>3, <2>4, <2>5, <2>6 DEF GetEffect
<1>3. CASE Change(k)
  <2>1. ChangeEffect(k) /\ cell' = cell /\ o.at = "change" /\ o.list \in Lists
    BY <1>1, <1>3, ChangeIs
  <2>2. ASSUME NEW s, NEW hand, Changed(o.list, s), OpShape(ops'[k]),
               Became(k, o.kind, o.item, "set", o.list, o.from, o.seen, hand),
               Own(ops'[k]) => OwnHas(ops'[k], s)
        PROVE  ListsInv'
    <3> DEFINE h == [heap EXCEPT ![o.list] = s]
    <3>1. Wrote(h) /\ h[o.list] = s /\ \A m \in Lists : m # o.list => h[m] = heap[m]
      BY <1>1, <2>1, <2>2 DEF Changed
    <3> HIDE DEF h
    <3>2. ASSUME NEW j \in Ops \ {k}, Own(ops[j])
          PROVE  /\ h[ops[j].list] = heap[ops[j].list]
                 /\ ops[j].list # o.list /\ ops[j].list # o.from /\ ops[j].list # cell'
      <4>1. /\ ops[j].list # cell /\ ops[j].list \in Lists
            /\ ops[j].list # o.list /\ ops[j].list # o.from
        BY <1>1, <3>2 DEF ListsInv, OwnIsPrivate, Own, ServerTyped, Operation
      <4> QED
        BY <2>1, <3>1, <4>1
    <3>3. ASSUME Own(ops'[k])
          PROVE  /\ o.list # cell' /\ OwnHas(ops'[k], h[o.list])
                 /\ \A j \in Ops \ {k} : o.list # ops[j].list /\ o.list # ops[j].from
      <4>1. Own(o)
        BY <2>2, <3>3 DEF Became, Own
      <4> QED
        BY <2>1, <2>2, <3>1, <3>3, <4>1 DEF ListsInv, OwnIsPrivate
    <3>4. cell' \in Lists \cup {None}
      BY <1>1, <2>1
    <3> QED
      BY <1>1, <2>2, <3>1, <3>2, <3>3, <3>4, ListsKept
  <2>3. CASE /\ o.kind = "add"
             /\ Changed(o.list, Append(heap[o.list], o.item))
             /\ Became(k, o.kind, o.item, "set", o.list, o.from, o.seen, o.hand)
    <3>1. OpShape(ops'[k])
      BY <1>1, <2>1, <2>3 DEF Became, OpShape, Sending
    <3>2. ASSUME Own(ops'[k]) PROVE OwnHas(ops'[k], Append(heap[o.list], o.item))
      <4>1. Own(o)
        BY <2>3, <3>2 DEF Became, Own
      <4>2. OwnHas(o, heap[o.list])
        BY <4>1 DEF ListsInv, OwnContent
      <4>3. heap[o.list] = <<>> /\ o.seen = <<>> /\ o.item \in Items
        BY <1>1, <2>1, <2>3, <4>2 DEF OwnHas, OpShape
      <4> QED
        BY <2>3, <4>3, OneItemFacts DEF Became, OwnHas
    <3> QED
      BY <2>2, <2>3, <3>1, <3>2
  <2>4. CASE /\ o.kind \in Sending /\ Wrote(heap)
             /\ Became(k, "none", None, "-", None, None, <<>>, <<>>)
    <3>1. OpShape(ops'[k]) /\ ~Own(ops'[k])
      BY <2>4, NobodyOwns DEF Became, OpShape, Sending
    <3> QED
      BY <1>1, <2>1, <2>4, <3>1, ListsRead
  <2>5. CASE /\ o.kind \in Sending
             /\ \E i \in ToSet(heap[o.list]) :
                   /\ Changed(o.list, RemoveFirst(heap[o.list], i))
                   /\ Became(k, o.kind, o.item, "set", o.list, o.from, o.seen, Append(o.hand, i))
    <3>1. PICK i \in ToSet(heap[o.list]) :
                   /\ Changed(o.list, RemoveFirst(heap[o.list], i))
                   /\ Became(k, o.kind, o.item, "set", o.list, o.from, o.seen, Append(o.hand, i))
      BY <2>5
    <3>2. OpShape(ops'[k]) /\ ~Own(ops'[k])
      BY <1>1, <2>1, <2>5, <3>1 DEF Became, OpShape, Sending, Own
    <3> QED
      BY <2>2, <3>1, <3>2
  <2> QED
    BY <2>1, <2>3, <2>4, <2>5 DEF ChangeEffect
<1>4. CASE Set(k)
  <2>1. SetEffect(k) /\ cell' \in Lists /\ o.at = "set"
    BY <1>1, <1>4, SetIs
  <2>2. PICK at \in {"sync", "publish"} :
           Became(k, o.kind, o.item, at, None, None, <<>>, o.hand) /\ (at = "sync" => o.kind # "clear")
    BY <2>1 DEF SetEffect
  <2>3. OpShape(ops'[k]) /\ ~Own(ops'[k])
    BY <1>1, <2>1, <2>2, NobodyOwns DEF Became, OpShape, Sending, Kinds, Operation
  <2>4. ASSUME NEW j \in Ops \ {k}, Own(ops[j])
        PROVE  ops[j].list # None /\ ops[j].list # cell'
    BY <2>1, <2>4 DEF SetEffect, Fresh, ListsInv, OwnIsPrivate, Own
  <2>5. Wrote(heap) /\ cell' \in Lists \cup {None}
    BY <2>1 DEF SetEffect
  <2> QED
    BY <1>1, <2>2, <2>3, <2>4, <2>5, ListsKept
<1>5. CASE Sync(k)
  <2>1. /\ Wrote(heap) /\ cell' = cell /\ o.at = "sync"
        /\ Became(k, o.kind, o.item, "publish", o.list, o.from, Queue, o.hand)
    BY <1>1, <1>5, SyncIs
  <2>2. OpShape(ops'[k]) /\ ~Own(ops'[k])
    BY <1>1, <2>1 DEF Became, OpShape, Sending, Own
  <2> QED
    BY <1>1, <2>1, <2>2, ListsRead
<1>6. CASE Publish(k)
  <2>1. PublishEffect(k) /\ Wrote(heap) /\ cell' = cell /\ o.at = "publish"
    BY <1>1, <1>6, PublishIs
  <2>2. CASE Became(k, "none", None, "-", None, None, <<>>, <<>>)
    <3>1. OpShape(ops'[k]) /\ ~Own(ops'[k])
      BY <2>2, NobodyOwns DEF Became, OpShape, Sending
    <3> QED
      BY <1>1, <2>1, <2>2, <3>1, ListsRead
  <2>3. CASE /\ o.kind \notin {"add", "remove", "clear"}
             /\ \E at \in {"get", "send"} :
                   /\ at = "get" => o.kind = "all"
                   /\ Became(k, o.kind, o.item, at, o.list, o.from, <<>>, o.hand)
    <3>1. PICK at \in {"get", "send"} :
                   /\ at = "get" => o.kind = "all"
                   /\ Became(k, o.kind, o.item, at, o.list, o.from, <<>>, o.hand)
      BY <2>3
    <3>2. o.kind \in Sending
      BY <1>1, <2>1, <2>3 DEF OpShape, Operation, Kinds, Sending
    <3>3. OpShape(ops'[k]) /\ ~Own(ops'[k])
      BY <1>1, <2>1, <3>1, <3>2 DEF Became, OpShape, Sending, Own
    <3> QED
      BY <1>1, <2>1, <3>1, <3>3, ListsRead
  <2> QED
    BY <2>1, <2>2, <2>3 DEF PublishEffect
<1>7. CASE Send(k)
  <2>1. /\ Wrote(heap) /\ cell' = cell
        /\ Became(k, "none", None, "-", None, None, <<>>, <<>>)
    BY <1>1, <1>7, SendIs
  <2>2. OpShape(ops'[k]) /\ ~Own(ops'[k])
    BY <2>1, NobodyOwns DEF Became, OpShape, Sending
  <2> QED
    BY <1>1, <2>1, <2>2, ListsRead
<1> QED
  BY <1>2, <1>3, <1>4, <1>5, <1>6, <1>7 DEF Operates

LEMMA BeginLists ==
    ASSUME Typed, ListsInv, NEW kind \in Kinds \ {"none"}, NEW i \in Items \cup {None},
           kind = "add" => i \in Items, Begin(kind, i)
    PROVE  ListsInv'
<1> DEFINE at == IF kind = "clear" THEN "set" ELSE "get"
<1>1. PICK k \in Ops : /\ ops[k] = NoOp /\ Wrote(heap) /\ cell' = cell
                       /\ Became(k, kind, i, at, None, None, <<>>, <<>>)
  BY BeginEffect DEF Typed
<1>2. OpShape(ops'[k]) /\ ~Own(ops'[k])
  BY <1>1, NobodyOwns DEF Became, OpShape, Kinds, Sending
<1> QED
  BY <1>1, <1>2, ListsRead DEF Typed

LEMMA EndLists == ASSUME Typed, ListsInv, NEW k \in Ops, End(k) PROVE ListsInv'
<1>1. /\ Wrote(heap) /\ cell' = cell
      /\ Became(k, "none", None, "-", None, None, <<>>, <<>>)
  BY EndEffect DEF Typed
<1>2. OpShape(ops'[k]) /\ ~Own(ops'[k])
  BY <1>1, NobodyOwns DEF Became, OpShape, Sending
<1> QED
  BY <1>1, <1>2, ListsRead DEF Typed

LEMMA ListsAtFirst == ASSUME Init PROVE ListsInv
<1>1. \A k \in Ops : ops[k] = NoOp
  BY DEF Init
<1>2. \A k \in Ops : OpShape(ops[k]) /\ ~Own(ops[k])
  BY <1>1, NoOpFacts, NobodyOwns DEF OpShape, Sending
<1> QED
  BY <1>2 DEF Init, ListsInv, UnheldAreEmpty, OwnIsPrivate, OwnContent

LEMMA ListsStep ==
    ASSUME Typed, ListsInv, [Next]_vars
    PROVE  ListsInv'
<1>1. ASSUME NEW kind, NEW i, Starts(kind, i) PROVE ListsInv'
  BY <1>1, BeginLists DEF Starts, Kinds
<1>2. CASE UNCHANGED <<heap, cell, ops>>
  BY <1>2 DEF ListsInv, UnheldAreEmpty, OwnIsPrivate, OwnContent
<1>3. CASE AddStarts
  <2>1. chain # <<>> /\ (UNCHANGED <<heap, cell, ops>> \/ Begin("add", Head(chain)))
    BY <1>3 DEF AddStarts, server
  <2>2. Head(chain) \in Items
    BY <2>1 DEF Typed, TabTyped
  <2> QED
    BY <1>2, <2>1, <2>2, BeginLists DEF Kinds
<1>4. ASSUME NEW i \in Items, GaveUp(i) PROVE ListsInv'
  <2>1. UNCHANGED <<heap, cell, ops>> \/ \E k \in Ops : End(k)
    BY <1>4 DEF GaveUp, server
  <2> QED
    BY <1>2, <2>1, EndLists
<1>5. CASE TypeMessage \/ DirectArrives \/ DirectFails \/ AddReturns \/ Snapshot
           \/ UNCHANGED <<server, ghosts, tab>>
  BY <1>2, <1>5 DEF TypeMessage, DirectArrives, DirectFails, AddReturns, Snapshot, server
<1> QED
  BY <1>1, <1>3, <1>4, <1>5, NextCases, OperateLists

-----------------------------------------------------------------------------
(* What is new and what the queue has taken                                *)

LEMMA WroteLined ==
    ASSUME NEW h, Wrote(h), accepted \subseteq accepted',
           \A l \in Lists : IsInjective(h[l]) /\ ToSet(h[l]) \subseteq accepted'
    PROVE  \A l \in Lists : IsInjective(heap'[l]) /\ ToSet(heap'[l]) \subseteq accepted'
BY EmptyFacts DEF Wrote

\* The lists stay lists of taken messages, if what an operation holds is.
LEMMA TakenKept ==
    ASSUME Taken, NEW k \in Ops, NEW h, Wrote(h),
           NEW kind, NEW item, NEW at, NEW list, NEW from, NEW seen, NEW hand,
           Became(k, kind, item, at, list, from, seen, hand),
           \A l \in Lists : IsInjective(h[l]) /\ ToSet(h[l]) \subseteq accepted',
           ToSet(seen) \subseteq accepted', ToSet(hand) \subseteq accepted',
           accepted \subseteq accepted', accepted' \subseteq 1..typed', ToSet(output') \subseteq accepted',
           removed' \subseteq accepted', UNCHANGED shown
    PROVE  Taken'
<1>1. \A l \in Lists : IsInjective(heap'[l]) /\ ToSet(heap'[l]) \subseteq accepted'
  BY WroteLined
<1>2. ASSUME NEW j \in Ops PROVE ToSet(ops'[j].seen) \cup ToSet(ops'[j].hand) \subseteq accepted'
  <2>1. CASE j = k
    BY <2>1 DEF Became
  <2>2. CASE j # k
    <3>1. ops'[j] = ops[j]
      BY <2>2 DEF Became
    <3>2. ToSet(ops[j].seen) \cup ToSet(ops[j].hand) \subseteq accepted
      BY DEF Taken
    <3> QED
      BY <3>1, <3>2
  <2> QED
    BY <2>1, <2>2
<1>3. ToSet(shown') \subseteq accepted'
  BY DEF Taken
<1> QED
  BY <1>1, <1>2, <1>3 DEF Taken, Lined

\* A step of operation k that takes no message and makes no new add.
AddStays(k) ==
    /\ \A j \in Ops \ {k} : ops'[j] = ops[j]
    /\ ops'[k].kind = "add" => /\ ops[k].kind = "add" /\ ops'[k].item = ops[k].item
                               /\ Unread(ops'[k]) => Unread(ops[k])

TakesNone(k) ==
    /\ AddStays(k) /\ accepted' = accepted
    /\ \A i \in Items : sent'[i] = sent[i] \/ i \in accepted

\* The step that takes the message of an add.
TakesOne(k) ==
    /\ AddStays(k) /\ Unread(ops[k]) /\ ~Unread(ops'[k])
    /\ accepted' = accepted \cup {ops[k].item} /\ sent' = sent

LEMMA QueueTaken ==
    ASSUME Typed, Taken
    PROVE  ToSet(Queue) \subseteq accepted /\ IsInjective(Queue) /\ Queue \in Seq(Items)
<1>1. cell \in Lists => ToSet(heap[cell]) \subseteq accepted /\ IsInjective(heap[cell])
  BY DEF Taken, Lined
<1> QED
  BY <1>1, QueueType, EmptyFacts DEF Typed, ServerTyped

LEMMA OperateTaken ==
    ASSUME Typed, ListsInv, NewInv, NEW k \in Ops, Operates(k)
    PROVE  Taken' /\ (TakesNone(k) \/ TakesOne(k))
<1> DEFINE o == ops[k]
<1>1. /\ ServerTyped /\ GhostsTyped /\ OpShape(o) /\ o \in Operation /\ Taken
      /\ cell \in Lists \cup {None} /\ heap \in [Lists -> Seq(Items)]
  BY DEF Typed, ServerTyped, ListsInv, NewInv
<1>2. /\ \A l \in Lists : IsInjective(heap[l]) /\ ToSet(heap[l]) \subseteq accepted /\ heap[l] \in Seq(Items)
      /\ ToSet(o.seen) \subseteq accepted /\ ToSet(o.hand) \subseteq accepted
      /\ ToSet(output) \subseteq accepted /\ removed \subseteq accepted
      /\ accepted \subseteq 1..typed
      /\ typed' = typed /\ shown' = shown
  BY <1>1 DEF Taken, Lined, Operates, tab
<1>3. ToSet(Queue) \subseteq accepted /\ IsInjective(Queue) /\ Queue \in Seq(Items) /\ ToSet(<<>>) \subseteq accepted
  BY <1>1, QueueTaken, EmptyFacts
<1>4. ASSUME NEW l \in Lists, NEW s, NEW acc, Changed(l, s), IsInjective(s), ToSet(s) \subseteq acc,
             accepted \subseteq acc
      PROVE  LET h == [heap EXCEPT ![l] = s]
             IN  Wrote(h) /\ \A m \in Lists : IsInjective(h[m]) /\ ToSet(h[m]) \subseteq acc
  <2>1. \A m \in Lists : [heap EXCEPT ![l] = s][m] = IF m = l THEN s ELSE heap[m]
    BY <1>1
  <2> QED
    BY <1>2, <1>4, <2>1 DEF Changed
<1>5. CASE Get(k)
  <2>1. /\ GetEffect(k) /\ cell' = cell /\ o.at = "get"
        /\ UNCHANGED <<output, accepted, sent, removed, raced, running>>
    BY <1>1, <1>5, GetIs
  <2>2. ASSUME NEW h, Wrote(h), \A l \in Lists : IsInjective(h[l]) /\ ToSet(h[l]) \subseteq accepted,
               NEW kind \in {o.kind, "none"}, NEW item, NEW at, NEW list, NEW from, NEW seen,
               NEW hand \in {<<>>, o.hand}, item = o.item \/ kind = "none",
               ToSet(seen) \subseteq accepted, Became(k, kind, item, at, list, from, seen, hand)
        PROVE  Taken' /\ TakesNone(k)
    <3>1. ToSet(hand) \subseteq accepted
      BY <1>2, <1>3, <2>2
    <3>2. Taken'
      BY <1>1, <1>2, <2>1, <2>2, <3>1, TakenKept
    <3>3. TakesNone(k)
      BY <2>1, <2>2 DEF Became, TakesNone, AddStays, Unread
    <3> QED
      BY <3>2, <3>3
  <2>3. CASE Wrote(heap) /\ Became(k, "none", None, "-", None, None, <<>>, <<>>)
    BY <1>2, <1>3, <2>2, <2>3
  <2>4. CASE Wrote(heap) /\ Became(k, o.kind, o.item, "send", o.list, o.from, o.seen, o.hand)
    BY <1>2, <2>2, <2>4
  <2>5. CASE Wrote(heap) /\ Became(k, o.kind, o.item, "change", cell, cell, Queue, o.hand)
    BY <1>2, <1>3, <2>2, <2>5
  <2>6. CASE \E l : Fresh(l) /\ Changed(l, <<>>)
                    /\ Became(k, o.kind, o.item, "change", l, cell, <<>>, o.hand)
    <3>1. PICK l : Fresh(l) /\ Changed(l, <<>>)
                   /\ Became(k, o.kind, o.item, "change", l, cell, <<>>, o.hand)
      BY <2>6
    <3> DEFINE h == [heap EXCEPT ![l] = <<>>]
    <3>2. Wrote(h) /\ \A m \in Lists : IsInjective(h[m]) /\ ToSet(h[m]) \subseteq accepted
      BY <1>3, <1>4, <3>1, EmptyFacts DEF Fresh
    <3> HIDE DEF h
    <3> QED
      BY <1>3, <2>2, <3>1, <3>2
  <2>7. CASE \E l : Fresh(l) /\ Changed(l, RemoveFirst(Queue, o.item))
                    /\ Became(k, o.kind, o.item, "set", l, cell, Queue, o.hand)
    <3>1. PICK l : Fresh(l) /\ Changed(l, RemoveFirst(Queue, o.item))
                    /\ Became(k, o.kind, o.item, "set", l, cell, Queue, o.hand)
      BY <2>7
    <3> DEFINE h == [heap EXCEPT ![l] = RemoveFirst(Queue, o.item)]
    <3>2. IsInjective(RemoveFirst(Queue, o.item)) /\ ToSet(RemoveFirst(Queue, o.item)) \subseteq accepted
      BY <1>3, RemoveFirstFacts
    <3>3. Wrote(h) /\ \A m \in Lists : IsInjective(h[m]) /\ ToSet(h[m]) \subseteq accepted
      BY <1>4, <3>1, <3>2 DEF Fresh
    <3> HIDE DEF h
    <3> QED
      BY <1>3, <2>2, <3>1, <3>3
  <2> QED
    BY <2>1, <2>3, <2>4, <2>5, <2>6, <2>7 DEF GetEffect
<1>6. CASE Change(k)
  <2>1. /\ ChangeEffect(k) /\ cell' = cell /\ o.at = "change" /\ o.list \in Lists
        /\ UNCHANGED <<output, sent, removed, running>>
    BY <1>1, <1>6, ChangeIs
  <2>2. CASE /\ o.kind = "add"
             /\ Changed(o.list, Append(heap[o.list], o.item))
             /\ Became(k, o.kind, o.item, "set", o.list, o.from, o.seen, o.hand)
             /\ accepted' = accepted \cup {o.item}
    <3>1. Unread(o) /\ o.item \notin accepted /\ o.item \in 1..typed /\ o.item \in Items
      BY <1>1, <2>1, <2>2 DEF Unread, NewInv, AddsAreNew, New, OpShape
    <3>2. o.item \notin ToSet(heap[o.list]) /\ heap[o.list] \in Seq(Items)
      BY <1>2, <2>1, <3>1
    <3>3. /\ IsInjective(Append(heap[o.list], o.item))
          /\ ToSet(Append(heap[o.list], o.item)) \subseteq accepted'
      BY <1>2, <2>1, <2>2, <3>1, <3>2, AppendFacts
    <3> DEFINE h == [heap EXCEPT ![o.list] = Append(heap[o.list], o.item)]
    <3>4. Wrote(h) /\ \A m \in Lists : IsInjective(h[m]) /\ ToSet(h[m]) \subseteq accepted'
      BY <1>4, <2>1, <2>2, <3>3
    <3> HIDE DEF h
    <3>5. accepted \subseteq accepted' /\ accepted' \subseteq 1..typed'
      BY <1>2, <2>2, <3>1
    <3>6. Taken'
      BY <1>1, <1>2, <2>1, <2>2, <3>4, <3>5, TakenKept
    <3>7. TakesOne(k)
      BY <2>1, <2>2, <3>1 DEF Became, TakesOne, AddStays, Unread
    <3> QED
      BY <3>6, <3>7
  <2>3. CASE /\ Wrote(heap) /\ Became(k, "none", None, "-", None, None, <<>>, <<>>)
             /\ accepted' = accepted
    <3>1. Taken'
      BY <1>1, <1>2, <1>3, <2>1, <2>3, TakenKept
    <3>2. TakesNone(k)
      BY <2>1, <2>3 DEF Became, TakesNone, AddStays
    <3> QED
      BY <3>1, <3>2
  <2>4. CASE /\ o.kind \in Sending
             /\ \E i \in ToSet(heap[o.list]) :
                   /\ Changed(o.list, RemoveFirst(heap[o.list], i))
                   /\ Became(k, o.kind, o.item, "set", o.list, o.from, o.seen, Append(o.hand, i))
             /\ accepted' = accepted
    <3>1. PICK i \in ToSet(heap[o.list]) :
                   /\ Changed(o.list, RemoveFirst(heap[o.list], i))
                   /\ Became(k, o.kind, o.item, "set", o.list, o.from, o.seen, Append(o.hand, i))
      BY <2>4
    <3> DEFINE h == [heap EXCEPT ![o.list] = RemoveFirst(heap[o.list], i)]
    <3>2. /\ IsInjective(RemoveFirst(heap[o.list], i))
          /\ ToSet(RemoveFirst(heap[o.list], i)) \subseteq accepted
      BY <1>2, <2>1, RemoveFirstFacts
    <3>3. Wrote(h) /\ \A m \in Lists : IsInjective(h[m]) /\ ToSet(h[m]) \subseteq accepted
      BY <1>4, <2>1, <3>1, <3>2
    <3>4. ToSet(Append(o.hand, i)) \subseteq accepted
      <4>1. o.hand \in Seq(Items) /\ i \in accepted /\ i \in Items
        BY <1>1, <1>2, <2>1 DEF Operation, GhostsTyped
      <4> QED
        BY <1>2, <4>1, AppendFacts
    <3> HIDE DEF h
    <3>5. Taken'
      BY <1>1, <1>2, <2>1, <2>4, <3>1, <3>3, <3>4, TakenKept
    <3>6. TakesNone(k)
      BY <2>1, <2>4, <3>1 DEF Became, TakesNone, AddStays, Sending
    <3> QED
      BY <3>5, <3>6
  <2> QED
    BY <2>1, <2>2, <2>3, <2>4 DEF ChangeEffect
<1>7. CASE Set(k)
  <2>1. SetEffect(k) /\ o.at = "set" /\ UNCHANGED <<output, accepted, sent, running>>
    BY <1>1, <1>7, SetIs
  <2>2. PICK at \in {"sync", "publish"} : Became(k, o.kind, o.item, at, None, None, <<>>, o.hand)
    BY <2>1 DEF SetEffect
  <2>3. Wrote(heap) /\ removed' \subseteq accepted'
    BY <1>2, <1>3, <2>1 DEF SetEffect
  <2>4. Taken'
    BY <1>1, <1>2, <1>3, <2>1, <2>2, <2>3, TakenKept
  <2>5. TakesNone(k)
    BY <2>1, <2>2 DEF Became, TakesNone, AddStays, Unread
  <2> QED
    BY <2>4, <2>5
<1>8. CASE Sync(k)
  <2>1. /\ Wrote(heap) /\ o.at = "sync"
        /\ Became(k, o.kind, o.item, "publish", o.list, o.from, Queue, o.hand)
        /\ UNCHANGED <<output, accepted, sent, removed, raced, running>>
    BY <1>1, <1>8, SyncIs
  <2>2. Taken'
    BY <1>1, <1>2, <1>3, <2>1, TakenKept
  <2>3. TakesNone(k)
    BY <2>1 DEF Became, TakesNone, AddStays, Unread
  <2> QED
    BY <2>2, <2>3
<1>9. CASE Publish(k)
  <2>1. /\ PublishEffect(k) /\ Wrote(heap) /\ output' = o.seen
        /\ UNCHANGED <<accepted, sent, removed, running>>
    BY <1>1, <1>9, PublishIs
  <2>2. CASE Became(k, "none", None, "-", None, None, <<>>, <<>>)
    <3>1. Taken'
      BY <1>1, <1>2, <1>3, <2>1, <2>2, TakenKept
    <3>2. TakesNone(k)
      BY <2>1, <2>2 DEF Became, TakesNone, AddStays
    <3> QED
      BY <3>1, <3>2
  <2>3. CASE /\ o.kind \notin {"add", "remove", "clear"}
             /\ \E at : Became(k, o.kind, o.item, at, o.list, o.from, <<>>, o.hand)
    <3>1. PICK at : Became(k, o.kind, o.item, at, o.list, o.from, <<>>, o.hand)
      BY <2>3
    <3>2. Taken'
      BY <1>1, <1>2, <1>3, <2>1, <3>1, TakenKept
    <3>3. TakesNone(k)
      BY <2>1, <2>3, <3>1 DEF Became, TakesNone, AddStays
    <3> QED
      BY <3>2, <3>3
  <2> QED
    BY <2>1, <2>2, <2>3 DEF PublishEffect
<1>10. CASE Send(k)
  <2>1. /\ Wrote(heap)
        /\ Became(k, "none", None, "-", None, None, <<>>, <<>>)
        /\ sent' = [i \in Items |-> IF i \in ToSet(o.hand) THEN sent[i] + 1 ELSE sent[i]]
        /\ UNCHANGED <<output, accepted, removed, raced>>
    BY <1>1, <1>10, SendIs
  <2>2. Taken'
    BY <1>1, <1>2, <1>3, <2>1, TakenKept
  <2>3. TakesNone(k)
    BY <1>2, <2>1 DEF Became, TakesNone, AddStays
  <2> QED
    BY <2>2, <2>3
<1> QED
  BY <1>5, <1>6, <1>7, <1>8, <1>9, <1>10 DEF Operates

\* What the step of an operation does to the messages, whichever operation it is.
LEMMA OperateNew ==
    ASSUME Typed, NewInv, NEW k \in Ops, Operates(k), Taken', TakesNone(k) \/ TakesOne(k)
    PROVE  NewInv'
<1>1. /\ AddStays(k) /\ UNCHANGED <<typed, direct, pending, chain, adding, givenUp, shown>>
      /\ accepted \subseteq accepted'
  BY DEF TakesNone, TakesOne, Operates, tab
<1>2. \A i \in accepted' : i \in accepted \/ (Unread(ops[k]) /\ ~Unread(ops'[k]) /\ i = ops[k].item)
  BY DEF TakesNone, TakesOne
<1>3. \A i \in Items : sent'[i] = sent[i] \/ i \in accepted
  BY DEF TakesNone, TakesOne
<1>4. 1..typed \subseteq Items
  BY Bounds DEF Typed, TabTyped, Items
<1>5. \A j \in Ops : ops'[j].kind = "add" =>
         /\ ops[j].kind = "add" /\ ops'[j].item = ops[j].item
         /\ Unread(ops'[j]) => Unread(ops[j])
  <2>1. ASSUME NEW j \in Ops, j # k PROVE ops'[j] = ops[j]
    BY <1>1, <2>1 DEF AddStays
  <2> QED
    BY <1>1, <2>1 DEF AddStays
<1>6. ASSUME NEW i, New(i, typed, accepted, sent), ~(Unread(ops[k]) /\ ~Unread(ops'[k]) /\ i = ops[k].item) PROVE New(i, typed', accepted', sent')
  BY <1>1, <1>2, <1>3, <1>4, <1>6 DEF New
<1>7. AddsAreNew'
  <2>1. ASSUME NEW j \in Ops, Unread(ops'[j])
        PROVE  New(ops'[j].item, typed', accepted', sent') /\ ops'[j].item \notin direct'
    <3>1. Unread(ops[j]) /\ ops'[j].item = ops[j].item
      BY <1>5, <2>1 DEF Unread
    <3>2. New(ops[j].item, typed, accepted, sent) /\ ops[j].item \notin direct
      BY <3>1 DEF NewInv, AddsAreNew
    <3>3. ~(Unread(ops[k]) /\ ~Unread(ops'[k]) /\ ops[j].item = ops[k].item)
      BY <2>1, <3>1 DEF NewInv, AddsAreNew, Unread
    <3>4. New(ops[j].item, typed', accepted', sent')
      <4> DEFINE x == ops[j].item
      <4>1. New(x, typed, accepted, sent) /\ ~(Unread(ops[k]) /\ ~Unread(ops'[k]) /\ x = ops[k].item)
        BY <3>2, <3>3
      <4>2. x \in 1..typed /\ x \notin accepted' /\ sent'[x] = 0
        BY <1>2, <1>3, <1>4, <4>1 DEF New
      <4> QED
        BY <1>1, <3>1, <4>2 DEF New
    <3> QED
      BY <1>1, <3>1, <3>2, <3>4
  <2>2. \A j \in Ops : ops'[j].kind = "add" => ops'[j].item \in 1..typed'
    BY <1>1, <1>5 DEF NewInv, AddsAreNew
  <2>3. \A j, m \in Ops : j # m /\ ops'[j].kind = "add" /\ ops'[m].kind = "add"
                            => ops'[j].item # ops'[m].item
    BY <1>5 DEF NewInv, AddsAreNew
  <2> QED
    BY <2>1, <2>2, <2>3 DEF AddsAreNew
<1>8. ChainIsNew'
  <2>1. ASSUME NEW n \in DOMAIN chain
        PROVE  /\ chain[n] \in 1..typed /\ chain[n] \notin accepted' /\ sent'[chain[n]] = 0
               /\ chain[n] \notin direct /\ adding < chain[n]
               /\ \A j \in Ops : ~(ops'[j].kind = "add" /\ ops'[j].item = chain[n])
    <3>1. /\ New(chain[n], typed, accepted, sent) /\ chain[n] \notin direct /\ adding < chain[n]
          /\ \A j \in Ops : ~(ops[j].kind = "add" /\ ops[j].item = chain[n])
      BY DEF NewInv, ChainIsNew, AddOp
    <3>2. ~(Unread(ops[k]) /\ chain[n] = ops[k].item)
      BY <3>1 DEF Unread
    <3> QED
      BY <1>2, <1>3, <1>4, <1>5, <3>1, <3>2 DEF New
  <2>2. /\ \A m, n \in DOMAIN chain : m < n => chain[m] < chain[n]
        /\ adding <= typed
    BY DEF NewInv, ChainIsNew
  <2> QED
    BY <1>1, <2>1, <2>2 DEF ChainIsNew, New, AddOp
<1>9. DirectIsNew'
  <2>1. ASSUME NEW i \in direct PROVE i \in 1..typed /\ i \notin accepted' /\ sent'[i] = 0
    <3>1. New(i, typed, accepted, sent) /\ ~(Unread(ops[k]) /\ i = ops[k].item)
      BY DEF NewInv, DirectIsNew, AddsAreNew
    <3> QED
      BY <1>2, <1>3, <1>4, <3>1 DEF New
  <2> QED
    BY <1>1, <2>1 DEF DirectIsNew, New
<1>10. UntypedIsUnsent'
  <2>1. ASSUME NEW i \in Items, i > typed PROVE sent'[i] = 0
    <3>1. i \notin 1..typed /\ sent[i] = 0
      BY <2>1 DEF NewInv, UntypedIsUnsent, Typed, TabTyped
    <3> QED
      BY <1>3, <3>1 DEF NewInv, Taken
  <2> QED
    BY <1>1, <2>1 DEF UntypedIsUnsent
<1>11. Somewhere'
  <2>1. ASSUME NEW i \in 1..typed
        PROVE  i \in accepted' \/ sent'[i] = 1 \/ i \in direct \cup pending \cup givenUp
    BY <1>1, <1>3, <1>4 DEF NewInv, Somewhere
  <2> QED
    BY <1>1, <2>1 DEF Somewhere
<1> QED
  BY <1>7, <1>8, <1>9, <1>10, <1>11 DEF NewInv

\* The other steps take nothing, so that the lists stay what they are.
LEMMA TakenElsewhere ==
    ASSUME Typed, NewInv, UNCHANGED <<output, shown, removed, accepted>>, typed <= typed', typed' \in Nat,
           \/ UNCHANGED <<heap, ops>>
           \/ \E k \in Ops : End(k)
           \/ \E kind \in Kinds \ {"none"}, i \in Items \cup {None} : Begin(kind, i)
    PROVE  Taken'
<1>1. /\ Taken /\ ServerTyped
      /\ \A l \in Lists : IsInjective(heap[l]) /\ ToSet(heap[l]) \subseteq accepted
      /\ ToSet(<<>>) \subseteq accepted /\ ToSet(output) \subseteq accepted /\ removed \subseteq accepted
      /\ accepted \subseteq 1..typed'
  BY EmptyFacts DEF NewInv, Taken, Lined, Typed, TabTyped
<1>2. CASE UNCHANGED <<heap, ops>>
  BY <1>1, <1>2 DEF Taken, Lined
<1>3. CASE \E k \in Ops : End(k)
  <2>1. PICK k \in Ops : Wrote(heap) /\ Became(k, "none", None, "-", None, None, <<>>, <<>>)
    BY <1>1, <1>3, EndEffect
  <2> QED
    BY <1>1, <2>1, TakenKept
<1>4. CASE \E kind \in Kinds \ {"none"}, i \in Items \cup {None} : Begin(kind, i)
  <2>1. PICK kind \in Kinds \ {"none"}, i \in Items \cup {None} : Begin(kind, i)
    BY <1>4
  <2>2. PICK k \in Ops : Wrote(heap) /\ Became(k, kind, i, IF kind = "clear" THEN "set" ELSE "get",
                                              None, None, <<>>, <<>>)
    BY <1>1, <2>1, BeginEffect
  <2> QED
    BY <1>1, <2>2, TakenKept
<1> QED
  BY <1>2, <1>3, <1>4

\* Operations may end, and others that are no adds begin.
NoNewAdd == \A k \in Ops : ops'[k].kind = "add" => ops'[k] = ops[k]

LEMMA EndsNoAdd == ASSUME Typed, NEW k \in Ops, End(k) PROVE NoNewAdd
BY EndEffect DEF Typed, Became, NoNewAdd

LEMMA BeginsNoAdd ==
    ASSUME Typed, NEW kind \in Kinds \ {"none", "add"}, NEW i \in Items \cup {None}, Begin(kind, i)
    PROVE  NoNewAdd
<1>1. PICK k \in Ops : Became(k, kind, i, IF kind = "clear" THEN "set" ELSE "get",
                              None, None, <<>>, <<>>)
  BY BeginEffect DEF Typed
<1> QED
  BY <1>1 DEF Became, NoNewAdd

\* A step that sends nothing and moves no message of the tab but gives some up.
LEMMA NewKept ==
    ASSUME Typed, NewInv, Taken', NoNewAdd, UNCHANGED <<accepted, sent, typed, chain>>,
           adding' \in {adding, None}, direct' \subseteq direct,
           direct \cup pending \cup givenUp \subseteq accepted \cup direct' \cup pending' \cup givenUp'
    PROVE  NewInv'
<1>1. /\ \A i : New(i, typed', accepted', sent') <=> New(i, typed, accepted, sent)
      /\ \A k \in Ops : ops'[k].kind = "add" => ops'[k] = ops[k]
  BY DEF New, NoNewAdd
<1>2. AddsAreNew'
  BY <1>1 DEF NewInv, AddsAreNew, Unread, New
<1>3. ChainIsNew'
  <2>1. adding' <= adding
    BY Bounds DEF Typed, TabTyped
  <2>2. adding' \in Nat /\ adding \in Nat /\ typed \in Nat
    BY Bounds DEF Typed, TabTyped
  <2>3. ASSUME NEW n \in DOMAIN chain
        PROVE  /\ New(chain[n], typed, accepted, sent) /\ chain[n] \notin direct' /\ adding' < chain[n]
               /\ \A k \in Ops : ~(ops'[k].kind = "add" /\ ops'[k].item = chain[n])
    <3>1. /\ New(chain[n], typed, accepted, sent) /\ chain[n] \notin direct /\ adding < chain[n]
          /\ \A k \in Ops : ~(ops[k].kind = "add" /\ ops[k].item = chain[n])
      BY DEF NewInv, ChainIsNew, AddOp
    <3>2. chain[n] \in Nat
      BY <3>1, <2>2 DEF New
    <3> QED
      BY <1>1, <2>1, <2>2, <3>1, <3>2
  <2>4. adding' <= typed /\ \A m, n \in DOMAIN chain : m < n => chain[m] < chain[n]
    BY <2>1, <2>2 DEF NewInv, ChainIsNew
  <2> QED
    BY <2>3, <2>4 DEF ChainIsNew, AddOp, New
<1>4. DirectIsNew' /\ UntypedIsUnsent'
  BY <1>1 DEF NewInv, DirectIsNew, UntypedIsUnsent, New
<1>5. Somewhere'
  BY DEF NewInv, Somewhere
<1> QED
  BY <1>2, <1>3, <1>4, <1>5 DEF NewInv

LEMMA TypeMessageNew ==
    ASSUME Typed, NewInv, TypeMessage
    PROVE  NewInv'
<1> DEFINE new == typed + 1
<1>1. /\ typed' = new /\ new \in Items /\ typed \in Nat /\ new > typed /\ typed' \in Nat
      /\ 1..typed' = 1..typed \cup {new} /\ new \notin 1..typed
  BY Bounds DEF TypeMessage, Typed, TabTyped, Items
<1>2. /\ UNCHANGED <<heap, ops, output, shown, removed, accepted, sent, adding, givenUp>>
      /\ \/ pending' = pending \cup {new} /\ chain' = Append(chain, new) /\ UNCHANGED direct
         \/ direct' = direct \cup {new} /\ UNCHANGED <<pending, chain>>
  BY DEF TypeMessage, server, ghosts
<1> HIDE DEF new
<1>3. Taken'
  BY <1>1, <1>2, TakenElsewhere
<1>4. New(new, typed', accepted', sent') /\ \A i : New(i, typed, accepted, sent) => New(i, typed', accepted', sent') /\ i # new
  <2>1. new \notin accepted /\ sent[new] = 0
    BY <1>1 DEF NewInv, Taken, UntypedIsUnsent
  <2> QED
    BY <1>1, <1>2, <2>1 DEF New
<1>5. direct' \subseteq direct \cup {new} /\ \A k \in Ops : ops[k].kind = "add" => ops[k].item # new
  BY <1>1, <1>2 DEF NewInv, AddsAreNew
<1>6. AddsAreNew'
  BY <1>1, <1>2, <1>4, <1>5 DEF NewInv, AddsAreNew, New
<1>7. ChainIsNew'
  <2>1. \A n \in DOMAIN chain :
          /\ New(chain[n], typed', accepted', sent') /\ chain[n] # new /\ chain[n] < new
          /\ chain[n] \notin direct' /\ adding' < chain[n]
          /\ \A k \in Ops : ~(ops'[k].kind = "add" /\ ops'[k].item = chain[n])
    <3>1. ASSUME NEW n \in DOMAIN chain
          PROVE  /\ New(chain[n], typed, accepted, sent) /\ chain[n] \notin direct /\ adding < chain[n]
                 /\ \A k \in Ops : ~(ops[k].kind = "add" /\ ops[k].item = chain[n])
      BY DEF NewInv, ChainIsNew, AddOp
    <3> QED
      BY <1>1, <1>2, <1>4, <1>5, <3>1 DEF New
  <2>2. adding' < new /\ adding' <= typed'
    BY <1>1, <1>2, Bounds DEF NewInv, ChainIsNew, Typed, TabTyped
  <2>3. \A m, n \in DOMAIN chain : m < n => chain[m] < chain[n]
    BY DEF NewInv, ChainIsNew
  <2>4. CASE chain' = chain
    BY <1>2, <2>1, <2>2, <2>3, <2>4 DEF ChainIsNew, AddOp, New
  <2>5. CASE chain' = Append(chain, new) /\ UNCHANGED direct
    <3>1. /\ DOMAIN chain' = DOMAIN chain \cup {Len(chain) + 1} /\ Len(chain) + 1 \notin DOMAIN chain
          /\ \A n \in DOMAIN chain : n < Len(chain) + 1 /\ chain'[n] = chain[n]
          /\ chain'[Len(chain) + 1] = new
      BY <2>5 DEF Typed, TabTyped
    <3>2. new \notin direct'
      BY <1>1, <2>5 DEF NewInv, DirectIsNew, New
    <3>3. ASSUME NEW n \in DOMAIN chain'
          PROVE  /\ New(chain'[n], typed', accepted', sent') /\ chain'[n] \notin direct' /\ adding' < chain'[n]
                 /\ \A k \in Ops : ~(ops'[k].kind = "add" /\ ops'[k].item = chain'[n])
      <4>1. CASE n \in DOMAIN chain
        BY <2>1, <3>1, <4>1 DEF New
      <4>2. CASE n = Len(chain) + 1
        BY <1>2, <1>4, <1>5, <2>2, <3>1, <3>2, <4>2 DEF New
      <4> QED
        BY <3>1, <4>1, <4>2
    <3>4. ASSUME NEW m \in DOMAIN chain', NEW n \in DOMAIN chain', m < n
          PROVE  chain'[m] < chain'[n]
      <4>1. Len(chain) \in Nat /\ DOMAIN chain = 1..Len(chain)
        BY DEF Typed, TabTyped
      <4>2. m \in DOMAIN chain
        BY <3>1, <3>4, <4>1
      <4> QED
        BY <2>1, <2>3, <3>1, <3>4, <4>2
    <3> QED
      BY <2>2, <3>3, <3>4 DEF ChainIsNew, AddOp, New
  <2> QED
    BY <1>2, <2>4, <2>5
<1>8. DirectIsNew'
  BY <1>4, <1>5 DEF NewInv, DirectIsNew
<1>9. UntypedIsUnsent'
  BY <1>1, <1>2, Bounds DEF NewInv, UntypedIsUnsent
<1>10. Somewhere'
  BY <1>1, <1>2 DEF NewInv, Somewhere
<1> QED
  BY <1>3, <1>6, <1>7, <1>8, <1>9, <1>10 DEF NewInv

LEMMA DirectArrivesNew ==
    ASSUME Typed, NewInv, DirectArrives
    PROVE  NewInv'
<1>1. PICK i \in direct : direct' = direct \ {i} /\ Communicate({i})
  BY DEF DirectArrives
<1>2. UNCHANGED <<heap, ops, output, shown, removed, accepted, typed, chain, adding, pending, givenUp>>
  BY DEF DirectArrives, server
<1>3. /\ i \in Items /\ New(i, typed, accepted, sent) /\ typed \in Nat
      /\ sent' = [j \in Items |-> IF j = i THEN sent[j] + 1 ELSE sent[j]]
  BY <1>1 DEF Communicate, NewInv, DirectIsNew, Typed, TabTyped
<1>4. sent'[i] = 1 /\ \A j \in Items : j # i => sent'[j] = sent[j]
  BY <1>3 DEF New
<1>5. 1..typed \subseteq Items
  BY Bounds DEF Typed, TabTyped, Items
<1>6. \A j : New(j, typed, accepted, sent) /\ j # i => New(j, typed', accepted', sent')
  BY <1>2, <1>4, <1>5 DEF New
<1>7. Taken'
  BY <1>2, <1>3, TakenElsewhere
<1>8. AddsAreNew'
  <2>1. ASSUME NEW k \in Ops, Unread(ops[k]) PROVE New(ops[k].item, typed', accepted', sent') /\ ops[k].item \notin direct'
    <3>1. New(ops[k].item, typed, accepted, sent) /\ ops[k].item \notin direct
      BY <2>1 DEF NewInv, AddsAreNew
    <3>2. /\ ops[k].item \in 1..typed' /\ ops[k].item \notin accepted' /\ sent'[ops[k].item] = 0
      BY <1>1, <1>2, <1>4, <1>5, <3>1 DEF New
    <3> QED
      BY <1>1, <1>2, <3>1, <3>2 DEF New
  <2> QED
    BY <1>2, <2>1 DEF NewInv, AddsAreNew, New
<1>9. ChainIsNew'
  <2>1. ASSUME NEW n \in DOMAIN chain
        PROVE  /\ chain[n] \in 1..typed /\ chain[n] \notin accepted /\ sent'[chain[n]] = 0
               /\ chain[n] \notin direct' /\ adding < chain[n]
               /\ \A k \in Ops : ~(ops[k].kind = "add" /\ ops[k].item = chain[n])
    <3>1. /\ New(chain[n], typed, accepted, sent) /\ chain[n] \notin direct /\ adding < chain[n]
          /\ \A k \in Ops : ~(ops[k].kind = "add" /\ ops[k].item = chain[n])
      BY DEF NewInv, ChainIsNew, AddOp
    <3> QED
      BY <1>1, <1>4, <1>5, <3>1 DEF New
  <2>2. /\ adding <= typed /\ \A m, n \in DOMAIN chain : m < n => chain[m] < chain[n]
    BY DEF NewInv, ChainIsNew
  <2> QED
    BY <1>2, <2>1, <2>2 DEF ChainIsNew, New, AddOp
<1>10. DirectIsNew'
  BY <1>1, <1>6 DEF NewInv, DirectIsNew
<1>11. UntypedIsUnsent'
  <2>1. ~(i > typed)
    BY <1>3 DEF New
  <2> QED
    BY <1>2, <1>4, <2>1 DEF NewInv, UntypedIsUnsent
<1>12. Somewhere'
  <2>1. ASSUME NEW j \in 1..typed
        PROVE  j \in accepted \/ sent'[j] = 1 \/ j \in direct' \cup pending \cup givenUp
    <3>1. j \in accepted \/ sent[j] = 1 \/ j \in direct \cup pending \cup givenUp
      BY DEF NewInv, Somewhere
    <3> QED
      BY <1>1, <1>4, <1>5, <3>1
  <2> QED
    BY <1>2, <2>1 DEF Somewhere
<1> QED
  BY <1>7, <1>8, <1>9, <1>10, <1>11, <1>12 DEF NewInv

\* The first of the chain, and what is behind it.
LEMMA ChainTail ==
    ASSUME Typed, NewInv, chain # <<>>
    PROVE  /\ 1 \in DOMAIN chain /\ Head(chain) = chain[1] /\ Head(chain) \in Items
           /\ DOMAIN Tail(chain) \subseteq Nat
           /\ \A n \in DOMAIN Tail(chain) : n + 1 \in DOMAIN chain /\ Tail(chain)[n] = chain[n + 1]
           /\ \A n \in DOMAIN Tail(chain) : Head(chain) < Tail(chain)[n]
<1>1. chain \in Seq(Items) /\ \A m, n \in DOMAIN chain : m < n => chain[m] < chain[n]
  BY DEF Typed, TabTyped, NewInv, ChainIsNew
<1>2. /\ 1 \in DOMAIN chain /\ Head(chain) = chain[1] /\ Head(chain) \in Items
      /\ DOMAIN Tail(chain) \subseteq Nat /\ DOMAIN chain \subseteq Nat
      /\ \A n \in DOMAIN Tail(chain) : n + 1 \in DOMAIN chain /\ 1 < n + 1 /\ Tail(chain)[n] = chain[n + 1]
  BY <1>1
<1> QED
  BY <1>1, <1>2

LEMMA AddStartsNew ==
    ASSUME Typed, NewInv, AddStarts
    PROVE  NewInv'
<1>1. /\ chain # <<>> /\ chain' = Tail(chain) /\ adding = None
      /\ UNCHANGED <<output, shown, removed, accepted, sent, typed, direct, pending, givenUp>>
      /\ \/ UNCHANGED <<heap, ops, adding>>
         \/ adding' = Head(chain) /\ Begin("add", Head(chain))
  BY DEF AddStarts, server, ghosts
<1>2. /\ 1 \in DOMAIN chain /\ Head(chain) = chain[1] /\ Head(chain) \in Items /\ typed \in Nat
      /\ \A n \in DOMAIN chain' : n + 1 \in DOMAIN chain /\ chain'[n] = chain[n + 1]
      /\ \A n \in DOMAIN chain' : Head(chain) < chain'[n]
  BY <1>1, ChainTail DEF Typed, TabTyped
<1>3. \A n \in DOMAIN chain :
         /\ New(chain[n], typed', accepted', sent') /\ chain[n] \notin direct /\ chain[n] \in 1..typed
         /\ \A k \in Ops : ~(ops[k].kind = "add" /\ ops[k].item = chain[n])
  BY <1>1 DEF NewInv, ChainIsNew, AddOp, New
<1>4. Taken'
  BY <1>1, <1>2, TakenElsewhere DEF Kinds
<1>5. DirectIsNew' /\ UntypedIsUnsent' /\ Somewhere'
  BY <1>1 DEF NewInv, DirectIsNew, UntypedIsUnsent, Somewhere
<1>6. \A m, n \in DOMAIN chain' : m < n => chain'[m] < chain'[n]
  <2>1. DOMAIN chain' \subseteq Nat
    BY <1>1, ChainTail
  <2>2. \A m, n \in DOMAIN chain : m < n => chain[m] < chain[n]
    BY DEF NewInv, ChainIsNew
  <2>3. ASSUME NEW m \in DOMAIN chain', NEW n \in DOMAIN chain', m < n PROVE chain'[m] < chain'[n]
    <3>1. m + 1 < n + 1
      BY <2>1, <2>3
    <3> QED
      BY <1>2, <2>2, <2>3, <3>1
  <2> QED
    BY <2>3
<1>7. CASE UNCHANGED <<heap, ops, adding>>
  <2>1. AddsAreNew'
    BY <1>1, <1>7 DEF NewInv, AddsAreNew
  <2>2. ASSUME NEW n \in DOMAIN chain' PROVE None < chain'[n]
    <3>1. chain'[n] \in 1..typed
      BY <1>2, <1>3
    <3> QED
      BY <1>2, <3>1, Bounds
  <2>3. ChainIsNew'
    BY <1>1, <1>2, <1>3, <1>6, <1>7, <2>2, Bounds DEF ChainIsNew, AddOp
  <2> QED
    BY <1>4, <1>5, <2>1, <2>3 DEF NewInv
<1>8. CASE adding' = Head(chain) /\ Begin("add", Head(chain))
  <2>1. PICK k \in Ops : ops[k] = NoOp /\ Became(k, "add", Head(chain), "get", None, None, <<>>, <<>>)
    BY <1>2, <1>8, BeginEffect DEF Typed, Kinds
  <2>2. /\ ops'[k].kind = "add" /\ ops'[k].item = Head(chain)
        /\ \A j \in Ops \ {k} : ops'[j] = ops[j]
    BY <2>1 DEF Became
  <2>3. /\ New(Head(chain), typed', accepted', sent') /\ Head(chain) \notin direct'
        /\ Head(chain) \in 1..typed'
        /\ \A j \in Ops : ~(ops[j].kind = "add" /\ ops[j].item = Head(chain))
    BY <1>1, <1>2, <1>3
  <2>4. AddsAreNew'
    <3>1. ASSUME NEW j \in Ops, Unread(ops'[j])
          PROVE  New(ops'[j].item, typed', accepted', sent') /\ ops'[j].item \notin direct'
      <4>1. CASE j = k
        BY <2>2, <2>3, <4>1
      <4>2. CASE j # k
        BY <1>1, <2>2, <3>1, <4>2 DEF NewInv, AddsAreNew
      <4> QED
        BY <4>1, <4>2
    <3>2. ASSUME NEW j \in Ops, ops'[j].kind = "add" PROVE ops'[j].item \in 1..typed'
      <4>1. CASE j = k
        BY <2>2, <2>3, <4>1
      <4>2. CASE j # k
        BY <1>1, <2>2, <3>2, <4>2 DEF NewInv, AddsAreNew
      <4> QED
        BY <4>1, <4>2
    <3>3. ASSUME NEW j \in Ops, NEW m \in Ops, j # m, ops'[j].kind = "add", ops'[m].kind = "add"
          PROVE  ops'[j].item # ops'[m].item
      <4>1. CASE j = k
        BY <2>2, <2>3, <3>3, <4>1
      <4>2. CASE m = k
        BY <2>2, <2>3, <3>3, <4>2
      <4>3. CASE j # k /\ m # k
        BY <2>2, <3>3, <4>3 DEF NewInv, AddsAreNew
      <4> QED
        BY <4>1, <4>2, <4>3
    <3> QED
      BY <3>1, <3>2, <3>3 DEF AddsAreNew
  <2>5. ChainIsNew'
    <3>1. ASSUME NEW n \in DOMAIN chain'
          PROVE  /\ New(chain'[n], typed', accepted', sent') /\ chain'[n] \notin direct'
                 /\ adding' < chain'[n]
                 /\ \A j \in Ops : ~(ops'[j].kind = "add" /\ ops'[j].item = chain'[n])
      <4>1. /\ New(chain'[n], typed', accepted', sent') /\ chain'[n] \notin direct
            /\ \A j \in Ops : ~(ops[j].kind = "add" /\ ops[j].item = chain'[n])
            /\ Head(chain) < chain'[n] /\ chain'[n] \in 1..typed
        BY <1>2, <1>3
      <4>2. Head(chain) # chain'[n]
        BY <1>2, <4>1, Bounds
      <4> QED
        BY <1>1, <1>8, <2>2, <4>1, <4>2
    <3>2. adding' <= typed'
      BY <1>1, <1>2, <1>8, <2>3
    <3> QED
      BY <1>6, <3>1, <3>2 DEF ChainIsNew, AddOp
  <2> QED
    BY <1>4, <1>5, <2>4, <2>5 DEF NewInv
<1> QED
  BY <1>1, <1>7, <1>8

LEMMA NewAtFirst == ASSUME Init, Typed PROVE NewInv
<1>1. /\ \A l \in Lists : heap[l] = <<>>
      /\ \A k \in Ops : ops[k] = NoOp
      /\ output = <<>> /\ shown = <<>> /\ chain = <<>> /\ typed = 0 /\ adding = None
      /\ accepted = {} /\ removed = {} /\ direct = {} /\ \A i \in Items : sent[i] = 0
  BY DEF Init
<1>2. Taken
  BY <1>1, NoOpFacts, EmptyFacts DEF Taken, Lined
<1>3. AddsAreNew
  BY <1>1, NoOpFacts DEF AddsAreNew, Unread
<1>4. ChainIsNew
  BY <1>1, Bounds DEF ChainIsNew
<1> QED
  BY <1>1, <1>2, <1>3, <1>4 DEF NewInv, DirectIsNew, UntypedIsUnsent, Somewhere

LEMMA NewStep ==
    ASSUME Typed, ListsInv, NewInv, [Next]_vars
    PROVE  NewInv'
<1>0. typed \in Nat /\ ToSet(output) \subseteq accepted
  BY DEF Typed, TabTyped, NewInv, Taken
<1>1. ASSUME NEW k \in Ops, Operates(k) PROVE NewInv'
  BY <1>1, OperateTaken, OperateNew
<1>2. ASSUME NEW kind, NEW i, Starts(kind, i) PROVE NewInv'
  <2>1. /\ kind \in Kinds \ {"none", "add"} /\ i \in Items \cup {None} /\ Begin(kind, i)
        /\ UNCHANGED <<output, accepted, removed, sent, typed, direct, pending, chain, adding, givenUp, shown>>
    BY <1>2 DEF Starts, Kinds, ghosts, tab
  <2>2. NoNewAdd
    BY <2>1, BeginsNoAdd
  <2>3. Taken'
    BY <1>0, <2>1, TakenElsewhere
  <2> QED
    BY <2>1, <2>2, <2>3, NewKept
<1>3. CASE TypeMessage
  BY <1>3, TypeMessageNew
<1>4. CASE DirectArrives
  BY <1>4, DirectArrivesNew
<1>5. CASE DirectFails
  <2>1. /\ UNCHANGED <<heap, ops, output, accepted, removed, sent, typed, pending, chain, adding, shown>>
        /\ direct' \subseteq direct /\ direct \cup givenUp \subseteq direct' \cup givenUp'
    BY <1>5 DEF DirectFails, server, ghosts
  <2>2. NoNewAdd /\ Taken'
    BY <1>0, <2>1, TakenElsewhere DEF NoNewAdd
  <2> QED
    BY <2>1, <2>2, NewKept
<1>6. CASE AddStarts
  BY <1>6, AddStartsNew
<1>7. CASE AddReturns
  <2>1. /\ UNCHANGED <<heap, ops, output, accepted, removed, sent, typed, direct, pending, chain, givenUp, shown>>
        /\ adding' = None
    BY <1>7 DEF AddReturns, server, ghosts
  <2>2. NoNewAdd /\ Taken'
    BY <1>0, <2>1, TakenElsewhere DEF NoNewAdd
  <2> QED
    BY <2>1, <2>2, NewKept
<1>8. CASE Snapshot
  <2>1. /\ UNCHANGED <<heap, ops, output, accepted, removed, sent, typed, direct, chain, adding, givenUp>>
        /\ shown' = output /\ pending' = pending \ ToSet(output)
    BY <1>8 DEF Snapshot, server, ghosts
  <2>2. NoNewAdd /\ Taken'
    BY <1>0, <2>1 DEF NoNewAdd, Taken, Lined, NewInv
  <2> QED
    BY <1>0, <2>1, <2>2, NewKept
<1>9. ASSUME NEW i \in Items, GaveUp(i) PROVE NewInv'
  <2>1. /\ UNCHANGED <<output, accepted, removed, sent, typed, direct, chain, shown>>
        /\ adding' \in {adding, None} /\ pending \cup givenUp \subseteq pending' \cup givenUp'
        /\ UNCHANGED <<heap, ops>> \/ \E k \in Ops : End(k)
    BY <1>9 DEF GaveUp, server, ghosts
  <2>2. NoNewAdd
    BY <2>1, EndsNoAdd DEF NoNewAdd
  <2>3. Taken'
    BY <1>0, <2>1, TakenElsewhere
  <2> QED
    BY <2>1, <2>2, <2>3, NewKept
<1>10. CASE UNCHANGED <<server, ghosts, tab>>
  BY <1>10 DEF server, ghosts, tab, NewInv, Taken, Lined, AddsAreNew, ChainIsNew, DirectIsNew,
               UntypedIsUnsent, Somewhere, AddOp
<1> QED
  BY <1>1, <1>2, <1>3, <1>4, <1>5, <1>6, <1>7, <1>8, <1>9, <1>10, NextCases

-----------------------------------------------------------------------------
(* The order of the queue                                                  *)

LEMMA WroteInOrder ==
    ASSUME NEW h, Wrote(h), NEW but, \A l \in Lists : InOrder(h[l], but)
    PROVE  \A l \in Lists : InOrder(heap'[l], but)
BY EmptyFacts DEF Wrote

LEMMA MoreOutOfOrder ==
    ASSUME NEW s, NEW but, NEW more, but \subseteq more, InOrder(s, but)
    PROVE  InOrder(s, more)
BY DEF InOrder

\* What the step of an operation does to the order of the lists.
LEMMA OperateInOrder ==
    ASSUME Typed, ListsInv, NewInv, OrderInv, NEW k \in Ops, Operates(k)
    PROVE  \A l \in Lists : InOrder(heap'[l], givenUp)
<1> DEFINE o == ops[k]
<1>1. /\ ServerTyped /\ GhostsTyped /\ OpShape(o) /\ o \in Operation
      /\ cell \in Lists \cup {None} /\ heap \in [Lists -> Seq(Items)]
      /\ \A l \in Lists : InOrder(heap[l], givenUp)
  BY DEF Typed, ServerTyped, ListsInv, OrderInv
<1>2. InOrder(Queue, givenUp) /\ Queue \in Seq(Items)
  BY <1>1, QueueType, EmptyFacts
<1>3. ASSUME NEW l \in Lists, NEW s, Changed(l, s), InOrder(s, givenUp)
      PROVE  \A m \in Lists : InOrder(heap'[m], givenUp)
  <2> DEFINE h == [heap EXCEPT ![l] = s]
  <2>1. Wrote(h) /\ \A m \in Lists : InOrder(h[m], givenUp)
    BY <1>1, <1>3 DEF Changed
  <2> HIDE DEF h
  <2> QED
    BY <2>1, WroteInOrder
<1>4. ASSUME Wrote(heap) PROVE \A m \in Lists : InOrder(heap'[m], givenUp)
  BY <1>1, <1>4, WroteInOrder
<1>5. CASE Get(k)
  <2>1. GetEffect(k)
    BY <1>1, <1>5, GetIs
  <2>2. \/ Wrote(heap)
        \/ \E l : Fresh(l) /\ Changed(l, <<>>)
        \/ \E l : Fresh(l) /\ Changed(l, RemoveFirst(Queue, o.item))
    BY <2>1 DEF GetEffect
  <2>3. InOrder(RemoveFirst(Queue, o.item), givenUp) /\ InOrder(<<>>, givenUp)
    BY <1>2, RemoveInOrder, EmptyFacts
  <2> QED
    BY <1>3, <1>4, <2>2, <2>3 DEF Fresh
<1>6. CASE Change(k)
  <2>1. ChangeEffect(k) /\ o.at = "change" /\ o.list \in Lists
    BY <1>1, <1>6, ChangeIs
  <2>2. heap[o.list] \in Seq(Items) /\ InOrder(heap[o.list], givenUp)
    BY <1>1, <2>1
  <2>3. CASE o.kind = "add" /\ Changed(o.list, Append(heap[o.list], o.item))
    <3>1. Unread(o) /\ o.item \in Items
      BY <1>1, <2>1, <2>3 DEF Unread, OpShape
    <3>2. o.item \in givenUp \/ (o.item = adding /\ \A j \in accepted \ givenUp : j < adding)
      BY <3>1 DEF OrderInv
    <3>3. ToSet(heap[o.list]) \subseteq accepted
      BY <2>1 DEF NewInv, Taken, Lined
    <3>4. InOrder(Append(heap[o.list], o.item), givenUp)
      BY <2>2, <3>1, <3>2, <3>3, AppendInOrder
    <3> QED
      BY <1>3, <2>1, <2>3, <3>4
  <2>4. CASE \E i : Changed(o.list, RemoveFirst(heap[o.list], i))
    BY <1>3, <2>1, <2>2, <2>4, RemoveInOrder
  <2> QED
    BY <1>4, <2>1, <2>3, <2>4 DEF ChangeEffect
<1>7. CASE Set(k)
  <2>1. SetEffect(k)
    BY <1>1, <1>7, SetIs
  <2> QED
    BY <1>4, <2>1 DEF SetEffect
<1>8. CASE Sync(k) \/ Publish(k) \/ Send(k)
  BY <1>1, <1>4, <1>8, SyncIs, PublishIs, SendIs
<1> QED
  BY <1>5, <1>6, <1>7, <1>8 DEF Operates

LEMMA OperateOrder ==
    ASSUME Typed, ListsInv, NewInv, OrderInv, NEW k \in Ops, Operates(k)
    PROVE  OrderInv'
<1>1. UNCHANGED <<chain, adding, givenUp>> /\ (TakesNone(k) \/ TakesOne(k))
  BY OperateTaken DEF Operates, tab
<1>2. \A l \in Lists : InOrder(heap'[l], givenUp')
  BY <1>1, OperateInOrder
<1>3. \A j \in Ops \ {k} : ops'[j] = ops[j]
  BY <1>1 DEF TakesNone, TakesOne, AddStays
<1>4. CASE TakesNone(k)
  <2>1. accepted' = accepted
    BY <1>4 DEF TakesNone
  <2>2. ASSUME NEW j \in Ops, Unread(ops'[j]) PROVE Unread(ops[j]) /\ ops'[j].item = ops[j].item
    <3>1. CASE j = k
      BY <1>4, <2>2, <3>1 DEF TakesNone, AddStays, Unread
    <3>2. CASE j # k
      BY <1>3, <2>2, <3>2
    <3> QED
      BY <3>1, <3>2
  <2> QED
    BY <1>1, <1>2, <2>1, <2>2 DEF OrderInv
<1>5. CASE TakesOne(k)
  <2> DEFINE i == ops[k].item
  <2>1. accepted' = accepted \cup {i} /\ Unread(ops[k]) /\ ~Unread(ops'[k])
    BY <1>5 DEF TakesOne
  <2>2. i \in givenUp \/ i = adding
    BY <2>1 DEF OrderInv
  <2>3. ASSUME NEW j \in Ops, Unread(ops'[j]), ops'[j].item \notin givenUp
        PROVE  ops'[j].item = adding /\ \A m \in accepted' \ givenUp : m < adding
    <3>1. j # k /\ ops'[j] = ops[j]
      BY <1>3, <2>1, <2>3
    <3>2. ops[j].item = adding /\ \A m \in accepted \ givenUp : m < adding
      BY <2>3, <3>1 DEF OrderInv
    <3>3. ops[j].item # i
      BY <2>1, <2>3, <3>1 DEF NewInv, AddsAreNew, Unread
    <3> QED
      BY <2>1, <2>2, <3>1, <3>2, <3>3
  <2>4. ASSUME NEW j \in accepted' \ givenUp, NEW n \in DOMAIN chain PROVE j < chain[n]
    <3>1. CASE j \in accepted
      BY <2>4, <3>1 DEF OrderInv
    <3>2. CASE j = i
      BY <2>2, <2>4, <3>2 DEF NewInv, ChainIsNew
    <3> QED
      BY <2>1, <3>1, <3>2
  <2> QED
    BY <1>1, <1>2, <2>3, <2>4 DEF OrderInv
<1> QED
  BY <1>1, <1>4, <1>5

\* Elsewhere lists are only emptied, and an add may begin with the first of the chain.
LEMMA OrderElsewhere ==
    ASSUME Typed, OrderInv, givenUp \subseteq givenUp', UNCHANGED accepted,
           UNCHANGED heap \/ Wrote(heap),
           \A k \in Ops : Unread(ops'[k]) /\ ops'[k].item \notin givenUp' =>
              \/ ops'[k] = ops[k] /\ adding' = adding
              \/ ops'[k].item = adding' /\ \A j \in accepted \ givenUp : j < adding',
           \A j \in accepted \ givenUp : \A n \in DOMAIN chain' : j < chain'[n]
    PROVE  OrderInv'
<1>1. \A l \in Lists : InOrder(heap[l], givenUp')
  BY MoreOutOfOrder DEF OrderInv
<1>2. \A l \in Lists : InOrder(heap'[l], givenUp')
  BY <1>1, WroteInOrder
<1>3. \A k \in Ops : Unread(ops'[k]) /\ ops'[k].item \notin givenUp' =>
         ops'[k].item = adding' /\ \A j \in accepted' \ givenUp' : j < adding'
  <2>1. SUFFICES ASSUME NEW k \in Ops, Unread(ops'[k]), ops'[k].item \notin givenUp'
                 PROVE  ops'[k].item = adding' /\ \A j \in accepted \ givenUp : j < adding'
    OBVIOUS
  <2>2. CASE ops'[k] = ops[k] /\ adding' = adding
    BY <2>1, <2>2 DEF OrderInv
  <2> QED
    BY <2>1, <2>2
<1> QED
  BY <1>2, <1>3 DEF OrderInv

LEMMA OrderAtFirst == ASSUME Init PROVE OrderInv
<1>1. /\ \A l \in Lists : heap[l] = <<>>
      /\ \A k \in Ops : ops[k] = NoOp
      /\ accepted = {}
  BY DEF Init
<1> QED
  BY <1>1, EmptyFacts, NoOpFacts DEF OrderInv, Unread

LEMMA OrderStep ==
    ASSUME Typed, ListsInv, NewInv, OrderInv, [Next]_vars
    PROVE  OrderInv'
<1>0. /\ ServerTyped
      /\ \A j \in accepted \ givenUp : \A n \in DOMAIN chain : j < chain[n]
  BY DEF Typed, OrderInv
<1>1. ASSUME NEW k \in Ops, Operates(k) PROVE OrderInv'
  BY <1>1, OperateOrder
<1>2. ASSUME NEW kind, NEW i, Starts(kind, i) PROVE OrderInv'
  <2>1. /\ kind \in Kinds \ {"none", "add"} /\ i \in Items \cup {None} /\ Begin(kind, i)
        /\ UNCHANGED <<accepted, chain, adding, givenUp>>
    BY <1>2 DEF Starts, Kinds, ghosts, tab
  <2>2. NoNewAdd /\ Wrote(heap)
    BY <1>0, <2>1, BeginsNoAdd, BeginEffect
  <2> QED
    BY <1>0, <2>1, <2>2, OrderElsewhere DEF NoNewAdd, Unread
<1>3. CASE TypeMessage
  <2>1. /\ UNCHANGED <<heap, ops, accepted, adding, givenUp>>
        /\ chain' \in {chain, Append(chain, typed + 1)}
    BY <1>3 DEF TypeMessage, server, ghosts
  <2>2. \A j \in accepted : j < typed + 1
    BY Bounds DEF NewInv, Taken, Typed, TabTyped
  <2>3. ASSUME NEW j \in accepted \ givenUp, NEW n \in DOMAIN Append(chain, typed + 1)
        PROVE  j < Append(chain, typed + 1)[n]
    <3>1. n \in DOMAIN chain \/ n = Len(chain) + 1
      BY DEF Typed, TabTyped
    <3>2. CASE n \in DOMAIN chain
      BY <1>0, <3>2 DEF Typed, TabTyped
    <3>3. CASE n = Len(chain) + 1
      BY <2>2, <3>3 DEF Typed, TabTyped
    <3> QED
      BY <3>1, <3>2, <3>3
  <2> QED
    BY <1>0, <2>1, <2>3, OrderElsewhere
<1>4. CASE DirectArrives \/ DirectFails
  <2>1. UNCHANGED <<heap, ops, accepted, chain, adding>> /\ givenUp \subseteq givenUp'
    BY <1>4 DEF DirectArrives, DirectFails, server, ghosts
  <2> QED
    BY <1>0, <2>1, OrderElsewhere
<1>5. CASE AddStarts
  <2>1. /\ chain # <<>> /\ chain' = Tail(chain) /\ UNCHANGED <<accepted, givenUp>>
        /\ \/ UNCHANGED <<heap, ops, adding>>
           \/ adding' = Head(chain) /\ Begin("add", Head(chain))
    BY <1>5 DEF AddStarts, server, ghosts
  <2>2. /\ 1 \in DOMAIN chain /\ Head(chain) = chain[1] /\ Head(chain) \in Items
        /\ \A n \in DOMAIN chain' : n + 1 \in DOMAIN chain /\ chain'[n] = chain[n + 1]
    BY <2>1, ChainTail
  <2>3. \A j \in accepted \ givenUp : j < Head(chain) /\ \A n \in DOMAIN chain' : j < chain'[n]
    BY <1>0, <2>2
  <2>4. CASE UNCHANGED <<heap, ops, adding>>
    BY <2>1, <2>3, <2>4, OrderElsewhere
  <2>5. CASE adding' = Head(chain) /\ Begin("add", Head(chain))
    <3>1. PICK k \in Ops : Wrote(heap) /\ Became(k, "add", Head(chain), "get", None, None, <<>>, <<>>)
      BY <1>0, <2>2, <2>5, BeginEffect DEF Kinds
    <3>2. ASSUME NEW j \in Ops, Unread(ops'[j]), ops'[j].item \notin givenUp
          PROVE  ops'[j].item = adding'
      <4>1. CASE j = k
        BY <2>5, <3>1, <4>1 DEF Became
      <4>2. CASE j # k
        <5>1. ops'[j] = ops[j]
          BY <3>1, <4>2 DEF Became
        <5>2. ops[j].item = adding /\ ops[j].item \in Items
          BY <3>2, <5>1 DEF OrderInv, ListsInv, OpShape, Unread
        <5>3. adding = None
          BY <1>5 DEF AddStarts
        <5> QED
          BY <5>2, <5>3, Bounds
      <4> QED
        BY <4>1, <4>2
    <3> QED
      BY <2>1, <2>3, <2>5, <3>1, <3>2, OrderElsewhere
  <2> QED
    BY <2>1, <2>4, <2>5
<1>6. CASE AddReturns
  <2>1. /\ UNCHANGED <<heap, ops, accepted, chain, givenUp>> /\ adding \in Items
        /\ \A k \in Ops : ~(ops[k].kind = "add" /\ ops[k].item = adding)
    BY <1>6 DEF AddReturns, server, ghosts, AddOp, Typed, TabTyped
  <2>2. \A k \in Ops : ~(Unread(ops'[k]) /\ ops'[k].item \notin givenUp')
    BY <2>1 DEF OrderInv, Unread
  <2> QED
    BY <1>0, <2>1, <2>2, OrderElsewhere
<1>7. CASE Snapshot \/ UNCHANGED <<server, ghosts, tab>>
  <2>1. UNCHANGED <<heap, ops, accepted, chain, adding, givenUp>>
    BY <1>7 DEF Snapshot, server, ghosts, tab
  <2> QED
    BY <1>0, <2>1, OrderElsewhere
<1>8. ASSUME NEW i \in Items, GaveUp(i) PROVE OrderInv'
  <2>1. /\ UNCHANGED <<accepted, chain>> /\ givenUp' = givenUp \cup {i}
        /\ adding' = adding \/ i = adding
        /\ UNCHANGED <<heap, ops>> \/ \E k \in Ops : End(k)
    BY <1>8 DEF GaveUp, server, ghosts
  <2>2. NoNewAdd /\ (UNCHANGED heap \/ Wrote(heap))
    BY <1>0, <2>1, EndsNoAdd, EndEffect DEF NoNewAdd
  <2>3. ASSUME NEW k \in Ops, Unread(ops'[k]), ops'[k].item \notin givenUp'
        PROVE  ops'[k] = ops[k] /\ adding' = adding
    <3>1. ops'[k] = ops[k] /\ Unread(ops[k])
      BY <2>2, <2>3 DEF NoNewAdd, Unread
    <3>2. ops[k].item = adding
      BY <2>1, <2>3, <3>1 DEF OrderInv
    <3> QED
      BY <2>1, <2>3, <3>1, <3>2
  <2> QED
    BY <1>0, <2>1, <2>2, <2>3, OrderElsewhere
<1> QED
  BY <1>1, <1>2, <1>3, <1>4, <1>5, <1>6, <1>7, <1>8, NextCases

-----------------------------------------------------------------------------
(* Where a message is                                                      *)

LEMMA WroteQueue ==
    ASSUME NEW h, Wrote(h), cell' \in Lists \cup {None}
    PROVE  Queue' = IF cell' = None THEN <<>> ELSE h[cell']
BY DEF Wrote, Queue, Content, Held

LEMMA SameQueue ==
    ASSUME ServerTyped, cell' = cell,
           Wrote(heap) \/ \E l \in Lists : l # cell /\ \E s : Changed(l, s)
    PROVE  Queue' = Queue
<1>1. cell' \in Lists \cup {None} /\ heap \in [Lists -> Seq(Items)]
  BY DEF ServerTyped
<1>2. CASE Wrote(heap)
  BY <1>1, <1>2, WroteQueue DEF Queue, Content
<1>3. ASSUME NEW l \in Lists, l # cell, NEW s, Changed(l, s) PROVE Queue' = Queue
  <2> DEFINE h == [heap EXCEPT ![l] = s]
  <2>1. Wrote(h) /\ (cell # None => h[cell] = heap[cell])
    BY <1>1, <1>3 DEF Changed
  <2> HIDE DEF h
  <2> QED
    BY <1>1, <2>1, WroteQueue DEF Queue, Content
<1> QED
  BY <1>2, <1>3

\* An operation holds message i detached from the queue.
Detaches(o, i) == o.kind = "add" /\ o.item = i /\ o.at = "set" /\ o.list # o.from

\* An operation other than k has it detached, or in its hands.
DetachedElse(k, i) == \E j \in Ops \ {k} : Detaches(ops[j], i)
HandElse(k, i) == \E j \in Ops \ {k} : i \in ToSet(ops[j].hand)

LEMMA Elsewhere ==
    ASSUME NEW k \in Ops, NEW i
    PROVE  /\ Detached(i) <=> Detaches(ops[k], i) \/ DetachedElse(k, i)
           /\ InHand(i) <=> i \in ToSet(ops[k].hand) \/ HandElse(k, i)
BY DEF Detached, AddOp, Detaches, DetachedElse, InHand, HandElse

LEMMA ElsewhereAfter ==
    ASSUME NEW k \in Ops, \A j \in Ops \ {k} : ops'[j] = ops[j], NEW i
    PROVE  /\ Detached(i)' <=> Detaches(ops'[k], i) \/ DetachedElse(k, i)
           /\ InHand(i)' <=> i \in ToSet(ops'[k].hand) \/ HandElse(k, i)
<1>1. Detached(i)' <=> \E j \in Ops : Detaches(ops'[j], i)
  BY DEF Detached, AddOp, Detaches
<1>2. InHand(i)' <=> \E j \in Ops : i \in ToSet(ops'[j].hand)
  BY DEF InHand
<1>3. (\E j \in Ops : Detaches(ops'[j], i)) <=> Detaches(ops'[k], i) \/ DetachedElse(k, i)
  BY DEF DetachedElse
<1>4. (\E j \in Ops : i \in ToSet(ops'[j].hand)) <=> i \in ToSet(ops'[k].hand) \/ HandElse(k, i)
  BY DEF HandElse
<1> QED
  BY <1>1, <1>2, <1>3, <1>4

\* One hand, when only that of k changes.
LEMMA OneHandKept ==
    ASSUME OneHand, NEW k \in Ops, \A j \in Ops \ {k} : ops'[j] = ops[j],
           \A i \in Items : i \in ToSet(ops'[k].hand) => i \in ToSet(ops[k].hand) \/ ~InHand(i)
    PROVE  OneHand'
<1>1. SUFFICES ASSUME NEW i \in Items, NEW j \in Ops, NEW m \in Ops,
                      i \in ToSet(ops'[j].hand), i \in ToSet(ops'[m].hand), j # m
               PROVE  FALSE
  BY DEF OneHand
<1>2. CASE j # k /\ m # k
  BY <1>1, <1>2 DEF OneHand
<1>3. CASE j = k
  BY <1>1, <1>3 DEF OneHand, InHand
<1>4. CASE m = k
  BY <1>1, <1>4 DEF OneHand, InHand
<1> QED
  BY <1>2, <1>3, <1>4

\* A step of operation k that moves no message.
LEMMA PlaceFrame ==
    ASSUME PlaceInv, raced => raced', NEW k \in Ops, \A j \in Ops \ {k} : ops'[j] = ops[j],
           ~Detaches(ops'[k], ops'[k].item), ~Detaches(ops[k], ops[k].item),
           ToSet(ops'[k].hand) = ToSet(ops[k].hand), Queue' = Queue,
           UNCHANGED <<accepted, removed, sent>>
    PROVE  PlaceInv'
<1>1. SUFFICES ASSUME ~raced', ~raced, OneHand, \A i \in accepted : OnePlace(i)
               PROVE  OneHand' /\ \A i \in accepted : OnePlace(i)'
  BY DEF PlaceInv
<1>2. OneHand'
  BY <1>1, OneHandKept
<1>3. ASSUME NEW i \in accepted PROVE OnePlace(i)'
  <2>1. ~Detaches(ops[k], i) /\ ~Detaches(ops'[k], i)
    BY DEF Detaches
  <2>2. (Detached(i)' <=> Detached(i)) /\ (InHand(i)' <=> InHand(i))
    BY <2>1, Elsewhere, ElsewhereAfter
  <2>3. OnePlace(i)
    BY <1>1
  <2> QED
    BY <2>2, <2>3 DEF OnePlace
<1> QED
  BY <1>2, <1>3

LEMMA ChangePlace ==
    ASSUME Typed, ListsInv, NewInv, PlaceInv, ~raced, ~raced', NEW k \in Ops, Change(k)
    PROVE  PlaceInv'
<1> DEFINE o == ops[k]
           list == heap[o.list]
<1>1. /\ ServerTyped /\ OpShape(o) /\ o \in Operation /\ cell \in Lists \cup {None}
      /\ heap \in [Lists -> Seq(Items)] /\ OneHand /\ (\A i \in accepted : OnePlace(i))
      /\ ToSet(o.hand) \subseteq accepted /\ accepted \subseteq Items
  BY DEF Typed, ServerTyped, GhostsTyped, ListsInv, PlaceInv, NewInv, Taken
<1>2. /\ ChangeEffect(k) /\ cell' = cell /\ o.at = "change" /\ o.list \in Lists
      /\ UNCHANGED <<sent, removed>>
  BY <1>1, ChangeIs
<1>3. CASE /\ o.kind = "add"
           /\ Changed(o.list, Append(list, o.item))
           /\ Became(k, o.kind, o.item, "set", o.list, o.from, o.seen, o.hand)
           /\ accepted' = accepted \cup {o.item} /\ raced' = (raced \/ cell # o.from)
  <2>1. PICK x \in Items : x = o.item
    BY <1>1, <1>3 DEF OpShape
  <2>2. /\ cell = o.from /\ x \notin accepted /\ sent[x] = 0 /\ x \notin removed
        /\ list \in Seq(Items)
    BY <1>1, <1>2, <1>3, <2>1 DEF NewInv, AddsAreNew, Unread, New, Taken, OpShape
  <2>3. ~InHand(x) /\ x \notin ToSet(Queue)
    BY <2>2, QueueTaken DEF NewInv, Taken, InHand
  <2>4. ~DetachedElse(k, x)
    BY <1>3, <2>1 DEF DetachedElse, Detaches, NewInv, AddsAreNew
  <2>5. /\ \A j \in Ops \ {k} : ops'[j] = ops[j]
        /\ ops'[k].hand = o.hand
        /\ ~Detaches(o, o.item)
        /\ \A i : Detaches(ops'[k], i) <=> i = x /\ o.list # o.from
    BY <1>2, <1>3, <2>1 DEF Became, Detaches
  <2>6. IF o.list = o.from THEN ToSet(Queue') = ToSet(Queue) \cup {x} ELSE Queue' = Queue
    <3>1. CASE o.list = o.from
      <4> DEFINE h == [heap EXCEPT ![o.list] = Append(list, x)]
      <4>1. Wrote(h) /\ h[cell] = Append(list, x) /\ list = Queue /\ cell' # None
        BY <1>1, <1>2, <1>3, <2>2, <2>1, <3>1, QueueType, Bounds DEF Changed
      <4> HIDE DEF h
      <4>2. Queue' = Append(list, x)
        BY <1>1, <1>2, <4>1, WroteQueue
      <4>3. ToSet(Append(list, x)) = ToSet(list) \cup {x}
        BY <2>2, AppendFacts
      <4> QED
        BY <3>1, <4>1, <4>2, <4>3
    <3>2. CASE o.list # o.from
      BY <1>1, <1>2, <1>3, <2>2, <3>2, SameQueue
    <3> QED
      BY <3>1, <3>2
  <2>7. OneHand'
    BY <1>1, <2>5, OneHandKept
  <2>8. ASSUME NEW i \in accepted PROVE OnePlace(i)'
    <3>1. OnePlace(i) /\ i # x
      BY <1>1, <2>2
    <3>2. (Detached(i)' <=> Detached(i)) /\ (InHand(i)' <=> InHand(i))
      <4>1. ~Detaches(o, i) /\ ~Detaches(ops'[k], i)
        BY <2>5, <3>1 DEF Detaches
      <4>2. /\ Detached(i) <=> DetachedElse(k, i)
            /\ InHand(i) <=> i \in ToSet(o.hand) \/ HandElse(k, i)
        BY <4>1, Elsewhere
      <4>3. /\ Detached(i)' <=> DetachedElse(k, i)
            /\ InHand(i)' <=> i \in ToSet(o.hand) \/ HandElse(k, i)
        BY <2>5, <4>1, ElsewhereAfter
      <4> QED
        BY <4>2, <4>3
    <3>3. i \in ToSet(Queue') <=> i \in ToSet(Queue)
      BY <2>6, <3>1
    <3> QED
      BY <1>2, <3>1, <3>2, <3>3 DEF OnePlace
  <2>9. OnePlace(x)'
    <3>1. /\ Detached(x)' <=> o.list # o.from
          /\ ~InHand(x)'
      BY <2>3, <2>4, <2>5, Elsewhere, ElsewhereAfter
    <3>2. x \in ToSet(Queue') <=> o.list = o.from
      BY <2>3, <2>6
    <3> QED
      BY <1>2, <2>2, <3>1, <3>2 DEF OnePlace
  <2> QED
    BY <1>3, <2>7, <2>8, <2>9, <2>1 DEF PlaceInv
<1>4. CASE /\ Wrote(heap) /\ Became(k, "none", None, "-", None, None, <<>>, <<>>)
           /\ accepted' = accepted /\ raced' = (raced \/ o.hand # <<>>)
  BY <1>1, <1>2, <1>4, SameQueue, PlaceFrame DEF Became, Detaches
<1>5. CASE /\ o.kind \in Sending
           /\ \E i \in ToSet(list) :
                 /\ Changed(o.list, RemoveFirst(list, i))
                 /\ Became(k, o.kind, o.item, "set", o.list, o.from, o.seen, Append(o.hand, i))
           /\ accepted' = accepted /\ raced' = (raced \/ cell # o.from)
  <2>1. PICK x \in ToSet(list) :
                 /\ Changed(o.list, RemoveFirst(list, x))
                 /\ Became(k, o.kind, o.item, "set", o.list, o.from, o.seen, Append(o.hand, x))
    BY <1>5
  <2>2. cell = o.list /\ cell = o.from /\ list = Queue /\ list \in Seq(Items) /\ IsInjective(list)
    BY <1>1, <1>2, <1>5, QueueType, Bounds DEF OpShape, Sending, NewInv, Taken, Lined
  <2>3. x \in ToSet(Queue) /\ x \in accepted /\ x \in Items /\ ~InHand(x) /\ OnePlace(x)
    BY <1>1, <2>1, <2>2, QueueTaken DEF NewInv, OnePlace
  <2>4. ToSet(Queue') = ToSet(Queue) \ {x}
    <3> DEFINE h == [heap EXCEPT ![o.list] = RemoveFirst(list, x)]
    <3>1. Wrote(h) /\ h[cell] = RemoveFirst(list, x) /\ cell' # None
      BY <1>1, <1>2, <2>1, <2>2, Bounds DEF Changed
    <3> HIDE DEF h
    <3>2. Queue' = RemoveFirst(list, x)
      BY <1>1, <1>2, <3>1, WroteQueue
    <3>3. ToSet(RemoveFirst(list, x)) = ToSet(list) \ {x}
      BY <2>2, RemoveFirstFacts
    <3> QED
      BY <2>2, <3>2, <3>3
  <2>5. /\ \A j \in Ops \ {k} : ops'[j] = ops[j]
        /\ ToSet(ops'[k].hand) = ToSet(o.hand) \cup {x}
        /\ \A i : ~Detaches(o, i) /\ ~Detaches(ops'[k], i)
    <3>1. ToSet(Append(o.hand, x)) = ToSet(o.hand) \cup {x}
      BY <1>1, <2>3, AppendFacts DEF Operation
    <3> QED
      BY <1>5, <2>1, <3>1 DEF Became, Detaches, Sending
  <2>6. OneHand'
    BY <1>1, <2>3, <2>5, OneHandKept
  <2>7. ASSUME NEW i \in accepted PROVE OnePlace(i)'
    <3>1. OnePlace(i) /\ (Detached(i)' <=> Detached(i)) /\ (InHand(i)' <=> InHand(i) \/ i = x)
      BY <1>1, <2>5, Elsewhere, ElsewhereAfter
    <3>2. i \in ToSet(Queue') <=> i \in ToSet(Queue) /\ i # x
      BY <2>4
    <3>3. sent'[i] = sent[i] /\ (i \in removed' <=> i \in removed)
      BY <1>2
    <3>4. CASE i = x
      BY <2>3, <3>1, <3>2, <3>3, <3>4 DEF OnePlace
    <3>5. CASE i # x
      BY <3>1, <3>2, <3>3, <3>5 DEF OnePlace
    <3> QED
      BY <3>4, <3>5
  <2> QED
    BY <1>5, <2>6, <2>7 DEF PlaceInv
<1> QED
  BY <1>2, <1>3, <1>4, <1>5 DEF ChangeEffect

LEMMA SetPlace ==
    ASSUME Typed, ListsInv, NewInv, PlaceInv, ~raced, ~raced', NEW k \in Ops, Set(k)
    PROVE  PlaceInv'
<1> DEFINE o == ops[k]
<1>1. /\ ServerTyped /\ GhostsTyped /\ OpShape(o) /\ o \in Operation /\ cell \in Lists \cup {None}
      /\ heap \in [Lists -> Seq(Items)] /\ OneHand /\ (\A i \in accepted : OnePlace(i))
      /\ Queue \in Seq(Items) /\ IsInjective(Queue)
  BY QueueTaken DEF Typed, ServerTyped, ListsInv, PlaceInv, NewInv
<1>2. SetEffect(k) /\ o.at = "set" /\ cell' \in Lists /\ UNCHANGED <<accepted, sent>>
  BY <1>1, SetIs
<1>3. /\ \A j \in Ops \ {k} : ops'[j] = ops[j]
      /\ ops'[k].hand = o.hand /\ \A i : ~Detaches(ops'[k], i)
      /\ Wrote(heap)
  BY <1>2 DEF SetEffect, Became, Detaches
<1>4. OneHand' /\ \A i : InHand(i)' <=> InHand(i)
  BY <1>1, <1>3, OneHandKept, Elsewhere, ElsewhereAfter
<1>5. Queue' = heap[cell']
  BY <1>2, <1>3, WroteQueue, Bounds
\* What leaves the queue is removed, and what it gets was detached.
<1>6. ASSUME \A i \in accepted : i \in ToSet(Queue') <=>
                (i \in ToSet(Queue) /\ ~(i \in removed' /\ i \notin removed)) \/ Detaches(o, i),
             \A i \in removed' : i \in removed \/ i \in ToSet(Queue),
             removed \subseteq removed',
             \A i \in accepted : i \in removed' /\ i \notin removed => i \in ToSet(Queue)
      PROVE  PlaceInv'
  <2>1. ASSUME NEW i \in accepted PROVE OnePlace(i)'
    <3>1. OnePlace(i) /\ sent'[i] = sent[i] /\ (InHand(i)' <=> InHand(i))
      BY <1>1, <1>2, <1>4
    <3>2. /\ Detached(i) <=> Detaches(o, i) \/ DetachedElse(k, i)
          /\ Detached(i)' <=> DetachedElse(k, i)
      BY <1>3, Elsewhere, ElsewhereAfter
    <3>3. ~(Detaches(o, i) /\ DetachedElse(k, i))
      BY DEF Detaches, DetachedElse, NewInv, AddsAreNew
    <3>4. /\ i \in ToSet(Queue') <=>
                (i \in ToSet(Queue) /\ ~(i \in removed' /\ i \notin removed)) \/ Detaches(o, i)
          /\ i \in removed' <=> i \in removed \/ (i \in removed' /\ i \in ToSet(Queue))
      BY <1>6
    <3> QED
      BY <3>1, <3>2, <3>3, <3>4 DEF OnePlace
  <2> QED
    BY <1>2, <1>4, <2>1 DEF PlaceInv
<1>7. CASE o.kind = "clear"
  <2>1. Fresh(cell') /\ removed' = removed \cup ToSet(Queue)
    BY <1>2, <1>7 DEF SetEffect
  <2>2. cell' \notin Held(cell, ops)
    BY <1>1, <2>1, Bounds DEF Fresh, Held
  <2>3. Queue' = <<>>
    BY <1>2, <1>5, <2>2 DEF ListsInv, UnheldAreEmpty
  <2>4. ToSet(Queue') = {} /\ \A i : ~Detaches(o, i)
    BY <1>7, <2>3, EmptyFacts DEF Detaches
  <2>5. ASSUME NEW i \in accepted, i \in ToSet(Queue) PROVE i \notin removed
    BY <1>1, <2>5 DEF OnePlace
  <2> QED
    BY <1>6, <2>1, <2>4, <2>5
<1>8. CASE o.kind # "clear"
  <2>1. /\ cell' = o.list /\ o.list \in Lists /\ cell = o.from
        /\ o.list = o.from \/ Queue = o.seen
        /\ removed' = removed \cup (IF o.kind = "remove" THEN {o.item} \cap ToSet(Queue) ELSE {})
    BY <1>2, <1>8 DEF SetEffect
  <2>2. CASE o.list = o.from
    <3>1. o.kind # "remove" /\ Queue' = Queue /\ \A i : ~Detaches(o, i)
      BY <1>1, <1>2, <1>5, <2>1, <2>2, QueueType, Bounds DEF OpShape, Detaches
    <3> QED
      BY <1>6, <2>1, <3>1
  <2>3. CASE o.list # o.from
    <3>1. o.kind \in {"add", "remove"} /\ Own(o) /\ Queue = o.seen /\ OwnHas(o, heap[o.list])
      BY <1>1, <2>1, <2>3, Bounds DEF OpShape, Own, ListsInv, OwnContent
    <3>2. CASE o.kind = "add"
      <4>1. Queue = <<>> /\ Queue' = <<o.item>> /\ o.item \in Items /\ removed' = removed
        BY <1>1, <1>2, <1>5, <2>1, <3>1, <3>2 DEF OwnHas, OpShape
      <4>2. ToSet(Queue) = {} /\ ToSet(Queue') = {o.item}
        BY <4>1, EmptyFacts, OneItemFacts
      <4>3. \A i : Detaches(o, i) <=> i = o.item
        BY <1>2, <2>3, <3>2 DEF Detaches
      <4> QED
        BY <1>6, <4>1, <4>2, <4>3
    <3>3. CASE o.kind = "remove"
      <4>1. Queue' = RemoveFirst(Queue, o.item)
        BY <1>5, <2>1, <3>1, <3>3 DEF OwnHas
      <4>2. ToSet(Queue') = ToSet(Queue) \ {o.item}
        BY <1>1, <4>1, RemoveFirstFacts
      <4>3. /\ removed' = removed \cup ({o.item} \cap ToSet(Queue))
            /\ \A i : ~Detaches(o, i)
        BY <2>1, <3>3 DEF Detaches
      <4>4. ASSUME NEW i \in accepted, i \in ToSet(Queue) PROVE i \notin removed
        BY <1>1, <4>4 DEF OnePlace
      <4> QED
        BY <1>6, <4>2, <4>3, <4>4
    <3> QED
      BY <3>1, <3>2, <3>3
  <2> QED
    BY <2>2, <2>3
<1> QED
  BY <1>7, <1>8

LEMMA SendPlace ==
    ASSUME Typed, ListsInv, NewInv, PlaceInv, ~raced, ~raced', NEW k \in Ops, Send(k)
    PROVE  PlaceInv'
<1> DEFINE o == ops[k]
<1>1. /\ ServerTyped /\ GhostsTyped /\ OpShape(o) /\ OneHand /\ (\A i \in accepted : OnePlace(i))
      /\ accepted \subseteq Items
  BY DEF Typed, GhostsTyped, ListsInv, PlaceInv
<1>2. /\ Wrote(heap) /\ cell' = cell /\ o.at = "send"
      /\ Became(k, "none", None, "-", None, None, <<>>, <<>>)
      /\ sent' = [i \in Items |-> IF i \in ToSet(o.hand) THEN sent[i] + 1 ELSE sent[i]]
      /\ UNCHANGED <<accepted, removed>>
  BY <1>1, SendIs
<1>3. /\ \A j \in Ops \ {k} : ops'[j] = ops[j]
      /\ ToSet(ops'[k].hand) = {}
      /\ \A i : ~Detaches(ops'[k], i) /\ ~Detaches(o, i)
  BY <1>2, EmptyFacts DEF Became, Detaches
<1>4. Queue' = Queue
  BY <1>1, <1>2, SameQueue
<1>5. OneHand'
  BY <1>1, <1>3, OneHandKept
<1>6. ASSUME NEW i \in accepted PROVE OnePlace(i)'
  <2>1. OnePlace(i) /\ i \in Items
    BY <1>1
  <2>2. /\ Detached(i)' <=> Detached(i)
        /\ InHand(i) <=> i \in ToSet(o.hand) \/ HandElse(k, i)
        /\ InHand(i)' <=> HandElse(k, i)
    BY <1>3, Elsewhere, ElsewhereAfter
  <2>3. CASE i \in ToSet(o.hand)
    <3>1. ~HandElse(k, i)
      BY <1>1, <2>1, <2>3 DEF HandElse, OneHand
    <3>2. sent[i] = 0 /\ sent'[i] = 1
      BY <1>2, <2>1, <2>2, <2>3 DEF OnePlace
    <3> QED
      BY <1>2, <1>4, <2>1, <2>2, <2>3, <3>1, <3>2 DEF OnePlace
  <2>4. CASE i \notin ToSet(o.hand)
    <3>1. sent'[i] = sent[i]
      BY <1>2, <2>1, <2>4
    <3> QED
      BY <1>2, <1>4, <2>1, <2>2, <2>4, <3>1 DEF OnePlace
  <2> QED
    BY <2>3, <2>4
<1> QED
  BY <1>2, <1>5, <1>6 DEF PlaceInv

LEMMA OperatePlace ==
    ASSUME Typed, ListsInv, NewInv, PlaceInv, NEW k \in Ops, Operates(k)
    PROVE  PlaceInv'
<1> DEFINE o == ops[k]
<1>0. SUFFICES ASSUME ~raced' PROVE PlaceInv'
  BY DEF PlaceInv
<1>1. ServerTyped /\ GhostsTyped /\ OpShape(o) /\ ~raced /\ cell \in Lists \cup {None}
  BY DEF Typed, ServerTyped, ListsInv, Operates
<1>2. CASE Get(k)
  <2>1. /\ GetEffect(k) /\ cell' = cell /\ o.at = "get"
        /\ UNCHANGED <<accepted, sent, removed, raced>>
    BY <1>1, <1>2, GetIs
  <2>2. /\ \A j \in Ops \ {k} : ops'[j] = ops[j]
        /\ ops'[k].hand = o.hand
        /\ ops'[k].kind = "add" => ops'[k].at # "set"
    BY <2>1 DEF GetEffect, Became, Sending
  <2>3. Queue' = Queue
    BY <1>1, <2>1, SameQueue DEF GetEffect, Fresh
  <2> QED
    BY <2>1, <2>2, <2>3, PlaceFrame DEF Detaches
<1>3. CASE Change(k)
  BY <1>0, <1>1, <1>3, ChangePlace
<1>4. CASE Set(k)
  BY <1>0, <1>1, <1>4, SetPlace
<1>5. CASE Sync(k)
  <2>1. /\ Wrote(heap) /\ cell' = cell /\ o.at = "sync"
        /\ Became(k, o.kind, o.item, "publish", o.list, o.from, Queue, o.hand)
        /\ UNCHANGED <<accepted, sent, removed, raced>>
    BY <1>1, <1>5, SyncIs
  <2>2. Queue' = Queue
    BY <1>1, <2>1, SameQueue
  <2> QED
    BY <2>1, <2>2, PlaceFrame DEF Became, Detaches
<1>6. CASE Publish(k)
  <2>1. /\ PublishEffect(k) /\ Wrote(heap) /\ cell' = cell /\ o.at = "publish"
        /\ UNCHANGED <<accepted, sent, removed>>
    BY <1>1, <1>6, PublishIs
  <2>2. Queue' = Queue
    BY <1>1, <2>1, SameQueue
  <2>3. /\ \A j \in Ops \ {k} : ops'[j] = ops[j]
        /\ ops'[k].hand = o.hand /\ ops'[k].at \in {"-", "get", "send"}
    BY <1>1, <2>1 DEF PublishEffect, Became, OpShape, Sending
  <2> QED
    BY <1>1, <2>1, <2>2, <2>3, PlaceFrame DEF Detaches
<1>7. CASE Send(k)
  BY <1>0, <1>1, <1>7, SendPlace
<1> QED
  BY <1>2, <1>3, <1>4, <1>5, <1>6, <1>7 DEF Operates

LEMMA BeginPlace ==
    ASSUME Typed, PlaceInv, NEW kind \in Kinds \ {"none"}, NEW i \in Items \cup {None}, Begin(kind, i),
           UNCHANGED <<accepted, sent, removed, raced>>
    PROVE  PlaceInv'
<1>1. PICK k \in Ops : /\ ops[k] = NoOp /\ Wrote(heap) /\ cell' = cell
                       /\ Became(k, kind, i, IF kind = "clear" THEN "set" ELSE "get",
                                 None, None, <<>>, <<>>)
  BY BeginEffect DEF Typed
<1>2. Queue' = Queue
  BY <1>1, SameQueue DEF Typed
<1> QED
  BY <1>1, <1>2, NoOpFacts, PlaceFrame DEF Became, Detaches

LEMMA PlaceAtFirst == ASSUME Init PROVE PlaceInv
<1>1. accepted = {} /\ \A k \in Ops : ops[k] = NoOp
  BY DEF Init
<1> QED
  BY <1>1, NoOpFacts, EmptyFacts DEF PlaceInv, OneHand

LEMMA SamePlaces ==
    ASSUME PlaceInv, UNCHANGED <<heap, cell, ops, accepted, removed, raced>>,
           \A i \in accepted : sent'[i] = sent[i]
    PROVE  PlaceInv'
<1>1. /\ Queue' = Queue /\ (OneHand' <=> OneHand)
      /\ \A i : (Detached(i)' <=> Detached(i)) /\ (InHand(i)' <=> InHand(i))
  BY DEF Queue, Content, OneHand, Detached, InHand, AddOp
<1>2. ASSUME NEW i \in accepted, OnePlace(i) PROVE OnePlace(i)'
  BY <1>1, <1>2 DEF OnePlace
<1> QED
  BY <1>1, <1>2 DEF PlaceInv

LEMMA PlaceStep ==
    ASSUME Typed, ListsInv, NewInv, PlaceInv, [Next]_vars
    PROVE  PlaceInv'
<1>1. ASSUME NEW k \in Ops, Operates(k) PROVE PlaceInv'
  BY <1>1, OperatePlace
<1>2. ASSUME NEW kind, NEW i, Starts(kind, i) PROVE PlaceInv'
  BY <1>2, BeginPlace DEF Starts, Kinds, ghosts
<1>3. CASE TypeMessage \/ DirectFails \/ AddReturns \/ Snapshot \/ UNCHANGED <<server, ghosts, tab>>
  BY <1>3, SamePlaces DEF TypeMessage, DirectFails, AddReturns, Snapshot, server, ghosts
<1>4. CASE DirectArrives
  <2>1. PICK i \in direct : Communicate({i})
    BY <1>4 DEF DirectArrives
  <2>2. /\ i \notin accepted /\ accepted \subseteq Items
        /\ UNCHANGED <<heap, cell, ops, accepted, removed, raced>>
    BY <1>4 DEF NewInv, DirectIsNew, New, DirectArrives, server, Typed, GhostsTyped
  <2>3. \A j \in accepted : sent'[j] = sent[j]
    BY <2>1, <2>2 DEF Communicate
  <2> QED
    BY <2>2, <2>3, SamePlaces
<1>5. CASE AddStarts
  <2>1. /\ chain # <<>> /\ UNCHANGED <<accepted, sent, removed, raced>>
        /\ UNCHANGED <<heap, cell, ops>> \/ Begin("add", Head(chain))
    BY <1>5 DEF AddStarts, server, ghosts
  <2>2. Head(chain) \in Items
    BY <2>1 DEF Typed, TabTyped
  <2> QED
    BY <2>1, <2>2, SamePlaces, BeginPlace DEF Kinds
<1>6. ASSUME NEW i \in Items, GaveUp(i) PROVE PlaceInv'
  <2>1. /\ UNCHANGED <<accepted, sent, removed, raced>>
        /\ \/ UNCHANGED <<heap, cell, ops>>
           \/ \E k \in Ops : ops[k].kind = "add" /\ ops[k].at = "get" /\ End(k)
    BY <1>6 DEF GaveUp, server, ghosts, AddOp
  <2>2. ASSUME NEW k \in Ops, ops[k].kind = "add", ops[k].at = "get", End(k) PROVE PlaceInv'
    <3>1. /\ Wrote(heap) /\ cell' = cell
          /\ Became(k, "none", None, "-", None, None, <<>>, <<>>)
      BY <2>2, EndEffect DEF Typed
    <3>2. Queue' = Queue
      BY <3>1, SameQueue DEF Typed
    <3>3. ops[k].hand = <<>>
      BY <2>2 DEF ListsInv, OpShape, Sending
    <3> QED
      BY <2>1, <2>2, <3>1, <3>2, <3>3, PlaceFrame DEF Became, Detaches
  <2> QED
    BY <2>1, <2>2, SamePlaces
<1> QED
  BY <1>1, <1>2, <1>3, <1>4, <1>5, <1>6, NextCases


-----------------------------------------------------------------------------
(* What is published                                                       *)

Publishing(o) == o.at \in {"set", "sync", "publish"}

\* A step of operation k that leaves the queue and what is published alone, and either is
\* about to publish or was not.
LEMMA PublishFrame ==
    ASSUME PublishInv, raced => raced', output' = output, Queue' = Queue,
           NEW k \in Ops, \A j \in Ops \ {k} : ops'[j] = ops[j],
           Publishing(ops[k]) => Publishing(ops'[k])
    PROVE  PublishInv'
<1>1. SUFFICES ASSUME ~raced', output' # Queue' PROVE \E j \in Ops : ops'[j].at \in {"set", "sync", "publish"}
  BY DEF PublishInv
<1>2. PICK j \in Ops : Publishing(ops[j])
  BY <1>1 DEF PublishInv, Publishing
<1>3. Publishing(ops'[j])
  BY <1>2
<1> QED
  BY <1>3 DEF Publishing

\* One that is about to publish after it.
LEMMA WillPublish ==
    ASSUME NEW k \in Ops, Publishing(ops'[k])
    PROVE  PublishInv'
BY DEF PublishInv, Publishing

LEMMA OperatePublish ==
    ASSUME Typed, ListsInv, PublishInv, NEW k \in Ops, Operates(k)
    PROVE  PublishInv'
<1> DEFINE o == ops[k]
<1>1. ServerTyped /\ GhostsTyped /\ OpShape(o) /\ ~raced /\ cell \in Lists \cup {None}
  BY DEF Typed, ServerTyped, ListsInv, Operates
<1>2. CASE Get(k)
  <2>1. /\ GetEffect(k) /\ cell' = cell /\ o.at = "get" /\ UNCHANGED <<output, raced>>
    BY <1>1, <1>2, GetIs
  <2>2. Queue' = Queue /\ \A j \in Ops \ {k} : ops'[j] = ops[j]
    BY <1>1, <2>1, SameQueue DEF GetEffect, Fresh, Became
  <2> QED
    BY <1>1, <2>1, <2>2, PublishFrame DEF Publishing
<1>3. CASE Change(k)
  <2>1. /\ ChangeEffect(k) /\ cell' = cell /\ o.at = "change" /\ output' = output
    BY <1>1, <1>3, ChangeIs
  <2>2. CASE Wrote(heap) /\ Became(k, "none", None, "-", None, None, <<>>, <<>>)
    <3>1. Queue' = Queue
      BY <1>1, <2>1, <2>2, SameQueue
    <3> QED
      BY <1>1, <2>1, <2>2, <3>1, PublishFrame DEF Became, Publishing
  <2>3. CASE ops'[k].at = "set"
    BY <2>3, WillPublish DEF Publishing
  <2> QED
    BY <2>1, <2>2, <2>3 DEF ChangeEffect, Became
<1>4. CASE Set(k)
  BY <1>1, <1>4, SetIs, WillPublish DEF SetEffect, Became, Publishing
<1>5. CASE Sync(k)
  BY <1>1, <1>5, SyncIs, WillPublish DEF Became, Publishing
\* What it publishes is the queue, unless another list was set after it read.
<1>6. CASE Publish(k)
  <2>1. /\ Wrote(heap) /\ cell' = cell /\ output' = o.seen /\ raced' = (raced \/ o.seen # Queue)
    BY <1>1, <1>6, PublishIs
  <2>2. Queue' = Queue
    BY <1>1, <2>1, SameQueue
  <2> QED
    BY <2>1, <2>2 DEF PublishInv
<1>7. CASE Send(k)
  <2>1. /\ Wrote(heap) /\ cell' = cell /\ o.at = "send" /\ UNCHANGED <<output, raced>>
        /\ Became(k, "none", None, "-", None, None, <<>>, <<>>)
    BY <1>1, <1>7, SendIs
  <2>2. Queue' = Queue
    BY <1>1, <2>1, SameQueue
  <2> QED
    BY <1>1, <2>1, <2>2, PublishFrame DEF Became, Publishing
<1> QED
  BY <1>2, <1>3, <1>4, <1>5, <1>6, <1>7 DEF Operates

LEMMA BeginPublish ==
    ASSUME Typed, PublishInv, NEW kind \in Kinds \ {"none"}, NEW i \in Items \cup {None}, Begin(kind, i),
           UNCHANGED <<output, raced>>
    PROVE  PublishInv'
<1>1. PICK k \in Ops : /\ ops[k] = NoOp /\ Wrote(heap) /\ cell' = cell
                       /\ Became(k, kind, i, IF kind = "clear" THEN "set" ELSE "get",
                                 None, None, <<>>, <<>>)
  BY BeginEffect DEF Typed
<1>2. Queue' = Queue
  BY <1>1, SameQueue DEF Typed
<1>3. ~Publishing(ops[k])
  BY <1>1, NoOpFacts DEF Publishing
<1> QED
  BY <1>1, <1>2, <1>3, PublishFrame DEF Became

LEMMA SamePublished ==
    ASSUME PublishInv, UNCHANGED <<heap, cell, ops, output, raced>>
    PROVE  PublishInv'
BY DEF PublishInv, Queue, Content

LEMMA PublishAtFirst == ASSUME Init PROVE PublishInv
BY DEF Init, PublishInv, Queue, Content

LEMMA PublishStep ==
    ASSUME Typed, ListsInv, PublishInv, [Next]_vars
    PROVE  PublishInv'
<1>1. ASSUME NEW k \in Ops, Operates(k) PROVE PublishInv'
  BY <1>1, OperatePublish
<1>2. ASSUME NEW kind, NEW i, Starts(kind, i) PROVE PublishInv'
  BY <1>2, BeginPublish DEF Starts, Kinds, ghosts
<1>3. CASE TypeMessage \/ DirectArrives \/ DirectFails \/ AddReturns \/ Snapshot
           \/ UNCHANGED <<server, ghosts, tab>>
  BY <1>3, SamePublished DEF TypeMessage, DirectArrives, DirectFails, AddReturns, Snapshot, server, ghosts
<1>4. CASE AddStarts
  <2>1. /\ chain # <<>> /\ raced' = raced
        /\ UNCHANGED server \/ (Begin("add", Head(chain)) /\ output' = output)
    BY <1>4 DEF AddStarts, ghosts
  <2>2. Head(chain) \in Items
    BY <2>1 DEF Typed, TabTyped
  <2> QED
    BY <2>1, <2>2, SamePublished, BeginPublish DEF Kinds, server
<1>5. ASSUME NEW i \in Items, GaveUp(i) PROVE PublishInv'
  <2>1. /\ UNCHANGED <<output, raced>>
        /\ UNCHANGED server \/ \E k \in Ops : ops[k].at = "get" /\ End(k)
    BY <1>5 DEF GaveUp, server, ghosts
  <2>2. ASSUME NEW k \in Ops, ops[k].at = "get", End(k) PROVE PublishInv'
    <3>1. /\ Wrote(heap) /\ cell' = cell
          /\ Became(k, "none", None, "-", None, None, <<>>, <<>>)
      BY <2>2, EndEffect DEF Typed
    <3>2. Queue' = Queue
      BY <3>1, SameQueue DEF Typed
    <3> QED
      BY <2>1, <2>2, <3>1, <3>2, PublishFrame DEF Became, Publishing
  <2> QED
    BY <2>1, <2>2, SamePublished DEF server
<1> QED
  BY <1>1, <1>2, <1>3, <1>4, <1>5, NextCases

-----------------------------------------------------------------------------
(* The theorems                                                            *)

IInv == Typed /\ AgentTyped /\ ListsInv /\ NewInv /\ OrderInv /\ PlaceInv /\ PublishInv

LEMMA QueueInvariant == Spec => []IInv
<1>1. Init => IInv
  BY TypesAtFirst, ListsAtFirst, NewAtFirst, OrderAtFirst, PlaceAtFirst, PublishAtFirst DEF IInv
<1>2. IInv /\ [Next]_vars => IInv'
  BY TypedStep, AgentTypedStep, ListsStep, NewStep, OrderStep, PlaceStep, PublishStep DEF IInv
<1> QED
  BY <1>1, <1>2, PTL DEF Spec

\* Every variable is of its type; a list of the queue holds no message twice.
THEOREM TypeCorrect == Spec => []TypeOK
<1>1. IInv => TypeOK
  <2>1. SUFFICES ASSUME IInv PROVE TypeOK
    OBVIOUS
  <2>2. Typed /\ AgentTyped /\ Taken /\ accepted \subseteq Items
    BY <2>1 DEF IInv, NewInv, Typed, GhostsTyped
  <2>3. \A l \in Lists : IsInjective(heap[l]) /\ ToSet(heap[l]) \subseteq Items
    BY <2>2 DEF Taken, Lined
  <2>4. /\ cell \in Lists \cup {None}
        /\ ToSet(output) \subseteq Items /\ ToSet(shown) \subseteq Items /\ ToSet(chain) \subseteq Items
    BY <2>2, ToSetFacts DEF Typed, ServerTyped, TabTyped
  <2>5. \A k \in Ops :
          /\ ops[k].kind \in {"none", "add", "remove", "clear", "send", "all", "next"}
          /\ ops[k].at \in {"-", "get", "change", "set", "sync", "publish", "send"}
          /\ {ops[k].list, ops[k].from} \subseteq Lists \cup {None}
    BY <2>2 DEF Typed, ServerTyped, Operation, Kinds, Stages
  <2> QED
    BY <2>2, <2>3, <2>4, <2>5 DEF TypeOK, Typed, GhostsTyped, TabTyped, AgentTyped
<1> QED
  BY <1>1, QueueInvariant, PTL

\* A message that was typed is neither lost nor doubled: once the server has taken it, it is
\* in one place (the queue, the hands of an operation, the agent, or removed), and until then
\* the tab still has it or it was sent straight; as long as no operation of message_queue.py
\* writes back a list that another one changed in the meantime.
THEOREM NothingLostOrDoubled == Spec => []NothingIsLostOrDoubled
<1>1. IInv => NothingIsLostOrDoubled
  <2>1. SUFFICES ASSUME IInv, ~raced, NEW i \in 1..typed
                 PROVE  IF i \in accepted
                        THEN Cardinality(Places(i)) = 1 /\ sent[i] <= 1
                        ELSE sent[i] = 1 \/ i \in direct \cup pending \cup givenUp
    BY DEF NothingIsLostOrDoubled
  <2>2. CASE i \in accepted
    <3>1. OnePlace(i) /\ (Queued(i) <=> i \in ToSet(Queue) \/ Detached(i))
      BY <2>1, <2>2 DEF IInv, PlaceInv, Queued, Detached
    <3>2. \E p : Places(i) = {p}
      <4>1. "queue" \in Places(i) <=> Queued(i)
        BY DEF Places
      <4>2. "hand" \in Places(i) <=> InHand(i)
        BY DEF Places
      <4>3. "agent" \in Places(i) <=> sent[i] > 0
        BY DEF Places
      <4>4. "removed" \in Places(i) <=> i \in removed
        BY DEF Places
      <4>5. Places(i) \subseteq {"queue", "hand", "agent", "removed"}
        BY DEF Places
      <4>6. sent[i] > 0 <=> sent[i] = 1
        BY <3>1 DEF OnePlace
      <4>7. CASE Queued(i)
        <5>1. ~InHand(i) /\ sent[i] # 1 /\ i \notin removed
          BY <3>1, <4>7 DEF OnePlace
        <5>2. Places(i) = {"queue"}
          BY <4>1, <4>2, <4>3, <4>4, <4>5, <4>6, <4>7, <5>1
        <5> QED
          BY <5>2
      <4>8. CASE InHand(i)
        <5>1. ~Queued(i) /\ sent[i] # 1 /\ i \notin removed
          BY <3>1, <4>8 DEF OnePlace
        <5>2. Places(i) = {"hand"}
          BY <4>1, <4>2, <4>3, <4>4, <4>5, <4>6, <4>8, <5>1
        <5> QED
          BY <5>2
      <4>9. CASE sent[i] = 1
        <5>1. ~Queued(i) /\ ~InHand(i) /\ i \notin removed
          BY <3>1, <4>9 DEF OnePlace
        <5>2. Places(i) = {"agent"}
          BY <4>1, <4>2, <4>3, <4>4, <4>5, <4>6, <4>9, <5>1
        <5> QED
          BY <5>2
      <4>10. CASE i \in removed
        <5>1. ~Queued(i) /\ ~InHand(i) /\ sent[i] # 1
          BY <3>1, <4>10 DEF OnePlace
        <5>2. Places(i) = {"removed"}
          BY <4>1, <4>2, <4>3, <4>4, <4>5, <4>6, <4>10, <5>1
        <5> QED
          BY <5>2
      <4> QED
        BY <3>1, <4>7, <4>8, <4>9, <4>10 DEF OnePlace
    <3>3. sent[i] <= 1
      BY <3>1 DEF OnePlace
    <3> QED
      BY <2>2, <3>2, <3>3, FS_Singleton
  <2>3. CASE i \notin accepted
    BY <2>1, <2>3 DEF IInv, NewInv, Somewhere
  <2> QED
    BY <2>2, <2>3
<1> QED
  BY <1>1, QueueInvariant, PTL

\* The queue is in the order in which the messages were typed, but for adds that the tab gave
\* up and the server went on with: addToQueue sends one add after the other.
THEOREM OrderIsKept == Spec => []QueueIsInOrder
<1>1. IInv => QueueIsInOrder
  <2>1. SUFFICES ASSUME IInv, NEW m \in DOMAIN Queue, NEW n \in DOMAIN Queue, m < n,
                        {Queue[m], Queue[n]} \cap givenUp = {}
                 PROVE  Queue[m] < Queue[n]
    BY DEF QueueIsInOrder
  <2>2. InOrder(Queue, givenUp)
    BY <2>1, QueueType, EmptyFacts DEF IInv, Typed, ServerTyped, OrderInv
  <2> QED
    BY <2>1, <2>2 DEF InOrder
<1> QED
  BY <1>1, QueueInvariant, PTL

\* When no operation is under way, the tab is shown the queue as it is: every operation that
\* changes the queue ends with _sync_output.
THEOREM PublishedWhenQuiet == Spec => []QuietMeansPublished
<1>1. IInv => QuietMeansPublished
  BY NoOpFacts DEF IInv, PublishInv, QuietMeansPublished
<1> QED
  BY <1>1, QueueInvariant, PTL
=============================================================================
