--------------------------- MODULE LoopList_proofs ---------------------------
(* What the operations of the ring list return, whatever its size and what   *)
(* it holds; the two users of the list, Pictures_proofs and FileSync_proofs, *)
(* rest on these facts.                                                      *)
EXTENDS LoopList, SequenceTheorems, WellFoundedInduction, TLAPS

-----------------------------------------------------------------------------
(* Arithmetic: a set of numbers with 0 and every successor has them all, and *)
(* so has an initial segment.                                                *)

LEMMA NatSet ==
  ASSUME NEW T, T \subseteq Nat, 0 \in T, \A n \in T : n + 1 \in T
  PROVE  T = Nat
<1> SUFFICES ASSUME Nat \ T # {} PROVE FALSE
  OBVIOUS
<1>1. IsWellFoundedOn(OpToRel(<, Nat), Nat)
  BY NatLessThanWellFounded
<1>2. PICK x \in Nat \ T : \A y \in Nat \ T : ~ (<<y, x>> \in OpToRel(<, Nat))
  BY <1>1, WFMin
<1>3. \A y \in Nat \ T : ~(y < x)
  BY <1>2 DEF OpToRel
<1>4. x # 0 /\ x - 1 \in Nat /\ x - 1 < x
  OBVIOUS
<1>5. x - 1 \in T
  BY <1>3, <1>4
<1>6. (x - 1) + 1 = x
  OBVIOUS
<1> QED
  BY <1>5, <1>6

LEMMA SegmentSet ==
  ASSUME NEW n \in Nat, NEW T, 0 \in T, \A k \in 0..n - 1 : k \in T => k + 1 \in T
  PROVE  0..n \subseteq T
<1> DEFINE U == {k \in Nat : k <= n => k \in T}
<1>1. U \subseteq Nat /\ 0 \in U
  OBVIOUS
<1>2. ASSUME NEW k \in U
      PROVE  k + 1 \in U
  <2>1. CASE k + 1 <= n
    <3>1. k \in T /\ k \in 0..n - 1
      BY <2>1
    <3> QED
      BY <3>1
  <2>2. CASE ~(k + 1 <= n)
    BY <2>2
  <2> QED
    BY <2>1, <2>2
<1> HIDE DEF U
<1>3. U = Nat
  BY <1>1, <1>2, NatSet
<1>4. \A k \in 0..n : k \in U
  BY <1>3
<1> QED
  BY <1>4 DEF U

\* The smallest member of a set of numbers.
LEMMA Smallest ==
  ASSUME NEW T, T \subseteq Nat, T # {}
  PROVE  \E x \in T : \A y \in T : x <= y
<1>1. IsWellFoundedOn(OpToRel(<, Nat), Nat)
  BY NatLessThanWellFounded
<1>2. PICK x \in T : \A y \in T : ~ (<<y, x>> \in OpToRel(<, Nat))
  BY <1>1, WFMin
<1>3. \A y \in T : ~(y < x)
  BY <1>2 DEF OpToRel
<1> QED
  BY <1>3

-----------------------------------------------------------------------------
(* The types of the operations.                                              *)

LEMMA SuccTyped ==
  ASSUME NEW n \in Nat \ {0}, NEW S, NEW l \in Ring(n, S), NEW i \in 0..n - 1
  PROVE  /\ Succ(l, i) = IF i = n - 1 THEN 0 ELSE i + 1
         /\ Succ(l, i) \in 0..n - 1
<1>1. l.size = n
  BY DEF Ring
<1>2. i + 1 \in 0..(2 * n - 1)
  OBVIOUS
<1>3. (i + 1) % n = IF i + 1 < n THEN i + 1 ELSE i + 1 - n
  BY <1>2
<1> QED
  BY <1>1, <1>3 DEF Succ

LEMMA CreateTyped ==
  ASSUME NEW n \in Nat \ {0}, NEW S, NEW x \in S
  PROVE  loop_create(n, x) \in Ring(n, S)
BY DEF loop_create, Ring

LEMMA PushTyped ==
  ASSUME NEW n \in Nat \ {0}, NEW S, NEW l \in Ring(n, S), NEW x \in S
  PROVE  loop_push_to_tail(l, x) \in Ring(n, S)
<1>1. Succ(l, l.head) \in 0..n - 1 /\ Succ(l, l.tail) \in 0..n - 1
  BY SuccTyped DEF Ring
<1> QED
  BY <1>1 DEF loop_push_to_tail, Ring

LEMMA PushFields ==
  ASSUME NEW n \in Nat \ {0}, NEW S, NEW l \in Ring(n, S), NEW x
  PROVE  /\ loop_push_to_tail(l, x).head =
               IF Succ(l, l.tail) = l.head THEN Succ(l, l.head) ELSE l.head
         /\ loop_push_to_tail(l, x).tail = Succ(l, l.tail)
         /\ loop_push_to_tail(l, x).items = [l.items EXCEPT ![l.tail] = x]
BY DEF loop_push_to_tail, Ring

LEMMA GetTyped ==
  ASSUME NEW n \in Nat \ {0}, NEW S, NEW l \in Ring(n, S), NEW x \in S, NEW k \in Nat
  PROVE  loop_get_from_head(l, k, x) \in S
BY DEF loop_get_from_head, Ring

\* How many slots are in use, and the slot of the k-th item.
Used(n, l)     == IF l.tail < l.head THEN n + l.tail - l.head ELSE l.tail - l.head
Place(n, l, k) == IF l.head + k - 1 < n THEN l.head + k - 1 ELSE l.head + k - 1 - n

LEMMA InUseTyped ==
  ASSUME NEW n \in Nat \ {0}, NEW S, NEW l \in Ring(n, S)
  PROVE  /\ Used(n, l) \in 0..n - 1
         /\ DOMAIN InUse(l) = 1..Used(n, l)
         /\ \A k \in 1..Used(n, l) : InUse(l)[k] = Place(n, l, k) /\ Place(n, l, k) \in 0..n - 1
<1> DEFINE u == (n + l.tail - l.head) % n
<1>1. l.size = n /\ l.head \in 0..n - 1 /\ l.tail \in 0..n - 1
  BY DEF Ring
<1>2. n + l.tail - l.head \in 0..(2 * n - 1)
  BY <1>1
<1>3. u \in 0..n - 1 /\ u = IF n + l.tail - l.head < n THEN n + l.tail - l.head
                            ELSE n + l.tail - l.head - n
  <2> DEFINE a == n + l.tail - l.head
  <2>1. a \in 0..(2 * n - 1)
    BY <1>2
  <2> HIDE DEF a
  <2>2. a % n \in 0..n - 1 /\ a % n = IF a < n THEN a ELSE a - n
    BY <2>1
  <2> QED
    BY <1>1, <2>2 DEF a
<1>4. u = Used(n, l)
  BY <1>1, <1>3 DEF Used
<1>5. InUse(l) = [k \in 1..u |-> (l.head + k - 1) % n]
  BY <1>1 DEF InUse
<1> HIDE DEF u
<1>6. ASSUME NEW k \in 1..u
      PROVE  InUse(l)[k] = Place(n, l, k) /\ Place(n, l, k) \in 0..n - 1
  <2>1. l.head + k - 1 \in 0..(2 * n - 1)
    BY <1>1, <1>3
  <2>2. InUse(l)[k] = (l.head + k - 1) % n
    BY <1>5
  <2> DEFINE a == l.head + k - 1
  <2>3. a \in 0..(2 * n - 1)
    BY <2>1
  <2> HIDE DEF a
  <2>4. a % n \in 0..n - 1 /\ a % n = IF a < n THEN a ELSE a - n
    BY <2>3
  <2> QED
    BY <1>1, <1>3, <2>2, <2>4 DEF a, Place
<1>7. DOMAIN InUse(l) = 1..u
  BY <1>5
<1> QED
  BY <1>3, <1>4, <1>6, <1>7

LEMMA ItemsTyped ==
  ASSUME NEW n \in Nat \ {0}, NEW S, NEW l \in Ring(n, S), NEW k \in DOMAIN InUse(l)
  PROVE  Items(l)[k] \in S
<1>1. InUse(l)[k] \in 0..n - 1
  BY InUseTyped
<1>2. Items(l)[k] = l.items[InUse(l)[k]]
  BY DEF Items
<1> QED
  BY <1>1, <1>2 DEF Ring

\* loop_search finds the first item that is accepted, when there is one.
LEMMA SearchFinds ==
  ASSUME NEW n \in Nat \ {0}, NEW S, NEW l \in Ring(n, S), NEW accepted,
         NEW k, k = loop_search(l, accepted)
  PROVE  \/ /\ k \in DOMAIN InUse(l) /\ Items(l)[k] \in accepted
            /\ \A j \in DOMAIN InUse(l) : Items(l)[j] \in accepted => k <= j
         \/ k = 0 /\ \A j \in DOMAIN InUse(l) : Items(l)[j] \notin accepted
<1> DEFINE hits == {j \in DOMAIN InUse(l) : Items(l)[j] \in accepted}
<1>1. k = IF hits = {} THEN 0 ELSE CHOOSE j \in hits : \A i \in hits : j <= i
  BY DEF loop_search
<1>2. DOMAIN InUse(l) \subseteq Nat
  BY InUseTyped
<1>3. CASE hits = {}
  BY <1>1, <1>3
<1>4. CASE hits # {}
  <2>1. \E j \in hits : \A i \in hits : j <= i
    BY <1>2, <1>4, Smallest
  <2>2. k \in hits /\ \A i \in hits : k <= i
    BY <1>1, <1>4, <2>1
  <2> QED
    BY <2>2
<1> QED
  BY <1>3, <1>4

-----------------------------------------------------------------------------
(* A ring list is a sequence that loses its oldest item when it is full.     *)

\* What the list holds, as a sequence.
LEMMA ItemsAre ==
  ASSUME NEW n \in Nat \ {0}, NEW S, NEW l \in Ring(n, S)
  PROVE  /\ Items(l) \in Seq(S) /\ Len(Items(l)) = Used(n, l)
         /\ Items(l) = [k \in 1..Used(n, l) |-> l.items[Place(n, l, k)]]
<1>1. Items(l) = [k \in 1..Used(n, l) |-> l.items[InUse(l)[k]]]
  BY InUseTyped DEF Items
<1>2. Items(l) = [k \in 1..Used(n, l) |-> l.items[Place(n, l, k)]]
  BY <1>1, InUseTyped
<1>3. \A k \in 1..Used(n, l) : l.items[Place(n, l, k)] \in S
  BY InUseTyped DEF Ring
<1>4. Used(n, l) \in Nat
  BY InUseTyped
<1> HIDE DEF Used
<1> QED
  BY <1>2, <1>3, <1>4

LEMMA PlacesDiffer ==
  ASSUME NEW n \in Nat \ {0}, NEW S, NEW l \in Ring(n, S),
         NEW j \in 1..Used(n, l), NEW k \in 1..Used(n, l)
  PROVE  /\ Place(n, l, j) = Place(n, l, k) => j = k
         /\ Place(n, l, j) # l.tail
<1>1. l.head \in 0..n - 1 /\ l.tail \in 0..n - 1
  BY DEF Ring
<1> QED
  BY <1>1 DEF Used, Place

\* The slot after the last item's is the first free one.
LEMMA PlacesFollow ==
  ASSUME NEW n \in Nat \ {0}, NEW S, NEW l \in Ring(n, S)
  PROVE  /\ Place(n, l, Used(n, l) + 1) = l.tail
         /\ \A k \in 1..Used(n, l) : Succ(l, Place(n, l, k)) = Place(n, l, k + 1)
<1>1. l.head \in 0..n - 1 /\ l.tail \in 0..n - 1
  BY DEF Ring
<1>2. Place(n, l, Used(n, l) + 1) = l.tail
  BY <1>1 DEF Used, Place
<1>3. ASSUME NEW k \in 1..Used(n, l)
      PROVE  Succ(l, Place(n, l, k)) = Place(n, l, k + 1)
  <2>1. Place(n, l, k) \in 0..n - 1
    BY InUseTyped
  <2>2. Succ(l, Place(n, l, k)) = IF Place(n, l, k) = n - 1 THEN 0 ELSE Place(n, l, k) + 1
    BY <2>1, SuccTyped
  <2>3. Used(n, l) \in 0..n - 1
    BY InUseTyped
  <2> QED
    BY <1>1, <2>2, <2>3 DEF Place
<1> QED
  BY <1>2, <1>3

LEMMA ItemsCreated ==
  ASSUME NEW n \in Nat \ {0}, NEW S, NEW x \in S
  PROVE  Items(loop_create(n, x)) = <<>>
<1> DEFINE l == loop_create(n, x)
<1>1. l \in Ring(n, S) /\ l.head = 0 /\ l.tail = 0
  BY CreateTyped DEF loop_create
<1> HIDE DEF l
<1>2. Used(n, l) = 0
  BY <1>1 DEF Used
<1>3. Items(l) \in Seq(S) /\ Len(Items(l)) = 0
  BY <1>1, <1>2, ItemsAre
<1> QED
  BY <1>3 DEF l

LEMMA ItemsCleared ==
  ASSUME NEW n \in Nat \ {0}, NEW S, NEW l \in Ring(n, S)
  PROVE  loop_clear(l) \in Ring(n, S) /\ Items(loop_clear(l)) = <<>>
<1> DEFINE c == loop_clear(l)
<1>1. 0 \in 0..n - 1
  OBVIOUS
<1>2. c \in Ring(n, S)
  BY <1>1 DEF loop_clear, Ring
<1>3. c.head = 0 /\ c.tail = 0
  BY DEF loop_clear, Ring
<1> HIDE DEF c
<1>4. Used(n, c) = 0
  BY <1>3 DEF Used
<1>5. Items(c) \in Seq(S) /\ Len(Items(c)) = 0
  BY <1>2, <1>4, ItemsAre
<1> QED
  BY <1>2, <1>5 DEF c

\* loop_push_to_tail.
LEMMA ItemsPushed ==
  ASSUME NEW n \in Nat \ {0, 1}, NEW S, NEW l \in Ring(n, S), NEW x \in S
  PROVE  Items(loop_push_to_tail(l, x)) =
            IF Len(Items(l)) = n - 1 THEN Append(Tail(Items(l)), x) ELSE Append(Items(l), x)
<1> DEFINE p == loop_push_to_tail(l, x)
           u == Used(n, l)
<1>1. l.head \in 0..n - 1 /\ l.tail \in 0..n - 1 /\ l.items \in [0..n - 1 -> S]
  BY DEF Ring
<1>2. p \in Ring(n, S)
  BY PushTyped
<1>3. /\ Succ(l, l.tail) = IF l.tail = n - 1 THEN 0 ELSE l.tail + 1
      /\ Succ(l, l.head) = IF l.head = n - 1 THEN 0 ELSE l.head + 1
  BY <1>1, SuccTyped
<1>4. /\ p.head = IF Succ(l, l.tail) = l.head THEN Succ(l, l.head) ELSE l.head
      /\ p.tail = Succ(l, l.tail)
      /\ p.items = [l.items EXCEPT ![l.tail] = x]
  BY PushFields
<1> HIDE DEF p
<1>5. u \in 0..n - 1 /\ Items(l) \in Seq(S) /\ Len(Items(l)) = u
      /\ \A k \in 1..u : Items(l)[k] = l.items[Place(n, l, k)]
  BY InUseTyped, ItemsAre
<1>6. Items(p) \in Seq(S) /\ Len(Items(p)) = Used(n, p)
      /\ \A k \in 1..Used(n, p) : Items(p)[k] = p.items[Place(n, p, k)]
  BY <1>2, ItemsAre
<1>7. \A k \in 1..u : Place(n, l, k) \in 0..n - 1 /\ Place(n, l, k) # l.tail
  BY InUseTyped, PlacesDiffer
<1>8. CASE Succ(l, l.tail) # l.head
  <2>1. u # n - 1
    BY <1>1, <1>3, <1>8 DEF Used
  <2>2. Used(n, p) = u + 1
    BY <1>1, <1>3, <1>4, <1>8 DEF Used
  <2>3. ASSUME NEW k \in 1..u + 1 PROVE Items(p)[k] = Append(Items(l), x)[k]
    <3>1. Place(n, p, k) = Place(n, l, k)
      BY <1>4, <1>8 DEF Place
    <3>2. Items(p)[k] = p.items[Place(n, l, k)]
      BY <1>6, <2>2, <3>1
    <3>3. CASE k = u + 1
      <4>1. Place(n, l, k) = l.tail
        BY <3>3, PlacesFollow
      <4> QED
        BY <1>1, <1>4, <1>5, <3>2, <3>3, <4>1
    <3>4. CASE k # u + 1
      <4>1. k \in 1..u
        BY <1>5, <3>4
      <4> HIDE DEF u
      <4> QED
        BY <1>1, <1>4, <1>5, <1>7, <3>2, <4>1
    <3> QED
      BY <3>3, <3>4
  <2> HIDE DEF u
  <2>4. Items(p) = Append(Items(l), x)
    <3>1. Append(Items(l), x) \in Seq(S) /\ Len(Append(Items(l), x)) = u + 1
      BY <1>5
    <3> QED
      BY <1>6, <2>2, <2>3, <3>1, SeqEqual
  <2> QED
    BY <1>5, <2>1, <2>4 DEF p
<1>9. CASE Succ(l, l.tail) = l.head
  <2>1. u = n - 1
    BY <1>1, <1>3, <1>9 DEF Used
  <2>2. Used(n, p) = u
    BY <1>1, <1>3, <1>4, <1>9 DEF Used
  <2>3. u \in Nat \ {0}
    BY <2>1
  <2>4. /\ Tail(Items(l)) \in Seq(S) /\ Len(Tail(Items(l))) = u - 1
        /\ \A k \in 1..u - 1 : Tail(Items(l))[k] = Items(l)[k + 1]
    <3> HIDE DEF u
    <3>1. Items(l) # <<>>
      BY <1>5, <2>3
    <3> QED
      BY <1>5, <2>3, <3>1, HeadTailProperties
  <2>5. ASSUME NEW k \in 1..u PROVE Items(p)[k] = Append(Tail(Items(l)), x)[k]
    <3>1. Place(n, p, k) = Place(n, l, k + 1)
      BY <1>1, <1>3, <1>4, <1>9, <2>1 DEF Place
    <3>2. Items(p)[k] = p.items[Place(n, l, k + 1)]
      BY <1>6, <2>2, <3>1
    <3>3. CASE k = u
      <4>1. Place(n, l, k + 1) = l.tail
        BY <3>3, PlacesFollow
      <4>2. Items(p)[k] = x
        BY <1>1, <1>4, <3>2, <4>1
      <4> HIDE DEF u
      <4> QED
        BY <2>3, <2>4, <3>3, <4>2
    <3>4. CASE k # u
      <4>1. k \in 1..u - 1 /\ k + 1 \in 1..u
        BY <1>5, <3>4
      <4> HIDE DEF u
      <4>2. Items(p)[k] = Items(l)[k + 1]
        BY <1>1, <1>4, <1>5, <1>7, <3>2, <4>1
      <4> QED
        BY <2>3, <2>4, <4>1, <4>2
    <3> QED
      BY <3>3, <3>4
  <2> HIDE DEF u
  <2>6. Items(p) = Append(Tail(Items(l)), x)
    <3>1. Append(Tail(Items(l)), x) \in Seq(S) /\ Len(Append(Tail(Items(l)), x)) = u
      BY <2>3, <2>4
    <3> QED
      BY <1>6, <2>2, <2>5, <3>1, SeqEqual
  <2> QED
    BY <1>5, <2>1, <2>6 DEF p
<1> QED
  BY <1>8, <1>9
\* loop_replace: one place is changed, no other.
LEMMA ItemsReplaced ==
  ASSUME NEW n \in Nat \ {0}, NEW S, NEW l \in Ring(n, S), NEW x \in S,
         NEW k \in 1..Used(n, l)
  PROVE  /\ loop_replace(l, k, x) \in Ring(n, S)
         /\ Used(n, loop_replace(l, k, x)) = Used(n, l)
         /\ \A j \in 1..Used(n, l) :
               Items(loop_replace(l, k, x))[j] = IF j = k THEN x ELSE Items(l)[j]
<1> DEFINE r == loop_replace(l, k, x)
<1>1. InUse(l)[k] = Place(n, l, k) /\ Place(n, l, k) \in 0..n - 1
  BY InUseTyped
<1>2. r \in Ring(n, S)
  BY <1>1 DEF loop_replace, Ring
<1>3. r.head = l.head /\ r.tail = l.tail /\ r.items = [l.items EXCEPT ![Place(n, l, k)] = x]
  BY <1>1 DEF loop_replace, Ring
<1> HIDE DEF r
<1>4. Used(n, r) = Used(n, l) /\ \A j : Place(n, r, j) = Place(n, l, j)
  BY <1>3 DEF Used, Place
<1>5. Items(l) = [j \in 1..Used(n, l) |-> l.items[Place(n, l, j)]]
  BY ItemsAre
<1>6. Items(r) = [j \in 1..Used(n, l) |-> r.items[Place(n, l, j)]]
  BY <1>2, <1>4, ItemsAre
<1>7. ASSUME NEW j \in 1..Used(n, l)
      PROVE  r.items[Place(n, l, j)] = IF j = k THEN x ELSE l.items[Place(n, l, j)]
  <2>1. Place(n, l, j) \in 0..n - 1 /\ (Place(n, l, j) = Place(n, l, k) => j = k)
    BY InUseTyped, PlacesDiffer
  <2>2. l.items \in [0..n - 1 -> S]
    BY DEF Ring
  <2> QED
    BY <1>1, <1>3, <2>1, <2>2
<1>8. ASSUME NEW j \in 1..Used(n, l)
      PROVE  Items(r)[j] = IF j = k THEN x ELSE Items(l)[j]
  <2> HIDE DEF Used, Place
  <2> QED
    BY <1>5, <1>6, <1>7
<1> QED
  BY <1>2, <1>4, <1>8 DEF r

\* loop_remove: the first place that holds x is closed, if there is one.
LEMMA ItemsRemoved ==
  ASSUME NEW n \in Nat \ {0}, NEW S, NEW l \in Ring(n, S), NEW x,
         NEW k, k = loop_search(l, {x})
  PROVE  /\ loop_remove(l, x) \in Ring(n, S)
         /\ k = 0 => loop_remove(l, x) = l
         /\ k # 0 =>
              /\ Used(n, loop_remove(l, x)) = Used(n, l) - 1
              /\ \A j \in 1..Used(n, l) - 1 :
                    Items(loop_remove(l, x))[j] = IF k <= j THEN Items(l)[j + 1] ELSE Items(l)[j]
<1> DEFINE u == Used(n, l)
           r == loop_remove(l, x)
           gap == {InUse(l)[j] : j \in k..Len(InUse(l)) - 1}
<1>1. CASE k = 0
  BY <1>1 DEF loop_remove
<1>2. CASE k # 0
  <2>1. /\ l.size = n /\ l.head \in 0..n - 1 /\ l.tail \in 0..n - 1
        /\ l.items \in [0..n - 1 -> S] /\ DOMAIN l.items = 0..n - 1
    BY DEF Ring
  <2>2. k \in 1..u /\ u \in 0..n - 1
    BY <1>2, SearchFinds, InUseTyped
  <2>3. Len(InUse(l)) = u
    <3>1. InUse(l) = [j \in 1..u |-> InUse(l)[j]] /\ u \in Nat
      BY InUseTyped DEF InUse
    <3> HIDE DEF u
    <3>2. InUse(l) \in Seq({InUse(l)[j] : j \in 1..u}) /\ Len(InUse(l)) = u
      BY <3>1
    <3> QED
      BY <3>2
  <2>4. gap = {Place(n, l, j) : j \in k..u - 1}
    <3>1. \A j \in k..u - 1 : InUse(l)[j] = Place(n, l, j)
      BY <2>2, InUseTyped
    <3> QED
      BY <2>3, <3>1
  <2>5. Pred(l, l.tail) = (IF l.tail = 0 THEN n - 1 ELSE l.tail - 1) /\ Pred(l, l.tail) \in 0..n - 1
    <3> DEFINE a == n + l.tail - 1
    <3>1. a \in 0..(2 * n - 1)
      BY <2>1
    <3> HIDE DEF a
    <3>2. a % n = IF a < n THEN a ELSE a - n
      BY <3>1
    <3> QED
      BY <2>1, <3>2 DEF a, Pred
  <2>6. r = [l EXCEPT !.tail = Pred(l, l.tail),
                      !.items = [i \in DOMAIN l.items |->
                                    IF i \in gap THEN l.items[Succ(l, i)] ELSE l.items[i]]]
    BY <1>2 DEF loop_remove
  <2> HIDE DEF gap
  <2>7. \A i \in 0..n - 1 : Succ(l, i) \in 0..n - 1
    BY SuccTyped
  <2> DEFINE moved == [i \in 0..n - 1 |-> IF i \in gap THEN l.items[Succ(l, i)] ELSE l.items[i]]
  <2>8. moved \in [0..n - 1 -> S]
    BY <2>1, <2>7
  <2>9. r = [l EXCEPT !.tail = Pred(l, l.tail), !.items = moved]
    BY <2>1, <2>6
  <2> HIDE DEF moved, r
  <2>10. r \in Ring(n, S) /\ r.head = l.head /\ r.tail = Pred(l, l.tail) /\ r.items = moved
    BY <2>5, <2>8, <2>9 DEF Ring
  <2>11. Used(n, r) = u - 1 /\ \A j : Place(n, r, j) = Place(n, l, j)
    BY <2>1, <2>2, <2>5, <2>10 DEF Used, Place
  <2>12. ASSUME NEW j \in 1..u - 1
         PROVE  Items(r)[j] = IF k <= j THEN Items(l)[j + 1] ELSE Items(l)[j]
    <3>1. Items(r)[j] = moved[Place(n, l, j)]
      BY <2>10, <2>11, ItemsAre
    <3>2. Place(n, l, j) \in 0..n - 1 /\ Succ(l, Place(n, l, j)) = Place(n, l, j + 1)
      BY <2>2, InUseTyped, PlacesFollow
    <3>3. Items(l)[j] = l.items[Place(n, l, j)] /\ Items(l)[j + 1] = l.items[Place(n, l, j + 1)]
      BY <2>2, ItemsAre
    <3>4. Place(n, l, j) \in gap <=> k <= j
      <4>1. ASSUME NEW i \in k..u - 1, Place(n, l, i) = Place(n, l, j)
            PROVE  i = j
        BY <2>2, <4>1, PlacesDiffer
      <4> HIDE DEF u, Place
      <4> QED
        BY <2>2, <2>4, <4>1
    <3> HIDE DEF u, Place
    <3>5. CASE k <= j
      BY <3>1, <3>2, <3>3, <3>4, <3>5 DEF moved
    <3>6. CASE ~(k <= j)
      BY <3>1, <3>2, <3>3, <3>4, <3>6 DEF moved
    <3> QED
      BY <3>5, <3>6
  <2> QED
    BY <1>2, <2>10, <2>11, <2>12 DEF r
<1> QED
  BY <1>1, <1>2
=============================================================================
