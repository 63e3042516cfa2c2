---------------------------- MODULE Panel_proofs ----------------------------
(* The panel and its one time memory, for any number of pool threads, any    *)
(* signal, values, cells and commands: IInv of Panel is kept by every step,  *)
(* and the four invariants follow.                                           *)
EXTENDS Panel, SequenceTheorems, TLAPS

-----------------------------------------------------------------------------
(* Sequences of operations.                                                  *)

LEMMA TailFacts ==
  ASSUME NEW s \in Seq(Operation), s # <<>>
  PROVE  /\ Tail(s) \in Seq(Operation) /\ Len(s) \in Nat \ {0} /\ Len(Tail(s)) = Len(s) - 1
         /\ s[1] = Head(s) /\ Head(s) \in Operation
         /\ \A i \in 1..Len(Tail(s)) : Tail(s)[i] = s[i + 1]
         /\ \A i \in 2..Len(s) : s[i] = Tail(s)[i - 1]
<1>1. /\ Tail(s) \in Seq(Operation) /\ Len(s) \in Nat \ {0} /\ Len(Tail(s)) = Len(s) - 1
      /\ s[1] = Head(s) /\ Head(s) \in Operation
      /\ \A i \in 1..Len(Tail(s)) : Tail(s)[i] = s[i + 1]
  BY HeadTailProperties, EmptySeq
<1>2. ASSUME NEW i \in 2..Len(s)
      PROVE  s[i] = Tail(s)[i - 1]
  <2>1. i - 1 \in 1..Len(Tail(s)) /\ (i - 1) + 1 = i
    BY <1>1
  <2> QED
    BY <1>1, <2>1
<1> QED
  BY <1>1, <1>2

LEMMA DoesNothing ==
  ASSUME NEW B
  PROVE  ~Does(<<>>, B)
BY DEF Does

LEMMA DoesTail ==
  ASSUME NEW s \in Seq(Operation), s # <<>>, NEW B
  PROVE  Does(s, B) <=> Head(s).do \in B \/ Does(Tail(s), B)
<1>1. ASSUME Does(s, B), Head(s).do \notin B
      PROVE  Does(Tail(s), B)
  <2>1. PICK i \in 1..Len(s) : s[i].do \in B
    BY <1>1 DEF Does
  <2>2. i \in 2..Len(s) /\ i - 1 \in 1..Len(Tail(s))
    BY <1>1, <2>1, TailFacts
  <2> QED
    BY <2>1, <2>2, TailFacts DEF Does
<1>2. ASSUME Head(s).do \in B
      PROVE  Does(s, B)
  BY <1>2, TailFacts DEF Does
<1>3. ASSUME Does(Tail(s), B)
      PROVE  Does(s, B)
  <2>1. PICK i \in 1..Len(Tail(s)) : Tail(s)[i].do \in B
    BY <1>3 DEF Does
  <2>2. i + 1 \in 1..Len(s) /\ s[i + 1].do \in B
    BY <2>1, TailFacts
  <2> QED
    BY <2>2 DEF Does
<1> QED
  BY <1>1, <1>2, <1>3

LEMMA AfterTail ==
  ASSUME NEW s \in Seq(Operation), s # <<>>, NEW B
  PROVE  /\ After(s, 1, B) <=> Does(Tail(s), B)
         /\ \A i \in 1..Len(Tail(s)) : After(Tail(s), i, B) <=> After(s, i + 1, B)
<1>1. ASSUME NEW i \in 0..Len(Tail(s)),
             \E j \in i + 1..Len(Tail(s)) : Tail(s)[j].do \in B
      PROVE  \E j \in i + 2..Len(s) : s[j].do \in B
  <2>1. PICK j \in i + 1..Len(Tail(s)) : Tail(s)[j].do \in B
    BY <1>1
  <2>2. j + 1 \in i + 2..Len(s) /\ s[j + 1] = Tail(s)[j]
    BY TailFacts
  <2> QED
    BY <2>1, <2>2
<1>2. ASSUME NEW i \in 0..Len(Tail(s)),
             \E j \in i + 2..Len(s) : s[j].do \in B
      PROVE  \E j \in i + 1..Len(Tail(s)) : Tail(s)[j].do \in B
  <2>1. PICK j \in i + 2..Len(s) : s[j].do \in B
    BY <1>2
  <2>2. j - 1 \in i + 1..Len(Tail(s)) /\ s[j] = Tail(s)[j - 1]
    BY TailFacts
  <2> QED
    BY <2>1, <2>2
<1>3. ASSUME NEW i \in 0..Len(Tail(s))
      PROVE  (\E j \in i + 1..Len(Tail(s)) : Tail(s)[j].do \in B) <=> After(s, i + 1, B)
  <2>1. (i + 1) + 1 = i + 2
    OBVIOUS
  <2> QED
    BY <1>1, <1>2, <2>1 DEF After
<1>4. After(s, 1, B) <=> Does(Tail(s), B)
  <2>1. 0 \in 0..Len(Tail(s)) /\ 0 + 1 = 1
    BY TailFacts
  <2> QED
    BY <1>3, <2>1 DEF Does
<1>5. ASSUME NEW i \in 1..Len(Tail(s))
      PROVE  After(Tail(s), i, B) <=> After(s, i + 1, B)
  <2>1. i \in 0..Len(Tail(s))
    OBVIOUS
  <2> QED
    BY <1>3, <2>1 DEF After
<1> QED
  BY <1>4, <1>5

-----------------------------------------------------------------------------
LEMMA ConcatFacts ==
  ASSUME NEW s \in Seq(Operation), NEW u \in Seq(Operation)
  PROVE  /\ s \o u \in Seq(Operation) /\ Len(s) \in Nat /\ Len(u) \in Nat
         /\ Len(s \o u) = Len(s) + Len(u)
         /\ \A i \in 1..Len(s) : (s \o u)[i] = s[i] /\ i \in 1..Len(s \o u)
         /\ \A i \in 1..Len(u) : (s \o u)[Len(s) + i] = u[i] /\ Len(s) + i \in 1..Len(s \o u)
         /\ \A i \in 1..Len(s \o u) : i \in 1..Len(s) \/ \E j \in 1..Len(u) : i = Len(s) + j
<1>1. /\ s \o u \in Seq(Operation) /\ Len(s) \in Nat /\ Len(u) \in Nat
      /\ Len(s \o u) = Len(s) + Len(u)
      /\ \A i \in 1..Len(s) + Len(u) : (s \o u)[i] = IF i <= Len(s) THEN s[i] ELSE u[i - Len(s)]
  BY ConcatProperties, LenProperties
<1>2. ASSUME NEW i \in 1..Len(s)
      PROVE  (s \o u)[i] = s[i] /\ i \in 1..Len(s \o u)
  BY <1>1
<1>3. ASSUME NEW i \in 1..Len(u)
      PROVE  (s \o u)[Len(s) + i] = u[i] /\ Len(s) + i \in 1..Len(s \o u)
  <2>1. Len(s) + i \in 1..Len(s \o u) /\ ~(Len(s) + i <= Len(s)) /\ (Len(s) + i) - Len(s) = i
    BY <1>1
  <2> QED
    BY <1>1, <2>1
<1>4. ASSUME NEW i \in 1..Len(s \o u), i \notin 1..Len(s)
      PROVE  \E j \in 1..Len(u) : i = Len(s) + j
  <2>1. i - Len(s) \in 1..Len(u) /\ i = Len(s) + (i - Len(s))
    BY <1>1, <1>4
  <2> QED
    BY <2>1
<1> QED
  BY <1>1, <1>2, <1>3, <1>4

LEMMA DoesConcat ==
  ASSUME NEW s \in Seq(Operation), NEW u \in Seq(Operation), NEW B
  PROVE  Does(s \o u, B) <=> Does(s, B) \/ Does(u, B)
<1>1. ASSUME Does(s \o u, B)
      PROVE  Does(s, B) \/ Does(u, B)
  <2>1. PICK i \in 1..Len(s \o u) : (s \o u)[i].do \in B
    BY <1>1 DEF Does
  <2>2. CASE i \in 1..Len(s)
    BY <2>1, <2>2, ConcatFacts DEF Does
  <2>3. CASE \E j \in 1..Len(u) : i = Len(s) + j
    BY <2>1, <2>3, ConcatFacts DEF Does
  <2> QED
    BY <2>2, <2>3, ConcatFacts
<1>2. ASSUME Does(s, B)
      PROVE  Does(s \o u, B)
  BY <1>2, ConcatFacts DEF Does
<1>3. ASSUME Does(u, B)
      PROVE  Does(s \o u, B)
  <2>1. PICK j \in 1..Len(u) : u[j].do \in B
    BY <1>3 DEF Does
  <2>2. Len(s) + j \in 1..Len(s \o u) /\ (s \o u)[Len(s) + j].do \in B
    BY <2>1, ConcatFacts
  <2> QED
    BY <2>2 DEF Does
<1> QED
  BY <1>1, <1>2, <1>3

LEMMA AfterConcat ==
  ASSUME NEW s \in Seq(Operation), NEW u \in Seq(Operation), NEW B
  PROVE  /\ \A i \in 1..Len(s) : After(s \o u, i, B) <=> After(s, i, B) \/ Does(u, B)
         /\ \A i \in 1..Len(u) : After(s \o u, Len(s) + i, B) <=> After(u, i, B)
<1>1. ASSUME NEW i \in 1..Len(s)
      PROVE  After(s \o u, i, B) <=> After(s, i, B) \/ Does(u, B)
  <2>1. ASSUME After(s \o u, i, B)
        PROVE  After(s, i, B) \/ Does(u, B)
    <3>1. PICK m \in i + 1..Len(s \o u) : (s \o u)[m].do \in B
      BY <2>1 DEF After
    <3>2. m \in 1..Len(s \o u)
      BY <3>1
    <3>3. CASE m \in 1..Len(s)
      <4>1. m \in i + 1..Len(s) /\ s[m].do \in B
        BY <3>1, <3>3, ConcatFacts
      <4> QED
        BY <4>1 DEF After
    <3>4. CASE \E j \in 1..Len(u) : m = Len(s) + j
      BY <3>1, <3>4, ConcatFacts DEF Does
    <3> QED
      BY <3>2, <3>3, <3>4, ConcatFacts
  <2>2. ASSUME After(s, i, B)
        PROVE  After(s \o u, i, B)
    <3>1. PICK m \in i + 1..Len(s) : s[m].do \in B
      BY <2>2 DEF After
    <3>2. m \in 1..Len(s) /\ m \in i + 1..Len(s \o u)
      BY <3>1, ConcatFacts
    <3> QED
      BY <3>1, <3>2, ConcatFacts DEF After
  <2>3. ASSUME Does(u, B)
        PROVE  After(s \o u, i, B)
    <3>1. PICK m \in 1..Len(u) : u[m].do \in B
      BY <2>3 DEF Does
    <3>2. Len(s) + m \in i + 1..Len(s \o u) /\ (s \o u)[Len(s) + m].do \in B
      BY <3>1, ConcatFacts
    <3> QED
      BY <3>2 DEF After
  <2> QED
    BY <2>1, <2>2, <2>3
<1>2. ASSUME NEW i \in 1..Len(u)
      PROVE  After(s \o u, Len(s) + i, B) <=> After(u, i, B)
  <2>1. ASSUME After(s \o u, Len(s) + i, B)
        PROVE  After(u, i, B)
    <3>1. PICK m \in (Len(s) + i) + 1..Len(s \o u) : (s \o u)[m].do \in B
      BY <2>1 DEF After
    <3>2. m - Len(s) \in 1..Len(u) /\ m - Len(s) \in i + 1..Len(u) /\ Len(s) + (m - Len(s)) = m
      BY ConcatFacts
    <3> QED
      BY <3>1, <3>2, ConcatFacts DEF After
  <2>2. ASSUME After(u, i, B)
        PROVE  After(s \o u, Len(s) + i, B)
    <3>1. PICK m \in i + 1..Len(u) : u[m].do \in B
      BY <2>2 DEF After
    <3>2. m \in 1..Len(u) /\ Len(s) + m \in (Len(s) + i) + 1..Len(s \o u)
      BY <3>1, ConcatFacts
    <3>3. (s \o u)[Len(s) + m].do \in B
      BY <3>1, <3>2, ConcatFacts
    <3> QED
      BY <3>2, <3>3 DEF After
  <2> QED
    BY <2>1, <2>2
<1> QED
  BY <1>1, <1>2

-----------------------------------------------------------------------------
(* The shapes of the sequences: what a rest keeps of them, and what sequences *)
(* put together have of them.                                                *)

LEMMA ThenTail ==
  ASSUME NEW s \in Seq(Operation), s # <<>>, NEW X, NEW B, Then(s, X, B)
  PROVE  /\ Head(s).do \in X => Does(Tail(s), B)
         /\ Then(Tail(s), X, B)
<1>1. ASSUME NEW i \in 1..Len(Tail(s)), Tail(s)[i].do \in X
      PROVE  After(Tail(s), i, B)
  <2>1. i + 1 \in 1..Len(s) /\ s[i + 1].do \in X
    BY <1>1, TailFacts
  <2> QED
    BY <2>1, AfterTail DEF Then
<1>2. 1 \in 1..Len(s) /\ s[1] = Head(s)
  BY TailFacts
<1> QED
  BY <1>1, <1>2, AfterTail DEF Then

LEMMA NeverTail ==
  ASSUME NEW s \in Seq(Operation), s # <<>>, NEW X, NEW B, Never(s, X, B)
  PROVE  /\ Head(s).do \in X => ~Does(Tail(s), B)
         /\ Never(Tail(s), X, B)
<1>1. ASSUME NEW i \in 1..Len(Tail(s)), Tail(s)[i].do \in X
      PROVE  ~After(Tail(s), i, B)
  <2>1. i + 1 \in 1..Len(s) /\ s[i + 1].do \in X
    BY <1>1, TailFacts
  <2> QED
    BY <2>1, AfterTail DEF Never
<1>2. 1 \in 1..Len(s) /\ s[1] = Head(s)
  BY TailFacts
<1> QED
  BY <1>1, <1>2, AfterTail DEF Never

LEMMA ThenIfTail ==
  ASSUME NEW s \in Seq(Operation), s # <<>>, NEW X, NEW B, NEW C, ThenIf(s, X, B, C)
  PROVE  /\ Head(s).do \in X /\ Does(Tail(s), B) => Does(Tail(s), C)
         /\ ThenIf(Tail(s), X, B, C)
<1>1. ASSUME NEW i \in 1..Len(Tail(s)), Tail(s)[i].do \in X, After(Tail(s), i, B)
      PROVE  After(Tail(s), i, C)
  <2>1. i + 1 \in 1..Len(s) /\ s[i + 1].do \in X
    BY <1>1, TailFacts
  <2> QED
    BY <1>1, <2>1, AfterTail DEF ThenIf
<1>2. 1 \in 1..Len(s) /\ s[1] = Head(s)
  BY TailFacts
<1> QED
  BY <1>1, <1>2, AfterTail DEF ThenIf

LEMMA ThenConcat ==
  ASSUME NEW s \in Seq(Operation), NEW u \in Seq(Operation), NEW X, NEW B,
         Then(u, X, B), Then(s, X, B) \/ Does(u, B)
  PROVE  Then(s \o u, X, B)
<1> SUFFICES ASSUME NEW i \in 1..Len(s \o u), (s \o u)[i].do \in X
             PROVE  After(s \o u, i, B)
  BY DEF Then
<1>1. CASE i \in 1..Len(s)
  BY <1>1, ConcatFacts, AfterConcat DEF Then
<1>2. CASE \E j \in 1..Len(u) : i = Len(s) + j
  <2>1. PICK j \in 1..Len(u) : i = Len(s) + j
    BY <1>2
  <2>2. u[j].do \in X
    BY <2>1, ConcatFacts
  <2> QED
    BY <2>1, <2>2, AfterConcat DEF Then
<1> QED
  BY <1>1, <1>2, ConcatFacts

LEMMA NeverConcat ==
  ASSUME NEW s \in Seq(Operation), NEW u \in Seq(Operation), NEW X, NEW B,
         Never(s, X, B), Never(u, X, B), ~Does(s, X) \/ ~Does(u, B)
  PROVE  Never(s \o u, X, B)
<1> SUFFICES ASSUME NEW i \in 1..Len(s \o u), (s \o u)[i].do \in X
             PROVE  ~After(s \o u, i, B)
  BY DEF Never
<1>1. CASE i \in 1..Len(s)
  <2>1. s[i].do \in X /\ Does(s, X)
    BY <1>1, ConcatFacts DEF Does
  <2> QED
    BY <1>1, <2>1, AfterConcat DEF Never
<1>2. CASE \E j \in 1..Len(u) : i = Len(s) + j
  <2>1. PICK j \in 1..Len(u) : i = Len(s) + j
    BY <1>2
  <2>2. u[j].do \in X
    BY <2>1, ConcatFacts
  <2> QED
    BY <2>1, <2>2, AfterConcat DEF Never
<1> QED
  BY <1>1, <1>2, ConcatFacts

LEMMA ThenIfConcat ==
  ASSUME NEW s \in Seq(Operation), NEW u \in Seq(Operation), NEW X, NEW B, NEW C,
         ThenIf(u, X, B, C),
         \/ Does(u, C) \/ ~Does(s, X)
         \/ ThenIf(s, X, B, C) /\ ~Does(u, B)
  PROVE  ThenIf(s \o u, X, B, C)
<1> SUFFICES ASSUME NEW i \in 1..Len(s \o u), (s \o u)[i].do \in X, After(s \o u, i, B)
             PROVE  After(s \o u, i, C)
  BY DEF ThenIf
<1>1. CASE i \in 1..Len(s)
  <2>1. s[i].do \in X /\ Does(s, X)
    BY <1>1, ConcatFacts DEF Does
  <2> QED
    BY <1>1, <2>1, AfterConcat DEF ThenIf
<1>2. CASE \E j \in 1..Len(u) : i = Len(s) + j
  <2>1. PICK j \in 1..Len(u) : i = Len(s) + j
    BY <1>2
  <2>2. u[j].do \in X
    BY <2>1, ConcatFacts
  <2> QED
    BY <2>1, <2>2, AfterConcat DEF ThenIf
<1> QED
  BY <1>1, <1>2, ConcatFacts

LEMMA ProgramShapeTail ==
  ASSUME NEW s \in Seq(Operation), s # <<>>, ProgramShape(s)
  PROVE  /\ ProgramShape(Tail(s))
         /\ \A i \in 1..Len(Tail(s)) : Tail(s)[i].do = "program" =>
              /\ i <= 4
              /\ i = 1 => Head(s).do = "unlock"
              /\ i = 2 => Is(Head(s), "write", Tail(s)[i])
              /\ i = 3 => Is(Head(s), "power", Tail(s)[i])
              /\ i = 4 => Head(s).do = "extend"
<1>1. \A i \in 1..Len(Tail(s)) : i + 1 \in 1..Len(s) /\ s[i + 1] = Tail(s)[i] /\ i \in Nat
  BY TailFacts
<1>2. 1 \in 1..Len(s) /\ s[1] = Head(s)
  BY TailFacts
<1>3. ASSUME NEW i \in 1..Len(Tail(s)), Tail(s)[i].do = "program"
      PROVE  /\ i <= 4
             /\ i = 1 => Head(s).do = "unlock"
             /\ i = 2 => Is(Head(s), "write", Tail(s)[i])
             /\ i = 3 => Is(Head(s), "power", Tail(s)[i])
             /\ i = 4 => Head(s).do = "extend"
  BY <1>1, <1>2, <1>3 DEF ProgramShape
<1>4. ASSUME NEW i \in 1..Len(Tail(s)), NEW j \in 1..Len(Tail(s)), Tail(s)[i].do = "program"
      PROVE  /\ i <= 5
             /\ i = j + 1 => Tail(s)[j].do = "unlock"
             /\ i = j + 2 => Is(Tail(s)[j], "write", Tail(s)[i])
             /\ i = j + 3 => Is(Tail(s)[j], "power", Tail(s)[i])
             /\ i = j + 4 => Tail(s)[j].do = "extend"
  BY <1>1, <1>4 DEF ProgramShape
<1>5. ProgramShape(Tail(s))
  BY <1>4 DEF ProgramShape
<1> QED
  BY <1>3, <1>5

LEMMA CompareShapeTail ==
  ASSUME NEW s \in Seq(Operation), s # <<>>, CompareShape(s)
  PROVE  /\ CompareShape(Tail(s))
         /\ \A i \in 1..Len(Tail(s)) : Tail(s)[i].do = "compare" =>
              /\ i <= 3
              /\ i = 1 => Head(s).do = "sleep_in"
              /\ i = 2 => Head(s).do = "cell" /\ Head(s).kind = Tail(s)[i].kind
              /\ i = 3 => Head(s).do = "times" /\ Head(s).kind = Tail(s)[i].kind
         /\ Head(s).do = "compare" => Tail(s) = <<>>
<1>1. \A i \in 1..Len(Tail(s)) : i + 1 \in 1..Len(s) /\ s[i + 1] = Tail(s)[i] /\ i \in Nat
  BY TailFacts
<1>2. 1 \in 1..Len(s) /\ s[1] = Head(s) /\ Len(s) \in Nat /\ Len(Tail(s)) = Len(s) - 1
  BY TailFacts
<1>3. ASSUME NEW i \in 1..Len(Tail(s)), Tail(s)[i].do = "compare"
      PROVE  /\ i <= 3
             /\ i = 1 => Head(s).do = "sleep_in"
             /\ i = 2 => Head(s).do = "cell" /\ Head(s).kind = Tail(s)[i].kind
             /\ i = 3 => Head(s).do = "times" /\ Head(s).kind = Tail(s)[i].kind
  <2>1. /\ i + 1 <= 4
        /\ i + 1 = 1 + 1 => s[1].do = "sleep_in"
        /\ i + 1 = 1 + 2 => s[1].do = "cell" /\ s[1].kind = s[i + 1].kind
        /\ i + 1 = 1 + 3 => s[1].do = "times" /\ s[1].kind = s[i + 1].kind
    <3>1. i + 1 \in 1..Len(s) /\ 1 \in 1..Len(s) /\ s[i + 1].do = "compare"
      BY <1>1, <1>2, <1>3
    <3> QED
      BY <3>1 DEF CompareShape
  <2> QED
    BY <1>1, <1>2, <2>1
<1>4. ASSUME NEW i \in 1..Len(Tail(s)), NEW j \in 1..Len(Tail(s)), Tail(s)[i].do = "compare"
      PROVE  /\ i = Len(Tail(s)) /\ i <= 4
             /\ i = j + 1 => Tail(s)[j].do = "sleep_in"
             /\ i = j + 2 => Tail(s)[j].do = "cell" /\ Tail(s)[j].kind = Tail(s)[i].kind
             /\ i = j + 3 => Tail(s)[j].do = "times" /\ Tail(s)[j].kind = Tail(s)[i].kind
  <2>1. /\ i + 1 = Len(s) /\ i + 1 <= 4
        /\ i + 1 = (j + 1) + 1 => s[j + 1].do = "sleep_in"
        /\ i + 1 = (j + 1) + 2 => s[j + 1].do = "cell" /\ s[j + 1].kind = s[i + 1].kind
        /\ i + 1 = (j + 1) + 3 => s[j + 1].do = "times" /\ s[j + 1].kind = s[i + 1].kind
    <3>1. i + 1 \in 1..Len(s) /\ j + 1 \in 1..Len(s) /\ s[i + 1].do = "compare"
      BY <1>1, <1>4
    <3> QED
      BY <3>1 DEF CompareShape
  <2>2. i + 1 = Len(s) /\ i + 1 <= 4
    BY <2>1
  <2>3. i = Len(Tail(s)) /\ i <= 4
    <3>1. i \in Nat
      BY <1>1
    <3>2. Len(s) \in Nat /\ Len(Tail(s)) = Len(s) - 1
      BY <1>2
    <3>3. Len(Tail(s)) = i
      BY <2>2, <3>1, <3>2
    <3>4. i <= 4
      BY <2>2, <3>1
    <3> QED
      BY <3>3, <3>4
  <2>4. /\ s[i + 1] = Tail(s)[i] /\ s[j + 1] = Tail(s)[j]
        /\ i \in Nat /\ j \in Nat
    BY <1>1
  <2>5. /\ i = j + 1 => i + 1 = (j + 1) + 1
        /\ i = j + 2 => i + 1 = (j + 1) + 2
        /\ i = j + 3 => i + 1 = (j + 1) + 3
    BY <2>4
  <2> QED
    BY <2>1, <2>3, <2>4, <2>5
<1>5. CompareShape(Tail(s))
  BY <1>4 DEF CompareShape
<1>6. ASSUME Head(s).do = "compare"
      PROVE  Tail(s) = <<>>
  <2>1. Len(s) = 1
    BY <1>2, <1>6 DEF CompareShape
  <2>2. Tail(s) \in Seq(Operation) /\ Len(Tail(s)) = 0
    BY <2>1, TailFacts
  <2> QED
    BY <2>2, EmptySeq
<1> QED
  BY <1>3, <1>5, <1>6

LEMMA AnswerShapeTail ==
  ASSUME NEW s \in Seq(Operation), s # <<>>, AnswerShape(s)
  PROVE  AnswerShape(Tail(s))
<1>1. \A i \in 1..Len(Tail(s)) : i + 1 \in 1..Len(s) /\ s[i + 1] = Tail(s)[i]
  BY TailFacts
<1> QED
  BY <1>1 DEF AnswerShape

LEMMA ReadShapeTail ==
  ASSUME NEW s \in Seq(Operation), s # <<>>, ReadShape(s)
  PROVE  /\ ReadShape(Tail(s))
         /\ (Tail(s) # <<>> /\ Tail(s)[1].do = "cell") =>
              Head(s).do = "times" /\ Head(s).kind = Tail(s)[1].kind
<1>1. \A i \in 1..Len(Tail(s)) : i + 1 \in 1..Len(s) /\ s[i + 1] = Tail(s)[i] /\ i \in Nat
  BY TailFacts
<1>2. ReadShape(Tail(s))
  BY <1>1 DEF ReadShape
<1>3. ASSUME Tail(s) # <<>>, Tail(s)[1].do = "cell"
      PROVE  Head(s).do = "times" /\ Head(s).kind = Tail(s)[1].kind
  <2>1. Len(Tail(s)) \in Nat \ {0}
    BY <1>3, TailFacts, EmptySeq
  <2>2. 1 \in 1..Len(Tail(s)) /\ 1 \in 1..Len(s) /\ s[1] = Head(s)
    <3>1. Len(s) \in Nat \ {0} /\ s[1] = Head(s)
      BY TailFacts
    <3>2. 1 \in 1..Len(Tail(s))
      <4>1. \A n \in Nat \ {0} : 1 \in 1..n
        OBVIOUS
      <4> QED
        BY <2>1, <4>1, Zenon
    <3>3. 1 \in 1..Len(s)
      BY <3>1
    <3> QED
      BY <3>1, <3>2, <3>3
  <2>3. 1 + 1 \in 1..Len(s) /\ s[1 + 1] = Tail(s)[1]
    BY <1>1, <2>2
  <2> QED
    BY <1>3, <2>2, <2>3 DEF ReadShape
<1> QED
  BY <1>2, <1>3

LEMMA ReadShapeConcat ==
  ASSUME NEW s \in Seq(Operation), NEW u \in Seq(Operation), ReadShape(s), ReadShape(u),
         \A i \in 1..Len(u) : u[i].do = "cell" => i > 1
  PROVE  ReadShape(s \o u)
<1> SUFFICES ASSUME NEW i \in 1..Len(s \o u), NEW j \in 1..Len(s \o u),
                    (s \o u)[i].do = "cell", i = j + 1
             PROVE  (s \o u)[j].do = "times" /\ (s \o u)[j].kind = (s \o u)[i].kind
  BY DEF ReadShape
<1>1. Len(s) \in Nat /\ Len(u) \in Nat /\ i \in Nat /\ j \in Nat
  BY ConcatFacts
<1>2. CASE i \in 1..Len(s)
  <2>1. j \in 1..Len(s)
    BY <1>1, <1>2
  <2>2. (s \o u)[i] = s[i] /\ (s \o u)[j] = s[j]
    BY <1>2, <2>1, ConcatFacts
  <2> QED
    BY <1>2, <2>1, <2>2 DEF ReadShape
<1>3. CASE \E m \in 1..Len(u) : i = Len(s) + m
  <2>1. PICK m \in 1..Len(u) : i = Len(s) + m
    BY <1>3
  <2>2. (s \o u)[i] = u[m] /\ m \in Nat
    BY <2>1, ConcatFacts
  <2>3. m > 1
    BY <2>2
  <2>4. m - 1 \in 1..Len(u) /\ j = Len(s) + (m - 1) /\ m = (m - 1) + 1
    BY <1>1, <2>1, <2>3
  <2>5. (s \o u)[j] = u[m - 1]
    BY <2>4, ConcatFacts
  <2> QED
    BY <2>2, <2>4, <2>5 DEF ReadShape
<1> QED
  BY <1>2, <1>3, ConcatFacts

\* Sequences that neither burn nor decide nor answer, and read no cell uncounted.
Plain(s) ==
    /\ \A i \in 1..Len(s) : /\ s[i].do \notin {"program", "compare", "answer"}
                            /\ s[i].do = "cell" => i > 1
    /\ ReadShape(s)

LEMMA EmptyPlain == <<>> \in Seq(Operation) /\ Plain(<<>>)
<1>1. <<>> \in Seq(Operation) /\ Len(<<>>) = 0
  BY EmptySeq
<1>2. 1..0 = {}
  OBVIOUS
<1> QED
  BY <1>1, <1>2 DEF Plain, ReadShape

LEMMA PlainConcat ==
  ASSUME NEW s \in Seq(Operation), NEW u \in Seq(Operation), Plain(s), Plain(u)
  PROVE  Plain(s \o u)
<1>1. ASSUME NEW i \in 1..Len(s \o u)
      PROVE  /\ (s \o u)[i].do \notin {"program", "compare", "answer"}
             /\ (s \o u)[i].do = "cell" => i > 1
  <2>1. CASE i \in 1..Len(s)
    BY <2>1, ConcatFacts DEF Plain
  <2>2. CASE \E j \in 1..Len(u) : i = Len(s) + j
    <3>1. PICK j \in 1..Len(u) : i = Len(s) + j
      BY <2>2
    <3>2. (s \o u)[i] = u[j] /\ Len(s) \in Nat
      BY <3>1, ConcatFacts
    <3>3. /\ u[j].do \notin {"program", "compare", "answer"}
          /\ u[j].do = "cell" => j > 1
      BY DEF Plain
    <3> QED
      BY <3>1, <3>2, <3>3
  <2> QED
    BY <2>1, <2>2, ConcatFacts
<1>2. ReadShape(s \o u)
  BY ReadShapeConcat DEF Plain
<1> QED
  BY <1>1, <1>2 DEF Plain

LEMMA PlainShape ==
  ASSUME NEW s, Plain(s)
  PROVE  BurnShape(s)
BY DEF Plain, BurnShape, ProgramShape, CompareShape, AnswerShape

\* After what burns comes what neither burns nor decides.
LEMMA BurnShapeConcat ==
  ASSUME NEW s \in Seq(Operation), NEW u \in Seq(Operation), BurnShape(s),
         \A i \in 1..Len(s) : s[i].do \notin {"compare", "answer"},
         \A i \in 1..Len(u) :
            /\ u[i].do \notin {"program", "compare"}
            /\ u[i].do = "answer" =>
                 \A j \in 1..Len(s) : s[j].do = "program" => Is(u[i], "answer", s[j])
            /\ u[i].do = "cell" => i > 1,
         ReadShape(u)
  PROVE  BurnShape(s \o u)
<1>1. ASSUME NEW i \in 1..Len(s \o u)
      PROVE  /\ (s \o u)[i].do # "compare"
             /\ (s \o u)[i].do = "program" => i \in 1..Len(s) /\ s[i].do = "program"
             /\ (s \o u)[i].do = "answer" =>
                  \A j \in 1..Len(s) : s[j].do = "program" => Is((s \o u)[i], "answer", s[j])
  <2>1. CASE i \in 1..Len(s)
    BY <2>1, ConcatFacts
  <2>2. CASE \E j \in 1..Len(u) : i = Len(s) + j
    <3>1. PICK m \in 1..Len(u) : i = Len(s) + m
      BY <2>2
    <3>2. (s \o u)[i] = u[m]
      BY <3>1, ConcatFacts
    <3> QED
      BY <3>2
  <2>3. i \in 1..Len(s) \/ \E j \in 1..Len(u) : i = Len(s) + j
    BY ConcatFacts
  <2> QED
    BY <2>1, <2>2, <2>3
<1>2. \A i \in 1..Len(s) : (s \o u)[i] = s[i]
  BY ConcatFacts
<1>3. ProgramShape(s \o u)
  <2>1. ASSUME NEW i \in 1..Len(s \o u), NEW j \in 1..Len(s \o u), (s \o u)[i].do = "program"
        PROVE  /\ i <= 5
               /\ i = j + 1 => (s \o u)[j].do = "unlock"
               /\ i = j + 2 => Is((s \o u)[j], "write", (s \o u)[i])
               /\ i = j + 3 => Is((s \o u)[j], "power", (s \o u)[i])
               /\ i = j + 4 => (s \o u)[j].do = "extend"
    <3>1. i \in 1..Len(s) /\ s[i].do = "program" /\ (s \o u)[i] = s[i]
      BY <1>1, <1>2, <2>1
    <3>2. i <= 5
      BY <3>1 DEF BurnShape, ProgramShape
    <3>3. CASE j < i
      <4>1. j \in 1..Len(s) /\ (s \o u)[j] = s[j]
        BY <1>2, <3>1, <3>3, ConcatFacts
      <4> QED
        BY <3>1, <4>1 DEF BurnShape, ProgramShape
    <3>4. CASE ~(j < i)
      BY <3>2, <3>4, ConcatFacts
    <3> QED
      BY <3>3, <3>4
  <2> QED
    BY <2>1 DEF ProgramShape
<1>4. CompareShape(s \o u)
  BY <1>1 DEF CompareShape
<1>5. AnswerShape(s \o u)
  BY <1>1, <1>2 DEF AnswerShape
<1>6. ReadShape(s \o u)
  BY ReadShapeConcat DEF BurnShape
<1> QED
  BY <1>3, <1>4, <1>5, <1>6 DEF BurnShape

-----------------------------------------------------------------------------
(* The sequences of the commands are sequences of operations, and none but   *)
(* those of an OTP command burn, decide or answer.                           *)

LEMMA OpsFacts ==
  ASSUME NEW names \in Seq(OpName)
  PROVE  /\ Ops(names) \in Seq(Operation) /\ Len(Ops(names)) = Len(names)
         /\ \A i \in 1..Len(names) : Ops(names)[i] = Op(names[i])
<1>1. \A i \in 1..Len(names) : Op(names[i]) \in Operation
  BY DEF Op, Operation, Kind
<1>2. Ops(names) = [i \in 1..Len(names) |-> Op(names[i])]
  BY DEF Ops
<1>3. Ops(names) \in [1..Len(names) -> Operation] /\ Len(names) \in Nat
  BY <1>1, <1>2
<1> QED
  BY <1>2, <1>3

LEMMA NamesTyped ==
  /\ <<"config", "rails_on", "told_on">> \in Seq(OpName)
  /\ <<"hs_off", "reset", "init_code", "drive", "hs_on", "channels_on">> \in Seq(OpName)
  /\ <<"status_on">> \in Seq(OpName) /\ <<"output">> \in Seq(OpName)
  /\ <<"channels_off", "hs_off", "close", "hold">> \in Seq(OpName)
  /\ <<"no_output", "rails_off", "deconfig", "told_off", "status_off">> \in Seq(OpName)
  /\ <<"rails_on", "told_on">> \in Seq(OpName) /\ <<"rails_off", "told_off">> \in Seq(OpName)
  /\ <<"monitor_on">> \in Seq(OpName) /\ <<"monitor_off">> \in Seq(OpName)
  /\ <<"drive", "hs_on">> \in Seq(OpName) /\ <<"lp", "hs_off">> \in Seq(OpName)
  /\ <<"chip_reset">> \in Seq(OpName) /\ <<"extend">> \in Seq(OpName)
  /\ <<"unlock">> \in Seq(OpName) /\ <<"lock">> \in Seq(OpName)
BY DEF OpName, Switch, Resets, Commands

LEMMA OpsPlain ==
  ASSUME NEW names \in Seq(OpName),
         \A i \in 1..Len(names) : names[i] \notin {"program", "compare", "answer", "cell"}
  PROVE  Ops(names) \in Seq(Operation) /\ Plain(Ops(names))
<1>1. \A i \in 1..Len(names) : Ops(names)[i].do = names[i]
  <2>1. \A name : Op(name).do = name
    BY DEF Op
  <2> QED
    BY <2>1, OpsFacts
<1>2. Ops(names) \in Seq(Operation) /\ Len(Ops(names)) = Len(names)
  BY OpsFacts
<1> QED
  BY <1>1, <1>2 DEF Plain, ReadShape

LEMMA Lists ==
  /\ Ops(<<"config", "rails_on", "told_on">>) \in Seq(Operation)
  /\ Plain(Ops(<<"config", "rails_on", "told_on">>))
  /\ mipi_working \in Seq(Operation) /\ Plain(mipi_working)
  /\ mipi_close \in Seq(Operation) /\ Plain(mipi_close)
  /\ \A name \in {"status_on", "output", "monitor_on", "monitor_off", "chip_reset"} :
       Ops(<<name>>) \in Seq(Operation) /\ Plain(Ops(<<name>>))
<1>1. /\ Ops(<<"config", "rails_on", "told_on">>) \in Seq(Operation)
      /\ Plain(Ops(<<"config", "rails_on", "told_on">>))
  <2> DEFINE n == <<"config", "rails_on", "told_on">>
  <2>1. n \in Seq(OpName) /\ \A i \in 1..Len(n) : n[i] \notin {"program", "compare", "answer", "cell"}
    BY NamesTyped
  <2> QED
    BY <2>1, OpsPlain
<1>2. mipi_working \in Seq(Operation) /\ Plain(mipi_working)
  <2> DEFINE n == <<"hs_off", "reset", "init_code", "drive", "hs_on", "channels_on">>
  <2>1. n \in Seq(OpName) /\ \A i \in 1..Len(n) : n[i] \notin {"program", "compare", "answer", "cell"}
    BY NamesTyped
  <2> QED
    BY <2>1, OpsPlain DEF mipi_working
<1>3. mipi_close \in Seq(Operation) /\ Plain(mipi_close)
  <2> DEFINE n == <<"channels_off", "hs_off", "close", "hold">>
  <2>1. n \in Seq(OpName) /\ \A i \in 1..Len(n) : n[i] \notin {"program", "compare", "answer", "cell"}
    BY NamesTyped
  <2> QED
    BY <2>1, OpsPlain DEF mipi_close
<1>4. ASSUME NEW name \in {"status_on", "output", "monitor_on", "monitor_off", "chip_reset"}
      PROVE  Ops(<<name>>) \in Seq(Operation) /\ Plain(Ops(<<name>>))
  <2> DEFINE n == <<name>>
  <2>1. n \in Seq(OpName) /\ \A i \in 1..Len(n) : n[i] \notin {"program", "compare", "answer", "cell"}
    BY DEF OpName, Switch, Resets
  <2> QED
    BY <2>1, OpsPlain
<1> QED
  BY <1>1, <1>2, <1>3, <1>4


LEMMA ShutOnPlain == ShutOn \in Seq(Operation) /\ Plain(ShutOn)
<1> DEFINE up  == Ops(<<"config", "rails_on", "told_on">>)
           mid == IF Signal = 2 THEN mipi_working ELSE <<>>
           st  == Ops(<<"status_on">>)
           out == IF Signal \in {1, 2} THEN Ops(<<"output">>) ELSE <<>>
<1>1. <<>> \in Seq(Operation) /\ Plain(<<>>)
  BY EmptyPlain
<1>2. /\ up \in Seq(Operation) /\ Plain(up) /\ mid \in Seq(Operation) /\ Plain(mid)
      /\ st \in Seq(Operation) /\ Plain(st) /\ out \in Seq(Operation) /\ Plain(out)
  BY <1>1, Lists
<1>3. ShutOn = ((up \o mid) \o st) \o out
  BY DEF ShutOn
<1> HIDE DEF up, mid, st, out
<1>4. up \o mid \in Seq(Operation) /\ Plain(up \o mid)
  BY <1>2, PlainConcat, ConcatProperties
<1>5. (up \o mid) \o st \in Seq(Operation) /\ Plain((up \o mid) \o st)
  BY <1>2, <1>4, PlainConcat, ConcatProperties
<1> QED
  BY <1>2, <1>3, <1>5, PlainConcat, ConcatProperties

LEMMA ShutOffPlain == ShutOff \in Seq(Operation) /\ Plain(ShutOff)
<1> DEFINE n == <<"no_output", "rails_off", "deconfig", "told_off", "status_off">>
<1>1. n \in Seq(OpName) /\ \A i \in 1..Len(n) : n[i] \notin {"program", "compare", "answer", "cell"}
  BY NamesTyped
<1>2. Ops(n) \in Seq(Operation) /\ Plain(Ops(n))
  BY <1>1, OpsPlain
<1>3. ShutOff = mipi_close \o Ops(n)
  BY DEF ShutOff
<1> HIDE DEF n
<1> QED
  BY <1>2, <1>3, Lists, PlainConcat, ConcatProperties

LEMMA TestPlain ==
  /\ TestOn \in Seq(Operation) /\ Plain(TestOn)
  /\ TestOff \in Seq(Operation) /\ Plain(TestOff)
<1>1. TestOn \in Seq(Operation) /\ Plain(TestOn)
  <2> DEFINE n == <<"rails_on", "told_on">>
  <2>1. n \in Seq(OpName) /\ \A i \in 1..Len(n) : n[i] \notin {"program", "compare", "answer", "cell"}
    BY NamesTyped
  <2>2. Ops(n) \in Seq(Operation) /\ Plain(Ops(n))
    BY <2>1, OpsPlain
  <2>3. TestOn = Ops(n) \o mipi_working
    BY DEF TestOn
  <2> HIDE DEF n
  <2> QED
    BY <2>2, <2>3, Lists, PlainConcat, ConcatProperties
<1>2. TestOff \in Seq(Operation) /\ Plain(TestOff)
  <2> DEFINE n == <<"rails_off", "told_off">>
  <2>1. n \in Seq(OpName) /\ \A i \in 1..Len(n) : n[i] \notin {"program", "compare", "answer", "cell"}
    BY NamesTyped
  <2>2. Ops(n) \in Seq(Operation) /\ Plain(Ops(n))
    BY <2>1, OpsPlain
  <2>3. TestOff = mipi_close \o Ops(n)
    BY DEF TestOff
  <2> HIDE DEF n
  <2> QED
    BY <2>2, <2>3, Lists, PlainConcat, ConcatProperties
<1> QED
  BY <1>1, <1>2

LEMMA ByHandPlain ==
  /\ Ops(<<"drive", "hs_on">>) \in Seq(Operation) /\ Plain(Ops(<<"drive", "hs_on">>))
  /\ Ops(<<"lp", "hs_off">>) \in Seq(Operation) /\ Plain(Ops(<<"lp", "hs_off">>))
<1>1. Ops(<<"drive", "hs_on">>) \in Seq(Operation) /\ Plain(Ops(<<"drive", "hs_on">>))
  <2> DEFINE n == <<"drive", "hs_on">>
  <2>1. n \in Seq(OpName) /\ \A i \in 1..Len(n) : n[i] \notin {"program", "compare", "answer", "cell"}
    BY NamesTyped
  <2> QED
    BY <2>1, OpsPlain
<1>2. Ops(<<"lp", "hs_off">>) \in Seq(Operation) /\ Plain(Ops(<<"lp", "hs_off">>))
  <2> DEFINE n == <<"lp", "hs_off">>
  <2>1. n \in Seq(OpName) /\ \A i \in 1..Len(n) : n[i] \notin {"program", "compare", "answer", "cell"}
    BY NamesTyped
  <2> QED
    BY <2>1, OpsPlain
<1> QED
  BY <1>1, <1>2

LEMMA ReadFacts ==
  ASSUME NEW k \in Kind
  PROVE  /\ Read(k) \in Seq(Operation) /\ Len(Read(k)) = 3 /\ Plain(Read(k))
         /\ Read(k)[1].do = "times" /\ Read(k)[1].kind = k
         /\ Read(k)[2].do = "cell" /\ Read(k)[2].kind = k
         /\ Read(k)[3].do = "sleep_in"
<1> DEFINE a == [do |-> "times", kind |-> k, v |-> Blank]
           b == [do |-> "cell", kind |-> k, v |-> Blank]
           c == Op("sleep_in")
<1>1. a \in Operation /\ b \in Operation /\ c \in Operation
  BY DEF Operation, Op, OpName, Commands, Kind
<1>2. a.do = "times" /\ b.do = "cell" /\ c.do = "sleep_in" /\ a.kind = k /\ b.kind = k
  BY DEF Op
<1>3. Read(k) = <<a, b, c>>
  BY DEF Read
<1> HIDE DEF a, b, c
<1>4. /\ <<a, b, c>> \in Seq(Operation) /\ Len(<<a, b, c>>) = 3
      /\ <<a, b, c>>[1] = a /\ <<a, b, c>>[2] = b /\ <<a, b, c>>[3] = c
  BY <1>1
<1>5. \A i \in 1..3 : i = 1 \/ i = 2 \/ i = 3
  OBVIOUS
<1>6. \A i \in 1..3 : /\ <<a, b, c>>[i].do \notin {"program", "compare", "answer"}
                      /\ <<a, b, c>>[i].do = "cell" => i = 2
  BY <1>2, <1>4, <1>5
<1>7. ReadShape(<<a, b, c>>)
  <2>1. ASSUME NEW i \in 1..3, NEW j \in 1..3, <<a, b, c>>[i].do = "cell", i = j + 1
        PROVE  i = 2 /\ j = 1
    BY <1>6, <2>1
  <2> QED
    BY <1>2, <1>4, <2>1 DEF ReadShape
<1>8. Plain(<<a, b, c>>)
  BY <1>4, <1>6, <1>7 DEF Plain
<1> QED
  BY <1>2, <1>3, <1>4, <1>8

LEMMA OtpFacts ==
  ASSUME NEW k \in Kind, NEW v \in Value
  PROVE  /\ Otp(k, v) \in Seq(Operation) /\ Otp(k, v) # <<>> /\ BurnShape(Otp(k, v))
         /\ \A i \in 1..Len(Otp(k, v)) :
              /\ Otp(k, v)[i].do \notin {"program", "answer"}
              /\ Otp(k, v)[i].do = "compare" => i = 4
              /\ Otp(k, v)[i].do = "cell" => i > 1
<1> DEFINE c == [do |-> "compare", kind |-> k, v |-> v]
           s == Otp(k, v)
<1>1. c \in Operation /\ c.do = "compare" /\ c.kind = k
  BY DEF Operation, OpName
<1>2. <<c>> \in Seq(Operation) /\ Len(<<c>>) = 1 /\ <<c>>[1] = c
  BY <1>1
<1>3. s = Read(k) \o <<c>>
  BY DEF Otp
<1> HIDE DEF c, s
<1>4. /\ s \in Seq(Operation) /\ Len(s) = 4
      /\ s[1] = Read(k)[1] /\ s[2] = Read(k)[2] /\ s[3] = Read(k)[3] /\ s[4] = c
  <2>1. /\ s \in Seq(Operation) /\ Len(s) = 3 + 1
        /\ \A i \in 1..3 : s[i] = Read(k)[i]
        /\ \A i \in 1..1 : s[3 + i] = <<c>>[i]
    <3>1. /\ Read(k) \in Seq(Operation) /\ Len(Read(k)) = 3
          /\ <<c>> \in Seq(Operation) /\ Len(<<c>>) = 1
      BY <1>2, ReadFacts
    <3>2. /\ Read(k) \o <<c>> \in Seq(Operation)
          /\ Len(Read(k) \o <<c>>) = Len(Read(k)) + Len(<<c>>)
          /\ \A i \in 1..Len(Read(k)) : (Read(k) \o <<c>>)[i] = Read(k)[i]
          /\ \A i \in 1..Len(<<c>>) : (Read(k) \o <<c>>)[Len(Read(k)) + i] = <<c>>[i]
      BY <3>1, ConcatFacts
    <3> QED
      BY <1>3, <3>1, <3>2
  <2> QED
    BY <1>2, <2>1
<1>5. /\ s[1].do = "times" /\ s[1].kind = k /\ s[2].do = "cell" /\ s[2].kind = k
      /\ s[3].do = "sleep_in" /\ s[4].do = "compare" /\ s[4].kind = k
  BY <1>1, <1>4, ReadFacts
<1>6. \A i \in 1..4 : i = 1 \/ i = 2 \/ i = 3 \/ i = 4
  OBVIOUS
<1>7. \A i \in 1..4 : /\ s[i].do \notin {"program", "answer"}
                      /\ s[i].do = "compare" => i = 4
                      /\ s[i].do = "cell" => i > 1
  BY <1>5, <1>6
<1>8. ProgramShape(s) /\ AnswerShape(s)
  BY <1>4, <1>7 DEF ProgramShape, AnswerShape
<1>9. CompareShape(s)
  <2>1. ASSUME NEW i \in 1..4, NEW j \in 1..4, s[i].do = "compare"
        PROVE  /\ i = 4
               /\ i = j + 1 => j = 3
               /\ i = j + 2 => j = 2
               /\ i = j + 3 => j = 1
    BY <1>7, <2>1
  <2> QED
    BY <1>4, <1>5, <2>1 DEF CompareShape
<1>10. s # <<>>
  BY <1>4, EmptySeq
<1>11. ReadShape(s)
  <2>1. ASSUME NEW i \in 1..4, NEW j \in 1..4, s[i].do = "cell", i = j + 1
        PROVE  i = 2 /\ j = 1
    BY <1>5, <1>6, <2>1
  <2> QED
    BY <1>4, <1>5, <2>1 DEF ReadShape
<1> QED
  BY <1>4, <1>7, <1>8, <1>9, <1>10, <1>11 DEF BurnShape, s

\* The six operations that burn.
Burner(k, v) == <<Op("extend"), [do |-> "power", kind |-> k, v |-> v],
                  [do |-> "write", kind |-> k, v |-> v], Op("unlock"),
                  [do |-> "program", kind |-> k, v |-> v], Op("lock")>>

LEMMA BurnIs ==
  ASSUME NEW k \in Kind, NEW v \in Value \cup {Blank}
  PROVE  Burn(k, v) = (Burner(k, v) \o ShutOff) \o ShutOn
BY DEF Burn, Burner

LEMMA BurnerFacts ==
  ASSUME NEW k \in Kind, NEW v \in Value \cup {Blank}
  PROVE  /\ Burner(k, v) \in Seq(Operation) /\ BurnShape(Burner(k, v)) /\ Len(Burner(k, v)) = 6
         /\ \A i \in 1..6 :
              /\ Burner(k, v)[i].do \in {"extend", "power", "write", "unlock", "program", "lock"}
              /\ Burner(k, v)[i].do = "program" =>
                   i = 5 /\ Burner(k, v)[i].kind = k /\ Burner(k, v)[i].v = v
         /\ Burner(k, v)[5].do = "program" /\ Burner(k, v)[5].kind = k /\ Burner(k, v)[5].v = v
<1> DEFINE s == Burner(k, v)
<1>1. /\ Op("extend") \in Operation /\ Op("unlock") \in Operation /\ Op("lock") \in Operation
      /\ \A name \in {"power", "write", "program"} : [do |-> name, kind |-> k, v |-> v] \in Operation
  BY DEF Operation, Op, OpName, Commands, Kind
<1>2. s \in Seq(Operation) /\ Len(s) = 6
  BY <1>1 DEF Burner
<1>3. /\ s[1].do = "extend" /\ s[4].do = "unlock" /\ s[6].do = "lock"
      /\ s[2] = [do |-> "power", kind |-> k, v |-> v]
      /\ s[3] = [do |-> "write", kind |-> k, v |-> v]
      /\ s[5] = [do |-> "program", kind |-> k, v |-> v]
  BY DEF Burner, Op
<1> HIDE DEF s
<1>4. \A i \in 1..6 : i = 1 \/ i = 2 \/ i = 3 \/ i = 4 \/ i = 5 \/ i = 6
  OBVIOUS
<1>5. \A i \in 1..6 : /\ s[i].do \in {"extend", "power", "write", "unlock", "program", "lock"}
                      /\ s[i].do = "program" => i = 5
  BY <1>3, <1>4
<1>6. ProgramShape(s)
  <2>1. ASSUME NEW i \in 1..6, NEW j \in 1..6, s[i].do = "program"
        PROVE  /\ i = 5
               /\ i = j + 1 => j = 4
               /\ i = j + 2 => j = 3
               /\ i = j + 3 => j = 2
               /\ i = j + 4 => j = 1
    BY <1>5, <2>1
  <2>2. Is(s[3], "write", s[5]) /\ Is(s[2], "power", s[5])
    BY <1>3 DEF Is
  <2> QED
    BY <1>2, <1>3, <2>1, <2>2 DEF ProgramShape
<1>7. CompareShape(s) /\ AnswerShape(s) /\ ReadShape(s)
  BY <1>2, <1>5 DEF CompareShape, AnswerShape, ReadShape
<1> QED
  <2>1. s[5].do = "program" /\ s[5].kind = k /\ s[5].v = v
    BY <1>3
  <2>2. \A i \in 1..6 : s[i].do = "program" => i = 5 /\ s[i].kind = k /\ s[i].v = v
    BY <1>5, <2>1
  <2> QED
    BY <1>2, <1>5, <1>6, <1>7, <2>1, <2>2 DEF BurnShape, s

\* A sequence that burns at most v as k, with its fifth operation, and does not answer.
BurnsOnly(s, k, v) ==
    /\ s \in Seq(Operation) /\ BurnShape(s)
    /\ \A i \in 1..Len(s) :
         /\ s[i].do \notin {"compare", "answer"}
         /\ s[i].do = "program" => i = 5 /\ s[i].kind = k /\ s[i].v = v
         /\ s[i].do = "cell" => i > 1

LEMMA BurnsOnlyConcat ==
  ASSUME NEW k, NEW v, NEW s, BurnsOnly(s, k, v), NEW u \in Seq(Operation), Plain(u)
  PROVE  BurnsOnly(s \o u, k, v)
<1>1. s \in Seq(Operation)
  BY DEF BurnsOnly
<1>2. /\ \A i \in 1..Len(u) : /\ u[i].do \notin {"program", "compare", "answer"}
                              /\ u[i].do = "cell" => i > 1
      /\ ReadShape(u)
  BY DEF Plain
<1>3. \A i \in 1..Len(s) : s[i].do \notin {"compare", "answer"}
  BY DEF BurnsOnly
<1>4. BurnShape(s \o u)
  BY <1>1, <1>2, <1>3, BurnShapeConcat DEF BurnsOnly
<1>5. ASSUME NEW i \in 1..Len(s \o u)
      PROVE  /\ (s \o u)[i].do \notin {"compare", "answer"}
             /\ (s \o u)[i].do = "program" => i = 5 /\ (s \o u)[i].kind = k /\ (s \o u)[i].v = v
             /\ (s \o u)[i].do = "cell" => i > 1
  <2>1. CASE i \in 1..Len(s)
    BY <1>1, <2>1, ConcatFacts DEF BurnsOnly
  <2>2. CASE \E j \in 1..Len(u) : i = Len(s) + j
    <3>1. PICK j \in 1..Len(u) : i = Len(s) + j
      BY <2>2
    <3>2. (s \o u)[i] = u[j] /\ Len(s) \in Nat /\ j \in Nat
      BY <1>1, <3>1, ConcatFacts
    <3>3. u[j].do \notin {"program", "compare", "answer"} /\ (u[j].do = "cell" => j > 1)
      BY <1>2
    <3> QED
      BY <3>1, <3>2, <3>3
  <2> QED
    BY <1>1, <2>1, <2>2, ConcatFacts
<1> QED
  BY <1>1, <1>4, <1>5, ConcatFacts DEF BurnsOnly

LEMMA PlainBurns ==
  ASSUME NEW k, NEW v, NEW s \in Seq(Operation), Plain(s)
  PROVE  BurnsOnly(s, k, v)
BY PlainShape DEF BurnsOnly, Plain

LEMMA BurnBurns ==
  ASSUME NEW k \in Kind, NEW v \in Value \cup {Blank}
  PROVE  /\ BurnsOnly(Burn(k, v), k, v)
         /\ 5 \in 1..Len(Burn(k, v))
         /\ Burn(k, v)[5].do = "program" /\ Burn(k, v)[5].kind = k /\ Burn(k, v)[5].v = v
<1>1. BurnsOnly(Burner(k, v), k, v)
  BY BurnerFacts DEF BurnsOnly
<1>2. BurnsOnly(Burner(k, v) \o ShutOff, k, v)
  BY <1>1, BurnsOnlyConcat, ShutOffPlain
<1>3. BurnsOnly(Burn(k, v), k, v)
  BY <1>2, BurnIs, BurnsOnlyConcat, ShutOnPlain
<1>4. Burner(k, v) \in Seq(Operation) /\ 5 \in 1..Len(Burner(k, v))
  BY BurnerFacts
<1>5. /\ 5 \in 1..Len(Burner(k, v) \o ShutOff) /\ Burner(k, v) \o ShutOff \in Seq(Operation)
      /\ (Burner(k, v) \o ShutOff)[5] = Burner(k, v)[5]
  BY <1>4, ShutOffPlain, ConcatFacts
<1>6. 5 \in 1..Len(Burn(k, v)) /\ Burn(k, v)[5] = Burner(k, v)[5]
  BY <1>5, BurnIs, ShutOnPlain, ConcatFacts
<1> QED
  BY <1>3, <1>6, BurnerFacts

LEMMA AfterCompareFacts ==
  ASSUME NEW o \in Operation
  PROVE  /\ AfterCompare(o) \in Seq(Operation) /\ AfterCompare(o) # <<>>
         /\ BurnShape(AfterCompare(o))
         /\ \A i \in 1..Len(AfterCompare(o)) :
              /\ AfterCompare(o)[i].do # "compare"
              /\ AfterCompare(o)[i].do = "program" =>
                   i = 5 /\ AfterCompare(o)[i].kind = o.kind /\ AfterCompare(o)[i].v = o.v /\ Needed(o.v)
              /\ AfterCompare(o)[i].do = "answer" =>
                   AfterCompare(o)[i].kind = o.kind /\ AfterCompare(o)[i].v = o.v
              /\ AfterCompare(o)[i].do = "cell" => i > 1
         /\ Needed(o.v) /\ o.kind = "vcom" =>
              5 \in 1..Len(AfterCompare(o)) /\ AfterCompare(o)[5].do = "program"
<1> DEFINE k == o.kind
           v == o.v
           a == [do |-> "answer", kind |-> k, v |-> v]
           lost == k = "id" /\ ~hw.channels
           s == IF ~Needed(v) THEN <<>> ELSE (IF lost THEN <<>> ELSE Burn(k, v)) \o Read(k)
<1>1. k \in Kind /\ v \in Value \cup {Blank}
  BY DEF Operation
<1>2. a \in Operation /\ a.do = "answer" /\ a.kind = k /\ a.v = v
  BY <1>1 DEF Operation, OpName
<1>3. AfterCompare(o) = s \o <<a>>
  BY DEF AfterCompare
<1>4. <<>> \in Seq(Operation) /\ Plain(<<>>)
  BY EmptyPlain
<1>5. BurnsOnly(s, k, v)
  <2>1. CASE ~Needed(v)
    BY <1>4, <2>1, PlainBurns
  <2>2. CASE Needed(v) /\ lost
    BY <1>1, <1>4, <2>2, PlainBurns, BurnsOnlyConcat, ReadFacts
  <2>3. CASE Needed(v) /\ ~lost
    <3>1. s = Burn(k, v) \o Read(k)
      BY <2>3
    <3>2. BurnsOnly(Burn(k, v) \o Read(k), k, v)
      BY <1>1, BurnBurns, BurnsOnlyConcat, ReadFacts
    <3> QED
      BY <3>1, <3>2
  <2> QED
    BY <2>1, <2>2, <2>3
<1>6. \A i \in 1..Len(s) : s[i].do = "program" => Needed(v)
  <2>1. CASE ~Needed(v)
    BY <2>1
  <2> QED
    BY <2>1
<1>7. Needed(v) /\ k = "vcom" => 5 \in 1..Len(s) /\ s[5].do = "program"
  <2> SUFFICES ASSUME Needed(v), k = "vcom"
               PROVE  5 \in 1..Len(s) /\ s[5].do = "program"
    OBVIOUS
  <2>1. s = Burn(k, v) \o Read(k)
    OBVIOUS
  <2>2. /\ Burn(k, v) \in Seq(Operation) /\ 5 \in 1..Len(Burn(k, v)) /\ Burn(k, v)[5].do = "program"
        /\ Read(k) \in Seq(Operation)
    BY <1>1, BurnBurns, ReadFacts DEF BurnsOnly
  <2>3. 5 \in 1..Len(Burn(k, v) \o Read(k)) /\ (Burn(k, v) \o Read(k))[5].do = "program"
    BY <2>2, ConcatFacts
  <2> QED
    BY <2>1, <2>3
<1> HIDE DEF s, a, k, v
<1>8. /\ s \in Seq(Operation) /\ <<a>> \in Seq(Operation) /\ Len(<<a>>) = 1 /\ <<a>>[1] = a
      /\ \A j \in 1..1 : j = 1
  BY <1>2, <1>5 DEF BurnsOnly
<1>9. BurnShape(s \o <<a>>)
  <2>1. \A i \in 1..Len(s) : s[i].do \notin {"compare", "answer"}
    BY <1>5 DEF BurnsOnly
  <2>2. \A i \in 1..Len(<<a>>) :
          /\ <<a>>[i].do \notin {"program", "compare", "cell"}
          /\ \A j \in 1..Len(s) : s[j].do = "program" => Is(<<a>>[i], "answer", s[j])
    BY <1>2, <1>5, <1>8 DEF BurnsOnly, Is
  <2> QED
    BY <1>5, <1>8, <2>1, <2>2, BurnShapeConcat DEF BurnsOnly, ReadShape
<1>10. ASSUME NEW i \in 1..Len(s \o <<a>>)
       PROVE  /\ (s \o <<a>>)[i].do # "compare"
              /\ (s \o <<a>>)[i].do = "program" =>
                   i = 5 /\ (s \o <<a>>)[i].kind = k /\ (s \o <<a>>)[i].v = v /\ Needed(v)
              /\ (s \o <<a>>)[i].do = "answer" => (s \o <<a>>)[i].kind = k /\ (s \o <<a>>)[i].v = v
              /\ (s \o <<a>>)[i].do = "cell" => i > 1
  <2>1. CASE i \in 1..Len(s)
    <3>1. (s \o <<a>>)[i] = s[i]
      BY <1>8, <2>1, ConcatFacts
    <3> QED
      BY <1>5, <1>6, <2>1, <3>1 DEF BurnsOnly
  <2>2. CASE \E j \in 1..Len(<<a>>) : i = Len(s) + j
    <3>1. PICK j \in 1..Len(<<a>>) : i = Len(s) + j
      BY <2>2
    <3>2. (s \o <<a>>)[i] = <<a>>[j] /\ j = 1
      BY <1>8, <3>1, ConcatFacts
    <3>3. (s \o <<a>>)[i] = a
      BY <1>8, <3>2
    <3> QED
      BY <1>2, <3>3
  <2> QED
    BY <1>8, <2>1, <2>2, ConcatFacts
<1>11. s \o <<a>> \in Seq(Operation) /\ Len(s \o <<a>>) = Len(s) + 1 /\ Len(s) \in Nat
  BY <1>8, ConcatFacts
<1>12. s \o <<a>> # <<>>
  BY <1>11, EmptySeq
<1>13. Needed(v) /\ k = "vcom" => 5 \in 1..Len(s \o <<a>>) /\ (s \o <<a>>)[5].do = "program"
  BY <1>7, <1>8, ConcatFacts
<1> QED
  BY <1>3, <1>9, <1>10, <1>11, <1>12, <1>13 DEF k, v

-----------------------------------------------------------------------------
(* What the operations make of the chip, the supply and what was read.       *)

LEMMA ChipFields ==
  ASSUME chip \in ChipState
  PROVE  /\ chip.page \in {0, 1} /\ chip.vpp \in BOOLEAN /\ chip.key \in BOOLEAN
         /\ chip.reg \in [Kind -> Value \cup {Blank}]
         /\ chip.cells \in [Kind -> Seq(Cell)]
BY DEF ChipState

LEMMA CellsOf ==
  ASSUME chip \in ChipState, NEW k \in Kind
  PROVE  /\ chip.cells[k] \in Seq(Cell) /\ Len(chip.cells[k]) \in Nat
         /\ chip.cells[k] # <<>> =>
              Len(chip.cells[k]) \in 1..Len(chip.cells[k]) /\ chip.cells[k][Len(chip.cells[k])] \in Cell
         /\ chip.cells[k] = <<>> <=> Len(chip.cells[k]) = 0
         /\ LastCell(k) \in Value \cup {Blank}
<1>1. chip.cells[k] \in Seq(Cell)
  BY ChipFields
<1>2. Len(chip.cells[k]) \in Nat /\ (chip.cells[k] = <<>> <=> Len(chip.cells[k]) = 0)
  BY <1>1, EmptySeq, LenProperties
<1>3. ASSUME chip.cells[k] # <<>>
      PROVE  Len(chip.cells[k]) \in 1..Len(chip.cells[k]) /\ chip.cells[k][Len(chip.cells[k])] \in Cell
  <2>1. Len(chip.cells[k]) \in 1..Len(chip.cells[k])
    BY <1>2, <1>3
  <2> QED
    BY <1>1, <2>1, ElementOfSeq
<1>4. \A c \in Cell : c.v \in Value \cup {Blank}
  BY DEF Cell
<1> QED
  BY <1>1, <1>2, <1>3, <1>4 DEF LastCell

\* The chip is set to c, which has the same cells.
SameCells(c) == c \in ChipState /\ c.cells = chip.cells

LEMMA ResetCells ==
  ASSUME chip \in ChipState
  PROVE  SameCells(ChipReset)
<1> DEFINE r == [k \in Kind |-> LastCell(k)]
<1>1. r \in [Kind -> Value \cup {Blank}]
  BY CellsOf
<1>2. ChipReset = [chip EXCEPT !.page = 0, !.vpp = FALSE, !.key = FALSE, !.reg = r]
  BY DEF ChipReset
<1> HIDE DEF r
<1> QED
  BY <1>1, <1>2 DEF SameCells, ChipState

LEMMA OtherCells ==
  ASSUME chip \in ChipState
  PROVE  /\ SameCells(chip) /\ SameCells([chip EXCEPT !.page = 0])
         /\ SameCells([chip EXCEPT !.page = 0, !.key = TRUE])
         /\ SameCells([chip EXCEPT !.key = IF chip.page = 0 THEN FALSE ELSE chip.key])
         /\ \A k \in Kind : /\ SameCells([chip EXCEPT !.page = IF k = "vcom" THEN 1 ELSE 0])
                            /\ SameCells(InternalPower(k))
<1>1. /\ SameCells(chip) /\ SameCells([chip EXCEPT !.page = 0])
      /\ SameCells([chip EXCEPT !.page = 0, !.key = TRUE])
  BY DEF SameCells, ChipState
<1>2. SameCells([chip EXCEPT !.key = IF chip.page = 0 THEN FALSE ELSE chip.key])
  BY DEF SameCells, ChipState
<1>3. ASSUME NEW k \in Kind
      PROVE  SameCells([chip EXCEPT !.page = IF k = "vcom" THEN 1 ELSE 0])
  BY DEF SameCells, ChipState
<1>4. ASSUME NEW k \in Kind
      PROVE  SameCells(InternalPower(k))
  <2> DEFINE vpp == chip.vpp \/ k = "vcom"
  <2>1. vpp \in BOOLEAN /\ InternalPower(k) = [chip EXCEPT !.page = 0, !.vpp = vpp]
    BY ChipFields DEF InternalPower
  <2> HIDE DEF vpp
  <2> QED
    BY <2>1 DEF SameCells, ChipState
<1> QED
  BY <1>1, <1>2, <1>3, <1>4

LEMMA WrittenCells ==
  ASSUME chip \in ChipState, NEW k \in Kind, NEW v \in Value \cup {Blank}
  PROVE  /\ SameCells(WriteValue(k, v)) /\ WriteValue(k, v).reg[k] = v
         /\ WriteValue(k, v).vpp = chip.vpp
<1> DEFINE r == [chip.reg EXCEPT ![k] = v]
<1>1. r \in [Kind -> Value \cup {Blank}] /\ r[k] = v
  BY ChipFields
<1>2. WriteValue(k, v) = [chip EXCEPT !.page = IF k = "vcom" THEN 1 ELSE 0, !.reg = r]
  BY DEF WriteValue
<1> HIDE DEF r
<1> QED
  BY <1>1, <1>2 DEF SameCells, ChipState

\* A cell more, or nothing.
LEMMA Programmed ==
  ASSUME chip \in ChipState, rd \in RdState, NEW t, NEW k \in Kind, NEW v \in Value \cup {Blank}
  PROVE  \/ Program(t, k, v) = chip
         \/ /\ Program(t, k, v) \in ChipState
            /\ Len(chip.cells[k]) < Cells
            /\ Program(t, k, v).cells[k] =
                 Append(chip.cells[k],
                        [v |-> chip.reg[k], want |-> v, alone |-> t \notin mixed, sure |-> rd.right])
            /\ \A m \in Kind : m # k => Program(t, k, v).cells[m] = chip.cells[m]
<1> DEFINE n == [v |-> chip.reg[k], want |-> v, alone |-> t \notin mixed, sure |-> rd.right]
           q == [chip.cells EXCEPT ![k] = Append(chip.cells[k], n)]
<1> SUFFICES ASSUME Program(t, k, v) # chip
             PROVE  /\ Program(t, k, v) \in ChipState
                    /\ Len(chip.cells[k]) < Cells
                    /\ Program(t, k, v).cells[k] = Append(chip.cells[k], n)
                    /\ \A m \in Kind : m # k => Program(t, k, v).cells[m] = chip.cells[m]
  OBVIOUS
<1>1. n \in Cell
  BY ChipFields DEF Cell, RdState
<1>2. Program(t, k, v) = [chip EXCEPT !.cells = q] /\ Len(chip.cells[k]) < Cells
  BY DEF Program
<1> HIDE DEF n
<1>3. Append(chip.cells[k], n) \in Seq(Cell)
  BY <1>1, CellsOf, AppendProperties
<1>4. q \in [Kind -> Seq(Cell)] /\ q[k] = Append(chip.cells[k], n)
      /\ \A m \in Kind : m # k => q[m] = chip.cells[m]
  BY <1>3, ChipFields
<1> HIDE DEF q
<1>5. [chip EXCEPT !.cells = q] \in ChipState /\ [chip EXCEPT !.cells = q].cells = q
  BY <1>4 DEF ChipState
<1> QED
  BY <1>2, <1>4, <1>5

LEMMA SwitchedTyped ==
  ASSUME hw \in HwState, NEW o, NEW rails \in BOOLEAN
  PROVE  Switched(o, rails) \in HwState /\ Switched(o, rails).rails = rails
BY DEF HwState, Switched, Left, OutputMode

\* One of the operations is done by thread t.
Do(t, o) == SwitchOp(o) \/ ChipOp(t, o) \/ OtpTimes(t, o) \/ OtpCell(t, o) \/ OtpCompare(t, o) \/ OtpAnswer(t, o)

LEMMA CommandEffect ==
  ASSUME hw \in HwState, NEW after, Command(after)
  PROVE  /\ hw' \in HwState /\ hw'.rails = hw.rails /\ hw'.asked = hw.asked /\ hw'.bridge = hw.bridge
         /\ chip' = IF Reached THEN after ELSE chip
         /\ hw' = [hw EXCEPT !.driving = hw.bridge /\ hw.HsSignalOnFlag]
BY DEF Command, HwState

LEMMA ChipOpEffect ==
  ASSUME Typed, NEW t \in Thread, NEW o \in Operation, ChipOp(t, o)
  PROVE  /\ hw' \in HwState /\ hw'.rails = hw.rails /\ hw'.asked = hw.asked /\ hw'.bridge = hw.bridge
         /\ hw' = [hw EXCEPT !.driving = hw.bridge /\ hw.HsSignalOnFlag]
         /\ rd' = rd /\ answer' = answer
         /\ o.do \in {"init_code", "extend", "power", "write", "unlock", "program", "lock", "sleep_in"}
         /\ o.do # "program" => SameCells(chip')
         /\ o.do = "program" => chip' = IF Reached THEN Program(t, o.kind, o.v) ELSE chip
         /\ o.do = "write" => chip' = IF Reached THEN WriteValue(o.kind, o.v) ELSE chip
         /\ o.do = "power" => chip' = IF Reached THEN InternalPower(o.kind) ELSE chip
         /\ o.do = "unlock" => chip' = IF Reached THEN [chip EXCEPT !.page = 0, !.key = TRUE] ELSE chip
<1> DEFINE after == CASE o.do = "power"   -> InternalPower(o.kind)
                      [] o.do = "write"   -> WriteValue(o.kind, o.v)
                      [] o.do = "unlock"  -> [chip EXCEPT !.page = 0, !.key = TRUE]
                      [] o.do = "program" -> Program(t, o.kind, o.v)
                      [] o.do = "lock"    -> [chip EXCEPT !.key = IF chip.page = 0 THEN FALSE ELSE chip.key]
                      [] OTHER            -> [chip EXCEPT !.page = 0]
<1>1. /\ o.do \in {"init_code", "extend", "power", "write", "unlock", "program", "lock", "sleep_in"}
      /\ Command(after) /\ rd' = rd /\ answer' = answer
  BY DEF ChipOp
<1>2. /\ o.do = "program" => after = Program(t, o.kind, o.v)
      /\ o.do = "write" => after = WriteValue(o.kind, o.v)
      /\ o.do = "power" => after = InternalPower(o.kind)
      /\ o.do = "unlock" => after = [chip EXCEPT !.page = 0, !.key = TRUE]
  OBVIOUS
<1>3. o.kind \in Kind /\ o.v \in Value \cup {Blank} /\ hw \in HwState /\ chip \in ChipState
  BY DEF Operation, Typed
<1>4. o.do # "program" => SameCells(after)
  <2>1. CASE o.do = "write"
    BY <1>2, <1>3, <2>1, WrittenCells
  <2>2. CASE o.do = "power"
    BY <1>2, <1>3, <2>2, OtherCells
  <2>3. CASE o.do = "unlock"
    BY <1>2, <1>3, <2>3, OtherCells
  <2>4. CASE o.do = "lock"
    <3>1. after = [chip EXCEPT !.key = IF chip.page = 0 THEN FALSE ELSE chip.key]
      BY <2>4
    <3> QED
      BY <1>3, <3>1, OtherCells
  <2>5. CASE o.do \notin {"write", "power", "unlock", "lock", "program"}
    <3>1. after = [chip EXCEPT !.page = 0]
      BY <2>5
    <3> QED
      BY <1>3, <3>1, OtherCells
  <2> QED
    BY <2>1, <2>2, <2>3, <2>4, <2>5
<1> HIDE DEF after
<1>5. o.do # "program" => SameCells(chip')
  BY <1>1, <1>3, <1>4, CommandEffect, OtherCells
<1> QED
  BY <1>1, <1>2, <1>3, <1>5, CommandEffect

LEMMA SwitchOpEffect ==
  ASSUME Typed, NEW o \in Operation, SwitchOp(o)
  PROVE  /\ hw' \in HwState /\ hw' = Switched(o.do, hw'.rails) /\ o.do \in Switch
         /\ SameCells(chip') /\ rd' = rd /\ answer' = answer
<1>1. hw \in HwState /\ chip \in ChipState
  BY DEF Typed
<1>2. PICK rails \in Supplies(o.do) :
         /\ hw' = Switched(o.do, rails)
         /\ chip' = IF o.do \in Resets \/ ~rails THEN ChipReset ELSE chip
  BY DEF SwitchOp
<1>3. rails \in BOOLEAN
  BY <1>1 DEF Supplies, HwState
<1>4. hw' \in HwState /\ hw' = Switched(o.do, hw'.rails)
  BY <1>1, <1>2, <1>3, SwitchedTyped
<1>5. SameCells(chip')
  BY <1>1, <1>2, ResetCells, OtherCells
<1> QED
  BY <1>4, <1>5 DEF SwitchOp

LEMMA TimesEffect ==
  ASSUME Typed, NEW t \in Thread, NEW o \in Operation, OtpTimes(t, o)
  PROVE  /\ hw' \in HwState /\ hw'.rails = hw.rails /\ hw'.asked = hw.asked /\ hw'.bridge = hw.bridge
         /\ hw' = [hw EXCEPT !.driving = hw.bridge /\ hw.HsSignalOnFlag]
         /\ SameCells(chip') /\ answer' = answer /\ o.do = "times"
         /\ rd' \in RdState /\ rd'.before = rd.before
         /\ rd'.right => rd'.times = Len(chip.cells[o.kind])
         /\ rd'.times <= Len(chip.cells[o.kind])
<1>1. /\ hw \in HwState /\ chip \in ChipState /\ o.kind \in Kind /\ rd \in RdState
      /\ Len(chip.cells[o.kind]) \in 0..Cells
  BY CellsOf, PanelAssumption DEF Typed, Operation
<1>2. PICK n \in {0, IF Reached THEN Len(chip.cells[o.kind]) ELSE 0} :
         rd' = [rd EXCEPT !.times = n, !.value = Blank, !.right = (n = Len(chip.cells[o.kind]))]
  BY DEF OtpTimes
<1>3. /\ answer' = answer /\ o.do = "times"
      /\ Command([chip EXCEPT !.page = IF o.kind = "vcom" THEN 1 ELSE 0])
  BY DEF OtpTimes
<1>4. n \in 0..Cells /\ n <= Len(chip.cells[o.kind])
  BY <1>1, PanelAssumption
<1>5. /\ rd' \in RdState /\ rd'.before = rd.before /\ rd'.times = n
      /\ rd'.right => n = Len(chip.cells[o.kind])
  BY <1>1, <1>2, <1>4 DEF RdState
<1>6. SameCells(chip')
  <2> DEFINE after == [chip EXCEPT !.page = IF o.kind = "vcom" THEN 1 ELSE 0]
  <2>1. SameCells(after) /\ SameCells(chip)
    BY <1>1, OtherCells
  <2>2. Command(after)
    BY <1>3
  <2> HIDE DEF after
  <2> QED
    BY <1>1, <2>1, <2>2, CommandEffect
<1> QED
  BY <1>1, <1>3, <1>4, <1>5, <1>6, CommandEffect

LEMMA CellEffect ==
  ASSUME Typed, NEW t \in Thread, NEW o \in Operation, OtpCell(t, o)
  PROVE  /\ hw' \in HwState /\ hw'.rails = hw.rails /\ hw'.asked = hw.asked /\ hw'.bridge = hw.bridge
         /\ hw' = [hw EXCEPT !.driving = hw.bridge /\ hw.HsSignalOnFlag]
         /\ SameCells(chip') /\ answer' = answer /\ o.do = "cell"
         /\ rd' \in RdState /\ rd'.before = rd.before /\ rd'.times = rd.times
         /\ rd'.right => rd.right /\ rd'.value = LastCell(o.kind)
<1>1. hw \in HwState /\ chip \in ChipState /\ o.kind \in Kind /\ rd \in RdState
  BY DEF Typed, Operation
<1>2. answer' = answer /\ o.do = "cell" /\ Command(chip)
  BY DEF OtpCell
<1> DEFINE held == IF rd.times \in 1..Cells /\ Reached THEN chip.cells[o.kind][rd.times].v ELSE Blank
<1>3. PICK w \in ReadAs(held) :
         rd' = [rd EXCEPT !.value = w, !.right = rd.right /\ w = LastCell(o.kind)]
  BY Zenon DEF OtpCell
<1> HIDE DEF held
<1>6. w \in Value \cup {Blank}
  BY DEF ReadAs
<1>4. /\ rd' \in RdState /\ rd'.before = rd.before /\ rd'.times = rd.times /\ rd'.value = w
      /\ rd'.right => rd.right /\ w = LastCell(o.kind)
  <2> DEFINE right == rd.right /\ w = LastCell(o.kind)
  <2>1. right \in BOOLEAN /\ rd' = [rd EXCEPT !.value = w, !.right = right]
    BY <1>1, <1>3 DEF RdState
  <2>2. right => rd.right /\ w = LastCell(o.kind)
    OBVIOUS
  <2> HIDE DEF right
  <2> QED
    BY <1>1, <1>6, <2>1, <2>2 DEF RdState
<1>5. SameCells(chip')
  BY <1>1, <1>2, CommandEffect, OtherCells
<1> QED
  BY <1>1, <1>2, <1>4, <1>5, CommandEffect

LEMMA DecideEffect ==
  ASSUME Typed, NEW t \in Thread, NEW o \in Operation, OtpCompare(t, o)
  PROVE  /\ hw' = hw /\ chip' = chip /\ answer' = answer /\ o.do = "compare"
         /\ rd' \in RdState /\ rd'.times = rd.times /\ rd'.value = rd.value /\ rd'.right = rd.right
         /\ rd'.before.could => /\ Reached /\ Len(chip.cells[o.kind]) < Cells /\ o.kind = "vcom"
                                /\ Needed(o.v) \/ LastCell(o.kind) = o.v
<1> DEFINE c == /\ Reached /\ Len(chip.cells[o.kind]) < Cells /\ o.v # Blank /\ o.kind = "vcom"
                /\ Needed(o.v) \/ LastCell(o.kind) = o.v
           b == [could |-> c, holds |-> FALSE]
<1>1. hw' = hw /\ chip' = chip /\ answer' = answer /\ o.do = "compare" /\ rd' = [rd EXCEPT !.before = b]
  BY DEF OtpCompare
<1>2. c \in BOOLEAN
  BY DEF Reached, Typed, HwState
<1>3. b \in Answers /\ (b.could => c)
  BY <1>2 DEF Answers
<1>4. rd \in RdState
  BY DEF Typed
<1> HIDE DEF b
<1>5. /\ rd' \in RdState /\ rd'.times = rd.times /\ rd'.value = rd.value /\ rd'.right = rd.right
      /\ rd'.before = b
  BY <1>1, <1>3, <1>4 DEF RdState
<1> QED
  BY <1>1, <1>3, <1>5

LEMMA AnswerEffect ==
  ASSUME Typed, NEW t \in Thread, NEW o \in Operation, OtpAnswer(t, o)
  PROVE  /\ hw' = hw /\ chip' = chip /\ o.do = "answer"
         /\ rd' \in RdState /\ ~rd'.before.could /\ rd'.times = 0
         /\ answer' \in Answers
         /\ answer'.could => rd.before.could /\ t \notin mixed
         /\ answer'.holds <=> LastCell(o.kind) = o.v
<1>1. /\ hw' = hw /\ chip' = chip /\ o.do = "answer" /\ rd' = NoRead
      /\ answer' = [could |-> rd.before.could /\ t \notin mixed, holds |-> LastCell(o.kind) = o.v]
  BY DEF OtpAnswer
<1>2. NoRead \in RdState /\ ~NoRead.before.could /\ NoRead.times = 0
  BY PanelAssumption DEF NoRead, NoAnswer, RdState, Answers
<1>3. rd.before.could \in BOOLEAN
  BY DEF Typed, RdState, Answers
<1>4. /\ answer' \in Answers
      /\ answer'.could => rd.before.could /\ t \notin mixed
      /\ answer'.holds <=> LastCell(o.kind) = o.v
  BY <1>1, <1>3 DEF Answers
<1> QED
  BY <1>1, <1>2, <1>4

\* What is left of s after its first operation.
Rest(s) == (IF Head(s).do = "compare" THEN AfterCompare(Head(s)) ELSE <<>>) \o Tail(s)

LEMMA RestFacts ==
  ASSUME NEW s \in Seq(Operation), s # <<>>, CompareShape(s)
  PROVE  /\ Rest(s) \in Seq(Operation)
         /\ Head(s).do # "compare" => Rest(s) = Tail(s)
         /\ Head(s).do = "compare" => Rest(s) = AfterCompare(Head(s))
<1>1. Tail(s) \in Seq(Operation) /\ Head(s) \in Operation
  BY TailFacts
<1>2. CASE Head(s).do # "compare"
  <2>1. Rest(s) = <<>> \o Tail(s)
    BY <1>2 DEF Rest
  <2> QED
    BY <1>1, <1>2, <2>1, ConcatEmptySeq
<1>3. CASE Head(s).do = "compare"
  <2>1. Tail(s) = <<>> /\ AfterCompare(Head(s)) \in Seq(Operation)
    BY <1>1, <1>3, CompareShapeTail, AfterCompareFacts
  <2>2. Rest(s) = AfterCompare(Head(s)) \o <<>>
    BY <1>3, <2>1 DEF Rest
  <2> QED
    BY <1>3, <2>1, <2>2, ConcatEmptySeq
<1> QED
  BY <1>2, <1>3

LEMMA StepIs ==
  ASSUME NEW t \in Thread, Step(t)
  PROVE  LET ends == Rest(code[t]) = <<>>
         IN  /\ code[t] # <<>> /\ Do(t, Head(code[t]))
             /\ code' = [code EXCEPT ![t] = Rest(code[t])]
             /\ what' = IF ends THEN [what EXCEPT ![t] = "none"] ELSE what
             /\ mixed' = IF ends THEN mixed \ {t} ELSE mixed
             /\ tainted' = (tainted /\ ~(ends /\ t \notin mixed /\ what[t] \in {"on", "off"}))
             /\ cmds' = cmds
BY DEF Step, Do, Rest

-----------------------------------------------------------------------------
(* What a step keeps of the burning.                                         *)

LEMMA SameLast ==
  ASSUME SameCells(chip')
  PROVE  \A k : LastCell(k)' = LastCell(k)
BY DEF SameCells, LastCell

\* The operations before a burn, before a decision and after both are the
\* commands that shape them.
LEMMA BurnAhead ==
  ASSUME NEW s \in Seq(Operation), s # <<>>, ProgramShape(s), Does(Tail(s), {"program"})
  PROVE  Head(s).do \in {"unlock", "write", "power", "extend"}
<1>1. PICK i \in 1..Len(Tail(s)) : Tail(s)[i].do = "program"
  BY DEF Does
<1>2. /\ i <= 4
      /\ i = 1 => Head(s).do = "unlock"
      /\ i = 2 => Is(Head(s), "write", Tail(s)[i])
      /\ i = 3 => Is(Head(s), "power", Tail(s)[i])
      /\ i = 4 => Head(s).do = "extend"
  BY <1>1, ProgramShapeTail
<1>3. i = 1 \/ i = 2 \/ i = 3 \/ i = 4
  BY <1>1, <1>2
<1> QED
  BY <1>2, <1>3 DEF Is

LEMMA DoIs ==
  ASSUME NEW t, NEW o, Do(t, o)
  PROVE  /\ o.do \in Switch => SwitchOp(o)
         /\ o.do \in {"init_code", "extend", "power", "write", "unlock", "program", "lock", "sleep_in"} =>
              ChipOp(t, o)
         /\ o.do = "times" => OtpTimes(t, o)
         /\ o.do = "cell" => OtpCell(t, o)
         /\ o.do = "compare" => OtpCompare(t, o)
         /\ o.do = "answer" => OtpAnswer(t, o)
BY DEF Do, SwitchOp, ChipOp, OtpTimes, OtpCell, OtpCompare, OtpAnswer, Switch, Resets

LEMMA ProgramReadyKept ==
  ASSUME Typed, NEW t \in Thread, NEW s \in Seq(Operation), s # <<>>, BurnShape(s), ProgramReady(s),
         Do(t, Head(s))
  PROVE  ProgramReady(Tail(s))'
<1> DEFINE o == Head(s)
           r == Tail(s)
<1> SUFFICES ASSUME NEW i \in 1..Len(r), r[i].do = "program", Reached'
             PROVE  /\ rd'.right => LastCell(r[i].kind)' # r[i].v
                    /\ i <= 2 => chip'.reg[r[i].kind] = r[i].v
  BY DEF ProgramReady
<1>1. /\ i <= 4
      /\ i = 1 => o.do = "unlock"
      /\ i = 2 => Is(o, "write", r[i])
      /\ i = 3 => Is(o, "power", r[i])
      /\ i = 4 => o.do = "extend"
  BY ProgramShapeTail DEF BurnShape
<1>2. o.do \in {"unlock", "write", "power", "extend"} /\ o \in Operation
  <2>1. Does(r, {"program"})
    BY DEF Does
  <2> QED
    BY <2>1, BurnAhead, TailFacts DEF BurnShape
<1>3. i + 1 \in 1..Len(s) /\ s[i + 1] = r[i] /\ r[i] \in Operation /\ i \in Nat
  BY TailFacts, ElementOfSeq
<1>4. ChipOp(t, o)
  BY <1>2, DoIs
<1>5. Reached /\ SameCells(chip') /\ rd' = rd
  BY <1>2, <1>4, ChipOpEffect DEF Reached
<1>6. (rd.right => LastCell(r[i].kind) # r[i].v) /\ (i + 1 <= 2 => chip.reg[r[i].kind] = r[i].v)
  BY <1>3, <1>5 DEF ProgramReady
<1>7. CASE i = 1
  <2>1. chip' = [chip EXCEPT !.page = 0, !.key = TRUE]
    BY <1>1, <1>2, <1>4, <1>5, <1>7, ChipOpEffect
  <2>2. chip'.reg = chip.reg
    BY <2>1 DEF Typed, ChipState
  <2> QED
    BY <1>5, <1>6, <1>7, <2>2, SameLast
<1>8. CASE i = 2
  <2>1. o.do = "write" /\ o.kind = r[i].kind /\ o.v = r[i].v
    BY <1>1, <1>8 DEF Is
  <2>2. chip' = WriteValue(o.kind, o.v)
    BY <1>2, <1>4, <1>5, <2>1, ChipOpEffect
  <2>3. chip'.reg[o.kind] = o.v
    BY <1>2, <2>2, WrittenCells DEF Operation, Typed
  <2> QED
    BY <1>5, <1>6, <2>1, <2>3, SameLast
<1>9. CASE i > 2
  BY <1>3, <1>5, <1>6, <1>9, SameLast
<1> QED
  BY <1>3, <1>7, <1>8, <1>9

\* What the operations leave of what was read.
LEMMA ReadKept ==
  ASSUME Typed, NEW t \in Thread, NEW o \in Operation, Do(t, o),
         o.do = "cell" => rd.times <= Len(chip.cells[o.kind])
  PROVE  /\ hw' \in HwState /\ chip' \in ChipState /\ rd' \in RdState /\ answer' \in Answers
         /\ o.do \notin {"compare", "answer"} => rd'.before = rd.before
         /\ o.do \notin {"times", "cell", "compare", "answer"} => rd' = rd
         /\ o.do # "program" => SameCells(chip')
         /\ o.do \notin Switch => Reached' = Reached
         /\ o.do # "answer" => answer' = answer
<1>1. hw \in HwState /\ chip \in ChipState /\ rd \in RdState /\ answer \in Answers /\ o.kind \in Kind
      /\ o.v \in Value \cup {Blank}
  BY DEF Typed, Operation
<1>2. SameCells(chip)
  BY <1>1, OtherCells
<1>3. CASE SwitchOp(o)
  <2>1. o.do \in Switch /\ o.do \notin {"times", "cell", "compare", "answer", "program"}
    BY <1>3 DEF SwitchOp, Switch, Resets
  <2> QED
    BY <1>1, <1>3, <2>1, SwitchOpEffect DEF SameCells
<1>4. CASE ChipOp(t, o)
  <2>1. /\ hw' \in HwState /\ Reached' = Reached /\ rd' = rd /\ answer' = answer
        /\ o.do \notin {"times", "cell", "compare", "answer"}
        /\ o.do # "program" => SameCells(chip')
    BY <1>4, ChipOpEffect DEF Reached
  <2>2. chip' \in ChipState
    <3>1. CASE o.do # "program"
      BY <2>1, <3>1 DEF SameCells
    <3>2. CASE o.do = "program"
      <4>1. chip' = chip \/ chip' = Program(t, o.kind, o.v)
        BY <1>4, <3>2, ChipOpEffect
      <4>2. Program(t, o.kind, o.v) = chip \/ Program(t, o.kind, o.v) \in ChipState
        BY <1>1, Programmed
      <4> QED
        BY <1>1, <4>1, <4>2
    <3> QED
      BY <3>1, <3>2
  <2> QED
    BY <1>1, <2>1, <2>2
<1>5. CASE OtpTimes(t, o)
  BY <1>1, <1>5, TimesEffect DEF SameCells, Reached
<1>6. CASE OtpCell(t, o)
  <2>1. o.do = "cell"
    BY <1>6 DEF OtpCell
  <2> QED
    BY <1>1, <1>6, <2>1, CellEffect DEF SameCells, Reached
<1>7. CASE OtpCompare(t, o)
  BY <1>1, <1>2, <1>7, DecideEffect DEF Reached, SameCells
<1>8. CASE OtpAnswer(t, o)
  BY <1>1, <1>2, <1>8, AnswerEffect DEF Reached, SameCells
<1> QED
  BY <1>3, <1>4, <1>5, <1>6, <1>7, <1>8 DEF Do

LEMMA CompareReadyKept ==
  ASSUME Typed, NEW t \in Thread, NEW s \in Seq(Operation), s # <<>>, BurnShape(s), CompareReady(s),
         Do(t, Head(s)), Head(s).do = "cell" => rd.times <= Len(chip.cells[Head(s).kind])
  PROVE  CompareReady(Tail(s))'
<1> DEFINE o == Head(s)
           r == Tail(s)
<1> SUFFICES ASSUME NEW i \in 1..Len(r), r[i].do = "compare", rd'.right
             PROVE  /\ i <= 3 => rd'.times = Len(chip'.cells[r[i].kind])
                    /\ i <= 2 => rd'.value = LastCell(r[i].kind)'
  BY DEF CompareReady
<1>1. /\ i <= 3
      /\ i = 1 => o.do = "sleep_in"
      /\ i = 2 => o.do = "cell" /\ o.kind = r[i].kind
      /\ i = 3 => o.do = "times" /\ o.kind = r[i].kind
  BY CompareShapeTail DEF BurnShape
<1>2. i + 1 \in 1..Len(s) /\ s[i + 1] = r[i] /\ o \in Operation /\ i \in Nat
  BY TailFacts
<1>3. i = 1 \/ i = 2 \/ i = 3
  BY <1>1, <1>2
<1>4. o.do \in {"sleep_in", "cell", "times"}
  BY <1>1, <1>3
<1>5. SameCells(chip')
  BY <1>2, <1>4, ReadKept
<1>6. rd.right =>
        (i + 1 <= 3 => rd.times = Len(chip.cells[r[i].kind])) /\ (i + 1 <= 2 => rd.value = LastCell(r[i].kind))
  BY <1>2 DEF CompareReady
<1>7. Len(chip'.cells[r[i].kind]) = Len(chip.cells[r[i].kind]) /\ LastCell(r[i].kind)' = LastCell(r[i].kind)
  BY <1>5, SameLast DEF SameCells
<1>8. CASE i = 1
  <2>1. rd' = rd
    BY <1>1, <1>2, <1>8, ReadKept
  <2> QED
    BY <1>6, <1>7, <1>8, <2>1
<1>9. CASE i = 2
  <2>1. OtpCell(t, o) /\ o.kind = r[i].kind
    BY <1>1, <1>9, DoIs
  <2>2. rd'.times = rd.times /\ rd'.value = LastCell(o.kind) /\ rd.right
    BY <1>2, <2>1, CellEffect
  <2>3. rd.times = Len(chip.cells[o.kind])
    BY <1>6, <1>9, <2>1, <2>2
  <2> QED
    BY <1>7, <2>1, <2>2, <2>3
<1>10. CASE i = 3
  <2>1. OtpTimes(t, o) /\ o.kind = r[i].kind
    BY <1>1, <1>10, DoIs
  <2>2. rd'.times = Len(chip.cells[o.kind])
    BY <1>2, <2>1, TimesEffect
  <2> QED
    BY <1>7, <1>10, <2>1, <2>2
<1> QED
  BY <1>3, <1>8, <1>9, <1>10

\* The burn itself, where it can succeed: the cell holds what was asked for.
LEMMA Burned ==
  ASSUME Typed, NEW t \in Thread, NEW o \in Operation, ChipOp(t, o), o.do = "program", o.kind = "vcom",
         Reached, Len(chip.cells["vcom"]) < Cells, chip.vpp, chip.page = 0, chip.key,
         chip.reg["vcom"] = o.v
  PROVE  LastCell("vcom")' = o.v
<1> DEFINE n == [v |-> chip.reg["vcom"], want |-> o.v, alone |-> t \notin mixed, sure |-> rd.right]
           q == chip.cells["vcom"]
           p == [chip.cells EXCEPT !["vcom"] = Append(q, n)]
<1>1. chip' = [chip EXCEPT !.cells = p]
  BY ChipOpEffect DEF Program
<1>2. chip \in ChipState /\ "vcom" \in Kind
  BY DEF Typed, Kind
<1>3. q \in Seq(Cell) /\ n \in Cell
  BY <1>2, ChipFields DEF Cell, Operation, Typed, RdState
<1>4. n.v = o.v
  OBVIOUS
<1> HIDE DEF n
<1>5. Append(q, n) \in Seq(Cell) /\ Len(Append(q, n)) = Len(q) + 1 /\ Append(q, n)[Len(q) + 1] = n
      /\ Len(q) \in Nat
  BY <1>3, AppendProperties, LenProperties
<1>6. Append(q, n) # <<>>
  BY <1>5, EmptySeq
<1>7. p["vcom"] = Append(q, n)
  BY <1>2, ChipFields
<1> HIDE DEF p, q
<1>8. chip'.cells = p
  BY <1>1, <1>2 DEF ChipState
<1>9. LastCell("vcom")' = Append(q, n)[Len(Append(q, n))].v
  BY <1>6, <1>7, <1>8 DEF LastCell
<1> QED
  BY <1>4, <1>5, <1>9

LEMMA AnswerReadyKept ==
  ASSUME Typed, NEW t \in Thread, NEW s \in Seq(Operation), s # <<>>, BurnShape(s),
         ProgramReady(s), AnswerReady(s), Do(t, Head(s)), Head(s).do # "compare",
         Head(s).do = "cell" => rd.times <= Len(chip.cells[Head(s).kind])
  PROVE  AnswerReady(Tail(s))'
<1> DEFINE o == Head(s)
           r == Tail(s)
<1> SUFFICES ASSUME NEW j \in 1..Len(r), r[j].do = "answer", rd'.before.could
             PROVE  \/ \E i \in 1..Len(r) :
                         /\ r[i].do = "program" /\ Reached' /\ r[j].kind = "vcom"
                         /\ Len(chip'.cells["vcom"]) < Cells
                         /\ i <= 3 => chip'.vpp
                         /\ i <= 1 => chip'.page = 0 /\ chip'.key
                    \/ ~Does(r, {"program"}) /\ LastCell(r[j].kind)' = r[j].v
  BY DEF AnswerReady
<1>1. o \in Operation /\ j + 1 \in 1..Len(s) /\ s[j + 1] = r[j] /\ 1 \in 1..Len(s) /\ s[1] = o
  BY TailFacts
<1>2. o.do # "answer"
  BY <1>1, AnswerEffect, DoIs
<1>3. rd.before.could
  BY <1>1, <1>2, ReadKept
<1>4. \/ \E i \in 1..Len(s) :
            /\ s[i].do = "program" /\ Reached /\ r[j].kind = "vcom"
            /\ Len(chip.cells["vcom"]) < Cells
            /\ i <= 3 => chip.vpp
            /\ i <= 1 => chip.page = 0 /\ chip.key
      \/ ~Does(s, {"program"}) /\ LastCell(r[j].kind) = r[j].v
  BY <1>1, <1>3 DEF AnswerReady
<1>5. CASE ~Does(s, {"program"}) /\ LastCell(r[j].kind) = r[j].v
  <2>1. o.do # "program" /\ ~Does(r, {"program"})
    BY <1>5, DoesTail
  <2> QED
    BY <1>1, <1>5, <2>1, ReadKept, SameLast
<1>6. ASSUME NEW i \in 1..Len(s), s[i].do = "program", Reached, r[j].kind = "vcom",
             Len(chip.cells["vcom"]) < Cells, i <= 3 => chip.vpp, i <= 1 => chip.page = 0 /\ chip.key
      PROVE  \/ \E m \in 1..Len(r) :
                  /\ r[m].do = "program" /\ Reached' /\ r[j].kind = "vcom"
                  /\ Len(chip'.cells["vcom"]) < Cells
                  /\ m <= 3 => chip'.vpp
                  /\ m <= 1 => chip'.page = 0 /\ chip'.key
             \/ ~Does(r, {"program"}) /\ LastCell(r[j].kind)' = r[j].v
  <2>1. CASE i = 1
    <3>1. o.do = "program" /\ chip.vpp /\ chip.page = 0 /\ chip.key
      BY <1>1, <1>6, <2>1
    <3>2. o.kind = "vcom" /\ o.v = r[j].v
      BY <1>1, <1>6, <2>1 DEF BurnShape, AnswerShape, Is
    <3>3. chip.reg["vcom"] = o.v
      BY <1>1, <1>6, <2>1, <3>2 DEF ProgramReady
    <3>4. ChipOp(t, o)
      BY <3>1, DoIs
    <3>5. LastCell("vcom")' = o.v
      BY <1>1, <1>6, <3>1, <3>2, <3>3, <3>4, Burned
    <3>6. ~Does(r, {"program"})
      BY <3>1, BurnAhead DEF BurnShape
    <3> QED
      BY <1>6, <3>2, <3>5, <3>6
  <2>2. CASE i > 1
    <3>1. i - 1 \in 1..Len(r) /\ r[i - 1] = s[i] /\ i - 1 \in Nat
      BY <2>2, TailFacts
    <3>2. Does(r, {"program"})
      BY <1>6, <3>1 DEF Does
    <3>3. /\ i - 1 <= 4
          /\ i - 1 = 1 => o.do = "unlock"
          /\ i - 1 = 2 => Is(o, "write", r[i - 1])
          /\ i - 1 = 3 => Is(o, "power", r[i - 1])
          /\ i - 1 = 4 => o.do = "extend"
      BY <1>6, <3>1, ProgramShapeTail DEF BurnShape
    <3>4. o.do \in {"unlock", "write", "power", "extend"}
      BY <3>2, BurnAhead DEF BurnShape
    <3>5. ChipOp(t, o) /\ Reached' /\ SameCells(chip')
      BY <1>1, <1>6, <3>4, ReadKept, DoIs, ChipOpEffect DEF Reached
    <3>6. Len(chip'.cells["vcom"]) < Cells
      BY <1>6, <3>5 DEF SameCells
    <3>7. chip \in ChipState
      BY DEF Typed
    <3>8. CASE i - 1 = 1
      <4>1. chip' = [chip EXCEPT !.page = 0, !.key = TRUE] /\ chip.vpp
        BY <1>1, <1>6, <3>3, <3>5, <3>8, ChipOpEffect
      <4>2. chip'.vpp /\ chip'.page = 0 /\ chip'.key
        BY <3>7, <4>1 DEF ChipState
      <4> QED
        BY <1>6, <3>1, <3>5, <3>6, <4>2
    <3>9. CASE i - 1 = 2
      <4>1. o.do = "write" /\ chip' = WriteValue(o.kind, o.v) /\ chip.vpp
        BY <1>1, <1>6, <3>3, <3>5, <3>9, ChipOpEffect DEF Is
      <4>2. chip'.vpp
        BY <1>1, <3>7, <4>1, WrittenCells DEF Operation
      <4> QED
        BY <1>6, <3>1, <3>5, <3>6, <3>9, <4>2
    <3>10. CASE i - 1 = 3
      <4>1. o.do = "power" /\ chip' = InternalPower(o.kind) /\ o.kind = r[i - 1].kind
        BY <1>1, <1>6, <3>3, <3>5, <3>10, ChipOpEffect DEF Is
      <4>2. r[i - 1].kind = "vcom"
        BY <1>1, <1>6, <3>1 DEF BurnShape, AnswerShape, Is
      <4>3. chip'.vpp
        BY <3>7, <4>1, <4>2 DEF InternalPower, ChipState
      <4> QED
        BY <1>6, <3>1, <3>5, <3>6, <3>10, <4>3
    <3>11. CASE i - 1 = 4
      BY <1>6, <3>1, <3>5, <3>6, <3>11
    <3> QED
      BY <3>1, <3>3, <3>8, <3>9, <3>10, <3>11
  <2> QED
    BY <1>6, <2>1, <2>2
<1> QED
  BY <1>4, <1>5, <1>6

LEMMA DecidedReady ==
  ASSUME Typed, NEW t \in Thread, NEW o \in Operation, OtpCompare(t, o),
         rd.right => rd.value = LastCell(o.kind), NEW r, r = AfterCompare(o)
  PROVE  ProgramReady(r)' /\ CompareReady(r)' /\ AnswerReady(r)'
<1>1. /\ hw' = hw /\ chip' = chip
      /\ rd'.right = rd.right
      /\ rd'.before.could => /\ Reached /\ Len(chip.cells[o.kind]) < Cells /\ o.kind = "vcom"
                             /\ Needed(o.v) \/ LastCell(o.kind) = o.v
  BY DecideEffect
<1>2. /\ Reached' = Reached /\ \A k : LastCell(k)' = LastCell(k)
  BY <1>1 DEF Reached, LastCell
<1>3. /\ \A i \in 1..Len(r) :
           /\ r[i].do # "compare"
           /\ r[i].do = "program" => i = 5 /\ r[i].kind = o.kind /\ r[i].v = o.v /\ Needed(o.v)
           /\ r[i].do = "answer" => r[i].kind = o.kind /\ r[i].v = o.v
      /\ Needed(o.v) /\ o.kind = "vcom" => 5 \in 1..Len(r) /\ r[5].do = "program"
  BY AfterCompareFacts
<1>4. rd.right => (Needed(o.v) <=> LastCell(o.kind) # o.v)
  BY DEF Needed
<1>5. ProgramReady(r)'
  <2>1. ASSUME NEW i \in 1..Len(r), r[i].do = "program", Reached'
        PROVE  /\ rd'.right => LastCell(r[i].kind)' # r[i].v
               /\ i <= 2 => chip'.reg[r[i].kind] = r[i].v
    BY <1>1, <1>2, <1>3, <1>4, <2>1
  <2> QED
    BY <2>1 DEF ProgramReady
<1>6. CompareReady(r)'
  BY <1>3 DEF CompareReady
<1>7. AnswerReady(r)'
  <2> SUFFICES ASSUME NEW j \in 1..Len(r), r[j].do = "answer", rd'.before.could
               PROVE  \/ \E i \in 1..Len(r) :
                           /\ r[i].do = "program" /\ Reached' /\ r[j].kind = "vcom"
                           /\ Len(chip'.cells["vcom"]) < Cells
                           /\ i <= 3 => chip'.vpp
                           /\ i <= 1 => chip'.page = 0 /\ chip'.key
                      \/ ~Does(r, {"program"}) /\ LastCell(r[j].kind)' = r[j].v
    BY DEF AnswerReady
  <2>1. Reached /\ o.kind = "vcom" /\ Len(chip.cells["vcom"]) < Cells /\ r[j].kind = "vcom" /\ r[j].v = o.v
    BY <1>1, <1>3
  <2>2. CASE Needed(o.v)
    <3>1. 5 \in 1..Len(r) /\ r[5].do = "program" /\ ~(5 <= 3) /\ ~(5 <= 1)
      BY <1>3, <2>1, <2>2
    <3> QED
      BY <1>1, <1>2, <2>1, <3>1
  <2>3. CASE ~Needed(o.v)
    <3>1. ~Does(r, {"program"})
      BY <1>3, <2>3 DEF Does
    <3> QED
      BY <1>1, <1>2, <1>3, <2>1, <2>3, <3>1
  <2> QED
    BY <2>2, <2>3
<1> QED
  BY <1>5, <1>6, <1>7

\* A cell is added to the cells q by a command that asked for w.
LEMMA CellAdded ==
  ASSUME NEW q \in Seq(Cell), NEW v, NEW w, NEW a, NEW b,
         [v |-> v, want |-> w, alone |-> a, sure |-> b] \in Cell,
         a => v = w /\ (b /\ q # <<>> => q[Len(q)].v # v),
         \A i \in DOMAIN q : q[i].alone => q[i].v = q[i].want,
         \A i \in DOMAIN q : i > 1 /\ q[i].alone /\ q[i].sure => q[i].v # q[i - 1].v,
         NEW p, p = Append(q, [v |-> v, want |-> w, alone |-> a, sure |-> b])
  PROVE  /\ \A i \in DOMAIN p : p[i].alone => p[i].v = p[i].want
         /\ \A i \in DOMAIN p : i > 1 /\ p[i].alone /\ p[i].sure => p[i].v # p[i - 1].v
<1> DEFINE n == [v |-> v, want |-> w, alone |-> a, sure |-> b]
<1>1. n \in Cell /\ n.v = v /\ n.want = w /\ n.alone = a /\ n.sure = b /\ p = Append(q, n)
  OBVIOUS
<1> HIDE DEF n
<1>2. /\ p \in Seq(Cell) /\ Len(q) \in Nat /\ Len(p) = Len(q) + 1
      /\ \A i \in 1..Len(q) : p[i] = q[i]
      /\ p[Len(q) + 1] = n
  BY <1>1, AppendProperties, LenProperties
<1>3. DOMAIN p = 1..Len(q) + 1 /\ DOMAIN q = 1..Len(q) /\ (q # <<>> <=> Len(q) > 0)
  BY <1>2, LenProperties, EmptySeq
<1>4. ASSUME NEW i \in 1..Len(q)
      PROVE  /\ p[i].alone => p[i].v = p[i].want
             /\ i > 1 /\ p[i].alone /\ p[i].sure => p[i].v # p[i - 1].v
  <2>1. p[i] = q[i] /\ (i > 1 => i - 1 \in 1..Len(q))
    BY <1>2
  <2> QED
    BY <1>2, <1>3, <2>1
<1>5. /\ p[Len(q) + 1].alone => p[Len(q) + 1].v = p[Len(q) + 1].want
      /\ Len(q) + 1 > 1 /\ p[Len(q) + 1].alone /\ p[Len(q) + 1].sure =>
           p[Len(q) + 1].v # p[(Len(q) + 1) - 1].v
  <2>1. Len(q) + 1 > 1 => q # <<>> /\ (Len(q) + 1) - 1 = Len(q) /\ Len(q) \in 1..Len(q)
    BY <1>2, <1>3
  <2> QED
    BY <1>1, <1>2, <2>1
<1>6. \A i \in 1..Len(q) + 1 : i \in 1..Len(q) \/ i = Len(q) + 1
  BY <1>2
<1> QED
  BY <1>3, <1>4, <1>5, <1>6

LEMMA CellsKept ==
  ASSUME Typed, NEW t \in Thread, NEW s \in Seq(Operation), s # <<>>, Do(t, Head(s)),
         t \notin mixed => ProgramReady(s), BurnedAsAsked, NoCellWasted,
         Head(s).do = "cell" => rd.times <= Len(chip.cells[Head(s).kind])
  PROVE  /\ BurnedAsAsked' /\ NoCellWasted'
         /\ \A k \in Kind : /\ Len(chip'.cells[k]) <= Cells
                            /\ Len(chip.cells[k]) <= Len(chip'.cells[k])
<1> DEFINE o == Head(s)
           k == o.kind
           n == [v |-> chip.reg[k], want |-> o.v, alone |-> t \notin mixed, sure |-> rd.right]
           q == chip.cells[k]
<1>1. /\ o \in Operation /\ k \in Kind /\ o.v \in Value \cup {Blank} /\ chip \in ChipState
      /\ s[1] = o /\ 1 \in 1..Len(s)
  <2>1. o \in Operation /\ s[1] = o /\ Len(s) \in Nat \ {0}
    BY TailFacts
  <2>2. chip \in ChipState
    BY DEF Typed
  <2>3. k \in Kind /\ o.v \in Value \cup {Blank}
    BY <2>1 DEF Operation
  <2> QED
    BY <2>1, <2>2, <2>3
<1>2. ASSUME chip'.cells = chip.cells
      PROVE  /\ BurnedAsAsked' /\ NoCellWasted'
             /\ \A m \in Kind : /\ Len(chip'.cells[m]) <= Cells
                                /\ Len(chip.cells[m]) <= Len(chip'.cells[m])
  <2>1. \A m \in Kind : Len(chip.cells[m]) <= Cells /\ Len(chip.cells[m]) \in Nat
    BY <1>1, CellsOf DEF Typed
  <2> QED
    BY <1>2, <2>1 DEF BurnedAsAsked, NoCellWasted
<1>3. CASE o.do # "program"
  BY <1>1, <1>2, <1>3, ReadKept DEF SameCells
<1>4. CASE o.do = "program"
  <2>1. ChipOp(t, o)
    BY <1>4, DoIs
  <2>2. chip' = chip \/ (Reached /\ chip' = Program(t, k, o.v))
    BY <1>1, <1>4, <2>1, ChipOpEffect
  <2> DEFINE z == Program(t, k, o.v)
  <2>3. \/ z = chip
        \/ /\ Len(q) < Cells /\ z.cells[k] = Append(q, n)
           /\ \A m \in Kind : m # k => z.cells[m] = chip.cells[m]
    <3> HIDE DEF z
    <3> HIDE DEF k, o
    <3>1. \/ Program(t, k, o.v) = chip
          \/ /\ Program(t, k, o.v) \in ChipState
             /\ Len(chip.cells[k]) < Cells
             /\ Program(t, k, o.v).cells[k] =
                  Append(chip.cells[k],
                         [v |-> chip.reg[k], want |-> o.v, alone |-> t \notin mixed, sure |-> rd.right])
             /\ \A m \in Kind : m # k => Program(t, k, o.v).cells[m] = chip.cells[m]
      <4>1. chip \in ChipState /\ rd \in RdState
        BY DEF Typed
      <4> QED
        BY <1>1, <4>1, Programmed
    <3> QED
      BY <3>1, Zenon DEF z
  <2>4. CASE chip' = chip
    BY <1>2, <2>4
  <2> HIDE DEF z
  <2>5. ASSUME Reached, Len(q) < Cells, chip'.cells[k] = Append(q, n),
               \A m \in Kind : m # k => chip'.cells[m] = chip.cells[m]
        PROVE  /\ BurnedAsAsked' /\ NoCellWasted'
               /\ \A m \in Kind : /\ Len(chip'.cells[m]) <= Cells
                                  /\ Len(chip.cells[m]) <= Len(chip'.cells[m])
    <3>1. q \in Seq(Cell) /\ n \in Cell /\ Len(q) \in Nat
      BY <1>1, ChipFields, CellsOf DEF Cell, Typed, RdState
    <3>2. t \notin mixed => chip.reg[k] = o.v /\ (rd.right /\ q # <<>> => q[Len(q)].v # chip.reg[k])
      BY <1>1, <1>4, <2>5 DEF ProgramReady, LastCell
    <3>3. /\ \A i \in DOMAIN q : q[i].alone => q[i].v = q[i].want
          /\ \A i \in DOMAIN q : i > 1 /\ q[i].alone /\ q[i].sure => q[i].v # q[i - 1].v
      BY <1>1 DEF BurnedAsAsked, NoCellWasted
    <3>4. PICK p : p = Append(q, n)
      OBVIOUS
    <3>5. /\ \A i \in DOMAIN p : p[i].alone => p[i].v = p[i].want
          /\ \A i \in DOMAIN p : i > 1 /\ p[i].alone /\ p[i].sure => p[i].v # p[i - 1].v
      <4>1. PICK v, w, a, b : v = chip.reg[k] /\ w = o.v /\ a = (t \notin mixed) /\ b = rd.right
        OBVIOUS
      <4>2. n = [v |-> v, want |-> w, alone |-> a, sure |-> b]
        BY <4>1
      <4>3. a => v = w /\ (b /\ q # <<>> => q[Len(q)].v # v)
        BY <3>2, <4>1
      <4> HIDE DEF q, n
      <4> QED
        BY <3>1, <3>3, <3>4, <4>2, <4>3, CellAdded
    <3>6. chip'.cells[k] = p
      BY <2>5, <3>4
    <3>7. Len(p) = Len(q) + 1
      BY <3>1, <3>4, AppendProperties
    <3>8. BurnedAsAsked'
      BY <2>5, <3>5, <3>6 DEF BurnedAsAsked
    <3>9. NoCellWasted'
      BY <2>5, <3>5, <3>6 DEF NoCellWasted
    <3>10. ASSUME NEW m \in Kind
           PROVE  Len(chip'.cells[m]) <= Cells /\ Len(chip.cells[m]) <= Len(chip'.cells[m])
      <4>1. Len(chip.cells[m]) <= Cells /\ Len(chip.cells[m]) \in Nat
        BY <1>1, CellsOf DEF Typed
      <4> QED
        BY <2>5, <3>1, <3>6, <3>7, <4>1, PanelAssumption
    <3> QED
      BY <3>8, <3>9, <3>10
  <2>6. chip' = chip \/ chip' = z
    BY <2>2 DEF z
  <2> QED
    BY <2>2, <2>3, <2>4, <2>5, <2>6
<1> QED
  BY <1>3, <1>4

-----------------------------------------------------------------------------
(* A step of a thread keeps the invariant of the chip.                       *)

\* The operations that a thread of the pool never does.
Asking == {"times", "cell", "compare", "answer"}

\* The step is thread t's, and s is what it has to do.
Steps(t, s) ==
    /\ s \in Seq(Operation) /\ s = code[t] /\ s # <<>>
    /\ Do(t, Head(s)) /\ Head(s) \in Operation /\ s[1] = Head(s) /\ 1 \in 1..Len(s)
    /\ code' = [code EXCEPT ![t] = Rest(s)]
    /\ what' = IF Rest(s) = <<>> THEN [what EXCEPT ![t] = "none"] ELSE what
    /\ mixed' = IF Rest(s) = <<>> THEN mixed \ {t} ELSE mixed
    /\ tainted' = (tainted /\ ~(Rest(s) = <<>> /\ t \notin mixed /\ what[t] \in {"on", "off"}))
    /\ cmds' = cmds
    /\ Head(s).do = "cell" => rd.times <= Len(chip.cells[Head(s).kind])
    /\ BurnShape(s)

LEMMA StepsAre ==
  ASSUME Typed, Burning, NEW t \in Thread, Step(t)
  PROVE  \E s : Steps(t, s)
<1>1. PICK s : s = code[t]
  OBVIOUS
<1>2. s \in Seq(Operation) /\ s # <<>>
  BY <1>1, StepIs DEF Typed
<1>3. Do(t, Head(s)) /\ cmds' = cmds
  BY <1>1, StepIs
<1>4. /\ code' = [code EXCEPT ![t] = Rest(s)]
      /\ what' = IF Rest(s) = <<>> THEN [what EXCEPT ![t] = "none"] ELSE what
      /\ mixed' = IF Rest(s) = <<>> THEN mixed \ {t} ELSE mixed
      /\ tainted' = (tainted /\ ~(Rest(s) = <<>> /\ t \notin mixed /\ what[t] \in {"on", "off"}))
  BY <1>1, StepIs
<1>5. Head(s) \in Operation /\ s[1] = Head(s) /\ Len(s) \in Nat \ {0}
  BY <1>2, TailFacts
<1>6. 1 \in 1..Len(s)
  BY <1>5
<1>7. BurnShape(s) /\ (s[1].do = "cell" => rd.times <= Len(chip.cells[s[1].kind]))
  BY <1>1, <1>2 DEF Burning
<1> QED
  BY <1>1, <1>2, <1>3, <1>4, <1>5, <1>6, <1>7 DEF Steps

LEMMA StepTyped ==
  ASSUME ChipInv, NEW t \in Thread, NEW s, Steps(t, s)
  PROVE  /\ Typed' /\ BurnedAsAsked' /\ NoCellWasted'
         /\ \A k \in Kind : Len(chip.cells[k]) <= Len(chip'.cells[k])
<1>1. s \in Seq(Operation) /\ s # <<>> /\ Do(t, Head(s)) /\ Head(s) \in Operation
      /\ (Head(s).do = "cell" => rd.times <= Len(chip.cells[Head(s).kind]))
      /\ BurnShape(s)
  BY DEF Steps
<1>2. Typed /\ BurnedAsAsked /\ NoCellWasted
  BY DEF ChipInv
<1>3. t \notin mixed => ProgramReady(s)
  BY DEF Steps, ChipInv, Burning
<1>4. /\ BurnedAsAsked' /\ NoCellWasted'
      /\ \A k \in Kind : /\ Len(chip'.cells[k]) <= Cells
                         /\ Len(chip.cells[k]) <= Len(chip'.cells[k])
  BY <1>1, <1>2, <1>3, CellsKept
<1>5. hw' \in HwState /\ chip' \in ChipState /\ rd' \in RdState /\ answer' \in Answers
  BY <1>1, <1>2, ReadKept
<1>6. Rest(s) \in Seq(Operation)
  BY <1>1, RestFacts DEF BurnShape
<1>7. code' \in [Thread -> Seq(Operation)]
  BY <1>2, <1>6 DEF Typed, Steps
<1>8. /\ what' \in [Thread -> {"none", "on", "off", "test", "otp"}]
      /\ mixed' \subseteq Thread /\ tainted' \in BOOLEAN /\ cmds' \in 0..MaxCmds
  BY <1>2 DEF Typed, Steps
<1>9. Typed'
  BY <1>4, <1>5, <1>7, <1>8 DEF Typed
<1> QED
  BY <1>4, <1>9

LEMMA StepOneAlone ==
  ASSUME ChipInv, NEW t \in Thread, NEW s, Steps(t, s)
  PROVE  OneAlone'
<1> SUFFICES ASSUME NEW x \in Thread, NEW u \in Thread, code'[x] # <<>>,
                    x \notin mixed' \/ ~tainted', u # x
             PROVE  code'[u] = <<>>
  BY DEF OneAlone, Alone
<1>1. /\ code \in [Thread -> Seq(Operation)] /\ code[t] # <<>>
      /\ code'[t] = Rest(s) /\ \A y \in Thread : y # t => code'[y] = code[y]
  BY DEF ChipInv, Typed, Steps
<1>2. \A y, z \in Thread : code[y] # <<>> /\ (y \notin mixed \/ ~tainted) /\ z # y => code[z] = <<>>
  BY DEF ChipInv, OneAlone, Alone
<1>3. CASE Rest(s) # <<>>
  <2>1. mixed' = mixed /\ (tainted' <=> tainted)
    BY <1>3 DEF Steps, ChipInv, Typed
  <2>2. code[x] # <<>>
    BY <1>1
  <2>3. code[u] = <<>>
    BY <1>2, <2>1, <2>2
  <2> QED
    BY <1>1, <2>3
<1>4. CASE Rest(s) = <<>>
  <2>1. x # t /\ code[x] # <<>>
    BY <1>1, <1>4
  <2>2. x \notin mixed' => x \notin mixed
    BY <2>1 DEF Steps
  <2>3. ~tainted' => ~tainted \/ t \notin mixed
    BY DEF Steps
  <2>4. t \in mixed
    BY <1>1, <1>2, <2>1
  <2>5. x \notin mixed \/ ~tainted
    BY <2>2, <2>3, <2>4
  <2>6. code[t] = <<>>
    BY <1>2, <2>1, <2>5
  <2> QED
    BY <1>1, <2>6
<1> QED
  BY <1>3, <1>4

LEMMA RestShape ==
  ASSUME ChipInv, NEW t \in Thread, NEW s, Steps(t, s), NEW r, r = Rest(s)
  PROVE  /\ BurnShape(r)
         /\ t # "server" => ~Does(r, Asking) /\ ~Does(s, Asking)
         /\ r # <<>> /\ r[1].do = "cell" => rd'.times <= Len(chip'.cells[r[1].kind])
<1>1. s \in Seq(Operation) /\ s # <<>> /\ Head(s) \in Operation /\ BurnShape(s) /\ s = code[t]
      /\ Do(t, Head(s)) /\ Typed
  BY DEF Steps, ChipInv
<1>2. t # "server" => ~Does(s, Asking)
  BY <1>1 DEF ChipInv, Burning, Asking
<1>3. CASE Head(s).do # "compare"
  <2>1. r = Tail(s)
    BY <1>1, <1>3, RestFacts DEF BurnShape
  <2>2. BurnShape(r)
    BY <1>1, <2>1, ReadShapeTail, ProgramShapeTail, CompareShapeTail, AnswerShapeTail DEF BurnShape
  <2>3. ~Does(s, Asking) => ~Does(r, Asking)
    BY <1>1, <2>1, DoesTail
  <2>4. ASSUME r # <<>>, r[1].do = "cell"
        PROVE  rd'.times <= Len(chip'.cells[r[1].kind])
    <3>1. Head(s).do = "times" /\ Head(s).kind = r[1].kind
      BY <1>1, <2>1, <2>4, ReadShapeTail DEF BurnShape
    <3>2. OtpTimes(t, Head(s))
      BY <1>1, <3>1, DoIs
    <3>3. rd'.times <= Len(chip.cells[Head(s).kind]) /\ chip'.cells = chip.cells
      BY <1>1, <3>2, TimesEffect DEF SameCells
    <3> QED
      BY <3>1, <3>3
  <2> QED
    BY <1>2, <2>2, <2>3, <2>4
<1>4. CASE Head(s).do = "compare"
  <2>1. r = AfterCompare(Head(s))
    BY <1>1, <1>4, RestFacts DEF BurnShape
  <2>2. /\ BurnShape(r) /\ r \in Seq(Operation)
        /\ \A i \in 1..Len(r) : r[i].do = "cell" => i > 1
    BY <1>1, <2>1, AfterCompareFacts
  <2>3. Does(s, Asking)
    BY <1>1, <1>4, DoesTail DEF Asking
  <2>4. r # <<>> => r[1].do # "cell"
    <3>1. r # <<>> => Len(r) \in Nat \ {0}
      BY <2>2, TailFacts
    <3>2. r # <<>> => 1 \in 1..Len(r)
      <4>1. \A n \in Nat \ {0} : 1 \in 1..n
        OBVIOUS
      <4> QED
        BY <3>1, <4>1, Zenon
    <3>3. ~(1 > 1)
      OBVIOUS
    <3> QED
      BY <2>2, <3>2, <3>3
  <2> QED
    BY <1>2, <2>2, <2>3, <2>4
<1> QED
  BY <1>3, <1>4

LEMMA RestReady ==
  ASSUME ChipInv, NEW t \in Thread, NEW s, Steps(t, s), NEW r, r = Rest(s), t \notin mixed'
  PROVE  ProgramReady(r)' /\ CompareReady(r)' /\ AnswerReady(r)'
<1>1. s \in Seq(Operation) /\ s # <<>> /\ Head(s) \in Operation /\ BurnShape(s) /\ s = code[t]
      /\ Do(t, Head(s)) /\ Typed /\ s[1] = Head(s) /\ 1 \in 1..Len(s)
      /\ (Head(s).do = "cell" => rd.times <= Len(chip.cells[Head(s).kind]))
  BY DEF Steps, ChipInv
<1>2. CASE r = <<>>
  <2>1. Len(r) = 0 /\ 1..0 = {}
    BY <1>2, EmptySeq
  <2> QED
    BY <2>1 DEF ProgramReady, CompareReady, AnswerReady
<1>3. CASE r # <<>>
  <2>1. t \notin mixed
    BY <1>3 DEF Steps
  <2>2. ProgramReady(s) /\ CompareReady(s) /\ AnswerReady(s)
    BY <1>1, <2>1 DEF ChipInv, Burning
  <2>3. CASE Head(s).do # "compare"
    <3>1. r = Tail(s)
      BY <1>1, <2>3, RestFacts DEF BurnShape
    <3>2. ProgramReady(Tail(s))' /\ CompareReady(Tail(s))' /\ AnswerReady(Tail(s))'
      BY <1>1, <2>2, <2>3, ProgramReadyKept, CompareReadyKept, AnswerReadyKept
    <3> QED
      BY <3>1, <3>2
  <2>4. CASE Head(s).do = "compare"
    <3>1. r = AfterCompare(Head(s)) /\ OtpCompare(t, Head(s))
      BY <1>1, <2>4, RestFacts, DoIs DEF BurnShape
    <3>2. rd.right => rd.value = LastCell(Head(s).kind)
      BY <1>1, <2>2, <2>4 DEF CompareReady
    <3>3. PICK o \in Operation : o = Head(s)
      BY <1>1
    <3> QED
      BY <1>1, <3>1, <3>2, <3>3, DecidedReady
  <2> QED
    BY <2>3, <2>4
<1> QED
  BY <1>2, <1>3

LEMMA StepBurning ==
  ASSUME ChipInv, NEW t \in Thread, NEW s, Steps(t, s)
  PROVE  Burning'
<1>1. PICK r : r = Rest(s)
  OBVIOUS
<1>2. /\ code \in [Thread -> Seq(Operation)] /\ code[t] # <<>>
      /\ code'[t] = r /\ \A y \in Thread : y # t => code'[y] = code[y]
  BY <1>1 DEF ChipInv, Typed, Steps
<1> SUFFICES ASSUME NEW x \in Thread
             PROVE  /\ BurnShape(code'[x])
                    /\ x # "server" => ~Does(code'[x], {"times", "cell", "compare", "answer"})
                    /\ code'[x] # <<>> /\ code'[x][1].do = "cell" =>
                         rd'.times <= Len(chip'.cells[code'[x][1].kind])
                    /\ x \notin mixed' => ProgramReady(code[x])' /\ CompareReady(code[x])' /\ AnswerReady(code[x])'
  BY DEF Burning
<1>3. CASE x = t
  <2>1. /\ BurnShape(r) /\ (x # "server" => ~Does(r, Asking))
        /\ r # <<>> /\ r[1].do = "cell" => rd'.times <= Len(chip'.cells[r[1].kind])
    BY <1>1, <1>3, RestShape
  <2>2. x \notin mixed' => ProgramReady(r)' /\ CompareReady(r)' /\ AnswerReady(r)'
    BY <1>1, <1>3, RestReady
  <2>3. code'[x] = r
    BY <1>2, <1>3
  <2>4. x \notin mixed' => ProgramReady(code[x])' /\ CompareReady(code[x])' /\ AnswerReady(code[x])'
    BY <2>2, <2>3 DEF ProgramReady, CompareReady, AnswerReady
  <2> QED
    BY <2>1, <2>3, <2>4 DEF Asking
<1>4. CASE x # t
  <2>1. code'[x] = code[x]
    BY <1>2, <1>4
  <2>2. /\ BurnShape(code[x])
        /\ x # "server" => ~Does(code[x], {"times", "cell", "compare", "answer"})
        /\ code[x] # <<>> /\ code[x][1].do = "cell" => rd.times <= Len(chip.cells[code[x][1].kind])
    BY DEF ChipInv, Burning
  <2>3. ASSUME code[x] # <<>>, code[x][1].do = "cell"
        PROVE  rd'.times <= Len(chip'.cells[code[x][1].kind])
    <3>1. PICK w : w = code[x]
      OBVIOUS
    <3>2. w \in Seq(Operation) /\ w # <<>> /\ w[1].do = "cell"
      BY <1>2, <2>3, <3>1
    <3>3. Does(w, {"times", "cell", "compare", "answer"}) /\ w[1] \in Operation
      <4>1. w[1] = Head(w) /\ Head(w) \in Operation
        BY <3>2, TailFacts
      <4> QED
        BY <3>2, <4>1, DoesTail
    <3>4. x = "server"
      BY <2>2, <3>1, <3>3
    <3>5. ~Does(s, Asking)
      BY <1>1, <1>4, <3>4, RestShape
    <3>6. Head(s).do \notin Asking
      BY <3>5, DoesTail DEF Steps
    <3>7. rd' = rd
      BY <3>6, ReadKept DEF Steps, ChipInv, Asking
    <3>8. w[1].kind \in Kind
      BY <3>3 DEF Operation
    <3>9. /\ Len(chip.cells[w[1].kind]) <= Len(chip'.cells[w[1].kind])
          /\ Len(chip.cells[w[1].kind]) \in Nat /\ Len(chip'.cells[w[1].kind]) \in Nat
      <4>1. Typed /\ Typed'
        BY StepTyped DEF ChipInv
      <4>2. chip.cells[w[1].kind] \in Seq(Cell) /\ chip'.cells[w[1].kind] \in Seq(Cell)
        BY <3>8, <4>1 DEF Typed, ChipState
      <4> QED
        BY <3>8, <4>2, StepTyped, LenProperties
    <3>10. rd.times \in Nat
      BY PanelAssumption DEF ChipInv, Typed, RdState
    <3>11. rd.times <= Len(chip.cells[w[1].kind])
      BY <2>2, <2>3, <3>1
    <3>12. rd'.times <= Len(chip'.cells[w[1].kind])
      BY <3>7, <3>9, <3>10, <3>11
    <3> QED
      BY <3>1, <3>12
  <2>4. ASSUME x \notin mixed'
        PROVE  ProgramReady(code[x])' /\ CompareReady(code[x])' /\ AnswerReady(code[x])'
    <3>1. x \notin mixed
      BY <1>4, <2>4 DEF Steps
    <3>2. code'[x] = <<>>
      BY <1>2, <1>4, <2>1, <3>1 DEF ChipInv, OneAlone, Alone
    <3>3. Len(<<>>) = 0 /\ 1..0 = {}
      BY EmptySeq
    <3> QED
      BY <3>2, <3>3 DEF ProgramReady, CompareReady, AnswerReady
  <2> QED
    BY <2>1, <2>2, <2>3, <2>4
<1> QED
  BY <1>3, <1>4

\* The answer of a command that ran alone and could burn.
LEMMA StepAnswer ==
  ASSUME ChipInv, NEW t \in Thread, NEW s, Steps(t, s)
  PROVE  OkMeansBurned'
<1> DEFINE o == Head(s)
<1>1. s \in Seq(Operation) /\ s # <<>> /\ o \in Operation /\ BurnShape(s) /\ s = code[t]
      /\ Do(t, o) /\ Typed /\ s[1] = o /\ 1 \in 1..Len(s)
      /\ (o.do = "cell" => rd.times <= Len(chip.cells[o.kind]))
  BY DEF Steps, ChipInv
<1>2. CASE o.do # "answer"
  <2>1. answer' = answer
    BY <1>1, <1>2, ReadKept
  <2> QED
    BY <2>1 DEF ChipInv, OkMeansBurned
<1>3. CASE o.do = "answer"
  <2>1. OtpAnswer(t, o)
    BY <1>1, <1>3, DoIs
  <2>2. /\ answer'.could => rd.before.could /\ t \notin mixed
        /\ answer'.holds <=> LastCell(o.kind) = o.v
    BY <1>1, <2>1, AnswerEffect
  <2>3. ~Does(Tail(s), {"program"})
    BY <1>1, <1>3, BurnAhead DEF BurnShape
  <2>4. \A i \in 1..Len(s) : s[i].do # "program"
    <3>1. ~Does(s, {"program"})
      BY <1>1, <1>3, <2>3, DoesTail
    <3> QED
      BY <3>1 DEF Does
  <2>5. t \notin mixed => AnswerReady(s)
    BY <1>1 DEF ChipInv, Burning
  <2>6. rd.before.could /\ t \notin mixed => LastCell(o.kind) = o.v
    BY <1>1, <1>3, <2>4, <2>5 DEF AnswerReady
  <2> QED
    BY <2>2, <2>6 DEF OkMeansBurned
<1> QED
  BY <1>2, <1>3

LEMMA StepChip ==
  ASSUME ChipInv, NEW t \in Thread, Step(t)
  PROVE  ChipInv'
<1>1. PICK s : Steps(t, s)
  BY StepsAre DEF ChipInv
<1> QED
  BY <1>1, StepTyped, StepOneAlone, StepBurning, StepAnswer DEF ChipInv

-----------------------------------------------------------------------------
(* A command that is begun keeps the invariant of the chip.                  *)

LEMMA OpsDoes ==
  ASSUME NEW names \in Seq(OpName), NEW B
  PROVE  Does(Ops(names), B) <=> \E i \in 1..Len(names) : names[i] \in B
<1>1. Len(Ops(names)) = Len(names) /\ \A i \in 1..Len(names) : Ops(names)[i] = Op(names[i])
  BY OpsFacts
<1>2. \A name : Op(name).do = name
  BY DEF Op
<1> QED
  BY <1>1, <1>2 DEF Does

LEMMA ShutOnDoes ==
  ASSUME NEW B
  PROVE  Does(ShutOn, B) <=>
           \/ "config" \in B \/ "rails_on" \in B \/ "told_on" \in B \/ "status_on" \in B
           \/ Signal = 2 /\ \/ "hs_off" \in B \/ "reset" \in B \/ "init_code" \in B
                            \/ "drive" \in B \/ "hs_on" \in B \/ "channels_on" \in B
           \/ Signal \in {1, 2} /\ "output" \in B
<1> DEFINE n   == <<"config", "rails_on", "told_on">>
           m   == <<"hs_off", "reset", "init_code", "drive", "hs_on", "channels_on">>
           up  == Ops(n)
           mid == IF Signal = 2 THEN mipi_working ELSE <<>>
           st  == Ops(<<"status_on">>)
           out == IF Signal \in {1, 2} THEN Ops(<<"output">>) ELSE <<>>
<1>1. Does(up, B) <=> "config" \in B \/ "rails_on" \in B \/ "told_on" \in B
  <2>1. n \in Seq(OpName)
    BY NamesTyped
  <2>2. Does(Ops(n), B) <=> \E i \in 1..Len(n) : n[i] \in B
    <3> HIDE DEF n
    <3> QED
      BY <2>1, OpsDoes
  <2>3. Len(n) = 3 /\ n[1] = "config" /\ n[2] = "rails_on" /\ n[3] = "told_on"
    OBVIOUS
  <2>4. \A i \in 1..3 : i = 1 \/ i = 2 \/ i = 3
    OBVIOUS
  <2>5. 1 \in 1..3 /\ 2 \in 1..3 /\ 3 \in 1..3
    OBVIOUS
  <2> HIDE DEF n
  <2> QED
    BY <2>2, <2>3, <2>4, <2>5
<1>2. Does(mipi_working, B) <=> \/ "hs_off" \in B \/ "reset" \in B \/ "init_code" \in B
                                \/ "drive" \in B \/ "hs_on" \in B \/ "channels_on" \in B
  <2>1. m \in Seq(OpName)
    BY NamesTyped
  <2>2. Does(Ops(m), B) <=> \E i \in 1..Len(m) : m[i] \in B
    <3> HIDE DEF m
    <3> QED
      BY <2>1, OpsDoes
  <2>3. /\ Len(m) = 6 /\ m[1] = "hs_off" /\ m[2] = "reset" /\ m[3] = "init_code" /\ m[4] = "drive"
        /\ m[5] = "hs_on" /\ m[6] = "channels_on"
    OBVIOUS
  <2>4. \A i \in 1..6 : i = 1 \/ i = 2 \/ i = 3 \/ i = 4 \/ i = 5 \/ i = 6
    OBVIOUS
  <2>5. 1 \in 1..6 /\ 2 \in 1..6 /\ 3 \in 1..6 /\ 4 \in 1..6 /\ 5 \in 1..6 /\ 6 \in 1..6
    OBVIOUS
  <2>6. mipi_working = Ops(m)
    BY DEF mipi_working
  <2> HIDE DEF m
  <2> QED
    BY <2>2, <2>3, <2>4, <2>5, <2>6
<1>3. \A name \in OpName : Does(Ops(<<name>>), B) <=> name \in B
  <2> SUFFICES ASSUME NEW name \in OpName
               PROVE  Does(Ops(<<name>>), B) <=> name \in B
    OBVIOUS
  <2>1. <<name>> \in Seq(OpName) /\ Len(<<name>>) = 1 /\ <<name>>[1] = name /\ 1..1 = {1}
    OBVIOUS
  <2> QED
    BY <2>1, OpsDoes
<1>4. ~Does(<<>>, B)
  BY DoesNothing
<1>5. "status_on" \in OpName /\ "output" \in OpName
  BY DEF OpName, Switch
<1>6. Does(mid, B) <=> Signal = 2 /\ \/ "hs_off" \in B \/ "reset" \in B \/ "init_code" \in B
                                     \/ "drive" \in B \/ "hs_on" \in B \/ "channels_on" \in B
  BY <1>2, <1>4
<1>7. Does(st, B) <=> "status_on" \in B
  BY <1>3, <1>5
<1>8. Does(out, B) <=> Signal \in {1, 2} /\ "output" \in B
  BY <1>3, <1>4, <1>5
<1>9. /\ up \in Seq(Operation) /\ mid \in Seq(Operation)
      /\ st \in Seq(Operation) /\ out \in Seq(Operation)
  BY Lists, EmptyPlain
<1>10. ShutOn = ((up \o mid) \o st) \o out
  BY DEF ShutOn
<1> HIDE DEF n, m, up, mid, st, out
<1>11. up \o mid \in Seq(Operation) /\ (up \o mid) \o st \in Seq(Operation)
  BY <1>9, ConcatProperties
<1>12. Does(ShutOn, B) <=> Does(up, B) \/ Does(mid, B) \/ Does(st, B) \/ Does(out, B)
  BY <1>9, <1>10, <1>11, DoesConcat
<1> QED
  BY <1>1, <1>6, <1>7, <1>8, <1>12

LEMMA BeginChip ==
  ASSUME ChipInv, NEW t \in Thread, NEW kind \in {"on", "off", "test", "otp"},
         NEW ops \in Seq(Operation), Begin(t, kind, ops), BurnShape(ops),
         \A i \in 1..Len(ops) : /\ ops[i].do \notin {"program", "answer"}
                                /\ ops[i].do = "compare" => i = 4
                                /\ ops[i].do = "cell" => i > 1,
         t # "server" => ~Does(ops, Asking)
  PROVE  ChipInv'
<1>1. /\ hw' = hw /\ chip' = chip /\ rd' = rd /\ answer' = answer
      /\ cmds < MaxCmds /\ cmds' = cmds + 1
      /\ code' = [code EXCEPT ![t] = ops] /\ what' = [what EXCEPT ![t] = kind]
      /\ mixed' = IF Active = {} THEN mixed ELSE mixed \cup Active \cup {t}
      /\ tainted' = (tainted \/ Active # {} \/ kind = "test")
  BY DEF Begin
<1>2. /\ code \in [Thread -> Seq(Operation)]
      /\ code'[t] = ops /\ \A y \in Thread : y # t => code'[y] = code[y]
  BY <1>1 DEF ChipInv, Typed
<1>3. Active \subseteq Thread
  BY DEF Active
<1>4. Typed'
  <2>1. code' \in [Thread -> Seq(Operation)]
    BY <1>1, <1>2
  <2>2. cmds' \in 0..MaxCmds
    BY <1>1, PanelAssumption DEF ChipInv, Typed
  <2>3. /\ what' \in [Thread -> {"none", "on", "off", "test", "otp"}]
        /\ mixed' \subseteq Thread /\ tainted' \in BOOLEAN
    BY <1>1, <1>3 DEF ChipInv, Typed
  <2> QED
    BY <1>1, <2>1, <2>2, <2>3 DEF ChipInv, Typed
<1>5. OneAlone'
  <2> SUFFICES ASSUME NEW x \in Thread, NEW u \in Thread, code'[x] # <<>>,
                      x \notin mixed' \/ ~tainted', u # x
               PROVE  code'[u] = <<>>
    BY DEF OneAlone, Alone
  <2>1. Active = {}
    <3>1. x \in Active \/ x = t
      BY <1>2 DEF Active
    <3> QED
      BY <1>1, <3>1
  <2>2. \A y \in Thread : code[y] = <<>>
    BY <2>1 DEF Active
  <2>3. x = t
    BY <1>2, <2>2
  <2> QED
    BY <1>2, <2>2, <2>3
<1>6. Burning'
  <2> SUFFICES ASSUME NEW x \in Thread
               PROVE  /\ BurnShape(code'[x])
                      /\ x # "server" => ~Does(code'[x], {"times", "cell", "compare", "answer"})
                      /\ code'[x] # <<>> /\ code'[x][1].do = "cell" =>
                           rd'.times <= Len(chip'.cells[code'[x][1].kind])
                      /\ x \notin mixed' => ProgramReady(code[x])' /\ CompareReady(code[x])' /\ AnswerReady(code[x])'
    BY DEF Burning
  <2>1. CASE x = t
    <3>1. code'[x] = ops
      BY <1>2, <2>1
    <3>2. ProgramReady(code[x])' /\ CompareReady(code[x])' /\ AnswerReady(code[x])'
      BY <3>1 DEF ProgramReady, CompareReady, AnswerReady
    <3>3. ops # <<>> => ops[1].do # "cell"
      <4>1. ops # <<>> => Len(ops) \in Nat \ {0}
        BY TailFacts
      <4>2. \A n \in Nat \ {0} : 1 \in 1..n
        OBVIOUS
      <4>3. ops # <<>> => 1 \in 1..Len(ops)
        BY <4>1, <4>2, Zenon
      <4> QED
        BY <4>3
    <3> QED
      BY <2>1, <3>1, <3>2, <3>3 DEF Asking
  <2>2. CASE x # t
    <3>1. code'[x] = code[x] /\ (x \notin mixed' => x \notin mixed)
      BY <1>1, <1>2, <2>2
    <3>2. /\ BurnShape(code[x])
          /\ x # "server" => ~Does(code[x], {"times", "cell", "compare", "answer"})
          /\ code[x] # <<>> /\ code[x][1].do = "cell" => rd.times <= Len(chip.cells[code[x][1].kind])
          /\ x \notin mixed => ProgramReady(code[x]) /\ CompareReady(code[x]) /\ AnswerReady(code[x])
      BY DEF ChipInv, Burning
    <3>3. Reached' = Reached /\ \A k : LastCell(k)' = LastCell(k)
      BY <1>1 DEF Reached, LastCell
    <3>4. ProgramReady(code[x]) => ProgramReady(code[x])'
      BY <1>1, <3>1, <3>3 DEF ProgramReady
    <3>5. CompareReady(code[x]) => CompareReady(code[x])'
      BY <1>1, <3>1, <3>3 DEF CompareReady
    <3>6. AnswerReady(code[x]) => AnswerReady(code[x])'
      BY <1>1, <3>1, <3>3 DEF AnswerReady
    <3> QED
      BY <1>1, <3>1, <3>2, <3>4, <3>5, <3>6
  <2> QED
    BY <2>1, <2>2
<1>7. BurnedAsAsked' /\ NoCellWasted' /\ OkMeansBurned'
  BY <1>1 DEF ChipInv, BurnedAsAsked, NoCellWasted, OkMeansBurned
<1> QED
  BY <1>4, <1>5, <1>6, <1>7 DEF ChipInv

\* A sequence that is plain and asks nothing, or is given to the server thread.
LEMMA BeginPlain ==
  ASSUME ChipInv, NEW t \in Thread, NEW kind \in {"on", "off", "test", "otp"},
         NEW ops \in Seq(Operation), Begin(t, kind, ops), Plain(ops),
         t # "server" => ~Does(ops, Asking)
  PROVE  ChipInv'
<1>1. BurnShape(ops)
  BY PlainShape
<1> QED
  BY <1>1, BeginChip DEF Plain

LEMMA NextChip == ChipInv /\ Next => ChipInv'
<1> SUFFICES ASSUME ChipInv, Next
             PROVE  ChipInv'
  OBVIOUS
<1>1. /\ "server" \in Thread /\ \A t \in Pool : t \in Thread
      /\ \A name \in {"monitor_on", "monitor_off", "chip_reset"} : name \in OpName /\ name \notin Asking
  BY DEF Thread, OpName, Switch, Resets, Asking
<1>2. CASE \E t \in Thread : Step(t)
  BY <1>2, StepChip
<1>3. CASE RecvShutOn
  <2>1. PICK t \in Pool : Begin(t, "on", ShutOn \o Ops(<<"monitor_on">>))
    BY <1>3 DEF RecvShutOn
  <2>2. ShutOn \o Ops(<<"monitor_on">>) \in Seq(Operation) /\ Plain(ShutOn \o Ops(<<"monitor_on">>))
    BY ShutOnPlain, Lists, PlainConcat, ConcatProperties
  <2>3. ~Does(ShutOn, Asking) /\ ~Does(Ops(<<"monitor_on">>), Asking)
    <3>1. <<"monitor_on">> \in Seq(OpName) /\ \A i \in 1..Len(<<"monitor_on">>) : <<"monitor_on">>[i] \notin Asking
      BY <1>1, NamesTyped
    <3> QED
      BY <3>1, ShutOnDoes, OpsDoes DEF Asking
  <2>4. ~Does(ShutOn \o Ops(<<"monitor_on">>), Asking)
    BY <2>3, ShutOnPlain, Lists, DoesConcat
  <2> QED
    BY <1>1, <2>1, <2>2, <2>4, BeginPlain
<1>4. CASE RecvShutOnNoFile
  <2>1. PICK t \in Pool : Begin(t, "test", Ops(<<"monitor_on">>))
    BY <1>4 DEF RecvShutOnNoFile
  <2>2. Ops(<<"monitor_on">>) \in Seq(Operation) /\ Plain(Ops(<<"monitor_on">>))
    BY Lists
  <2>3. ~Does(Ops(<<"monitor_on">>), Asking)
    <3>1. <<"monitor_on">> \in Seq(OpName) /\ \A i \in 1..Len(<<"monitor_on">>) : <<"monitor_on">>[i] \notin Asking
      BY <1>1, NamesTyped
    <3> QED
      BY <3>1, OpsDoes
  <2> QED
    BY <1>1, <2>1, <2>2, <2>3, BeginPlain
<1>5. CASE RecvShutDwn
  <2>1. Ops(<<"monitor_off">>) \o ShutOff \in Seq(Operation) /\ Plain(Ops(<<"monitor_off">>) \o ShutOff)
    BY ShutOffPlain, Lists, PlainConcat, ConcatProperties
  <2> QED
    BY <1>1, <1>5, <2>1, BeginPlain DEF RecvShutDwn
<1>6. CASE RecvTst
  BY <1>1, <1>6, TestPlain, BeginPlain DEF RecvTst
<1>7. CASE RecvMonitor
  BY <1>1, <1>7, Lists, BeginPlain DEF RecvMonitor
<1>8. CASE RecvMipi
  BY <1>1, <1>8, Lists, ByHandPlain, BeginPlain DEF RecvMipi
<1>9. CASE RecvGammaOtp
  BY <1>1, <1>9, ShutOnPlain, BeginPlain DEF RecvGammaOtp
<1>10. CASE RecvReadInfo
  <2>1. PICK k \in Kind : Begin("server", "otp", Read(k))
    BY <1>10 DEF RecvReadInfo
  <2> QED
    BY <1>1, <2>1, ReadFacts, BeginPlain
<1>11. CASE RecvOtp
  <2>1. PICK k \in Kind, v \in Value : Begin("server", "otp", Otp(k, v))
    BY <1>11 DEF RecvOtp
  <2>2. \A i \in 1..Len(Otp(k, v)) :
          /\ Otp(k, v)[i].do \notin {"program", "answer"}
          /\ Otp(k, v)[i].do = "compare" => i = 4
          /\ Otp(k, v)[i].do = "cell" => i > 1
    BY OtpFacts
  <2> QED
    BY <1>1, <2>1, <2>2, OtpFacts, BeginChip
<1> QED
  BY <1>2, <1>3, <1>4, <1>5, <1>6, <1>7, <1>8, <1>9, <1>10, <1>11 DEF Next

LEMMA InitChip == Init => ChipInv
<1> SUFFICES ASSUME Init
             PROVE  ChipInv
  OBVIOUS
<1>1. /\ hw = Off /\ chip = [page |-> 0, vpp |-> FALSE, key |-> FALSE, reg |-> [k \in Kind |-> Blank],
                             cells |-> [k \in Kind |-> <<>>]]
      /\ code = [t \in Thread |-> <<>>] /\ rd = NoRead /\ answer = NoAnswer /\ cmds = 0
      /\ what = [t \in Thread |-> "none"] /\ mixed = {} /\ tainted = FALSE
  BY DEF Init
<1>2. <<>> \in Seq(Operation) /\ <<>> \in Seq(Cell) /\ Len(<<>>) = 0 /\ DOMAIN <<>> = {} /\ 1..0 = {}
  BY EmptySeq
<1>3. /\ \A k \in Kind : chip.cells[k] = <<>>
      /\ \A t \in Thread : code[t] = <<>>
  BY <1>1
<1>4. Typed
  <2>1. hw \in HwState
    BY <1>1 DEF HwState, Off
  <2>2. chip \in ChipState
    <3> DEFINE g == [k \in Kind |-> Blank]
               c == [k \in Kind |-> <<>>]
    <3>1. g \in [Kind -> Value \cup {Blank}] /\ c \in [Kind -> Seq(Cell)]
      BY <1>2
    <3>2. chip = [page |-> 0, vpp |-> FALSE, key |-> FALSE, reg |-> g, cells |-> c]
      BY <1>1
    <3> HIDE DEF g, c
    <3> QED
      BY <3>1, <3>2 DEF ChipState
  <2>3. \A k \in Kind : Len(chip.cells[k]) <= Cells
    BY <1>2, <1>3, PanelAssumption
  <2>4. code \in [Thread -> Seq(Operation)]
    BY <1>1, <1>2
  <2>5. rd \in RdState /\ answer \in Answers
    BY <1>1, PanelAssumption DEF RdState, Answers, NoRead, NoAnswer
  <2>6. /\ cmds \in 0..MaxCmds /\ mixed \subseteq Thread /\ tainted \in BOOLEAN
        /\ what \in [Thread -> {"none", "on", "off", "test", "otp"}]
    <3>1. cmds \in 0..MaxCmds
      BY <1>1, PanelAssumption
    <3> QED
      BY <1>1, <3>1
  <2> QED
    BY <2>1, <2>2, <2>3, <2>4, <2>5, <2>6 DEF Typed
<1>5. OneAlone
  BY <1>3 DEF OneAlone
<1>6. Burning
  BY <1>2, <1>3 DEF Burning, BurnShape, ReadShape, ProgramShape, CompareShape, AnswerShape, Does,
                    ProgramReady, CompareReady, AnswerReady
<1>7. BurnedAsAsked /\ NoCellWasted
  BY <1>2, <1>3 DEF BurnedAsAsked, NoCellWasted
<1>8. OkMeansBurned
  BY <1>1 DEF OkMeansBurned, NoAnswer
<1> QED
  BY <1>4, <1>5, <1>6, <1>7, <1>8 DEF ChipInv

LEMMA ChipStutters == ChipInv /\ UNCHANGED vars => ChipInv'
<1> SUFFICES ASSUME ChipInv, UNCHANGED vars
             PROVE  ChipInv'
  OBVIOUS
<1>1. /\ hw' = hw /\ chip' = chip /\ code' = code /\ rd' = rd /\ answer' = answer /\ cmds' = cmds
      /\ what' = what /\ mixed' = mixed /\ tainted' = tainted
  BY DEF vars
<1>2. Typed' /\ OneAlone'
  BY <1>1 DEF ChipInv, Typed, OneAlone, Alone
<1>3. Burning'
  <2>1. Reached' = Reached /\ \A k : LastCell(k)' = LastCell(k)
    BY <1>1 DEF Reached, LastCell
  <2>2. \A t \in Thread : /\ ProgramReady(code[t]) => ProgramReady(code[t])'
                          /\ CompareReady(code[t]) => CompareReady(code[t])'
    BY <1>1, <2>1 DEF ProgramReady, CompareReady
  <2>3. \A t \in Thread : AnswerReady(code[t]) => AnswerReady(code[t])'
    BY <1>1, <2>1 DEF AnswerReady
  <2> QED
    BY <1>1, <2>2, <2>3 DEF ChipInv, Burning
<1>4. BurnedAsAsked' /\ NoCellWasted' /\ OkMeansBurned'
  BY <1>1 DEF ChipInv, BurnedAsAsked, NoCellWasted, OkMeansBurned
<1> QED
  BY <1>2, <1>3, <1>4 DEF ChipInv

\* What the chip is and what has been burned is kept by every command and every
\* operation of a thread.
THEOREM ChipInductive == Spec => []ChipInv
<1>1. ChipInv /\ UNCHANGED vars => ChipInv'
  BY ChipStutters
<1> QED
  BY <1>1, InitChip, NextChip, PTL DEF Spec

\* The memory that cannot be repaired: each cell that is burned by a command that
\* nothing was mixed into (qc_otp_vcom, qc_otp_id) holds the value asked for, and
\* one that was there already only if the reading before it failed.
THEOREM WellSpent == Spec => []CellsWellSpent
<1>1. ChipInv => CellsWellSpent
  <2> SUFFICES ASSUME ChipInv
               PROVE  CellsWellSpent
    OBVIOUS
  <2>1. hw.REGA8 \in 0..2
    <3>1. hw \in HwState
      BY DEF ChipInv, Typed
    <3> QED
      BY <3>1, PanelAssumption DEF HwState
  <2>2. chip \in ChipState /\ \A k \in Kind : Len(chip.cells[k]) <= Cells
    BY DEF ChipInv, Typed
  <2>3. \A k \in Kind : Len(chip.cells[k]) \in 0..Cells
    BY <2>2, CellsOf, PanelAssumption
  <2>4. chip.page \in {0, 1} /\ \A k \in Kind : chip.reg[k] \in Value \cup {Blank}
    BY <2>2, ChipFields
  <2>5. rd.times \in 0..Cells /\ rd.value \in Value \cup {Blank}
    BY DEF ChipInv, Typed, RdState
  <2>6. TypeOK
    BY <2>1, <2>3, <2>4, <2>5 DEF TypeOK, ChipInv, Typed
  <2> QED
    BY <2>6 DEF CellsWellSpent, ChipInv
<1> QED
  BY <1>1, ChipInductive, PTL

\* The OK that SERVER2CLI_MSG_OTP sends without looking is true: where the burn
\* of vcom could succeed, the chip holds the value when the answer is sent.
THEOREM OkIsTrue == Spec => []OkMeansBurned
<1>1. ChipInv => OkMeansBurned
  BY DEF ChipInv
<1> QED
  BY <1>1, ChipInductive, PTL

-----------------------------------------------------------------------------
(* The supply and its signal: what an operation makes of them.               *)

LEMMA OnlyTail ==
  ASSUME NEW s \in Seq(Operation), s # <<>>, NEW B, Only(s, B)
  PROVE  Head(s).do \in B /\ Only(Tail(s), B)
<1>1. 1 \in 1..Len(s) /\ s[1] = Head(s)
  BY TailFacts
<1>2. \A i \in 1..Len(Tail(s)) : i + 1 \in 1..Len(s) /\ s[i + 1] = Tail(s)[i]
  BY TailFacts
<1> QED
  BY <1>1, <1>2 DEF Only

LEMMA OnlyConcat ==
  ASSUME NEW s \in Seq(Operation), NEW u \in Seq(Operation), NEW B, Only(s, B), Only(u, B)
  PROVE  Only(s \o u, B)
<1> SUFFICES ASSUME NEW i \in 1..Len(s \o u)
             PROVE  (s \o u)[i].do \in B
  BY DEF Only
<1>1. CASE i \in 1..Len(s)
  BY <1>1, ConcatFacts DEF Only
<1>2. CASE \E j \in 1..Len(u) : i = Len(s) + j
  BY <1>2, ConcatFacts DEF Only
<1> QED
  BY <1>1, <1>2, ConcatFacts

LEMMA CloseShapeTail ==
  ASSUME NEW s \in Seq(Operation), s # <<>>, CloseShape(s)
  PROVE  /\ CloseShape(Tail(s))
         /\ (Tail(s) # <<>> /\ Tail(s)[1].do = "close") => Head(s).do = "hs_off"
<1>1. \A i \in 1..Len(Tail(s)) : i + 1 \in 1..Len(s) /\ s[i + 1] = Tail(s)[i] /\ i \in Nat
  BY TailFacts
<1>2. CloseShape(Tail(s))
  BY <1>1 DEF CloseShape
<1>3. ASSUME Tail(s) # <<>>, Tail(s)[1].do = "close"
      PROVE  Head(s).do = "hs_off"
  <2>1. Len(Tail(s)) \in Nat \ {0}
    BY <1>3, TailFacts, EmptySeq
  <2>2. 1 \in 1..Len(Tail(s)) /\ 1 \in 1..Len(s) /\ s[1] = Head(s)
    <3>1. Len(s) \in Nat \ {0} /\ s[1] = Head(s)
      BY TailFacts
    <3>2. \A n \in Nat \ {0} : 1 \in 1..n
      OBVIOUS
    <3>3. 1 \in 1..Len(Tail(s))
      BY <2>1, <3>2, Zenon
    <3>4. 1 \in 1..Len(s)
      BY <3>1
    <3> QED
      BY <3>1, <3>3, <3>4
  <2>3. 1 + 1 \in 1..Len(s) /\ s[1 + 1] = Tail(s)[1]
    BY <1>1, <2>2
  <2> QED
    BY <1>3, <2>2, <2>3 DEF CloseShape
<1> QED
  BY <1>2, <1>3

LEMMA CloseShapeConcat ==
  ASSUME NEW s \in Seq(Operation), NEW u \in Seq(Operation), CloseShape(s), CloseShape(u),
         \A i \in 1..Len(u) : u[i].do = "close" => i > 1
  PROVE  CloseShape(s \o u)
<1> SUFFICES ASSUME NEW i \in 1..Len(s \o u), NEW j \in 1..Len(s \o u),
                    (s \o u)[i].do = "close", i = j + 1
             PROVE  (s \o u)[j].do = "hs_off"
  BY DEF CloseShape
<1>1. Len(s) \in Nat /\ Len(u) \in Nat /\ i \in Nat /\ j \in Nat
  BY ConcatFacts
<1>2. CASE i \in 1..Len(s)
  <2>1. j \in 1..Len(s)
    BY <1>1, <1>2
  <2>2. (s \o u)[i] = s[i] /\ (s \o u)[j] = s[j]
    BY <1>2, <2>1, ConcatFacts
  <2> QED
    BY <1>2, <2>1, <2>2 DEF CloseShape
<1>3. CASE \E m \in 1..Len(u) : i = Len(s) + m
  <2>1. PICK m \in 1..Len(u) : i = Len(s) + m
    BY <1>3
  <2>2. (s \o u)[i] = u[m] /\ m \in Nat
    <3>1. (s \o u)[Len(s) + m] = u[m]
      BY ConcatFacts
    <3>2. m \in Nat
      BY <1>1
    <3> QED
      BY <2>1, <3>1, <3>2
  <2>3. m > 1
    BY <2>2
  <2>4. m - 1 \in 1..Len(u) /\ j = Len(s) + (m - 1) /\ m = (m - 1) + 1
    BY <1>1, <2>1, <2>3
  <2>5. (s \o u)[j] = u[m - 1]
    BY <2>4, ConcatFacts
  <2> QED
    BY <2>2, <2>4, <2>5 DEF CloseShape
<1> QED
  BY <1>2, <1>3, ConcatFacts

\* What operation n makes of each of the switches.
Becomes(n) ==
    /\ hw'.asked <=> n = "rails_on" \/ (hw.asked /\ n # "rails_off")
    /\ hw'.bridge <=> n = "config" \/ (hw.bridge /\ n # "deconfig")
    /\ n \in Commands => (hw'.driving <=> hw.bridge /\ hw.HsSignalOnFlag)
    /\ n = "drive" => (hw'.driving <=> hw.bridge)
    /\ n \in {"config", "deconfig", "reset", "hold", "close", "lp"} => ~hw'.driving
    /\ n \notin Commands \cup {"drive", "config", "deconfig", "reset", "hold", "close", "lp"} =>
         (hw'.driving <=> hw.driving)
    /\ hw'.HsSignalOnFlag <=> n = "hs_on" \/ (hw.HsSignalOnFlag /\ n # "hs_off")
    /\ hw'.channels <=> n = "channels_on" \/ (hw.channels /\ n # "channels_off")
    /\ n = "output" => hw'.REGA8 = Signal
    /\ n = "no_output" => hw'.REGA8 = 0
    /\ n \notin {"output", "no_output"} => hw'.REGA8 = hw.REGA8
    /\ hw'.pg_pwr_status <=> n = "status_on" \/ (hw.pg_pwr_status /\ n # "status_off")
    /\ hw'.told <=> n = "told_on" \/ (hw.told /\ n # "told_off")
    /\ hw'.monitor <=> n = "monitor_on" \/ (hw.monitor /\ n # "monitor_off")

LEMMA HwFields ==
  ASSUME NEW h \in HwState
  PROVE  /\ h.asked \in BOOLEAN /\ h.bridge \in BOOLEAN /\ h.driving \in BOOLEAN
         /\ h.HsSignalOnFlag \in BOOLEAN /\ h.channels \in BOOLEAN /\ h.REGA8 \in {0, Signal}
         /\ h.pg_pwr_status \in BOOLEAN /\ h.told \in BOOLEAN /\ h.monitor \in BOOLEAN
BY DEF HwState

LEMMA DoBecomes ==
  ASSUME Typed, NEW t \in Thread, NEW o \in Operation, Do(t, o),
         o.do = "cell" => rd.times <= Len(chip.cells[o.kind])
  PROVE  Becomes(o.do)
<1>1. hw \in HwState /\ hw' \in HwState
  BY ReadKept DEF Typed
<1>2. CASE SwitchOp(o)
  <2>1. hw' = Switched(o.do, hw'.rails) /\ o.do \in Switch /\ o.do \notin Commands
    BY <1>2, SwitchOpEffect DEF Switch, Resets, Commands
  <2> QED
    BY <1>1, <2>1, HwFields DEF Switched, Left, Becomes, OutputMode
<1>3. CASE o.do \in Commands
  <2>1. hw' = [hw EXCEPT !.driving = hw.bridge /\ hw.HsSignalOnFlag]
    <3>1. ChipOp(t, o) \/ OtpTimes(t, o) \/ OtpCell(t, o)
      BY <1>3, DoIs DEF Commands
    <3> QED
      BY <3>1, ChipOpEffect, TimesEffect, CellEffect
  <2>2. PICK n : n = o.do
    OBVIOUS
  <2>3. Becomes(n)
    BY <1>1, <1>3, <2>1, <2>2 DEF Becomes, Commands, HwState
  <2> QED
    BY <2>2, <2>3
<1>4. CASE OtpCompare(t, o) \/ OtpAnswer(t, o)
  <2>1. hw' = hw /\ o.do \in {"compare", "answer"}
    BY <1>4, DecideEffect, AnswerEffect
  <2> QED
    BY <1>1, <2>1 DEF Becomes, Commands
<1> QED
  BY <1>2, <1>3, <1>4 DEF Do, ChipOp, OtpTimes, OtpCell, Commands

\* Every setter that is not undone, and is on or still to be done, stays so.
LEMMA ComesOnKept ==
  ASSUME NEW s \in Seq(Operation), s # <<>>, SwitchesOn(s), ComesOn(s, hw), SignalInside(s),
         Becomes(Head(s).do)
  PROVE  ComesOn(Tail(s), hw)'
<1> DEFINE n == Head(s).do
           r == Tail(s)
<1>1. \A a \in Setters : (IsOn(a, hw) \/ n = a \/ Does(r, {a})) /\ (n \in Undoes(a) => Does(r, {a}))
  <2> SUFFICES ASSUME NEW a \in Setters
               PROVE  (IsOn(a, hw) \/ n = a \/ Does(r, {a})) /\ (n \in Undoes(a) => Does(r, {a}))
    OBVIOUS
  <2>1. Does(s, {a}) <=> n \in {a} \/ Does(r, {a})
    BY DoesTail
  <2>2. Then(s, Undoes(a), {a})
    BY DEF SwitchesOn
  <2>3. n \in Undoes(a) => Does(r, {a})
    BY <2>2, ThenTail
  <2> QED
    BY <2>1, <2>3 DEF ComesOn
<1>2. ASSUME "drive" \in Setters, ~Does(r, {"drive"})
      PROVE  hw'.driving
  <2>1. Signal = 2 /\ "config" \in Setters /\ "rails_on" \in Setters /\ "hs_on" \in Setters
    BY <1>2 DEF Setters
  <2>2. n \notin {"config", "deconfig", "reset", "hold", "close", "lp"}
    BY <1>1, <1>2 DEF Undoes
  <2>3. CASE n \in Commands
    <3>1. ThenIf(s, Commands, {"hs_on", "config"}, {"drive"})
      BY <2>1 DEF SwitchesOn
    <3>2. ~Does(r, {"hs_on", "config"})
      BY <1>2, <2>3, <3>1, ThenIfTail
    <3>3. ~Does(r, {"hs_on"}) /\ ~Does(r, {"config"})
      BY <3>2 DEF Does
    <3>4. n # "hs_on" /\ n # "config"
      BY <2>3 DEF Commands
    <3>5. IsOn("hs_on", hw) /\ IsOn("config", hw)
      BY <1>1, <2>1, <3>3, <3>4
    <3> QED
      BY <2>3, <3>5 DEF IsOn, Becomes
  <2>4. CASE n = "drive"
    <3>1. Never(s, {"drive"}, {"config", "rails_on"})
      BY DEF SignalInside
    <3>2. ~Does(r, {"config", "rails_on"})
      BY <2>4, <3>1, NeverTail
    <3>3. ~Does(r, {"config"}) /\ n # "config"
      BY <2>4, <3>2 DEF Does
    <3>4. IsOn("config", hw)
      BY <1>1, <2>1, <3>3
    <3> QED
      BY <2>4, <3>4 DEF IsOn, Becomes
  <2>5. CASE n \notin Commands /\ n # "drive"
    <3>1. IsOn("drive", hw)
      BY <1>1, <1>2, <2>5
    <3> QED
      BY <2>2, <2>5, <3>1 DEF IsOn, Becomes
  <2> QED
    BY <2>3, <2>4, <2>5
<1>3. ASSUME NEW a \in Setters, ~Does(r, {a}), a # "drive"
      PROVE  IsOn(a, hw')
  <2>1. n \notin Undoes(a) /\ (IsOn(a, hw) \/ n = a)
    BY <1>1, <1>3
  <2>2. a \in {"config", "rails_on", "told_on", "status_on", "output", "hs_on", "channels_on"}
    BY <1>3 DEF Setters
  <2>3. CASE a = "config"
    BY <2>1, <2>3 DEF IsOn, Undoes, Becomes
  <2>4. CASE a = "rails_on"
    BY <2>1, <2>4 DEF IsOn, Undoes, Becomes
  <2>5. CASE a = "told_on"
    BY <2>1, <2>5 DEF IsOn, Undoes, Becomes
  <2>6. CASE a = "status_on"
    BY <2>1, <2>6 DEF IsOn, Undoes, Becomes
  <2>7. CASE a = "output"
    BY <2>1, <2>7 DEF IsOn, Undoes, Becomes
  <2>8. CASE a = "hs_on"
    BY <2>1, <2>8 DEF IsOn, Undoes, Becomes
  <2>9. CASE a = "channels_on"
    BY <2>1, <2>9 DEF IsOn, Undoes, Becomes
  <2> QED
    BY <2>2, <2>3, <2>4, <2>5, <2>6, <2>7, <2>8, <2>9
<1>4. IsOn("drive", hw') <=> hw'.driving
  BY DEF IsOn
<1>5. \A a \in Setters : IsOn(a, hw') \/ Does(r, {a})
  BY <1>2, <1>3, <1>4
<1> QED
  BY <1>5 DEF ComesOn

LEMMA SwitchesOnTail ==
  ASSUME NEW s \in Seq(Operation), s # <<>>, SignalInside(s)
  PROVE  SignalInside(Tail(s)) /\ (SwitchesOn(s) => SwitchesOn(Tail(s)))
<1>1. SignalInside(Tail(s))
  BY NeverTail, ThenIfTail, CloseShapeTail DEF SignalInside
<1>2. ASSUME SwitchesOn(s)
      PROVE  SwitchesOn(Tail(s))
  <2>1. \A a \in Setters : Then(Tail(s), Undoes(a), {a})
    BY <1>2, ThenTail DEF SwitchesOn
  <2>2. Signal = 2 => ThenIf(Tail(s), Commands, {"hs_on", "config"}, {"drive"})
    BY <1>2, ThenIfTail DEF SwitchesOn
  <2>3. ~Does(Tail(s), {"compare"})
    BY <1>2, DoesTail DEF SwitchesOn
  <2> QED
    BY <1>1, <2>1, <2>2, <2>3 DEF SwitchesOn
<1> QED
  BY <1>1, <1>2

\* The signal goes before the supply.
LEMMA SilentKept ==
  ASSUME NEW s \in Seq(Operation), s # <<>>, SignalInside(s), Silent(s, hw), Becomes(Head(s).do)
  PROVE  Silent(Tail(s), hw)'
<1> DEFINE n == Head(s).do
           r == Tail(s)
<1>1. s[1] = Head(s)
  BY TailFacts
<1>2. ASSUME Does(r, {"rails_off"}), ~Does(r, {"close"})
      PROVE  ~hw'.driving /\ ~hw'.HsSignalOnFlag
  <2>1. n \notin {"drive", "hs_on"}
    <3>1. ThenIf(s, {"drive", "hs_on"}, {"rails_off"}, {"close"})
      BY DEF SignalInside
    <3> QED
      BY <1>2, <3>1, ThenIfTail
  <2>2. Does(s, {"rails_off"})
    BY <1>2, DoesTail
  <2>3. CASE n = "close"
    <3>1. ~hw.HsSignalOnFlag
      BY <1>1, <2>3 DEF Silent
    <3> QED
      BY <2>3, <3>1 DEF Becomes
  <2>4. CASE n # "close"
    <3>1. ~Does(s, {"close"})
      BY <1>2, <2>4, DoesTail
    <3>2. ~hw.driving /\ ~hw.HsSignalOnFlag
      BY <2>2, <3>1 DEF Silent
    <3>3. ~hw'.HsSignalOnFlag
      BY <2>1, <3>2 DEF Becomes
    <3>4. ~hw'.driving
      <4>1. CASE n \in Commands
        BY <3>2, <4>1 DEF Becomes
      <4>2. CASE n \in {"config", "deconfig", "reset", "hold", "close", "lp"}
        BY <4>2 DEF Becomes
      <4>3. CASE n \notin Commands \cup {"config", "deconfig", "reset", "hold", "close", "lp"}
        BY <2>1, <3>2, <4>3 DEF Becomes
      <4> QED
        BY <4>1, <4>2, <4>3
    <3> QED
      BY <3>3, <3>4
  <2> QED
    BY <2>3, <2>4
<1>3. ASSUME r # <<>>, r[1].do = "close"
      PROVE  ~hw'.HsSignalOnFlag
  <2>1. n = "hs_off"
    BY <1>3, CloseShapeTail DEF SignalInside
  <2> QED
    BY <2>1 DEF Becomes
<1> QED
  BY <1>2, <1>3 DEF Silent

\* The signal is given only where the supply is, and the supply goes where no signal is.
LEMMA LitKept ==
  ASSUME NEW s \in Seq(Operation), s # <<>>, Lit(hw), Becomes(Head(s).do),
         Head(s).do \in {"drive", "hs_on"} => hw.asked,
         Head(s).do = "rails_off" => ~hw.driving /\ ~hw.HsSignalOnFlag
  PROVE  Lit(hw)'
<1> DEFINE n == Head(s).do
<1>1. CASE n \in {"drive", "hs_on"}
  BY <1>1 DEF Becomes, Lit
<1>2. CASE n = "rails_off"
  <2>1. ~hw'.HsSignalOnFlag
    BY <1>2 DEF Becomes
  <2>2. ~hw'.driving
    BY <1>2 DEF Becomes, Commands
  <2> QED
    BY <2>1, <2>2 DEF Lit
<1>3. CASE n \notin {"drive", "hs_on", "rails_off"}
  <2>1. (hw.asked => hw'.asked) /\ (hw'.HsSignalOnFlag => hw.HsSignalOnFlag)
    BY <1>3 DEF Becomes
  <2>2. hw'.driving => hw.driving \/ hw.HsSignalOnFlag
    <3>1. CASE n \in Commands
      BY <3>1 DEF Becomes
    <3>2. CASE n \in {"config", "deconfig", "reset", "hold", "close", "lp"}
      BY <3>2 DEF Becomes
    <3>3. CASE n \notin Commands \cup {"config", "deconfig", "reset", "hold", "close", "lp"}
      BY <1>3, <3>3 DEF Becomes
    <3> QED
      BY <3>1, <3>2, <3>3
  <2> QED
    BY <2>1, <2>2 DEF Lit
<1> QED
  BY <1>1, <1>2, <1>3

LEMMA RailsGoSilent ==
  ASSUME NEW s \in Seq(Operation), s # <<>>, SignalInside(s), Silent(s, hw), Head(s).do = "rails_off"
  PROVE  ~hw.driving /\ ~hw.HsSignalOnFlag
<1>1. Does(s, {"rails_off"})
  BY DoesTail
<1>2. ~Does(Tail(s), {"close"})
  BY NeverTail DEF SignalInside
<1>3. ~Does(s, {"close"})
  BY <1>2, DoesTail
<1> QED
  BY <1>1, <1>3 DEF Silent

LEMMA OnStep ==
  ASSUME NEW s \in Seq(Operation), s # <<>>, WillBeOn(s, hw), Becomes(Head(s).do)
  PROVE  WillBeOn(Tail(s), hw)' /\ (Lit(hw) => Lit(hw)')
<1> DEFINE n == Head(s).do
<1>1. SwitchesOn(s) /\ SignalInside(s) /\ ComesOn(s, hw) /\ Silent(s, hw)
  BY DEF WillBeOn, SwitchesOn
<1>2. SwitchesOn(Tail(s))
  BY <1>1, SwitchesOnTail
<1>3. ComesOn(Tail(s), hw)' /\ Silent(Tail(s), hw)'
  BY <1>1, ComesOnKept, SilentKept
<1>4. n \in {"drive", "hs_on"} => hw.asked
  <2> SUFFICES ASSUME n \in {"drive", "hs_on"}
               PROVE  hw.asked
    OBVIOUS
  <2>1. Does(Tail(s), {"rails_on"}) => Does(Tail(s), {"config", "rails_on"})
    BY DEF Does
  <2>2. ~Does(Tail(s), {"rails_on"})
    BY <1>1, <2>1, NeverTail DEF SignalInside
  <2>3. ~Does(s, {"rails_on"})
    BY <2>2, DoesTail
  <2>4. "rails_on" \in Setters
    BY DEF Setters
  <2>5. IsOn("rails_on", hw)
    BY <1>1, <2>3, <2>4 DEF ComesOn
  <2> QED
    BY <2>5 DEF IsOn
<1>5. n = "rails_off" => ~hw.driving /\ ~hw.HsSignalOnFlag
  BY <1>1, RailsGoSilent
<1>6. Lit(hw) => Lit(hw)'
  BY <1>4, <1>5, LitKept
<1> QED
  BY <1>2, <1>3, <1>6 DEF WillBeOn

LEMMA OffStep ==
  ASSUME NEW s \in Seq(Operation), s # <<>>, WillBeOff(s, hw), Becomes(Head(s).do),
         hw \in HwState, hw' \in HwState
  PROVE  WillBeOff(Tail(s), hw)' /\ (Lit(hw) => Lit(hw)') /\ Head(s).do # "compare"
<1> DEFINE n == Head(s).do
           r == Tail(s)
<1>1. Only(s, OffOps) /\ SignalInside(s) /\ GoesOff(s, hw) /\ Silent(s, hw)
  BY DEF WillBeOff, SwitchesOff
<1>2. n \in OffOps /\ Only(r, OffOps) /\ SignalInside(r)
  BY <1>1, OnlyTail, SwitchesOnTail
<1>3. Silent(r, hw)'
  BY <1>1, SilentKept
<1>4. \A name \in OffOps : Does(s, {name}) /\ n # name => Does(r, {name})
  BY DoesTail
<1>5. n \notin {"drive", "hs_on", "rails_on", "config", "channels_on", "output", "status_on", "told_on",
                "monitor_on", "compare"} /\ n \notin Commands
  BY <1>2 DEF OffOps, Commands
<1>6. GoesOff(r, hw)'
  <2>1. hw'.monitor => Does(r, {"monitor_off"})
    BY <1>1, <1>4, <1>5 DEF GoesOff, Becomes, OffOps
  <2>2. hw'.channels => Does(r, {"channels_off"})
    BY <1>1, <1>4, <1>5 DEF GoesOff, Becomes, OffOps
  <2>3. hw'.HsSignalOnFlag => Does(r, {"hs_off"})
    BY <1>1, <1>4, <1>5 DEF GoesOff, Becomes, OffOps
  <2>4. hw'.driving => Does(r, {"close"})
    <3>1. hw'.driving => hw.driving /\ n # "close"
      BY <1>5 DEF Becomes
    <3> QED
      BY <1>1, <1>4, <3>1 DEF GoesOff, OffOps
  <2>5. hw'.REGA8 # 0 => Does(r, {"no_output"})
    BY <1>1, <1>4, <1>5 DEF GoesOff, Becomes, OffOps
  <2>6. hw'.asked => Does(r, {"rails_off"})
    BY <1>1, <1>4, <1>5 DEF GoesOff, Becomes, OffOps
  <2>7. hw'.bridge => Does(r, {"deconfig"})
    BY <1>1, <1>4, <1>5 DEF GoesOff, Becomes, OffOps
  <2>8. hw'.told => Does(r, {"told_off"})
    BY <1>1, <1>4, <1>5 DEF GoesOff, Becomes, OffOps
  <2>9. hw'.pg_pwr_status => Does(r, {"status_off"})
    BY <1>1, <1>4, <1>5 DEF GoesOff, Becomes, OffOps
  <2> QED
    BY <2>1, <2>2, <2>3, <2>4, <2>5, <2>6, <2>7, <2>8, <2>9 DEF GoesOff
<1>7. Lit(hw) => Lit(hw)'
  <2>1. n = "rails_off" => ~hw.driving /\ ~hw.HsSignalOnFlag
    BY <1>1, RailsGoSilent
  <2> QED
    BY <1>5, <2>1, LitKept
<1> QED
  BY <1>2, <1>3, <1>5, <1>6, <1>7 DEF WillBeOff, SwitchesOff

LEMMA ReadStep ==
  ASSUME NEW n \in ReadOps, Becomes(n), Agree(hw), Lit(hw), hw \in HwState, hw' \in HwState
  PROVE  Agree(hw)' /\ Lit(hw)'
<1>1. /\ hw'.asked = hw.asked /\ hw'.bridge = hw.bridge /\ hw'.HsSignalOnFlag = hw.HsSignalOnFlag
      /\ hw'.channels = hw.channels /\ hw'.REGA8 = hw.REGA8 /\ hw'.pg_pwr_status = hw.pg_pwr_status
      /\ hw'.told = hw.told /\ hw'.monitor = hw.monitor
  <2>1. n \notin {"rails_on", "rails_off", "config", "deconfig", "hs_on", "hs_off", "channels_on",
                  "channels_off", "output", "no_output", "status_on", "status_off", "told_on", "told_off",
                  "monitor_on", "monitor_off"}
    BY DEF ReadOps
  <2>2. /\ hw'.asked = hw.asked /\ hw'.bridge = hw.bridge /\ hw'.HsSignalOnFlag = hw.HsSignalOnFlag
        /\ hw'.channels = hw.channels
    BY <2>1, HwFields DEF Becomes
  <2>3. /\ hw'.REGA8 = hw.REGA8 /\ hw'.pg_pwr_status = hw.pg_pwr_status
        /\ hw'.told = hw.told /\ hw'.monitor = hw.monitor
    BY <2>1, HwFields DEF Becomes
  <2> QED
    BY <2>2, <2>3
<1>2. hw'.driving = hw.driving \/ hw'.driving = (hw.bridge /\ hw.HsSignalOnFlag)
  <2>1. CASE n \in Commands
    <3>1. hw'.driving <=> hw.bridge /\ hw.HsSignalOnFlag
      BY <2>1 DEF Becomes
    <3> QED
      BY <3>1, HwFields
  <2>2. CASE n \notin Commands
    <3>1. n \notin Commands \cup {"drive", "config", "deconfig", "reset", "hold", "close", "lp"}
      BY <2>2 DEF ReadOps
    <3>2. hw'.driving <=> hw.driving
      BY <3>1 DEF Becomes
    <3> QED
      BY <3>2, HwFields
  <2> QED
    BY <2>1, <2>2
<1>3. Lit(hw)'
  BY <1>1, <1>2 DEF Lit
<1>4. Agree(hw)'
  <2>1. Signal = 2 => hw'.driving = hw.asked
    BY <1>2, HwFields DEF Agree
  <2> QED
    BY <1>1, <2>1 DEF Agree
<1> QED
  BY <1>3, <1>4

LEMMA OnEnd ==
  ASSUME NEW h \in HwState, ComesOn(<<>>, h)
  PROVE  Agree(h) /\ Lit(h)
<1>1. \A a \in Setters : IsOn(a, h)
  BY DoesNothing DEF ComesOn
<1>2. h.bridge /\ h.asked /\ h.told /\ h.pg_pwr_status
  <2>1. IsOn("config", h) /\ IsOn("rails_on", h) /\ IsOn("told_on", h) /\ IsOn("status_on", h)
    BY <1>1 DEF Setters
  <2> QED
    BY <2>1 DEF IsOn
<1>3. h.REGA8 = Signal
  <2>1. CASE Signal \in {1, 2}
    <3>1. IsOn("output", h)
      BY <1>1, <2>1 DEF Setters
    <3> QED
      BY <3>1 DEF IsOn
  <2>2. CASE Signal = 0
    BY <2>2, HwFields
  <2> QED
    BY <2>1, <2>2, PanelAssumption
<1>4. Signal = 2 => h.driving /\ h.HsSignalOnFlag /\ h.channels
  <2>1. Signal = 2 => IsOn("drive", h) /\ IsOn("hs_on", h) /\ IsOn("channels_on", h)
    BY <1>1 DEF Setters
  <2> QED
    BY <2>1 DEF IsOn
<1> QED
  BY <1>2, <1>3, <1>4, HwFields DEF Agree, Lit

LEMMA OffEnd ==
  ASSUME NEW h \in HwState, GoesOff(<<>>, h)
  PROVE  Agree(h) /\ Lit(h)
<1>1. /\ ~h.monitor /\ ~h.channels /\ ~h.HsSignalOnFlag /\ ~h.driving /\ h.REGA8 = 0
      /\ ~h.asked /\ ~h.bridge /\ ~h.told /\ ~h.pg_pwr_status
  BY DoesNothing DEF GoesOff
<1> QED
  BY <1>1, HwFields DEF Agree, Lit

-----------------------------------------------------------------------------
(* How the commands switch: the parts their sequences are put together from. *)

LEMMA Vacuous ==
  ASSUME NEW s, NEW X, NEW B, NEW C
  PROVE  /\ ~Does(s, X) => Then(s, X, B) /\ Never(s, X, B) /\ ThenIf(s, X, B, C)
         /\ s \in Seq(Operation) /\ ~Does(s, B) => Never(s, X, B) /\ ThenIf(s, X, B, C)
         /\ Then(s, X, C) => ThenIf(s, X, B, C)
<1>1. ~Does(s, X) => Then(s, X, B) /\ Never(s, X, B) /\ ThenIf(s, X, B, C)
  BY DEF Does, Then, Never, ThenIf
<1>2. ASSUME s \in Seq(Operation), ~Does(s, B)
      PROVE  Never(s, X, B) /\ ThenIf(s, X, B, C)
  <2>1. ASSUME NEW i \in 1..Len(s)
        PROVE  ~After(s, i, B)
    <3>1. \A j \in i + 1..Len(s) : j \in 1..Len(s)
      BY <1>2, LenProperties
    <3> QED
      BY <1>2, <3>1 DEF Does, After
  <2> QED
    BY <2>1 DEF Never, ThenIf
<1>3. Then(s, X, C) => ThenIf(s, X, B, C)
  BY DEF Then, ThenIf
<1> QED
  BY <1>1, <1>2, <1>3

LEMMA OnlyDoes ==
  ASSUME NEW s, NEW B, NEW X, Only(s, B), \A name \in X : name \notin B
  PROVE  ~Does(s, X)
BY DEF Only, Does

LEMMA OpsOnly ==
  ASSUME NEW names \in Seq(OpName), NEW B, \A i \in 1..Len(names) : names[i] \in B
  PROVE  Only(Ops(names), B)
<1>1. Len(Ops(names)) = Len(names) /\ \A i \in 1..Len(names) : Ops(names)[i] = Op(names[i])
  BY OpsFacts
<1>2. \A name : Op(name).do = name
  BY DEF Op
<1> QED
  BY <1>1, <1>2 DEF Only

\* The parts: power up, power down, one operation alone.
Up        == Ops(<<"config", "rails_on", "told_on">>)
Down      == Ops(<<"no_output", "rails_off", "deconfig", "told_off", "status_off">>)
Lone(name) == Ops(<<name>>)

UpOps    == {"config", "rails_on", "told_on"}
WorkOps  == {"hs_off", "reset", "init_code", "drive", "hs_on", "channels_on"}
CloseOps == {"channels_off", "hs_off", "close", "hold"}
DownOps  == {"no_output", "rails_off", "deconfig", "told_off", "status_off"}

LEMMA UpIs == Up \in Seq(Operation) /\ Only(Up, UpOps) /\ \A B : Does(Up, B) <=> \E name \in UpOps : name \in B
<1> DEFINE n == <<"config", "rails_on", "told_on">>
<1>1. n \in Seq(OpName) /\ Len(n) = 3 /\ n[1] = "config" /\ n[2] = "rails_on" /\ n[3] = "told_on"
  BY NamesTyped
<1>2. Up = Ops(n)
  BY DEF Up
<1> HIDE DEF n
<1>3. \A i \in 1..3 : i = 1 \/ i = 2 \/ i = 3
  OBVIOUS
<1>4. 1 \in 1..3 /\ 2 \in 1..3 /\ 3 \in 1..3
  OBVIOUS
<1>5. \A i \in 1..Len(n) : n[i] \in UpOps
  BY <1>1, <1>3 DEF UpOps
<1>6. ASSUME NEW B
      PROVE  Does(Up, B) <=> \E name \in UpOps : name \in B
  <2>1. Does(Up, B) <=> \E i \in 1..Len(n) : n[i] \in B
    BY <1>1, <1>2, OpsDoes
  <2> QED
    BY <1>1, <1>3, <1>4, <2>1 DEF UpOps
<1> QED
  BY <1>1, <1>2, <1>5, <1>6, OpsFacts, OpsOnly

LEMMA WorkingIs ==
  /\ mipi_working \in Seq(Operation) /\ Only(mipi_working, WorkOps)
  /\ \A B : Does(mipi_working, B) <=> \E name \in WorkOps : name \in B
  /\ \A X : "drive" \notin X /\ "hs_on" \notin X /\ "channels_on" \notin X => Then(mipi_working, X, {"drive"})
  /\ \A X : "hs_on" \notin X /\ "channels_on" \notin X => Then(mipi_working, X, {"hs_on"})
<1> DEFINE n == <<"hs_off", "reset", "init_code", "drive", "hs_on", "channels_on">>
<1>1. /\ n \in Seq(OpName) /\ Len(n) = 6 /\ n[1] = "hs_off" /\ n[2] = "reset" /\ n[3] = "init_code"
      /\ n[4] = "drive" /\ n[5] = "hs_on" /\ n[6] = "channels_on"
  BY NamesTyped
<1>2. mipi_working = Ops(n)
  BY DEF mipi_working
<1> HIDE DEF n
<1>3. \A i \in 1..6 : i = 1 \/ i = 2 \/ i = 3 \/ i = 4 \/ i = 5 \/ i = 6
  OBVIOUS
<1>4. 1 \in 1..6 /\ 2 \in 1..6 /\ 3 \in 1..6 /\ 4 \in 1..6 /\ 5 \in 1..6 /\ 6 \in 1..6
  OBVIOUS
<1>5. \A i \in 1..Len(n) : n[i] \in WorkOps
  BY <1>1, <1>3 DEF WorkOps
<1>6. ASSUME NEW B
      PROVE  Does(mipi_working, B) <=> \E name \in WorkOps : name \in B
  <2>1. Does(mipi_working, B) <=> \E i \in 1..Len(n) : n[i] \in B
    BY <1>1, <1>2, OpsDoes
  <2> QED
    BY <1>1, <1>3, <1>4, <2>1 DEF WorkOps
<1>7. /\ Len(mipi_working) = 6
      /\ \A i \in 1..6 : mipi_working[i].do = n[i]
  <2>1. \A name : Op(name).do = name
    BY DEF Op
  <2> QED
    BY <1>1, <1>2, <2>1, OpsFacts
<1>8. \A X : "drive" \notin X /\ "hs_on" \notin X /\ "channels_on" \notin X => Then(mipi_working, X, {"drive"})
  <2> SUFFICES ASSUME NEW X, "drive" \notin X, "hs_on" \notin X, "channels_on" \notin X,
                      NEW i \in 1..6, n[i] \in X
               PROVE  After(mipi_working, i, {"drive"})
    BY <1>7 DEF Then
  <2>1. i \in {1, 2, 3}
    BY <1>1, <1>3
  <2>2. 4 \in i + 1..6
    BY <2>1
  <2>3. mipi_working[4].do = "drive"
    BY <1>1, <1>4, <1>7
  <2> QED
    BY <1>7, <2>2, <2>3 DEF After
<1>9. \A X : "hs_on" \notin X /\ "channels_on" \notin X => Then(mipi_working, X, {"hs_on"})
  <2> SUFFICES ASSUME NEW X, "hs_on" \notin X, "channels_on" \notin X, NEW i \in 1..6, n[i] \in X
               PROVE  After(mipi_working, i, {"hs_on"})
    BY <1>7 DEF Then
  <2>1. i \in {1, 2, 3, 4}
    BY <1>1, <1>3
  <2>2. 5 \in i + 1..6
    BY <2>1
  <2>3. mipi_working[5].do = "hs_on"
    BY <1>1, <1>4, <1>7
  <2> QED
    BY <1>7, <2>2, <2>3 DEF After
<1> QED
  BY <1>1, <1>2, <1>5, <1>6, <1>8, <1>9, OpsFacts, OpsOnly

LEMMA DownIs ==
  Down \in Seq(Operation) /\ Only(Down, DownOps) /\ \A B : Does(Down, B) <=> \E name \in DownOps : name \in B
<1> DEFINE n == <<"no_output", "rails_off", "deconfig", "told_off", "status_off">>
<1>1. /\ n \in Seq(OpName) /\ Len(n) = 5 /\ n[1] = "no_output" /\ n[2] = "rails_off" /\ n[3] = "deconfig"
      /\ n[4] = "told_off" /\ n[5] = "status_off"
  BY NamesTyped
<1>2. Down = Ops(n)
  BY DEF Down
<1> HIDE DEF n
<1>3. \A i \in 1..5 : i = 1 \/ i = 2 \/ i = 3 \/ i = 4 \/ i = 5
  OBVIOUS
<1>4. 1 \in 1..5 /\ 2 \in 1..5 /\ 3 \in 1..5 /\ 4 \in 1..5 /\ 5 \in 1..5
  OBVIOUS
<1>5. \A i \in 1..Len(n) : n[i] \in DownOps
  BY <1>1, <1>3 DEF DownOps
<1>6. ASSUME NEW B
      PROVE  Does(Down, B) <=> \E name \in DownOps : name \in B
  <2>1. Does(Down, B) <=> \E i \in 1..Len(n) : n[i] \in B
    BY <1>1, <1>2, OpsDoes
  <2> QED
    BY <1>1, <1>3, <1>4, <2>1 DEF DownOps
<1> QED
  BY <1>1, <1>2, <1>5, <1>6, OpsFacts, OpsOnly

\* The bridge is closed after its signal, and not first.
ClosesWell(s) == CloseShape(s) /\ \A i \in 1..Len(s) : s[i].do = "close" => i > 1

LEMMA CloseIs ==
  /\ mipi_close \in Seq(Operation) /\ Only(mipi_close, CloseOps) /\ ClosesWell(mipi_close)
  /\ \A B : Does(mipi_close, B) <=> \E name \in CloseOps : name \in B
<1> DEFINE n == <<"channels_off", "hs_off", "close", "hold">>
<1>1. /\ n \in Seq(OpName) /\ Len(n) = 4 /\ n[1] = "channels_off" /\ n[2] = "hs_off" /\ n[3] = "close"
      /\ n[4] = "hold"
  BY NamesTyped
<1>2. mipi_close = Ops(n)
  BY DEF mipi_close
<1> HIDE DEF n
<1>3. \A i \in 1..4 : i = 1 \/ i = 2 \/ i = 3 \/ i = 4
  OBVIOUS
<1>4. 1 \in 1..4 /\ 2 \in 1..4 /\ 3 \in 1..4 /\ 4 \in 1..4
  OBVIOUS
<1>5. \A i \in 1..Len(n) : n[i] \in CloseOps
  BY <1>1, <1>3 DEF CloseOps
<1>6. ASSUME NEW B
      PROVE  Does(mipi_close, B) <=> \E name \in CloseOps : name \in B
  <2>1. Does(mipi_close, B) <=> \E i \in 1..Len(n) : n[i] \in B
    BY <1>1, <1>2, OpsDoes
  <2> QED
    BY <1>1, <1>3, <1>4, <2>1 DEF CloseOps
<1>7. Len(mipi_close) = 4 /\ \A i \in 1..4 : mipi_close[i].do = n[i]
  <2>1. \A name : Op(name).do = name
    BY DEF Op
  <2> QED
    BY <1>1, <1>2, <2>1, OpsFacts
<1>8. ClosesWell(mipi_close)
  <2>1. ASSUME NEW i \in 1..4, mipi_close[i].do = "close"
        PROVE  i = 3
    BY <1>1, <1>3, <1>7, <2>1
  <2>2. ASSUME NEW i \in 1..4, NEW j \in 1..4, mipi_close[i].do = "close", i = j + 1
        PROVE  mipi_close[j].do = "hs_off"
    <3>1. j = 2
      BY <2>1, <2>2
    <3> QED
      BY <1>1, <1>4, <1>7, <3>1
  <2> QED
    BY <1>7, <2>1, <2>2 DEF ClosesWell, CloseShape
<1> QED
  BY <1>1, <1>2, <1>5, <1>6, <1>8, OpsFacts, OpsOnly

LEMMA LoneIs ==
  ASSUME NEW name \in OpName
  PROVE  Lone(name) \in Seq(Operation) /\ Only(Lone(name), {name}) /\ \A B : Does(Lone(name), B) <=> name \in B
<1>1. <<name>> \in Seq(OpName) /\ Len(<<name>>) = 1 /\ <<name>>[1] = name /\ 1..1 = {1}
  OBVIOUS
<1>2. ASSUME NEW B
      PROVE  Does(Lone(name), B) <=> name \in B
  BY <1>1, OpsDoes DEF Lone
<1> QED
  BY <1>1, <1>2, OpsFacts, OpsOnly DEF Lone

LEMMA ClosesWellConcat ==
  ASSUME NEW s \in Seq(Operation), NEW u \in Seq(Operation), ClosesWell(s), ClosesWell(u)
  PROVE  ClosesWell(s \o u)
<1>1. CloseShape(s \o u)
  BY CloseShapeConcat DEF ClosesWell
<1>2. ASSUME NEW i \in 1..Len(s \o u), (s \o u)[i].do = "close"
      PROVE  i > 1
  <2>1. CASE i \in 1..Len(s)
    BY <1>2, <2>1, ConcatFacts DEF ClosesWell
  <2>2. CASE \E j \in 1..Len(u) : i = Len(s) + j
    <3>1. PICK j \in 1..Len(u) : i = Len(s) + j
      BY <2>2
    <3>2. u[j].do = "close" /\ Len(s) \in Nat
      BY <1>2, <3>1, ConcatFacts
    <3>3. j > 1
      BY <3>2 DEF ClosesWell
    <3> QED
      BY <3>1, <3>2, <3>3
  <2> QED
    BY <2>1, <2>2, ConcatFacts
<1> QED
  BY <1>1, <1>2 DEF ClosesWell

LEMMA ClosesNot ==
  ASSUME NEW s, ~Does(s, {"close"})
  PROVE  ClosesWell(s)
BY DEF Does, ClosesWell, CloseShape

-----------------------------------------------------------------------------
(* How the commands switch: the sequences.                                   *)

ShutOnOps == UpOps \cup WorkOps \cup {"status_on", "output"}

\* client_pg_shutON(1, ...) in its four parts.
LEMMA ShutOnParts ==
  /\ Signal = 2 => ShutOn = ((Up \o mipi_working) \o Lone("status_on")) \o Lone("output")
  /\ Signal # 2 => ShutOn = (Up \o Lone("status_on")) \o (IF Signal = 1 THEN Lone("output") ELSE <<>>)
<1>1. Up \o <<>> = Up
  BY UpIs, ConcatEmptySeq
<1>2. Signal = 2 => ShutOn = ((Up \o mipi_working) \o Lone("status_on")) \o Lone("output")
  BY DEF ShutOn, Up, Lone
<1>3. Signal # 2 => ShutOn = ((Up \o <<>>) \o Lone("status_on")) \o (IF Signal = 1 THEN Lone("output") ELSE <<>>)
  BY DEF ShutOn, Up, Lone
<1> QED
  BY <1>1, <1>2, <1>3

\* With MIPI: what comes before the signal is followed by it.
LEMMA ShutOnThen ==
  ASSUME Signal = 2, NEW X, NEW B, Then(mipi_working, X, B), Does(mipi_working, B),
         "status_on" \notin X, "output" \notin X
  PROVE  Then(ShutOn, X, B)
<1> DEFINE st == Lone("status_on")
           out == Lone("output")
           a == Up \o mipi_working
           b == a \o st
<1>1. /\ st \in Seq(Operation) /\ ~Does(st, X) /\ out \in Seq(Operation) /\ ~Does(out, X)
      /\ Up \in Seq(Operation) /\ mipi_working \in Seq(Operation)
  <2>1. "status_on" \in OpName /\ "output" \in OpName
    BY DEF OpName, Switch
  <2> QED
    BY <2>1, LoneIs, UpIs, WorkingIs
<1>2. Then(st, X, B) /\ Then(out, X, B)
  BY <1>1, Vacuous
<1>3. a \in Seq(Operation) /\ Then(a, X, B)
  BY <1>1, ThenConcat, ConcatFacts
<1>4. ShutOn = b \o out
  BY ShutOnParts
<1> HIDE DEF st, out, a
<1>5. b \in Seq(Operation) /\ Then(b, X, B)
  BY <1>1, <1>2, <1>3, ThenConcat, ConcatFacts
<1> HIDE DEF b
<1> QED
  BY <1>1, <1>2, <1>4, <1>5, ThenConcat

LEMMA ShutOnNever ==
  ASSUME NEW X, NEW B, ~Does(Up, X), ~Does(mipi_working, B), "status_on" \notin B, "output" \notin B,
         Signal # 2 => ~Does(ShutOn, X)
  PROVE  Never(ShutOn, X, B)
<1> DEFINE st == Lone("status_on")
           out == Lone("output")
           a == Up \o mipi_working
           b == a \o st
<1>1. CASE Signal # 2
  BY <1>1, Vacuous
<1>2. CASE Signal = 2
  <2>1. /\ st \in Seq(Operation) /\ ~Does(st, B) /\ out \in Seq(Operation) /\ ~Does(out, B)
        /\ Up \in Seq(Operation) /\ mipi_working \in Seq(Operation)
    <3>1. "status_on" \in OpName /\ "output" \in OpName
      BY DEF OpName, Switch
    <3> QED
      BY <3>1, LoneIs, UpIs, WorkingIs
  <2>2. Never(st, X, B) /\ Never(out, X, B) /\ Never(Up, X, B) /\ Never(mipi_working, X, B)
    BY <2>1, Vacuous
  <2>3. a \in Seq(Operation) /\ Never(a, X, B)
    BY <2>1, <2>2, NeverConcat, ConcatFacts
  <2>4. ShutOn = b \o out
    BY <1>2, ShutOnParts
  <2> HIDE DEF st, out, a
  <2>5. b \in Seq(Operation) /\ Never(b, X, B)
    BY <2>1, <2>2, <2>3, NeverConcat, ConcatFacts
  <2> HIDE DEF b
  <2> QED
    BY <2>1, <2>2, <2>4, <2>5, NeverConcat
<1> QED
  BY <1>1, <1>2

LEMMA ShutOnOnly == \A X : (\A name \in X : name \notin ShutOnOps) => ~Does(ShutOn, X)
BY ShutOnDoes DEF ShutOnOps, UpOps, WorkOps

LEMMA ShutOnSwitchesOn == SwitchesOn(ShutOn) /\ \A a \in Setters : Does(ShutOn, {a})
<1>1. ASSUME NEW a \in Setters
      PROVE  Then(ShutOn, Undoes(a), {a})
  <2>1. CASE a = "drive"
    <3>1. Signal = 2
      BY <2>1 DEF Setters
    <3>2. /\ Undoes(a) = {"config", "deconfig", "reset", "hold", "close", "lp"}
      BY <2>1 DEF Undoes
    <3>3. Then(mipi_working, Undoes(a), {"drive"})
      BY <3>2, WorkingIs
    <3>4. Does(mipi_working, {"drive"})
      BY WorkingIs DEF WorkOps
    <3>5. "status_on" \notin Undoes(a) /\ "output" \notin Undoes(a)
      BY <3>2
    <3> QED
      BY <2>1, <3>1, <3>3, <3>4, <3>5, ShutOnThen
  <2>2. CASE a = "hs_on"
    <3>1. Signal = 2 /\ Undoes(a) = {"hs_off"}
      BY <2>2 DEF Setters, Undoes
    <3>2. Then(mipi_working, Undoes(a), {"hs_on"})
      BY <3>1, WorkingIs
    <3>3. Does(mipi_working, {"hs_on"})
      BY WorkingIs DEF WorkOps
    <3>4. "status_on" \notin Undoes(a) /\ "output" \notin Undoes(a)
      BY <3>1
    <3> QED
      BY <2>2, <3>1, <3>2, <3>3, <3>4, ShutOnThen
  <2>3. CASE a \notin {"drive", "hs_on"}
    <3>1. a \in {"config", "rails_on", "told_on", "status_on", "output", "channels_on"}
      BY <2>3 DEF Setters
    <3>2. Undoes(a) \subseteq {"deconfig", "rails_off", "told_off", "status_off", "no_output", "channels_off"}
      BY <3>1 DEF Undoes
    <3>3. ~Does(ShutOn, Undoes(a))
      BY <3>2, ShutOnOnly DEF ShutOnOps, UpOps, WorkOps
    <3> QED
      BY <3>3, Vacuous
  <2> QED
    BY <2>1, <2>2, <2>3
<1>2. Signal = 2 => ThenIf(ShutOn, Commands, {"hs_on", "config"}, {"drive"})
  <2> SUFFICES ASSUME Signal = 2
               PROVE  ThenIf(ShutOn, Commands, {"hs_on", "config"}, {"drive"})
    OBVIOUS
  <2>1. Then(mipi_working, Commands, {"drive"})
    BY WorkingIs DEF Commands
  <2>2. Does(mipi_working, {"drive"})
    BY WorkingIs DEF WorkOps
  <2>3. Then(ShutOn, Commands, {"drive"})
    BY <2>1, <2>2, ShutOnThen DEF Commands
  <2> QED
    BY <2>3, Vacuous
<1>3. SignalInside(ShutOn)
  <2>1. Never(ShutOn, {"drive"}, {"config", "rails_on"})
    <3>1. ~Does(Up, {"drive"}) /\ ~Does(mipi_working, {"config", "rails_on"})
      BY UpIs, WorkingIs DEF UpOps, WorkOps
    <3>2. Signal # 2 => ~Does(ShutOn, {"drive"})
      BY ShutOnDoes
    <3> QED
      BY <3>1, <3>2, ShutOnNever
  <2>2. Never(ShutOn, {"hs_on"}, {"rails_on"})
    <3>1. ~Does(Up, {"hs_on"}) /\ ~Does(mipi_working, {"rails_on"})
      BY UpIs, WorkingIs DEF UpOps, WorkOps
    <3>2. Signal # 2 => ~Does(ShutOn, {"hs_on"})
      BY ShutOnDoes
    <3> QED
      BY <3>1, <3>2, ShutOnNever
  <2>3. ~Does(ShutOn, {"rails_off"}) /\ ~Does(ShutOn, {"close"})
    BY ShutOnOnly DEF ShutOnOps, UpOps, WorkOps
  <2>4. Never(ShutOn, {"rails_off"}, {"close"}) /\ ThenIf(ShutOn, {"drive", "hs_on"}, {"rails_off"}, {"close"})
    BY <2>3, ShutOnPlain, Vacuous
  <2>5. CloseShape(ShutOn)
    BY <2>3, ClosesNot DEF ClosesWell
  <2> QED
    BY <2>1, <2>2, <2>4, <2>5 DEF SignalInside
<1>4. ~Does(ShutOn, {"compare"})
  BY ShutOnOnly DEF ShutOnOps, UpOps, WorkOps
<1>5. ASSUME NEW a \in Setters
      PROVE  Does(ShutOn, {a})
  <2>1. \/ a \in {"config", "rails_on", "told_on", "status_on"}
        \/ a = "output" /\ Signal \in {1, 2}
        \/ a \in {"drive", "hs_on", "channels_on"} /\ Signal = 2
    BY DEF Setters
  <2> QED
    BY <2>1, ShutOnDoes
<1> QED
  BY <1>1, <1>2, <1>3, <1>4, <1>5 DEF SwitchesOn

\* What neither switches nor decides may follow.
LEMMA SwitchesOnThen ==
  ASSUME NEW s \in Seq(Operation), NEW u \in Seq(Operation), SwitchesOn(s), NEW B, Only(u, B),
         \A name \in B : name \in {"times", "cell", "sleep_in", "answer", "monitor_on"}
  PROVE  SwitchesOn(s \o u)
<1>1. \A X : (\A name \in X : name \notin {"times", "cell", "sleep_in", "answer", "monitor_on"}) => ~Does(u, X)
  <2> SUFFICES ASSUME NEW X, \A name \in X : name \notin {"times", "cell", "sleep_in", "answer", "monitor_on"}
               PROVE  ~Does(u, X)
    OBVIOUS
  <2> QED
    BY OnlyDoes
<1>2. ASSUME NEW a \in Setters
      PROVE  Then(s \o u, Undoes(a), {a})
  <2>1. a \in {"config", "rails_on", "told_on", "status_on", "output", "drive", "hs_on", "channels_on"}
    BY DEF Setters
  <2>2. \A name \in Undoes(a) : name \notin {"times", "cell", "sleep_in", "answer", "monitor_on"}
    BY <2>1 DEF Undoes
  <2>3. Then(u, Undoes(a), {a})
    BY <1>1, <2>2, Vacuous
  <2>4. Then(s, Undoes(a), {a})
    BY DEF SwitchesOn
  <2> QED
    BY <2>3, <2>4, ThenConcat
<1>3. Signal = 2 => ThenIf(s \o u, Commands, {"hs_on", "config"}, {"drive"})
  <2>1. ~Does(u, {"hs_on", "config"})
    BY <1>1
  <2>2. ThenIf(u, Commands, {"hs_on", "config"}, {"drive"})
    BY <2>1, Vacuous
  <2> QED
    BY <2>1, <2>2, ThenIfConcat DEF SwitchesOn
<1>4. SignalInside(s) /\ ~Does(s, {"compare"})
  BY DEF SwitchesOn
<1>5. Never(s \o u, {"drive"}, {"config", "rails_on"})
  <2>1. ~Does(u, {"config", "rails_on"})
    BY <1>1
  <2> QED
    BY <1>4, <2>1, Vacuous, NeverConcat DEF SignalInside
<1>6. Never(s \o u, {"hs_on"}, {"rails_on"})
  <2>1. ~Does(u, {"rails_on"})
    BY <1>1
  <2> QED
    BY <1>4, <2>1, Vacuous, NeverConcat DEF SignalInside
<1>7. Never(s \o u, {"rails_off"}, {"close"})
  <2>1. ~Does(u, {"close"})
    BY <1>1
  <2> QED
    BY <1>4, <2>1, Vacuous, NeverConcat DEF SignalInside
<1>8. ThenIf(s \o u, {"drive", "hs_on"}, {"rails_off"}, {"close"})
  <2>1. ~Does(u, {"rails_off"})
    BY <1>1
  <2> QED
    BY <1>4, <2>1, Vacuous, ThenIfConcat DEF SignalInside
<1>9. CloseShape(s \o u)
  <2>1. ~Does(u, {"close"})
    BY <1>1
  <2>2. ClosesWell(u)
    BY <2>1, ClosesNot
  <2> QED
    BY <1>4, <2>2, CloseShapeConcat DEF SignalInside, ClosesWell
<1>10. ~Does(s \o u, {"compare"})
  <2>1. ~Does(u, {"compare"})
    BY <1>1
  <2> QED
    BY <1>4, <2>1, DoesConcat
<1> QED
  BY <1>2, <1>3, <1>5, <1>6, <1>7, <1>8, <1>9, <1>10 DEF SwitchesOn, SignalInside

\* client_pg_shutON(0, ...): the signal is closed, then the supply goes.
LEMMA ShutOffSwitchesOff ==
  /\ ShutOff \in Seq(Operation) /\ Only(ShutOff, OffOps \ {"monitor_off"})
  /\ SignalInside(ShutOff) /\ ClosesWell(ShutOff)
  /\ \A name \in OffOps \ {"monitor_off"} : Does(ShutOff, {name})
<1>1. ShutOff = mipi_close \o Down
  BY DEF ShutOff, Down
<1>2. /\ mipi_close \in Seq(Operation) /\ Down \in Seq(Operation)
      /\ Only(mipi_close, CloseOps) /\ Only(Down, DownOps) /\ ClosesWell(mipi_close)
  BY CloseIs, DownIs
<1>3. Only(mipi_close, OffOps \ {"monitor_off"}) /\ Only(Down, OffOps \ {"monitor_off"})
  BY <1>2 DEF Only, CloseOps, DownOps, OffOps
<1>4. ~Does(mipi_close, {"rails_off"}) /\ ~Does(Down, {"close"})
  BY CloseIs, DownIs DEF CloseOps, DownOps
<1>5. ClosesWell(Down)
  BY <1>4, ClosesNot
<1>6. \A name \in OffOps \ {"monitor_off"} : Does(mipi_close, {name}) \/ Does(Down, {name})
  BY CloseIs, DownIs DEF CloseOps, DownOps, OffOps
<1>7. /\ ShutOff \in Seq(Operation) /\ Only(ShutOff, OffOps \ {"monitor_off"}) /\ ClosesWell(ShutOff)
  BY <1>1, <1>2, <1>3, <1>5, OnlyConcat, ClosesWellConcat, ConcatFacts
<1>8. \A name \in OffOps \ {"monitor_off"} : Does(ShutOff, {name})
  BY <1>1, <1>2, <1>6, DoesConcat
<1>9. Never(ShutOff, {"rails_off"}, {"close"})
  BY <1>1, <1>2, <1>4, Vacuous, NeverConcat
<1>10. ~Does(ShutOff, {"drive", "hs_on"}) /\ ~Does(ShutOff, {"drive"}) /\ ~Does(ShutOff, {"hs_on"})
  BY <1>7, OnlyDoes DEF OffOps
<1> QED
  BY <1>7, <1>8, <1>9, <1>10, Vacuous DEF SignalInside, ClosesWell

\* What switches off and gives no signal may come before what switches on.
LEMMA SwitchesOnLast ==
  ASSUME NEW s \in Seq(Operation), Never(s, {"rails_off"}, {"close"}), ClosesWell(s),
         ~Does(s, {"drive", "hs_on"}), ~Does(s, {"compare"})
  PROVE  SwitchesOn(s \o ShutOn)
<1>1. ShutOn \in Seq(Operation) /\ SwitchesOn(ShutOn) /\ SignalInside(ShutOn)
      /\ \A a \in Setters : Does(ShutOn, {a})
  BY ShutOnPlain, ShutOnSwitchesOn DEF SwitchesOn
<1>2. ~Does(s, {"drive"}) /\ ~Does(s, {"hs_on"})
  BY DEF Does
<1>3. ~Does(ShutOn, {"close"})
  BY ShutOnOnly DEF ShutOnOps, UpOps, WorkOps
<1>4. \A a \in Setters : Then(s \o ShutOn, Undoes(a), {a})
  BY <1>1, ThenConcat DEF SwitchesOn
<1>5. Signal = 2 => ThenIf(s \o ShutOn, Commands, {"hs_on", "config"}, {"drive"})
  <2>1. Signal = 2 => Does(ShutOn, {"drive"})
    BY <1>1 DEF Setters
  <2> QED
    BY <1>1, <2>1, ThenIfConcat DEF SwitchesOn
<1>6. /\ Never(s \o ShutOn, {"drive"}, {"config", "rails_on"})
      /\ Never(s \o ShutOn, {"hs_on"}, {"rails_on"})
  BY <1>1, <1>2, Vacuous, NeverConcat DEF SignalInside
<1>7. Never(s \o ShutOn, {"rails_off"}, {"close"})
  BY <1>1, <1>3, NeverConcat DEF SignalInside
<1>8. ThenIf(s \o ShutOn, {"drive", "hs_on"}, {"rails_off"}, {"close"})
  BY <1>1, ThenIfConcat DEF SignalInside
<1>9. ClosesWell(s \o ShutOn)
  BY <1>1, <1>3, ClosesNot, ClosesWellConcat
<1>10. ~Does(s \o ShutOn, {"compare"})
  BY <1>1, DoesConcat DEF SwitchesOn
<1> QED
  BY <1>4, <1>5, <1>6, <1>7, <1>8, <1>9, <1>10 DEF SwitchesOn, SignalInside, ClosesWell

BurnOps == {"extend", "power", "write", "unlock", "program", "lock"}

LEMMA BurnSwitchesOn ==
  ASSUME NEW k \in Kind, NEW v \in Value \cup {Blank}
  PROVE  /\ Burn(k, v) \in Seq(Operation) /\ SwitchesOn(Burn(k, v)) /\ ClosesWell(Burn(k, v))
         /\ Does(Burn(k, v), {"close"}) /\ \A a \in Setters : Does(Burn(k, v), {a})
<1>1. Burner(k, v) \in Seq(Operation) /\ Only(Burner(k, v), BurnOps)
  BY BurnerFacts DEF Only, BurnOps
<1>2. \A X : (\A name \in X : name \notin BurnOps) => ~Does(Burner(k, v), X)
  <2> SUFFICES ASSUME NEW X, \A name \in X : name \notin BurnOps
               PROVE  ~Does(Burner(k, v), X)
    OBVIOUS
  <2> QED
    BY <1>1, OnlyDoes
<1>3. /\ ~Does(Burner(k, v), {"close"}) /\ ~Does(Burner(k, v), {"rails_off"})
      /\ ~Does(Burner(k, v), {"drive", "hs_on"}) /\ ~Does(Burner(k, v), {"compare"})
  BY <1>2 DEF BurnOps
<1>4. /\ ShutOff \in Seq(Operation) /\ Never(ShutOff, {"rails_off"}, {"close"}) /\ ClosesWell(ShutOff)
      /\ Does(ShutOff, {"close"})
  BY ShutOffSwitchesOff DEF SignalInside, OffOps
<1>5. ~Does(ShutOff, {"drive", "hs_on"}) /\ ~Does(ShutOff, {"compare"})
  BY ShutOffSwitchesOff, OnlyDoes DEF OffOps
<1> DEFINE p == Burner(k, v) \o ShutOff
<1>6. /\ p \in Seq(Operation) /\ Never(p, {"rails_off"}, {"close"}) /\ ClosesWell(p)
      /\ ~Does(p, {"drive", "hs_on"}) /\ ~Does(p, {"compare"}) /\ Does(p, {"close"})
  <2>1. p \in Seq(Operation)
    BY <1>1, <1>4, ConcatFacts
  <2>2. Never(p, {"rails_off"}, {"close"})
    BY <1>1, <1>3, <1>4, Vacuous, NeverConcat
  <2>3. ClosesWell(p)
    BY <1>1, <1>3, <1>4, ClosesNot, ClosesWellConcat
  <2>4. ~Does(p, {"drive", "hs_on"}) /\ ~Does(p, {"compare"}) /\ Does(p, {"close"})
    BY <1>1, <1>3, <1>4, <1>5, DoesConcat
  <2> QED
    BY <2>1, <2>2, <2>3, <2>4
<1>7. Burn(k, v) = p \o ShutOn
  BY BurnIs
<1> HIDE DEF p
<1>8. /\ ShutOn \in Seq(Operation) /\ ~Does(ShutOn, {"close"}) /\ \A a \in Setters : Does(ShutOn, {a})
  BY ShutOnPlain, ShutOnSwitchesOn, ShutOnOnly DEF ShutOnOps, UpOps, WorkOps
<1>9. SwitchesOn(p \o ShutOn)
  BY <1>6, SwitchesOnLast
<1>10. ClosesWell(p \o ShutOn)
  BY <1>6, <1>8, ClosesNot, ClosesWellConcat
<1>11. Does(p \o ShutOn, {"close"}) /\ \A a \in Setters : Does(p \o ShutOn, {a})
  BY <1>6, <1>8, DoesConcat
<1> QED
  BY <1>6, <1>7, <1>8, <1>9, <1>10, <1>11, ConcatFacts

LEMMA ReadOnlyReads ==
  ASSUME NEW k \in Kind
  PROVE  Only(Read(k), {"times", "cell", "sleep_in"})
<1>1. \A i \in 1..3 : i = 1 \/ i = 2 \/ i = 3
  OBVIOUS
<1> QED
  BY <1>1, ReadFacts DEF Only

LEMMA OtpOnlyReads ==
  ASSUME NEW k \in Kind, NEW v \in Value
  PROVE  Only(Otp(k, v), ReadOps)
<1> DEFINE c == [do |-> "compare", kind |-> k, v |-> v]
<1>1. c \in Operation /\ c.do = "compare"
  BY DEF Operation, OpName
<1>2. <<c>> \in Seq(Operation) /\ Len(<<c>>) = 1 /\ <<c>>[1] = c /\ \A i \in 1..1 : i = 1
  BY <1>1
<1>3. Otp(k, v) = Read(k) \o <<c>>
  BY DEF Otp
<1> HIDE DEF c
<1>4. Only(<<c>>, ReadOps)
  BY <1>1, <1>2 DEF Only, ReadOps
<1>5. Only(Read(k), ReadOps)
  BY ReadOnlyReads DEF Only, ReadOps
<1>6. Read(k) \in Seq(Operation)
  BY ReadFacts
<1>7. Only(Read(k) \o <<c>>, ReadOps)
  BY <1>2, <1>4, <1>5, <1>6, OnlyConcat
<1> QED
  BY <1>3, <1>7

\* After its decision an OTP command only reads on, or burns and switches off and on again.
LEMMA AfterCompareSwitches ==
  ASSUME NEW o \in Operation, NEW h
  PROVE  WillBeOn(AfterCompare(o), h) \/ Only(AfterCompare(o), ReadOps)
<1> DEFINE k == o.kind
           v == o.v
           a == [do |-> "answer", kind |-> k, v |-> v]
           lost == k = "id" /\ ~hw.channels
           s == IF ~Needed(v) THEN <<>> ELSE (IF lost THEN <<>> ELSE Burn(k, v)) \o Read(k)
<1>1. k \in Kind /\ v \in Value \cup {Blank}
  BY DEF Operation
<1>2. a \in Operation /\ a.do = "answer"
  BY <1>1 DEF Operation, OpName
<1>3. AfterCompare(o) = s \o <<a>>
  BY DEF AfterCompare
<1>4. <<a>> \in Seq(Operation) /\ Only(<<a>>, {"answer"})
  <2>1. Len(<<a>>) = 1 /\ <<a>>[1] = a /\ \A i \in 1..1 : i = 1
    OBVIOUS
  <2> HIDE DEF a
  <2>2. <<a>> \in Seq(Operation)
    BY <1>2
  <2> QED
    BY <1>2, <2>1, <2>2 DEF Only
<1>5. CASE ~Needed(v) \/ lost
  <2>1. s \in Seq(Operation) /\ Only(s, ReadOps)
    <3>1. <<>> \in Seq(Operation) /\ Only(<<>>, ReadOps)
      BY EmptyPlain, EmptySeq DEF Only
    <3>2. Read(k) \in Seq(Operation) /\ Only(Read(k), ReadOps)
      BY <1>1, ReadFacts, ReadOnlyReads DEF Only, ReadOps
    <3>3. <<>> \o Read(k) = Read(k)
      BY <3>2, ConcatEmptySeq
    <3> QED
      BY <1>5, <3>1, <3>2, <3>3
  <2>2. Only(<<a>>, ReadOps)
    BY <1>4 DEF Only, ReadOps
  <2> HIDE DEF s, a
  <2> QED
    BY <1>3, <1>4, <2>1, <2>2, OnlyConcat
<1>6. CASE Needed(v) /\ ~lost
  <2> DEFINE b == Burn(k, v)
             r == Read(k)
  <2>1. /\ b \in Seq(Operation) /\ SwitchesOn(b) /\ ClosesWell(b)
        /\ Does(b, {"close"}) /\ \A x \in Setters : Does(b, {x})
    BY <1>1, BurnSwitchesOn
  <2>2. r \in Seq(Operation) /\ Only(r, {"times", "cell", "sleep_in"})
    BY <1>1, ReadFacts, ReadOnlyReads
  <2>3. AfterCompare(o) = (b \o r) \o <<a>>
    BY <1>3, <1>6
  <2> HIDE DEF a, b, r, s
  <2>4. b \o r \in Seq(Operation) /\ SwitchesOn(b \o r)
    <3>1. SwitchesOn(b \o r)
      BY <2>1, <2>2, SwitchesOnThen
    <3> QED
      BY <2>1, <2>2, <3>1, ConcatFacts
  <2>5. SwitchesOn((b \o r) \o <<a>>)
    <3>1. \A name \in {"answer"} : name \in {"times", "cell", "sleep_in", "answer", "monitor_on"}
      OBVIOUS
    <3> QED
      BY <1>4, <2>4, <3>1, SwitchesOnThen
  <2>6. ~Does(r, {"close"}) /\ ~Does(<<a>>, {"close"})
    BY <1>4, <2>2, OnlyDoes
  <2>7. ClosesWell((b \o r) \o <<a>>)
    BY <1>4, <2>1, <2>2, <2>4, <2>6, ClosesNot, ClosesWellConcat
  <2>8. /\ Does((b \o r) \o <<a>>, {"close"})
        /\ \A x \in Setters : Does((b \o r) \o <<a>>, {x})
    BY <1>4, <2>1, <2>2, <2>4, DoesConcat
  <2>9. PICK q : q = (b \o r) \o <<a>>
    OBVIOUS
  <2>10. q \in Seq(Operation)
    BY <1>4, <2>4, <2>9, ConcatFacts
  <2>11. q # <<>> => q[1].do # "close"
    <3>1. q # <<>> => Len(q) \in Nat \ {0}
      BY <2>10, TailFacts
    <3>2. \A n \in Nat \ {0} : 1 \in 1..n
      OBVIOUS
    <3>3. q # <<>> => 1 \in 1..Len(q)
      BY <3>1, <3>2, Zenon
    <3> QED
      BY <2>7, <2>9, <3>3 DEF ClosesWell
  <2>12. WillBeOn(q, h)
    BY <2>5, <2>8, <2>9, <2>11 DEF WillBeOn, ComesOn, Silent
  <2> QED
    BY <2>3, <2>9, <2>12
<1> QED
  BY <1>5, <1>6

-----------------------------------------------------------------------------
(* A step, and a command that is begun, keep what is said of the switching.  *)

\* What is said of a thread that runs alone and of what is left for it.
Promise(t, s) ==
    /\ what[t] = "on"  => WillBeOn(s, hw)
    /\ what[t] = "off" => WillBeOff(s, hw)
    /\ what[t] = "otp" /\ ~tainted => WillBeOn(s, hw) \/ (Only(s, ReadOps) /\ Agree(hw))
    /\ ~tainted => what[t] \in {"on", "off", "otp"}

LEMMA StepSwitching ==
  ASSUME IInv, NEW t \in Thread, NEW s, Steps(t, s)
  PROVE  Switching'
<1> DEFINE o == Head(s)
<1>1. PICK r : r = Rest(s)
  OBVIOUS
<1>2. /\ s \in Seq(Operation) /\ s # <<>> /\ o \in Operation /\ s = code[t] /\ BurnShape(s) /\ Typed
      /\ Do(t, o) /\ (o.do = "cell" => rd.times <= Len(chip.cells[o.kind]))
  BY DEF Steps, IInv, ChipInv
<1>3. /\ code[t] # <<>> /\ code'[t] = r /\ \A y \in Thread : y # t => code'[y] = code[y]
      /\ what \in [Thread -> {"none", "on", "off", "test", "otp"}] /\ mixed \subseteq Thread
      /\ tainted \in BOOLEAN
  BY <1>1 DEF IInv, ChipInv, Typed, Steps
<1>4. /\ what' = IF r = <<>> THEN [what EXCEPT ![t] = "none"] ELSE what
      /\ mixed' = IF r = <<>> THEN mixed \ {t} ELSE mixed
      /\ tainted' = (tainted /\ ~(r = <<>> /\ t \notin mixed /\ what[t] \in {"on", "off"}))
  BY <1>1 DEF Steps
<1>5. Becomes(o.do) /\ hw \in HwState /\ hw' \in HwState
  BY <1>2, DoBecomes, ReadKept DEF Typed
<1>6. \A y \in Thread : y # t /\ code[y] # <<>> => y \in mixed /\ tainted /\ t \in mixed
  BY <1>3 DEF IInv, ChipInv, OneAlone, Alone
<1>7. CASE ~Alone(t)
  <2>1. t \in mixed /\ tainted
    BY <1>7 DEF Alone
  <2>2. tainted'
    BY <1>4, <2>1
  <2>3. ASSUME NEW y \in Thread, code'[y] # <<>>
        PROVE  y \in mixed'
    <3>1. CASE y = t
      BY <1>3, <1>4, <2>1, <2>3, <3>1
    <3>2. CASE y # t
      BY <1>3, <1>4, <1>6, <2>3, <3>2
    <3> QED
      BY <3>1, <3>2
  <2> QED
    BY <2>2, <2>3 DEF Switching, Alone
<1>8. CASE Alone(t)
  <2>1. \A y \in Thread : y # t => code'[y] = <<>>
    BY <1>3, <1>6, <1>8 DEF Alone
  <2>2. Promise(t, s) /\ (~tainted => Lit(hw))
    BY <1>2, <1>3, <1>8 DEF IInv, Switching, Promise
  <2>3. o.do = "compare" => r = AfterCompare(o)
    BY <1>1, <1>2, RestFacts DEF BurnShape
  <2>4. o.do # "compare" => r = Tail(s)
    BY <1>1, <1>2, RestFacts DEF BurnShape
  \* What each kind of command makes of the switches.
  <2>5. ASSUME WillBeOn(s, hw)
        PROVE  WillBeOn(r, hw') /\ (Lit(hw) => Lit(hw'))
    <3>1. o.do # "compare"
      BY <1>2, <2>5, DoesTail DEF WillBeOn, SwitchesOn
    <3> QED
      BY <1>2, <1>5, <2>4, <2>5, <3>1, OnStep
  <2>6. ASSUME WillBeOff(s, hw)
        PROVE  WillBeOff(r, hw') /\ (Lit(hw) => Lit(hw'))
    BY <1>2, <1>5, <2>4, <2>6, OffStep
  <2>7. ASSUME Only(s, ReadOps), Agree(hw), Lit(hw)
        PROVE  /\ WillBeOn(r, hw') \/ (Only(r, ReadOps) /\ Agree(hw'))
               /\ Agree(hw') /\ Lit(hw')
    <3>1. o.do \in ReadOps /\ Only(Tail(s), ReadOps)
      BY <1>2, <2>7, OnlyTail
    <3>2. Agree(hw') /\ Lit(hw')
      BY <1>5, <2>7, <3>1, ReadStep
    <3>3. CASE o.do = "compare"
      <4>1. PICK h : h = hw'
        OBVIOUS
      <4>2. WillBeOn(AfterCompare(o), h) \/ Only(AfterCompare(o), ReadOps)
        BY <1>2, AfterCompareSwitches
      <4> QED
        BY <2>3, <3>2, <3>3, <4>1, <4>2
    <3>4. CASE o.do # "compare"
      BY <2>4, <3>1, <3>2, <3>4
    <3> QED
      BY <3>2, <3>3, <3>4
  <2>8. ~tainted => Lit(hw') /\ (what[t] \in {"on", "off", "otp"})
    BY <2>2, <2>5, <2>6, <2>7 DEF Promise
  <2>9. CASE r # <<>>
    <3>1. what' = what /\ mixed' = mixed /\ (tainted' <=> tainted)
      BY <1>3, <1>4, <2>9
    <3>2. /\ what[t] = "on"  => WillBeOn(r, hw')
          /\ what[t] = "off" => WillBeOff(r, hw')
          /\ what[t] = "otp" /\ ~tainted => WillBeOn(r, hw') \/ (Only(r, ReadOps) /\ Agree(hw'))
      BY <2>2, <2>5, <2>6, <2>7 DEF Promise
    <3>3. t \in Active'
      BY <1>3, <2>9 DEF Active
    <3> QED
      BY <1>3, <2>1, <2>8, <3>1, <3>2, <3>3 DEF Switching
  <2>10. CASE r = <<>>
    <3>1. \A y \in Thread : code'[y] = <<>>
      BY <1>3, <2>1, <2>10
    <3>2. ASSUME ~tainted'
          PROVE  Agree(hw') /\ Lit(hw')
      <4>1. ~tainted \/ what[t] \in {"on", "off"}
        BY <1>4, <3>2
      <4>2. CASE what[t] = "on"
        <5>1. ComesOn(r, hw')
          BY <2>2, <2>5, <4>2 DEF Promise, WillBeOn
        <5> QED
          BY <1>5, <2>10, <5>1, OnEnd
      <4>3. CASE what[t] = "off"
        <5>1. GoesOff(r, hw')
          BY <2>2, <2>6, <4>3 DEF Promise, WillBeOff
        <5> QED
          BY <1>5, <2>10, <5>1, OffEnd
      <4>4. CASE what[t] \notin {"on", "off"}
        <5>1. ~tainted /\ what[t] = "otp"
          BY <2>8, <4>1, <4>4
        <5>2. WillBeOn(s, hw) \/ (Only(s, ReadOps) /\ Agree(hw) /\ Lit(hw))
          BY <2>2, <5>1 DEF Promise
        <5>3. ComesOn(r, hw') \/ Agree(hw')
          BY <2>5, <2>7, <5>2 DEF WillBeOn
        <5>4. Agree(hw')
          BY <1>5, <2>10, <5>3, OnEnd
        <5> QED
          BY <2>8, <5>1, <5>4
      <4> QED
        BY <4>2, <4>3, <4>4
    <3> QED
      BY <3>1, <3>2 DEF Switching
  <2> QED
    BY <2>9, <2>10
<1> QED
  BY <1>7, <1>8

LEMMA BeginSwitching ==
  ASSUME IInv, NEW t \in Thread, NEW kind \in {"on", "off", "test", "otp"}, NEW ops, Begin(t, kind, ops),
         kind = "on"  => WillBeOn(ops, hw),
         kind = "off" => WillBeOff(ops, hw),
         kind = "otp" => Only(ops, ReadOps)
  PROVE  Switching'
<1>1. /\ hw' = hw /\ code[t] = <<>>
      /\ code' = [code EXCEPT ![t] = ops] /\ what' = [what EXCEPT ![t] = kind]
      /\ mixed' = IF Active = {} THEN mixed ELSE mixed \cup Active \cup {t}
      /\ tainted' = (tainted \/ Active # {} \/ kind = "test")
  BY DEF Begin
<1>2. /\ code'[t] = ops /\ \A y \in Thread : y # t => code'[y] = code[y]
      /\ what'[t] = kind
  BY <1>1 DEF IInv, ChipInv, Typed
<1>3. CASE Active # {}
  <2>1. tainted'
    BY <1>1, <1>3
  <2>2. \A y \in Thread : code'[y] # <<>> => y \in mixed'
    BY <1>1, <1>2, <1>3 DEF Active
  <2> QED
    BY <2>1, <2>2 DEF Switching, Alone
<1>4. CASE Active = {}
  <2>1. \A y \in Thread : y # t => code'[y] = <<>>
    BY <1>2, <1>4 DEF Active
  <2>2. ~tainted' => ~tainted /\ kind # "test"
    BY <1>1
  <2>3. ~tainted => Lit(hw) /\ Agree(hw)
    BY <1>4 DEF IInv, Switching
  <2>4. /\ kind = "on"  => WillBeOn(ops, hw')
        /\ kind = "off" => WillBeOff(ops, hw')
        /\ kind = "otp" /\ ~tainted' => Only(ops, ReadOps) /\ Agree(hw')
        /\ ~tainted' => kind \in {"on", "off", "otp"} /\ Lit(hw') /\ Agree(hw')
    BY <1>1, <2>2, <2>3
  <2> QED
    BY <1>2, <2>1, <2>4 DEF Switching
<1> QED
  BY <1>3, <1>4

LEMMA SilentAtFirst ==
  ASSUME NEW s \in Seq(Operation), ClosesWell(s), ~Does(s, {"rails_off"}) \/ Does(s, {"close"}), NEW h
  PROVE  Silent(s, h)
<1>1. s # <<>> => Len(s) \in Nat \ {0}
  BY TailFacts
<1>2. \A n \in Nat \ {0} : 1 \in 1..n
  OBVIOUS
<1>3. s # <<>> => 1 \in 1..Len(s)
  BY <1>1, <1>2, Zenon
<1>4. s # <<>> => s[1].do # "close"
  BY <1>3 DEF ClosesWell
<1> QED
  BY <1>4 DEF Silent

\* Whatever the switches are when SHUTON, or what is left of GAMMA_OTP, begins.
LEMMA ShutOnWill ==
  ASSUME NEW h
  PROVE  WillBeOn(ShutOn, h) /\ WillBeOn(ShutOn \o Ops(<<"monitor_on">>), h)
<1> DEFINE m == Lone("monitor_on")
           s == ShutOn \o m
<1>1. /\ ShutOn \in Seq(Operation) /\ SwitchesOn(ShutOn) /\ \A a \in Setters : Does(ShutOn, {a})
  BY ShutOnPlain, ShutOnSwitchesOn
<1>2. ~Does(ShutOn, {"close"}) /\ ~Does(ShutOn, {"rails_off"})
  BY ShutOnOnly DEF ShutOnOps, UpOps, WorkOps
<1>3. m \in Seq(Operation) /\ Only(m, {"monitor_on"}) /\ ~Does(m, {"close"}) /\ ~Does(m, {"rails_off"})
  <2>1. "monitor_on" \in OpName
    BY DEF OpName, Switch
  <2> QED
    BY <2>1, LoneIs
<1> HIDE DEF m
<1>4. s \in Seq(Operation) /\ ~Does(s, {"close"}) /\ ~Does(s, {"rails_off"}) /\ \A a \in Setters : Does(s, {a})
  <2>1. s \in Seq(Operation)
    BY <1>1, <1>3, ConcatFacts
  <2>2. \A B : Does(s, B) <=> Does(ShutOn, B) \/ Does(m, B)
    BY <1>1, <1>3, DoesConcat
  <2> HIDE DEF s
  <2> QED
    BY <1>1, <1>2, <1>3, <2>1, <2>2
<1>5. SwitchesOn(s)
  <2>1. \A name \in {"monitor_on"} : name \in {"times", "cell", "sleep_in", "answer", "monitor_on"}
    OBVIOUS
  <2> QED
    BY <1>1, <1>3, <2>1, SwitchesOnThen
<1>6. s = ShutOn \o Ops(<<"monitor_on">>)
  BY DEF m, Lone
<1> HIDE DEF s
<1>7. WillBeOn(ShutOn, h)
  BY <1>1, <1>2, ClosesNot, SilentAtFirst DEF WillBeOn, ComesOn
<1>8. WillBeOn(s, h)
  BY <1>4, <1>5, ClosesNot, SilentAtFirst DEF WillBeOn, ComesOn
<1> QED
  BY <1>6, <1>7, <1>8

LEMMA ShutDwnWill ==
  ASSUME NEW h
  PROVE  WillBeOff(Ops(<<"monitor_off">>) \o ShutOff, h)
<1> DEFINE m == Lone("monitor_off")
           s == m \o ShutOff
<1>1. /\ ShutOff \in Seq(Operation) /\ Only(ShutOff, OffOps \ {"monitor_off"}) /\ SignalInside(ShutOff)
      /\ ClosesWell(ShutOff) /\ \A name \in OffOps \ {"monitor_off"} : Does(ShutOff, {name})
  BY ShutOffSwitchesOff
<1>2. /\ m \in Seq(Operation) /\ Only(m, {"monitor_off"}) /\ \A B : Does(m, B) <=> "monitor_off" \in B
  <2>1. "monitor_off" \in OpName
    BY DEF OpName, Switch
  <2> QED
    BY <2>1, LoneIs
<1> HIDE DEF m
<1>3. /\ s \in Seq(Operation) /\ \A B : Does(s, B) <=> Does(m, B) \/ Does(ShutOff, B)
  BY <1>1, <1>2, ConcatFacts, DoesConcat
<1>4. Only(s, OffOps)
  <2>1. Only(m, OffOps) /\ Only(ShutOff, OffOps)
    BY <1>1, <1>2 DEF Only, OffOps
  <2> QED
    BY <1>1, <1>2, <2>1, OnlyConcat
<1>5. ClosesWell(s)
  <2>1. ~Does(m, {"close"})
    BY <1>2
  <2> QED
    BY <1>1, <1>2, <2>1, ClosesNot, ClosesWellConcat
<1>6. Never(s, {"rails_off"}, {"close"})
  <2>1. ~Does(m, {"rails_off"})
    BY <1>2
  <2> QED
    BY <1>1, <1>2, <2>1, Vacuous, NeverConcat DEF SignalInside
<1> HIDE DEF s
<1>7. \A name \in OffOps : Does(s, {name})
  BY <1>1, <1>2, <1>3
<1>8. ~Does(s, {"drive", "hs_on"}) /\ ~Does(s, {"drive"}) /\ ~Does(s, {"hs_on"})
  BY <1>4, OnlyDoes DEF OffOps
<1>9. SignalInside(s)
  BY <1>5, <1>6, <1>8, Vacuous DEF SignalInside, ClosesWell
<1>10. GoesOff(s, h) /\ Does(s, {"close"})
  BY <1>7 DEF GoesOff, OffOps
<1>11. Silent(s, h)
  BY <1>3, <1>5, <1>10, SilentAtFirst
<1>12. WillBeOff(s, h)
  BY <1>4, <1>9, <1>10, <1>11 DEF WillBeOff, SwitchesOff
<1> QED
  BY <1>12 DEF s, m, Lone

LEMMA NextSwitching == IInv /\ Next => Switching'
<1> SUFFICES ASSUME IInv, Next
             PROVE  Switching'
  OBVIOUS
<1>1. "server" \in Thread /\ \A t \in Pool : t \in Thread
  BY DEF Thread
<1>2. CASE \E t \in Thread : Step(t)
  <2>1. PICK t \in Thread : Step(t)
    BY <1>2
  <2>2. PICK s : Steps(t, s)
    BY <2>1, StepsAre DEF IInv, ChipInv
  <2> QED
    BY <2>2, StepSwitching
<1>3. CASE RecvShutOn
  BY <1>1, <1>3, ShutOnWill, BeginSwitching DEF RecvShutOn
<1>4. CASE RecvShutOnNoFile
  BY <1>1, <1>4, BeginSwitching DEF RecvShutOnNoFile
<1>5. CASE RecvShutDwn
  BY <1>1, <1>5, ShutDwnWill, BeginSwitching DEF RecvShutDwn
<1>6. CASE RecvTst
  BY <1>1, <1>6, BeginSwitching DEF RecvTst
<1>7. CASE RecvMonitor
  BY <1>1, <1>7, BeginSwitching DEF RecvMonitor
<1>8. CASE RecvMipi
  BY <1>1, <1>8, BeginSwitching DEF RecvMipi
<1>9. CASE RecvGammaOtp
  BY <1>1, <1>9, ShutOnWill, BeginSwitching DEF RecvGammaOtp
<1>10. CASE RecvReadInfo
  <2>1. PICK k \in Kind : Begin("server", "otp", Read(k))
    BY <1>10 DEF RecvReadInfo
  <2>2. Only(Read(k), ReadOps)
    BY ReadOnlyReads DEF Only, ReadOps
  <2> QED
    BY <1>1, <2>1, <2>2, BeginSwitching
<1>11. CASE RecvOtp
  <2>1. PICK k \in Kind, v \in Value : Begin("server", "otp", Otp(k, v))
    BY <1>11 DEF RecvOtp
  <2>2. Only(Otp(k, v), ReadOps)
    BY OtpOnlyReads
  <2> QED
    BY <1>1, <2>1, <2>2, BeginSwitching
<1> QED
  BY <1>2, <1>3, <1>4, <1>5, <1>6, <1>7, <1>8, <1>9, <1>10, <1>11 DEF Next

\* Everything is off when main has switched it off.
LEMMA InitSwitching == Init => Switching
<1> SUFFICES ASSUME Init
             PROVE  Switching
  OBVIOUS
<1>1. hw = Off /\ \A t \in Thread : code[t] = <<>>
  BY DEF Init
<1>2. Agree(hw) /\ Lit(hw)
  BY <1>1 DEF Off, Agree, Lit
<1> QED
  BY <1>1, <1>2 DEF Switching

\* The invariant of the chip and of the switching together, kept by every command
\* and every operation of a thread.
THEOREM Inductive == Spec => []IInv
<1>1. Init => IInv
  BY InitChip, InitSwitching DEF IInv
<1>2. IInv /\ [Next]_vars => IInv'
  <2> SUFFICES ASSUME IInv, [Next]_vars
               PROVE  IInv'
    OBVIOUS
  <2>1. CASE Next
    BY <2>1, NextChip, NextSwitching DEF IInv
  <2>2. CASE UNCHANGED vars
    <3>1. ChipInv'
      BY <2>2, ChipStutters DEF IInv
    <3>2. Switching'
      <4>1. hw' = hw /\ code' = code /\ what' = what /\ mixed' = mixed /\ tainted' = tainted
        BY <2>2 DEF vars
      <4>2. Active' = Active /\ \A t : Alone(t)' <=> Alone(t)
        BY <4>1 DEF Active, Alone
      <4> QED
        BY <4>1, <4>2 DEF IInv, Switching
    <3> QED
      BY <3>1, <3>2 DEF IInv
  <2> QED
    BY <2>1, <2>2
<1> QED
  BY <1>1, <1>2, PTL DEF Spec

\* A SHUTON or SHUTDWN that runs alone repairs whatever earlier mixtures left: at
\* rest the bridge, its signal, FPGA_CLOCK_REGA8 and pg_pwr_status agree with what
\* the server was told and the board was asked for (client_pg_shutON), and the
\* supply does unless the board has not carried out the last power command.
THEOREM AllAgree == Spec => []AtRestAllAgree
<1>1. IInv => AtRestAllAgree
  <2> SUFFICES ASSUME IInv, Active = {}, ~tainted
               PROVE  AtRestAllAgree
    BY DEF AtRestAllAgree
  <2>1. hw \in HwState /\ Agree(hw)
    BY DEF IInv, ChipInv, Typed, Switching
  <2> QED
    BY <2>1, HwFields DEF AtRestAllAgree, Agree, PowerLost
<1> QED
  BY <1>1, Inductive, PTL

\* mipi_channel_close comes before the supply is asked to go, and mipi_working after
\* it was asked to come: while nothing was mixed, a panel without supply is driven
\* only where the board has not carried out the last power command.
THEOREM RailsForSignal == Spec => []SignalNeedsRails
<1>1. IInv => SignalNeedsRails
  <2> SUFFICES ASSUME IInv, hw.driving, ~tainted
               PROVE  hw.rails \/ PowerLost
    BY DEF SignalNeedsRails
  <2>1. hw \in HwState /\ hw.asked
    BY DEF IInv, ChipInv, Typed, Switching, Lit
  <2> QED
    BY <2>1 DEF PowerLost
<1> QED
  BY <1>1, Inductive, PTL
============================================================================
