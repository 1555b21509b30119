--------------------------- MODULE EventBus_proofs --------------------------
(***************************************************************************)
(* Theorems about EventBus for every number of subscribers and of events,  *)
(* every limit of its buffers, and for any number of failures.             *)
(***************************************************************************)
EXTENDS EventBus, SequenceTheorems, WellFoundedInduction, TLAPS

----------------------------------------------------------------------------
\* The naturals have least elements: the induction of what follows.
LEMMA NatMin ==
    ASSUME NEW T \in SUBSET Nat, T # {}
    PROVE  \E n \in T : \A m \in T : n <= m
<1>1. PICK x \in T : \A y \in T : ~(<<y, x>> \in OpToRel(<, Nat))
  BY NatLessThanWellFounded, WFMin
<1>2. \A y \in T : ~(y < x)
  BY <1>1 DEF OpToRel
<1> QED BY <1>2

\* What a sequence holds, and that it holds it once.
NoRepeats(q) == \A i, j \in 1..Len(q) : q[i] = q[j] => i = j

\* An element of a sequence is what it has at some index.
LEMMA InElements == \A q, x : x \in Elements(q) <=> \E i \in 1..Len(q) : q[i] = x
BY DEF Elements

\* The empty sequence holds nothing, so nothing twice.
LEMMA OfEmpty == Elements(<<>>) = {} /\ NoRepeats(<<>>)
BY DEF Elements, NoRepeats

\* The elements of a sequence over S are in S.
LEMMA ElementsIn ==
    ASSUME NEW S, NEW q \in Seq(S)
    PROVE  Elements(q) \subseteq S
BY DEF Elements

\* A sequence over a set is one over every larger set.
LEMMA Wider ==
    ASSUME NEW S, NEW T, S \subseteq T, NEW q \in Seq(S)
    PROVE  q \in Seq(T)
<1>1. Len(q) \in Nat /\ q \in [1..Len(q) -> S]
  OBVIOUS
<1>2. q \in [1..Len(q) -> T]
  BY <1>1
<1> QED BY <1>1, <1>2

\* A sequence of one element.
LEMMA Single ==
    ASSUME NEW S, NEW x \in S, NEW q, q = <<x>>
    PROVE  /\ q \in Seq(S) /\ q # <<>> /\ Len(q) = 1 /\ q[1] = x /\ Head(q) = x /\ Tail(q) = <<>>
           /\ Elements(q) = {x}
<1>1. q \in Seq(S) /\ q # <<>> /\ Len(q) = 1 /\ q[1] = x /\ Head(q) = x /\ Tail(q) = <<>>
  OBVIOUS
<1>2. Elements(q) = {x}
  BY <1>1 DEF Elements
<1> QED BY <1>1, <1>2

\* Append adds its element, and keeps a sequence free of repetitions if the element
\* is new.
LEMMA WithAppended ==
    ASSUME NEW S, NEW q \in Seq(S), NEW x \in S
    PROVE  /\ Append(q, x) \in Seq(S) /\ Append(q, x) # <<>>
           /\ Elements(Append(q, x)) = Elements(q) \cup {x}
           /\ NoRepeats(q) /\ x \notin Elements(q) => NoRepeats(Append(q, x))
<1> DEFINE a == Append(q, x)
<1>1. /\ a \in Seq(S) /\ Len(a) = Len(q) + 1 /\ Len(q) \in Nat
      /\ \A i \in 1..Len(q) : a[i] = q[i]
      /\ a[Len(q) + 1] = x
  BY AppendProperties
<1> HIDE DEF a
<1>2. a # <<>>
  BY <1>1
<1>3. Elements(a) = Elements(q) \cup {x}
  <2>1. ASSUME NEW y \in Elements(a) PROVE y \in Elements(q) \cup {x}
    <3>1. PICK i \in 1..Len(a) : a[i] = y
      BY <2>1, InElements
    <3>2. CASE i <= Len(q)
      BY <1>1, <3>1, <3>2, InElements
    <3>3. CASE i = Len(q) + 1
      BY <1>1, <3>1, <3>3
    <3> QED BY <1>1, <3>2, <3>3
  <2>2. ASSUME NEW y \in Elements(q) PROVE y \in Elements(a)
    <3>1. PICK i \in 1..Len(q) : q[i] = y
      BY <2>2, InElements
    <3>2. i \in 1..Len(a) /\ a[i] = y
      BY <1>1, <3>1
    <3> QED BY <3>2, InElements
  <2>3. x \in Elements(a)
    BY <1>1, InElements
  <2> QED BY <2>1, <2>2, <2>3
<1>4. ASSUME NoRepeats(q), x \notin Elements(q) PROVE NoRepeats(a)
  <2>1. \A i \in 1..Len(q) : q[i] # x
    BY <1>4, InElements
  <2> QED BY <1>1, <1>4, <2>1 DEF NoRepeats
<1> QED BY <1>1, <1>2, <1>3, <1>4 DEF a

\* A concatenation holds what its parts hold.
LEMMA Concatenated ==
    ASSUME NEW S, NEW p \in Seq(S), NEW q \in Seq(S)
    PROVE  p \o q \in Seq(S) /\ Elements(p \o q) = Elements(p) \cup Elements(q)
<1> DEFINE c == p \o q
<1>1. /\ c \in Seq(S) /\ Len(c) = Len(p) + Len(q) /\ Len(p) \in Nat /\ Len(q) \in Nat
      /\ \A i \in 1..(Len(p) + Len(q)) : c[i] = IF i <= Len(p) THEN p[i] ELSE q[i - Len(p)]
  BY ConcatProperties
<1> HIDE DEF c
<1>2. ASSUME NEW y \in Elements(c) PROVE y \in Elements(p) \cup Elements(q)
  <2>1. PICK i \in 1..Len(c) : c[i] = y
    BY <1>2, InElements
  <2>2. CASE i <= Len(p)
    BY <1>1, <2>1, <2>2, InElements
  <2>3. CASE i > Len(p)
    <3>1. i - Len(p) \in 1..Len(q) /\ q[i - Len(p)] = y
      BY <1>1, <2>1, <2>3
    <3> QED BY <3>1, InElements
  <2> QED BY <1>1, <2>2, <2>3
<1>3. ASSUME NEW y \in Elements(p) PROVE y \in Elements(c)
  <2>1. PICK i \in 1..Len(p) : p[i] = y
    BY <1>3, InElements
  <2>2. i \in 1..Len(c) /\ c[i] = y
    BY <1>1, <2>1
  <2> QED BY <2>2, InElements
<1>4. ASSUME NEW y \in Elements(q) PROVE y \in Elements(c)
  <2>1. PICK i \in 1..Len(q) : q[i] = y
    BY <1>4, InElements
  <2>2. /\ i + Len(p) \in 1..(Len(p) + Len(q)) /\ ~(i + Len(p) <= Len(p))
        /\ (i + Len(p)) - Len(p) = i
    BY <1>1, <2>1
  <2>3. c[i + Len(p)] = y
    BY <1>1, <2>1, <2>2
  <2> QED BY <1>1, <2>2, <2>3, InElements
<1> QED BY <1>1, <1>2, <1>3, <1>4 DEF c

\* The first element and the others.
LEMMA HeadAndTail ==
    ASSUME NEW S, NEW q \in Seq(S), q # <<>>
    PROVE  /\ Head(q) \in S /\ Tail(q) \in Seq(S)
           /\ Len(Tail(q)) = Len(q) - 1 /\ Len(q) \in Nat \ {0}
           /\ \A i \in 1..Len(Tail(q)) : Tail(q)[i] = q[i + 1]
           /\ Head(q) = q[1]
           /\ Elements(q) = {Head(q)} \cup Elements(Tail(q))
           /\ NoRepeats(q) => NoRepeats(Tail(q)) /\ Head(q) \notin Elements(Tail(q))
<1> DEFINE t == Tail(q)
<1>1. /\ Head(q) = q[1] /\ Head(q) \in S /\ t \in Seq(S) /\ Len(t) = Len(q) - 1
      /\ Len(q) \in Nat \ {0}
      /\ \A i \in 1..Len(t) : t[i] = q[i + 1]
  BY HeadTailProperties, EmptySeq
<1> HIDE DEF t
<1>2. ASSUME NEW y \in Elements(q) PROVE y \in {q[1]} \cup Elements(t)
  <2>1. PICK i \in 1..Len(q) : q[i] = y
    BY <1>2, InElements
  <2>2. CASE i = 1
    BY <2>1, <2>2
  <2>3. CASE i > 1
    <3>1. i - 1 \in 1..Len(t) /\ t[i - 1] = y
      BY <1>1, <2>1, <2>3
    <3> QED BY <3>1, InElements
  <2> QED BY <1>1, <2>2, <2>3
<1>3. ASSUME NEW y \in Elements(t) PROVE y \in Elements(q)
  <2>1. PICK i \in 1..Len(t) : t[i] = y
    BY <1>3, InElements
  <2>2. i + 1 \in 1..Len(q) /\ q[i + 1] = y
    BY <1>1, <2>1
  <2> QED BY <2>2, InElements
<1>4. q[1] \in Elements(q)
  BY <1>1, InElements
<1>5. ASSUME NoRepeats(q) PROVE NoRepeats(t) /\ q[1] \notin Elements(t)
  <2>1. \A i \in 1..Len(t) : i + 1 \in 1..Len(q) /\ t[i] = q[i + 1]
    BY <1>1
  <2>2. 1 \in 1..Len(q) /\ \A i \in 1..Len(t) : i \in Nat /\ i # 0
    BY <1>1
  <2>3. \A i \in 1..Len(t) : t[i] # q[1]
    BY <1>5, <2>1, <2>2 DEF NoRepeats
  <2>4. NoRepeats(t)
    BY <1>5, <2>1, <2>2 DEF NoRepeats
  <2> QED BY <2>3, <2>4, InElements
<1> QED BY <1>1, <1>2, <1>3, <1>4, <1>5 DEF t

\* A stretch of a sequence.
LEMMA Stretch ==
    ASSUME NEW S, NEW q \in Seq(S), NEW m \in Nat \ {0}, NEW n \in Nat, n <= Len(q)
    PROVE  /\ SubSeq(q, m, n) \in Seq(S)
           /\ Len(SubSeq(q, m, n)) = IF m <= n THEN n - m + 1 ELSE 0
           /\ \A i \in 1..Len(SubSeq(q, m, n)) : SubSeq(q, m, n)[i] = q[m + i - 1]
<1>1. Len(q) \in Nat /\ \A i \in 1..Len(q) : q[i] \in S
  OBVIOUS
<1>2. \A i \in m..n : q[i] \in S
  BY <1>1
<1>3. /\ SubSeq(q, m, n) \in Seq(S)
      /\ Len(SubSeq(q, m, n)) = IF m <= n THEN n - m + 1 ELSE 0
      /\ \A i \in 1..(n - m + 1) : SubSeq(q, m, n)[i] = q[m + i - 1]
  BY <1>2, SubSeqProperties
<1> DEFINE r == SubSeq(q, m, n)
<1> HIDE DEF r
<1>4. r \in Seq(S) /\ Len(r) = (IF m <= n THEN n - m + 1 ELSE 0)
      /\ \A i \in 1..(n - m + 1) : r[i] = q[m + i - 1]
  BY <1>3 DEF r
<1>5. \A i \in 1..Len(r) : r[i] = q[m + i - 1]
  BY <1>4
<1> QED BY <1>4, <1>5 DEF r

\* What a stretch of a sequence holds, it has at an index of the stretch.
LEMMA StretchHolds ==
    ASSUME NEW S, NEW q \in Seq(S), NEW m \in Nat \ {0}, NEW n \in Nat, n <= Len(q)
    PROVE  /\ \A x \in Elements(SubSeq(q, m, n)) : \E i \in m..n : i \in 1..Len(q) /\ q[i] = x
           /\ NoRepeats(q) => NoRepeats(SubSeq(q, m, n))
<1> DEFINE r == SubSeq(q, m, n)
<1>1. /\ Len(r) = IF m <= n THEN n - m + 1 ELSE 0
      /\ \A i \in 1..Len(r) : r[i] = q[m + i - 1]
  BY Stretch
<1> HIDE DEF r
<1>2. Len(q) \in Nat
  OBVIOUS
<1>3. \A i \in 1..Len(r) : m + i - 1 \in m..n /\ m + i - 1 \in 1..Len(q) /\ i \in Nat
  BY <1>1, <1>2
<1>4. ASSUME NEW x \in Elements(r) PROVE \E i \in m..n : i \in 1..Len(q) /\ q[i] = x
  <2>1. PICK i \in 1..Len(r) : r[i] = x
    BY <1>4, InElements
  <2> QED BY <1>1, <1>3, <2>1
<1>5. ASSUME NoRepeats(q), NEW i \in 1..Len(r), NEW j \in 1..Len(r), r[i] = r[j] PROVE i = j
  <2>1. m + i - 1 = m + j - 1
    BY <1>1, <1>3, <1>5 DEF NoRepeats
  <2> QED BY <1>3, <2>1
<1> QED BY <1>4, <1>5 DEF r, NoRepeats

\* The parts that the buffers take of their events.
LEMMA TakenApart ==
    ASSUME NEW S, NEW q \in Seq(S), NEW n \in Nat
    PROVE  /\ FirstOf(q, n) \in Seq(S) /\ Without(q, n) \in Seq(S)
           /\ q # <<>> /\ n # 0 => FirstOf(q, n) # <<>>
           /\ Elements(FirstOf(q, n)) \subseteq Elements(q)
           /\ Elements(Without(q, n)) \subseteq Elements(q)
           /\ NoRepeats(q) => /\ NoRepeats(FirstOf(q, n)) /\ NoRepeats(Without(q, n))
                              /\ Elements(FirstOf(q, n)) \cap Elements(Without(q, n)) = {}
<1>0. Len(q) \in Nat /\ (q # <<>> => Len(q) # 0)
  BY EmptySeq
<1>1. /\ Without(q, n) \in Seq(S)
      /\ \A x \in Elements(Without(q, n)) : \E i \in (n + 1)..Len(q) : i \in 1..Len(q) /\ q[i] = x
      /\ NoRepeats(q) => NoRepeats(Without(q, n))
  BY <1>0, Stretch, StretchHolds DEF Without
<1>2. /\ FirstOf(q, n) \in Seq(S)
      /\ q # <<>> /\ n # 0 => FirstOf(q, n) # <<>>
      /\ \A x \in Elements(FirstOf(q, n)) : \E i \in 1..n : i \in 1..Len(q) /\ q[i] = x
      /\ NoRepeats(q) => NoRepeats(FirstOf(q, n))
  <2>1. CASE Len(q) > n
    <3>1. SubSeq(q, 1, n) \in Seq(S) /\ Len(SubSeq(q, 1, n)) = n
      BY <1>0, <2>1, Stretch
    <3>2. /\ \A x \in Elements(SubSeq(q, 1, n)) : \E i \in 1..n : i \in 1..Len(q) /\ q[i] = x
          /\ NoRepeats(q) => NoRepeats(SubSeq(q, 1, n))
      BY <1>0, <2>1, StretchHolds
    <3>3. FirstOf(q, n) = SubSeq(q, 1, n)
      BY <2>1 DEF FirstOf
    <3>4. n # 0 => SubSeq(q, 1, n) # <<>>
      <4>1. Len(<<>>) = 0
        OBVIOUS
      <4> QED BY <3>1, <4>1
    <3> QED BY <3>1, <3>2, <3>3, <3>4
  <2>2. CASE ~(Len(q) > n)
    <3>1. FirstOf(q, n) = q
      BY <2>2 DEF FirstOf
    <3>2. \A i \in 1..Len(q) : i \in 1..n
      BY <1>0, <2>2
    <3> QED BY <3>1, <3>2, InElements
  <2> QED BY <2>1, <2>2
<1>3. /\ Elements(FirstOf(q, n)) \subseteq Elements(q)
      /\ Elements(Without(q, n)) \subseteq Elements(q)
  BY <1>1, <1>2, InElements
<1>4. ASSUME NoRepeats(q), NEW x \in Elements(FirstOf(q, n)), x \in Elements(Without(q, n))
      PROVE  FALSE
  <2>1. PICK i \in 1..n : i \in 1..Len(q) /\ q[i] = x
    BY <1>2, <1>4
  <2>2. PICK j \in (n + 1)..Len(q) : j \in 1..Len(q) /\ q[j] = x
    BY <1>1, <1>4
  <2>3. i = j
    BY <1>4, <2>1, <2>2 DEF NoRepeats
  <2> QED BY <1>0, <2>3
<1> QED BY <1>1, <1>2, <1>3, <1>4

\* The last n elements of a sequence.
LEMMA LastKept ==
    ASSUME NEW S, NEW q \in Seq(S), NEW n \in Nat
    PROVE  /\ LastOf(q, n) \in Seq(S) /\ Len(LastOf(q, n)) <= n
           /\ Elements(LastOf(q, n)) \subseteq Elements(q)
           /\ NoRepeats(q) => NoRepeats(LastOf(q, n))
<1>0. Len(q) \in Nat
  OBVIOUS
<1>1. CASE Len(q) > n
  <2> DEFINE m == Len(q) - n + 1
  <2>1. m \in Nat \ {0} /\ LastOf(q, n) = SubSeq(q, m, Len(q))
    BY <1>0, <1>1 DEF LastOf
  <2>2. Len(q) - m + 1 = n /\ (m > Len(q) => n = 0)
    BY <1>0, <1>1
  <2> HIDE DEF m
  <2>3. LastOf(q, n) \in Seq(S) /\ Len(LastOf(q, n)) = IF m <= Len(q) THEN Len(q) - m + 1 ELSE 0
    BY <1>0, <2>1, Stretch
  <2>4. /\ \A x \in Elements(LastOf(q, n)) : \E i \in m..Len(q) : i \in 1..Len(q) /\ q[i] = x
        /\ NoRepeats(q) => NoRepeats(LastOf(q, n))
    BY <1>0, <2>1, StretchHolds
  <2>5. Elements(LastOf(q, n)) \subseteq Elements(q)
    BY <2>4, InElements
  <2> QED BY <2>2, <2>3, <2>4, <2>5
<1>2. CASE ~(Len(q) > n)
  BY <1>0, <1>2 DEF LastOf
<1> QED BY <1>1, <1>2

\* What lies behind a bookmark, by induction on the length.
LEMMA BehindBookmark ==
    ASSUME NEW S, NEW q \in Seq(S), NEW e
    PROVE  After(q, e) \in Seq(S) /\ Elements(After(q, e)) \subseteq Elements(q)
<1> DEFINE N == Len(q)
           Step(f, n) == IF n = 0 THEN <<>>
                         ELSE IF q[n] > e THEN Append(f[n - 1], q[n]) ELSE f[n - 1]
           Is(f, n) == f \in [0..n -> Seq(Elements(q))] /\ \A i \in 0..n : f[i] = Step(f, i)
           F == CHOOSE f : f = [n \in 0..N |-> Step(f, n)]
<1>1. N \in Nat /\ \A n \in 1..N : q[n] \in Elements(q)
  BY InElements
<1>2. After(q, e) = F[N]
  BY DEF After
<1> HIDE DEF F
<1>3. ASSUME NEW n \in 1..N, NEW g \in Seq(Elements(q))
      PROVE  (IF q[n] > e THEN Append(g, q[n]) ELSE g) \in Seq(Elements(q))
  BY <1>1, AppendProperties
<1>4. \A n \in 0..N : \E f : Is(f, n)
  <2> DEFINE T == {n \in 0..N : ~\E f : Is(f, n)}
  <2> SUFFICES ASSUME T # {} PROVE FALSE
    OBVIOUS
  <2>1. PICK n \in T : \A m \in T : n <= m
    <3>1. T \in SUBSET Nat
      OBVIOUS
    <3> HIDE DEF T
    <3> QED BY <3>1, NatMin
  <2>a. n \in 0..N /\ ~(\E f : Is(f, n)) /\ \A m \in 0..N : m < n => \E f : Is(f, m)
    <3> DEFINE P(m) == \E f : Is(f, m)
    <3>1. n \in 0..N /\ ~P(n) /\ \A m \in 0..N : ~P(m) => n <= m
      BY <2>1
    <3> HIDE DEF P
    <3>2. \A m \in 0..N : m < n => P(m)
      BY <1>1, <3>1
    <3> QED BY <3>1, <3>2 DEF P
  <2> HIDE DEF T
  <2>2. CASE n = 0
    <3> DEFINE f == [i \in 0..0 |-> <<>>]
    <3>1. f \in [0..0 -> Seq(Elements(q))] /\ \A i \in 0..0 : i = 0 /\ f[i] = <<>>
      OBVIOUS
    <3> QED BY <2>a, <2>2, <3>1
  <2>3. CASE n # 0
    <3>1. n \in 1..N /\ n - 1 \in 0..N /\ n - 1 < n
      BY <1>1, <2>a, <2>3
    <3>2. PICK f : Is(f, n - 1)
      BY <2>a, <3>1
    <3> DEFINE g == [i \in 0..n |-> IF i < n THEN f[i] ELSE Step(f, n)]
    <3>3. f[n - 1] \in Seq(Elements(q))
      BY <3>1, <3>2
    <3>4. Step(f, n) \in Seq(Elements(q))
      BY <1>3, <3>1, <3>3
    <3>5. g \in [0..n -> Seq(Elements(q))]
      BY <3>1, <3>2, <3>4
    <3>6. ASSUME NEW i \in 0..n PROVE g[i] = Step(g, i)
      <4>1. CASE i < n
        <5>1. i \in 0..(n - 1) /\ g[i] = f[i] /\ (i # 0 => i - 1 \in 0..n /\ i - 1 < n)
          BY <3>1, <4>1
        <5>2. i # 0 => g[i - 1] = f[i - 1]
          BY <5>1
        <5> QED BY <3>2, <5>1, <5>2
      <4>2. CASE i = n
        <5>1. g[i] = Step(f, n) /\ g[n - 1] = f[n - 1]
          BY <3>1, <4>2
        <5> QED BY <4>2, <5>1
      <4> QED BY <3>1, <4>1, <4>2
    <3>7. Is(g, n)
      BY <3>5, <3>6
    <3> QED BY <2>a, <3>7
  <2> QED BY <2>2, <2>3
<1>5. F = [n \in 0..N |-> Step(F, n)]
  <2>1. PICK f : Is(f, N)
    <3>1. N \in 0..N
      BY <1>1
    <3> QED BY <1>4, <3>1, Zenon
  <2>2. f = [n \in 0..N |-> Step(f, n)]
    BY <2>1
  <2> QED BY <2>2 DEF F
<1>6. \A n \in 0..N : F[n] \in Seq(Elements(q))
  <2> DEFINE T == {n \in 0..N : F[n] \notin Seq(Elements(q))}
  <2> SUFFICES ASSUME T # {} PROVE FALSE
    OBVIOUS
  <2>1. PICK n \in T : \A m \in T : n <= m
    <3>1. T \in SUBSET Nat
      OBVIOUS
    <3> HIDE DEF T
    <3> QED BY <3>1, NatMin
  <2>2. /\ n \in 0..N /\ F[n] \notin Seq(Elements(q)) /\ F[n] = Step(F, n)
        /\ \A m \in 0..N : m < n => F[m] \in Seq(Elements(q))
    <3> DEFINE P(m) == F[m] \in Seq(Elements(q))
    <3>1. n \in 0..N /\ ~P(n) /\ \A m \in 0..N : ~P(m) => n <= m
      BY <2>1
    <3>2. F[n] = Step(F, n)
      BY <1>5, <3>1
    <3> HIDE DEF P, Step
    <3>3. \A m \in 0..N : m < n => P(m)
      BY <1>1, <3>1
    <3> QED BY <3>1, <3>2, <3>3 DEF P
  <2> HIDE DEF T
  <2>3. CASE n = 0
    <3>1. F[n] = <<>> /\ <<>> \in Seq(Elements(q))
      BY <2>2, <2>3
    <3> QED BY <2>2, <3>1
  <2>4. CASE n # 0
    <3>1. n \in 1..N /\ n - 1 \in 0..N /\ n - 1 < n
      BY <1>1, <2>2, <2>4
    <3>2. F[n - 1] \in Seq(Elements(q))
      BY <2>2, <3>1
    <3>3. F[n] = IF q[n] > e THEN Append(F[n - 1], q[n]) ELSE F[n - 1]
      BY <2>2, <2>4
    <3> QED BY <1>3, <2>2, <3>1, <3>2, <3>3
  <2> QED BY <2>3, <2>4
<1>7. F[N] \in Seq(Elements(q))
  BY <1>1, <1>6
<1>8. Elements(q) \subseteq S
  BY ElementsIn
<1>9. Elements(F[N]) \subseteq Elements(q)
  BY <1>7, ElementsIn
<1> QED BY <1>2, <1>7, <1>8, <1>9

----------------------------------------------------------------------------
\* Subscribers: what push() does to one, and what each of its steps does.

\* The empty queue.
LEMMA Emptied == <<>> \in Seq(Events)
OBVIOUS

\* The fields of a subscriber, one by one.
LEMMA SubFields ==
    ASSUME NEW S \in SubStates
    PROVE  /\ S.state \in {"none", "live", "closed"} /\ S.since \in 0..MaxEvents
           /\ S.at \in -1..MaxEvents /\ S.queue \in Seq(Events) /\ S.waiting \in BOOLEAN
           /\ S.replay \in {"no", "reading", "pushing"} /\ S.todo \in Seq(Events)
           /\ S.read \in SUBSET Events /\ S.got \in Seq(Events)
BY DEF SubStates

\* A push to a subscriber that does not wait.
LEMMA PushQueued ==
    ASSUME NEW S \in SubStates, NEW q \in Seq(Events),
           NEW P, P = [S EXCEPT !.queue = S.queue \o q]
    PROVE  /\ P \in SubStates /\ P.waiting = S.waiting
           /\ P.got = S.got /\ P.queue = S.queue \o q
           /\ P.state = S.state /\ P.since = S.since /\ P.at = S.at /\ P.replay = S.replay
           /\ P.todo = S.todo /\ P.read = S.read
<1>1. S.queue \o q \in Seq(Events)
  BY SubFields, Concatenated
<1> QED BY <1>1 DEF SubStates

\* The three cases of a push: to nobody, to a next() that waits, and to the queue.
LEMMA PushKinds ==
    ASSUME NEW S \in SubStates, NEW q \in Seq(Events)
    PROVE  /\ S.state # "live" \/ q = <<>> => Pushed(S, q) = S
           /\ S.state = "live" /\ q # <<>> /\ S.waiting =>
                Pushed(S, q) = [S EXCEPT !.waiting = FALSE, !.got = Append(S.got, Head(q)), !.queue = S.queue \o Tail(q)]
           /\ S.state = "live" /\ q # <<>> /\ ~S.waiting => Pushed(S, q) = [S EXCEPT !.queue = S.queue \o q]
BY DEF Pushed

\* A push adds the events to what a live subscriber holds, and changes no more.
Adds(S, q, P) ==
    /\ P \in SubStates
    /\ P.state = S.state /\ P.since = S.since /\ P.at = S.at /\ P.replay = S.replay
    /\ P.todo = S.todo /\ P.read = S.read
    /\ S.state = "live" =>
         Elements(P.got) \cup Elements(P.queue) = Elements(S.got) \cup Elements(S.queue) \cup Elements(q)

\* A push adds, in each of the three cases.
LEMMA PushedKeeps ==
    ASSUME NEW S \in SubStates, NEW q \in Seq(Events)
    PROVE  Adds(S, q, Pushed(S, q))
<1>p. SUFFICES ASSUME NEW P, P = Pushed(S, q) PROVE Adds(S, q, P)
  OBVIOUS
<1> USE DEF Adds
<1>0. S.got \in Seq(Events) /\ S.queue \in Seq(Events)
  BY SubFields
<1>1. CASE S.state # "live"
  <2>1. P = S
    BY <1>p, <1>1, PushKinds
  <2> QED BY <1>1, <2>1
<1>2. CASE q = <<>>
  <2>1. P = S
    BY <1>p, <1>2, PushKinds
  <2>2. Elements(q) = {}
    BY <1>2, OfEmpty
  <2> QED BY <2>1, <2>2
<1>3. CASE S.state = "live" /\ q # <<>> /\ S.waiting
  <2>1. P = [S EXCEPT !.waiting = FALSE, !.got = Append(S.got, Head(q)), !.queue = S.queue \o Tail(q)]
    BY <1>p, <1>3, PushKinds
  <2>2. /\ Head(q) \in Events /\ Tail(q) \in Seq(Events)
        /\ Elements(q) = {Head(q)} \cup Elements(Tail(q))
    BY <1>3, HeadAndTail
  <2>a. PICK x \in Events, t \in Seq(Events) :
            /\ P = [S EXCEPT !.waiting = FALSE, !.got = Append(S.got, x), !.queue = S.queue \o t]
            /\ Elements(q) = {x} \cup Elements(t)
    BY <2>1, <2>2
  <2>3. /\ P \in SubStates /\ P.got = Append(S.got, x) /\ P.queue = S.queue \o t
        /\ P.state = S.state /\ P.since = S.since /\ P.at = S.at /\ P.replay = S.replay
        /\ P.todo = S.todo /\ P.read = S.read
    <3>1. Append(S.got, x) \in Seq(Events) /\ S.queue \o t \in Seq(Events)
      BY <1>0, WithAppended, Concatenated
    <3> QED BY <2>a, <3>1 DEF SubStates
  <2>4. Elements(P.got) = Elements(S.got) \cup {x}
    BY <1>0, <2>3, WithAppended
  <2>5. Elements(P.queue) = Elements(S.queue) \cup Elements(t)
    BY <1>0, <2>3, Concatenated
  <2> QED BY <2>a, <2>3, <2>4, <2>5
<1>4. CASE S.state = "live" /\ q # <<>> /\ ~S.waiting
  <2>1. P = [S EXCEPT !.queue = S.queue \o q]
    BY <1>p, <1>4, PushKinds
  <2>2. /\ P \in SubStates /\ P.got = S.got /\ P.queue = S.queue \o q
        /\ P.state = S.state /\ P.since = S.since /\ P.at = S.at /\ P.replay = S.replay
        /\ P.todo = S.todo /\ P.read = S.read
    BY <2>1, PushQueued
  <2>3. Elements(P.queue) = Elements(S.queue) \cup Elements(q)
    BY <1>0, <2>2, Concatenated
  <2> QED BY <2>2, <2>3
<1> QED BY <1>1, <1>2, <1>3, <1>4

\* What holds of a subscriber when n events have been emitted: it is untouched
\* before it subscribes; nothing emitted since is missing, and nothing that its
\* replay has read; and a live one holds exactly the events since it subscribed,
\* its queue the latest of them.
Fresh(S) ==
    S.state = "none" =>
        /\ S.got = <<>> /\ S.queue = <<>> /\ ~S.waiting
        /\ S.read = {} /\ S.at = -1 /\ S.replay = "no"
Covered(S, n) ==
    S.state = "live" =>
        /\ (S.at + 1)..n \subseteq Elements(S.got) \cup Elements(S.queue)
        /\ S.read \subseteq Elements(S.got) \cup Elements(S.queue) \cup Elements(S.todo)
InFeed(S, n) ==
    /\ S.replay = "no" /\ S.at <= n
    /\ S.state # "none" => S.at # -1 /\ \A i \in 1..Len(S.queue) : S.queue[i] = S.at + Len(S.got) + i
    /\ S.state = "live" => S.at + Len(S.got) + Len(S.queue) = n
    /\ S.waiting => S.state = "live" /\ S.queue = <<>>

SubsOK == sub \in [Subscribers -> SubStates]
SeqOK == seq \in 0..MaxEvents
SubInv == \A s \in Subscribers :
              /\ Fresh(sub[s]) /\ Covered(sub[s], seq)
              /\ s \in Live => InFeed(sub[s], seq)

\* A step of one subscriber.
LEMMA OneChanges ==
    ASSUME SubsOK, SubInv, UNCHANGED seq, NEW s \in Subscribers, NEW T \in SubStates,
           sub' = [sub EXCEPT ![s] = T],
           Fresh(T), Covered(T, seq), s \in Live => InFeed(T, seq)
    PROVE  SubsOK' /\ SubInv'
<1>1. /\ sub' \in [Subscribers -> SubStates] /\ sub'[s] = T
      /\ \A r \in Subscribers \ {s} : sub'[r] = sub[r]
  BY DEF SubsOK
<1>2. ASSUME NEW r \in Subscribers
      PROVE  Fresh(sub'[r]) /\ Covered(sub'[r], seq) /\ (r \in Live => InFeed(sub'[r], seq))
  <2>1. CASE r = s
    BY <1>1, <2>1
  <2>2. CASE r # s
    BY <1>1, <2>2 DEF SubInv
  <2> QED BY <2>1, <2>2
<1> QED BY <1>1, <1>2 DEF SubsOK, SubInv

\* The same, as the invariant of a single step of one subscriber.
OneStep(s, T) ==
    /\ T \in SubStates /\ sub' = [sub EXCEPT ![s] = T]
    /\ Fresh(T) /\ Covered(T, seq) /\ (s \in Live => InFeed(T, seq))

\* subscribe() opens the stream at the events so far.
LEMMA SubscribeStep ==
    ASSUME BusAssumption, SubsOK, SeqOK, SubInv, NEW s \in Subscribers, Subscribe(s)
    PROVE  \E T : OneStep(s, T) /\ sub[s].at = -1 /\ T.at = seq /\ T.got = sub[s].got
<1>s. PICK S : S = sub[s]
  OBVIOUS
<1>0. S \in SubStates /\ S.state = "none" /\ seq \in 0..MaxEvents /\ MaxEvents \in Nat
  BY <1>s DEF SubsOK, SeqOK, Subscribe, BusAssumption
<1>a. seq \in -1..MaxEvents
  BY <1>0
<1>1. /\ S.got = <<>> /\ S.queue = <<>> /\ ~S.waiting /\ S.read = {} /\ S.at = -1
      /\ s \in Live => InFeed(S, seq)
  BY <1>s, <1>0 DEF SubInv, Fresh
<1>2. PICK T : /\ sub' = [sub EXCEPT ![s] = T] /\ T \in SubStates
               /\ T.state = "live" /\ T.at = seq /\ T.got = S.got /\ T.queue = S.queue
               /\ T.waiting = S.waiting /\ T.read = S.read
               /\ s \in Live => T.replay = S.replay
  <2>1. CASE s \in Live
    <3>t. PICK T : T = [S EXCEPT !.state = "live", !.at = seq]
      OBVIOUS
    <3>1. /\ T \in SubStates /\ T.state = "live" /\ T.at = seq /\ T.got = S.got /\ T.queue = S.queue
          /\ T.waiting = S.waiting /\ T.read = S.read /\ T.replay = S.replay
      BY <1>0, <1>a, <3>t DEF SubStates
    <3>2. sub' = [sub EXCEPT ![s] = T]
      BY <1>s, <2>1, <3>t DEF Subscribe, BusAssumption
    <3> QED BY <3>1, <3>2
  <2>2. CASE s \notin Live
    <3>1. PICK e \in 0..seq :
             sub' = [sub EXCEPT ![s] = [sub[s] EXCEPT !.state = "live", !.at = seq, !.since = e,
                                                      !.replay = "reading"]]
      BY <2>2 DEF Subscribe
    <3>t. PICK T : T = [S EXCEPT !.state = "live", !.at = seq, !.since = e, !.replay = "reading"]
      OBVIOUS
    <3>2. e \in 0..MaxEvents
      BY <1>0
    <3>3. /\ T \in SubStates /\ T.state = "live" /\ T.at = seq /\ T.got = S.got /\ T.queue = S.queue
          /\ T.waiting = S.waiting /\ T.read = S.read
      BY <1>0, <1>a, <3>2, <3>t DEF SubStates
    <3>4. sub' = [sub EXCEPT ![s] = T]
      BY <1>s, <3>1, <3>t
    <3> QED BY <2>2, <3>3, <3>4
  <2> QED BY <2>1, <2>2
<1>3. Covered(T, seq)
  <2>1. (seq + 1)..seq = {}
    BY <1>0
  <2> QED BY <1>1, <1>2, <2>1 DEF Covered
<1>4. Fresh(T)
  BY <1>2 DEF Fresh
<1>5. s \in Live => InFeed(T, seq)
  <2>1. Len(T.got) = 0 /\ Len(T.queue) = 0
    BY <1>1, <1>2
  <2>2. seq # -1 /\ seq + 0 + 0 = seq /\ seq <= seq /\ \A i \in 1..0 : FALSE
    BY <1>0
  <2> QED BY <1>1, <1>2, <2>1, <2>2 DEF InFeed
<1> QED BY <1>s, <1>1, <1>2, <1>3, <1>4, <1>5 DEF OneStep

\* Taking the head of the queue shifts its indices by one.
LEMMA Shifted == \A a, g, i \in Int : a + g + (i + 1) = a + (g + 1) + i
OBVIOUS

\* next() takes the oldest event of the queue, or waits.
LEMMA AskStep ==
    ASSUME BusAssumption, SubsOK, SeqOK, SubInv, NEW s \in Subscribers, Ask(s)
    PROVE  \E T : /\ OneStep(s, T) /\ sub[s].state = "live" /\ T.at = sub[s].at
                  /\ \/ T.got = sub[s].got
                     \/ /\ sub[s].queue # <<>> /\ T.got = Append(sub[s].got, sub[s].queue[1])
<1>s. PICK S : S = sub[s]
  OBVIOUS
<1>0. S \in SubStates /\ S.state = "live" /\ ~S.waiting /\ seq \in 0..MaxEvents /\ MaxEvents \in Nat
  BY <1>s DEF SubsOK, SeqOK, Ask, BusAssumption
<1>1. Covered(S, seq) /\ (s \in Live => InFeed(S, seq))
  BY <1>s DEF SubInv
<1>2. S.got \in Seq(Events) /\ S.queue \in Seq(Events) /\ S.at \in Int
  <2>1. S.at \in -1..MaxEvents
    BY <1>0, SubFields
  <2> QED BY <1>0, <2>1, SubFields
<1>3. CASE S.queue # <<>> /\ sub' = [sub EXCEPT ![s] = [S EXCEPT !.queue = Tail(S.queue),
                                                                 !.got = Append(S.got, Head(S.queue))]]
  <2>1. PICK x \in Events, t \in Seq(Events) :
            /\ x = Head(S.queue) /\ x = S.queue[1] /\ t = Tail(S.queue)
            /\ Len(t) = Len(S.queue) - 1 /\ Len(S.queue) \in Nat \ {0} /\ Len(t) \in Nat
            /\ \A i \in 1..Len(t) : t[i] = S.queue[i + 1]
            /\ Elements(S.queue) = {x} \cup Elements(t)
    <3>1. PICK q \in Seq(Events) : q = S.queue /\ q # <<>>
      BY <1>2, <1>3
    <3>2. /\ Head(q) \in Events /\ Tail(q) \in Seq(Events) /\ Head(q) = q[1]
          /\ Len(Tail(q)) = Len(q) - 1 /\ Len(q) \in Nat \ {0} /\ Len(Tail(q)) \in Nat
          /\ \A i \in 1..Len(Tail(q)) : Tail(q)[i] = q[i + 1]
          /\ Elements(q) = {Head(q)} \cup Elements(Tail(q))
      BY <3>1, HeadAndTail
    <3> QED BY <3>1, <3>2
  <2>2. PICK T : T = [S EXCEPT !.queue = t, !.got = Append(S.got, x)]
    OBVIOUS
  <2>3. sub' = [sub EXCEPT ![s] = T]
    BY <1>3, <2>1, <2>2
  <2>4. /\ Append(S.got, x) \in Seq(Events) /\ Elements(Append(S.got, x)) = Elements(S.got) \cup {x}
    BY <1>2, <2>1, WithAppended
  <2>5. /\ T \in SubStates /\ T.queue = t /\ T.got = Append(S.got, x) /\ T.state = "live"
        /\ T.at = S.at /\ T.waiting = S.waiting /\ T.replay = S.replay /\ T.read = S.read
        /\ T.todo = S.todo
    BY <1>0, <2>2, <2>4 DEF SubStates
  <2>6. Fresh(T)
    BY <2>5 DEF Fresh
  <2>7. Covered(T, seq)
    BY <1>0, <1>1, <2>1, <2>4, <2>5 DEF Covered
  <2>8. s \in Live => InFeed(T, seq)
    <3> SUFFICES ASSUME s \in Live PROVE InFeed(T, seq)
      OBVIOUS
    <3>1. Len(T.got) = Len(S.got) + 1 /\ Len(S.got) \in Nat
      BY <1>2, <2>5
    <3>2. /\ S.replay = "no" /\ S.at <= seq /\ S.at # -1
          /\ \A i \in 1..Len(S.queue) : S.queue[i] = S.at + Len(S.got) + i
          /\ S.at + Len(S.got) + Len(S.queue) = seq
      BY <1>0, <1>1 DEF InFeed
    <3>3. \A i \in 1..Len(t) : t[i] = S.at + (Len(S.got) + 1) + i
      <4> TAKE i \in 1..Len(t)
      <4>1. i + 1 \in 1..Len(S.queue) /\ t[i] = S.queue[i + 1] /\ i \in Int
        BY <2>1
      <4>2. t[i] = S.at + Len(S.got) + (i + 1)
        BY <3>2, <4>1
      <4>3. S.at \in Int /\ Len(S.got) \in Int
        BY <1>2
      <4> HIDE DEF SubInv
      <4> QED BY <4>1, <4>2, <4>3, Shifted
    <3>4. S.at + (Len(S.got) + 1) + Len(t) = seq
      <4>1. S.at \in Int /\ Len(S.got) \in Int /\ Len(t) = Len(S.queue) - 1 /\ Len(S.queue) \in Int
        BY <1>2, <2>1
      <4>2. S.at + Len(S.got) + Len(S.queue) = seq
        BY <3>2
      <4>3. Len(t) \in Int /\ Len(S.queue) = Len(t) + 1
        BY <4>1
      <4>4. S.at + Len(S.got) + (Len(t) + 1) = seq
        BY <4>2, <4>3
      <4> QED BY <4>1, <4>3, <4>4, Shifted
    <3> QED BY <1>0, <2>5, <3>1, <3>2, <3>3, <3>4 DEF InFeed
  <2> QED BY <1>s, <1>0, <1>3, <2>1, <2>3, <2>5, <2>6, <2>7, <2>8 DEF OneStep
<1>4. CASE S.queue = <<>> /\ sub' = [sub EXCEPT ![s].waiting = TRUE]
  <2>1. PICK T : T = [S EXCEPT !.waiting = TRUE]
    OBVIOUS
  <2>2. sub' = [sub EXCEPT ![s] = T]
    BY <1>s, <1>4, <2>1 DEF SubsOK
  <2>3. /\ T \in SubStates /\ T.queue = <<>> /\ T.got = S.got /\ T.state = "live"
        /\ T.at = S.at /\ T.replay = S.replay /\ T.read = S.read /\ T.queue = S.queue
        /\ T.todo = S.todo
    BY <1>0, <1>4, <2>1 DEF SubStates
  <2>4. Fresh(T) /\ Covered(T, seq) /\ (s \in Live => InFeed(T, seq))
    BY <1>0, <1>1, <2>3 DEF Fresh, Covered, InFeed
  <2> QED BY <1>s, <1>0, <2>2, <2>3, <2>4 DEF OneStep
<1> QED BY <1>s, <1>3, <1>4 DEF Ask

\* return() ends the stream.
LEMMA CloseStep ==
    ASSUME SubsOK, SubInv, NEW s \in Subscribers, Close(s)
    PROVE  \E T : OneStep(s, T) /\ T.at = sub[s].at /\ T.got = sub[s].got
<1>s. PICK S : S = sub[s]
  OBVIOUS
<1>0. S \in SubStates /\ S.state = "live" /\ (s \in Live => InFeed(S, seq))
  BY <1>s DEF SubsOK, Close, SubInv
<1>1. PICK T : T = [S EXCEPT !.state = "closed", !.waiting = FALSE]
  OBVIOUS
<1>2. sub' = [sub EXCEPT ![s] = T]
  BY <1>s, <1>1 DEF Close
<1>3. /\ T \in SubStates /\ T.queue = S.queue /\ T.got = S.got /\ T.state = "closed"
      /\ T.at = S.at /\ T.replay = S.replay /\ ~T.waiting
  BY <1>0, <1>1 DEF SubStates
<1>4. Fresh(T) /\ Covered(T, seq) /\ (s \in Live => InFeed(T, seq))
  BY <1>0, <1>3 DEF Fresh, Covered, InFeed
<1> QED BY <1>s, <1>2, <1>3, <1>4 DEF OneStep

\* replayHistory() reads the store; what it has read is to be pushed.
LEMMA ReplayReadStep ==
    ASSUME SubsOK, SeqOK, SubInv, log \in Seq(1..seq), BusAssumption,
           NEW s \in Subscribers, ReplayRead(s)
    PROVE  s \notin Live /\ \E T : OneStep(s, T)
<1>s. PICK S : S = sub[s]
  OBVIOUS
<1>0. S \in SubStates /\ S.replay = "reading" /\ Covered(S, seq) /\ Fresh(S)
      /\ (s \in Live => InFeed(S, seq))
  BY <1>s DEF SubsOK, SubInv, ReplayRead
<1>1. s \notin Live
  BY <1>0 DEF InFeed
<1>2. PICK past : past = After(log, S.since)
  OBVIOUS
<1>3. past \in Seq(Events)
  <2>1. 1..seq \subseteq Events
    BY DEF SeqOK, Events, BusAssumption
  <2>2. log \in Seq(Events)
    BY <2>1, Wider
  <2> QED BY <1>2, <2>2, BehindBookmark
<1>4. Elements(past) \in SUBSET Events
  BY <1>3, ElementsIn
<1>5. PICK T : T = [S EXCEPT !.replay = "pushing", !.todo = past, !.read = Elements(past)]
  OBVIOUS
<1>6. sub' = [sub EXCEPT ![s] = T]
  BY <1>s, <1>2, <1>5 DEF ReplayRead
<1>7. /\ T \in SubStates /\ T.queue = S.queue /\ T.got = S.got /\ T.state = S.state
      /\ T.at = S.at /\ T.waiting = S.waiting /\ T.todo = past /\ T.read = Elements(past)
  BY <1>0, <1>3, <1>4, <1>5 DEF SubStates
<1>8. Covered(T, seq)
  BY <1>0, <1>7 DEF Covered
<1>9. Fresh(T)
  BY <1>0, <1>7 DEF Fresh
<1> QED BY <1>1, <1>6, <1>7, <1>8, <1>9 DEF OneStep

\* What a replay pushes is added to what the subscriber holds.
LEMMA ReplayPushStep ==
    ASSUME SubsOK, SubInv, NEW s \in Subscribers, ReplayPush(s)
    PROVE  s \notin Live /\ \E T : OneStep(s, T)
<1>s. PICK S : S = sub[s]
  OBVIOUS
<1>0. S \in SubStates /\ S.replay = "pushing" /\ Covered(S, seq) /\ Fresh(S)
      /\ (s \in Live => InFeed(S, seq))
  BY <1>s DEF SubsOK, SubInv, ReplayPush
<1>1. s \notin Live /\ S.state # "none"
  BY <1>0 DEF InFeed, Fresh
<1>2. CASE S.todo = <<>>
  <2>1. PICK T : T = [S EXCEPT !.replay = "no"]
    OBVIOUS
  <2>2. sub' = [sub EXCEPT ![s] = T]
    BY <1>s, <1>2, <2>1 DEF ReplayPush
  <2>3. /\ T \in SubStates /\ T.queue = S.queue /\ T.got = S.got /\ T.state = S.state
        /\ T.at = S.at /\ T.todo = S.todo /\ T.read = S.read
    BY <1>0, <2>1 DEF SubStates
  <2>4. Covered(T, seq) /\ Fresh(T)
    BY <1>0, <1>1, <2>3 DEF Covered, Fresh
  <2> QED BY <1>1, <2>2, <2>3, <2>4 DEF OneStep
<1>3. CASE S.todo # <<>>
  <2>a. S.todo \in Seq(Events)
    BY <1>0, SubFields
  <2>q. PICK q \in Seq(Events) : q = S.todo /\ q # <<>>
    BY <1>3, <2>a
  <2>1. PICK x \in Events, t \in Seq(Events) :
            x = Head(q) /\ t = Tail(q) /\ Elements(q) = {x} \cup Elements(t)
    <3>1. /\ Head(q) \in Events /\ Tail(q) \in Seq(Events)
          /\ Elements(q) = {Head(q)} \cup Elements(Tail(q))
      BY <2>q, HeadAndTail
    <3> QED BY <3>1
  <2>2. PICK R : R = [S EXCEPT !.todo = t]
    OBVIOUS
  <2>3. /\ R \in SubStates /\ R.queue = S.queue /\ R.got = S.got /\ R.state = S.state
        /\ R.at = S.at /\ R.todo = t /\ R.read = S.read
    BY <1>0, <2>1, <2>2 DEF SubStates
  <2>4. PICK o \in Seq(Events) : o = <<x>> /\ Elements(o) = {x}
    BY Single
  <2>5. PICK T : T = Pushed(R, o)
    OBVIOUS
  <2>b. Elements(o) = {x}
    BY <2>4
  <2>6. sub' = [sub EXCEPT ![s] = T]
    <3>1. sub' = [sub EXCEPT ![s] = Pushed([S EXCEPT !.todo = Tail(S.todo)], <<Head(S.todo)>>)]
      BY <1>s, <1>3 DEF ReplayPush
    <3> QED BY <2>q, <2>1, <2>2, <2>4, <2>5, <3>1
  <2>7. /\ T \in SubStates /\ T.state = S.state /\ T.at = S.at /\ T.todo = t /\ T.read = S.read
        /\ S.state = "live" =>
             Elements(T.got) \cup Elements(T.queue) = Elements(S.got) \cup Elements(S.queue) \cup {x}
    <3>1. Adds(R, o, T)
      BY <2>3, <2>5, PushedKeeps
    <3> QED BY <2>3, <2>b, <3>1 DEF Adds
  <2>8. Covered(T, seq) /\ Fresh(T)
    BY <1>0, <1>1, <2>q, <2>1, <2>7 DEF Covered, Fresh
  <2> QED BY <1>1, <2>6, <2>7, <2>8 DEF OneStep
<1> QED BY <1>2, <1>3

\* A replay that fails falls back on the timeline.
LEMMA ReplayFailsStep ==
    ASSUME SubsOK, SubInv, timeline \in Seq(Events), NEW s \in Subscribers, ReplayFails(s)
    PROVE  s \notin Live /\ \E T : OneStep(s, T)
<1>s. PICK S : S = sub[s]
  OBVIOUS
<1>0. S \in SubStates /\ S.replay # "no" /\ Covered(S, seq) /\ Fresh(S)
      /\ (s \in Live => InFeed(S, seq))
  BY <1>s DEF SubsOK, SubInv, ReplayFails
<1>1. s \notin Live /\ S.state # "none"
  BY <1>0 DEF InFeed, Fresh
<1>2. PICK past : past = After(timeline, S.since)
  OBVIOUS
<1>3. past \in Seq(Events)
  BY <1>2, BehindBookmark
<1>4. PICK P : P = Pushed(S, past)
  OBVIOUS
<1>5. /\ P \in SubStates /\ P.state = S.state /\ P.at = S.at
      /\ S.state = "live" =>
           Elements(P.got) \cup Elements(P.queue)
             = Elements(S.got) \cup Elements(S.queue) \cup Elements(past)
  <2>1. Adds(S, past, P)
    BY <1>0, <1>3, <1>4, PushedKeeps
  <2> QED BY <2>1 DEF Adds
<1>6. PICK T : T = [P EXCEPT !.replay = "no", !.todo = <<>>, !.read = {}]
  OBVIOUS
<1>7. sub' = [sub EXCEPT ![s] = T]
  BY <1>s, <1>2, <1>4, <1>6 DEF ReplayFails
<1>8. /\ T \in SubStates /\ T.state = S.state /\ T.at = S.at /\ T.got = P.got /\ T.queue = P.queue
      /\ T.read = {}
  <2>1. <<>> \in Seq(Events) /\ {} \in SUBSET Events
    OBVIOUS
  <2> QED BY <1>5, <1>6, <2>1 DEF SubStates
<1>9. Covered(T, seq) /\ Fresh(T)
  BY <1>0, <1>1, <1>5, <1>8 DEF Covered, Fresh
<1> QED BY <1>1, <1>7, <1>8, <1>9 DEF OneStep

\* One more event in the queue is one more event emitted.
LEMMA OneMore == \A a, g, k, n \in Int : a + g + k = n => a + g + (k + 1) = n + 1
OBVIOUS

\* emit() hands the event to every subscriber, at once or in its queue.
LEMMA EmittedTo ==
    ASSUME BusAssumption, SeqOK, seq < MaxEvents, NEW S \in SubStates, NEW x, x = seq + 1,
           Fresh(S), Covered(S, seq), NEW T, T = Pushed(S, <<x>>)
    PROVE  /\ T \in SubStates /\ T.at = S.at /\ Fresh(T) /\ Covered(T, x)
           /\ InFeed(S, seq) =>
                /\ InFeed(T, x)
                /\ T.got = IF S.waiting THEN Append(S.got, x) ELSE S.got
<1>0. /\ seq \in 0..MaxEvents /\ MaxEvents \in Nat /\ x \in Events /\ x \in Nat
      /\ S.at \in -1..MaxEvents /\ S.got \in Seq(Events) /\ S.queue \in Seq(Events)
  BY SubFields DEF SeqOK, Events, BusAssumption
<1>1. PICK q \in Seq(Events) :
          /\ q # <<>> /\ Elements(q) = {x} /\ Head(q) = x
          /\ Tail(q) = <<>> /\ Len(q) = 1 /\ q[1] = x /\ T = Pushed(S, q)
  <2>1. PICK q : q = <<x>>
    OBVIOUS
  <2>2. /\ q \in Seq(Events) /\ q # <<>> /\ Elements(q) = {x} /\ Head(q) = x
        /\ Tail(q) = <<>> /\ Len(q) = 1 /\ q[1] = x
    BY <1>0, <2>1, Single
  <2>3. T = Pushed(S, q)
    BY <2>1
  <2> QED BY <2>2, <2>3
<1>2. /\ T \in SubStates
      /\ T.state = S.state /\ T.at = S.at /\ T.replay = S.replay
      /\ T.todo = S.todo /\ T.read = S.read
      /\ S.state = "live" =>
           Elements(T.got) \cup Elements(T.queue) = Elements(S.got) \cup Elements(S.queue) \cup {x}
  <2>1. Adds(S, q, T)
    BY <1>1, PushedKeeps
  <2> QED BY <1>1, <2>1 DEF Adds
<1>3. Fresh(T)
  <2>1. CASE S.state = "none"
    <3>1. T = S
      BY <1>1, <2>1, PushKinds
    <3> QED BY <3>1
  <2> QED BY <1>2, <2>1 DEF Fresh
<1>4. Covered(T, x)
  <2> SUFFICES ASSUME S.state = "live" PROVE Covered(T, x)
    BY <1>2 DEF Covered
  <2>1. (S.at + 1)..x \subseteq (S.at + 1)..seq \cup {x}
    BY <1>0
  <2> QED BY <1>2, <2>1 DEF Covered
<1>5. ASSUME InFeed(S, seq)
      PROVE  InFeed(T, x) /\ T.got = IF S.waiting THEN Append(S.got, x) ELSE S.got
  <2>a. S.at \in Int /\ Len(S.got) \in Nat /\ Len(S.queue) \in Nat /\ seq \in Nat
    BY <1>0
  <2>1. CASE S.state # "live"
    <3>1. T = S /\ ~S.waiting
      BY <1>1, <1>5, <2>1, PushKinds DEF InFeed
    <3>2. S.at <= x
      BY <1>0, <1>5, <2>a DEF InFeed
    <3> QED BY <1>5, <2>1, <3>1, <3>2 DEF InFeed
  <2>2. CASE S.state = "live" /\ S.waiting
    <3>1. T = [S EXCEPT !.waiting = FALSE, !.got = Append(S.got, Head(q)), !.queue = S.queue \o Tail(q)]
      BY <1>1, <2>2, PushKinds
    <3>2. /\ T.waiting = FALSE /\ T.got = Append(S.got, x) /\ T.queue = S.queue \o <<>>
      BY <1>1, <3>1 DEF SubStates
    <3>3. S.queue = <<>> /\ Len(S.queue) = 0 /\ S.at + Len(S.got) = seq /\ S.replay = "no"
          /\ S.at # -1 /\ S.at <= seq
      BY <1>5, <2>a, <2>2 DEF InFeed
    <3>4. T.queue = <<>> /\ Len(T.queue) = 0
      BY <3>2, <3>3
    <3>5. Len(T.got) = Len(S.got) + 1
      BY <1>0, <3>2
    <3>6. S.at + Len(T.got) + 0 = x /\ S.at <= x
      BY <2>a, <3>3, <3>5
    <3> QED BY <1>2, <2>2, <3>2, <3>3, <3>4, <3>6 DEF InFeed
  <2>3. CASE S.state = "live" /\ ~S.waiting
    <3>1. T = [S EXCEPT !.queue = S.queue \o q]
      BY <1>1, <2>3, PushKinds
    <3>2. /\ T.waiting = S.waiting /\ T.got = S.got /\ T.queue = S.queue \o q
      BY <3>1 DEF SubStates
    <3>3. /\ S.at + Len(S.got) + Len(S.queue) = seq /\ S.replay = "no"
          /\ S.at # -1 /\ S.at <= seq
          /\ \A i \in 1..Len(S.queue) : S.queue[i] = S.at + Len(S.got) + i
      BY <1>5, <2>3 DEF InFeed
    <3>4. /\ Len(T.queue) = Len(S.queue) + 1 /\ T.queue[Len(S.queue) + 1] = x
          /\ \A i \in 1..Len(S.queue) : T.queue[i] = S.queue[i]
      <4>1. /\ Len(T.queue) = Len(S.queue) + Len(q)
            /\ \A i \in 1..(Len(S.queue) + Len(q)) :
                   T.queue[i] = IF i <= Len(S.queue) THEN S.queue[i] ELSE q[i - Len(S.queue)]
        <5>1. PICK u \in Seq(Events) : u = S.queue
          BY <1>0
        <5> DEFINE c == u \o q
        <5>2. /\ Len(c) = Len(u) + Len(q)
              /\ \A i \in 1..(Len(u) + Len(q)) : c[i] = IF i <= Len(u) THEN u[i] ELSE q[i - Len(u)]
          BY ConcatProperties
        <5>3. T.queue = c
          BY <3>2, <5>1
        <5> HIDE DEF c
        <5> QED BY <5>1, <5>2, <5>3
      <4>2. /\ Len(S.queue) + 1 \in 1..(Len(S.queue) + 1) /\ ~(Len(S.queue) + 1 <= Len(S.queue))
            /\ (Len(S.queue) + 1) - Len(S.queue) = 1
            /\ \A i \in 1..Len(S.queue) : i \in 1..(Len(S.queue) + 1) /\ i <= Len(S.queue)
        BY <2>a
      <4> QED BY <1>1, <4>1, <4>2
    <3>5. S.at + Len(S.got) + (Len(S.queue) + 1) = x /\ S.at <= x
      <4>1. S.at + Len(S.got) + Len(S.queue) = seq
        BY <3>3
      <4>2. S.at + Len(S.got) + (Len(S.queue) + 1) = seq + 1
        <5>1. S.at \in Int /\ Len(S.got) \in Int /\ Len(S.queue) \in Int /\ seq \in Int
          BY <2>a
        <5>2. PICK a, g, k, n \in Int :
                  a = S.at /\ g = Len(S.got) /\ k = Len(S.queue) /\ n = seq
          BY <5>1
        <5>3. a + g + k = n
          BY <4>1, <5>2
        <5>4. a + g + (k + 1) = n + 1
          BY <5>3, OneMore
        <5> QED BY <5>2, <5>4
      <4> QED BY <2>a, <3>3, <4>2
    <3>6. \A i \in 1..Len(T.queue) : T.queue[i] = S.at + Len(S.got) + i
      <4> TAKE i \in 1..Len(T.queue)
      <4>1. i \in 1..Len(S.queue) \/ i = Len(S.queue) + 1
        BY <2>a, <3>4
      <4> QED BY <3>3, <3>4, <3>5, <4>1
    <3> QED BY <1>2, <2>3, <3>2, <3>3, <3>4, <3>5, <3>6 DEF InFeed
  <2> QED BY <2>1, <2>2, <2>3
<1> QED BY <1>2, <1>3, <1>4, <1>5

----------------------------------------------------------------------------
\* The store.  An event that is not in it yet is in one place at most: its first
\* append, the buffer, or the batch of one retry; and in each of them once.

Retries == [by : {"append", "flush"}, batch : Seq(critical) \ {<<>>}]
StoreOK ==
    /\ critical \subseteq 1..seq /\ saving \subseteq 1..seq
    /\ log \in Seq(1..seq) /\ failed \in Seq(critical) /\ retries \subseteq Retries
    /\ flush \in {"no", "retrying", "sleeping"} /\ faults \in 0..MaxFaults
Once ==
    /\ NoRepeats(log) /\ NoRepeats(failed) /\ \A r \in retries : NoRepeats(r.batch)
    /\ saving \cap Elements(log) = {} /\ saving \cap Elements(failed) = {}
    /\ Elements(failed) \cap Elements(log) = {}
    /\ \A r \in retries : Elements(r.batch) \cap (saving \cup Elements(log) \cup Elements(failed)) = {}
    /\ \A r, q \in retries : r # q => Elements(r.batch) \cap Elements(q.batch) = {}

\* The same of any values of the four, to state it of the next state.
InOnePlace(sv, lg, fl, rt) ==
    /\ NoRepeats(lg) /\ NoRepeats(fl) /\ \A r \in rt : NoRepeats(r.batch)
    /\ sv \cap Elements(lg) = {} /\ sv \cap Elements(fl) = {}
    /\ Elements(fl) \cap Elements(lg) = {}
    /\ \A r \in rt : Elements(r.batch) \cap (sv \cup Elements(lg) \cup Elements(fl)) = {}
    /\ \A r, q \in rt : r # q => Elements(r.batch) \cap Elements(q.batch) = {}

\* In the next state, every event is in one place if the new values say so.
LEMMA OnceNext ==
    /\ InOnePlace(saving, log, failed, retries) <=> Once
    /\ InOnePlace(saving', log', failed', retries') => Once'
<1>1. InOnePlace(saving, log, failed, retries) <=> Once
  BY DEF InOnePlace, Once
<1>2. InOnePlace(saving', log', failed', retries') => Once'
  BY DEF InOnePlace, Once, NoRepeats, Elements
<1> QED BY <1>1, <1>2

\* A batch taken out of the buffer.
LEMMA BatchTaken ==
    ASSUME StoreOK, Once, failed # <<>>, NEW by \in {"append", "flush"}, TakeBatch(by)
    PROVE  \E n \in Retries :
              /\ retries' = retries \cup {n} /\ failed' \in Seq(critical)
              /\ NoRepeats(n.batch) /\ NoRepeats(failed')
              /\ Elements(n.batch) \subseteq Elements(failed) /\ Elements(failed') \subseteq Elements(failed)
              /\ Elements(n.batch) \cap Elements(failed') = {}
<1>1. PICK b : b = FirstOf(failed, RetryBatch)
  OBVIOUS
<1>2. PICK n : n = [by |-> by, batch |-> b]
  OBVIOUS
<1>3. retries' = retries \cup {n} /\ failed' = Without(failed, RetryBatch)
  BY <1>1, <1>2 DEF TakeBatch
<1>4. /\ b \in Seq(critical) /\ failed' \in Seq(critical) /\ b # <<>>
      /\ Elements(b) \subseteq Elements(failed) /\ Elements(failed') \subseteq Elements(failed)
      /\ NoRepeats(b) /\ NoRepeats(failed') /\ Elements(b) \cap Elements(failed') = {}
  <2>1. failed \in Seq(critical) /\ NoRepeats(failed) /\ RetryBatch \in Nat /\ RetryBatch # 0
    BY BusAssumption DEF StoreOK, Once
  <2> QED BY <1>1, <1>3, <2>1, TakenApart
<1>5. n \in Retries /\ n.batch = b
  BY <1>2, <1>4 DEF Retries
<1> QED BY <1>3, <1>4, <1>5

\* That leaves every event in one place.
LEMMA OnceTaken ==
    ASSUME StoreOK, Once, failed # <<>>, NEW by \in {"append", "flush"}, TakeBatch(by),
           UNCHANGED <<critical, seq, faults>>, flush' \in {"no", "retrying", "sleeping"},
           saving' \subseteq saving, log' \in Seq(1..seq), NoRepeats(log'),
           Elements(log') \cap (saving' \cup Elements(failed)) = {},
           \A r \in retries : Elements(log') \cap Elements(r.batch) = {}
    PROVE  StoreOK' /\ Once'
<1>1. PICK n \in Retries :
          /\ retries' = retries \cup {n} /\ failed' \in Seq(critical)
          /\ NoRepeats(n.batch) /\ NoRepeats(failed')
          /\ Elements(n.batch) \subseteq Elements(failed) /\ Elements(failed') \subseteq Elements(failed)
          /\ Elements(n.batch) \cap Elements(failed') = {}
  BY BatchTaken
<1>2. Retries' = Retries
  BY DEF Retries
<1>3. StoreOK'
  BY <1>1, <1>2 DEF StoreOK
<1>4. \A r \in retries' : NoRepeats(r.batch)
  BY <1>1 DEF Once
<1>5. /\ saving' \cap Elements(log') = {} /\ saving' \cap Elements(failed') = {}
      /\ Elements(failed') \cap Elements(log') = {}
  BY <1>1 DEF Once
<1>6. ASSUME NEW r \in retries' 
      PROVE  Elements(r.batch) \cap (saving' \cup Elements(log') \cup Elements(failed')) = {}
  <2>1. CASE r \in retries
    BY <1>1, <2>1 DEF Once
  <2>2. CASE r = n
    BY <1>1, <2>2 DEF Once
  <2> QED BY <1>1, <2>1, <2>2
<1>7. ASSUME NEW r \in retries', NEW q \in retries', r # q
      PROVE  Elements(r.batch) \cap Elements(q.batch) = {}
  <2>1. \A p \in retries : Elements(p.batch) \cap Elements(n.batch) = {}
    BY <1>1 DEF Once
  <2>2. r \in retries /\ q \in retries => Elements(r.batch) \cap Elements(q.batch) = {}
    BY <1>7 DEF Once
  <2> QED BY <1>1, <1>7, <2>1, <2>2
<1>8. NoRepeats(log)' /\ NoRepeats(failed)'
  BY <1>1 DEF NoRepeats
<1> QED BY <1>3, <1>4, <1>5, <1>6, <1>7, <1>8 DEF Once, NoRepeats, Elements

\* An element put in front of a sequence.
LEMMA Prepended ==
    ASSUME NEW S, NEW q \in Seq(S), NEW x \in S, NEW p, p = <<x>> \o q
    PROVE  /\ p \in Seq(S)
           /\ Elements(p) = {x} \cup Elements(q)
           /\ NoRepeats(q) /\ x \notin Elements(q) => NoRepeats(p)
<1>1. PICK h : h = <<x>>
  OBVIOUS
<1>2. h \in Seq(S) /\ Len(h) = 1 /\ h[1] = x /\ Elements(h) = {x}
  BY <1>1, Single
<1>3. p = h \o q
  BY <1>1
<1>4. p \in Seq(S) /\ Elements(p) = {x} \cup Elements(q)
  BY <1>2, <1>3, Concatenated
<1>5. /\ Len(p) = 1 + Len(q) /\ Len(q) \in Nat
      /\ \A i \in 1..(1 + Len(q)) : p[i] = IF i <= 1 THEN x ELSE q[i - 1]
  <2>1. /\ Len(p) = Len(h) + Len(q)
        /\ \A i \in 1..(Len(h) + Len(q)) : p[i] = IF i <= Len(h) THEN h[i] ELSE q[i - Len(h)]
    BY <1>2, <1>3, ConcatProperties
  <2>3. Len(q) \in Nat
    OBVIOUS
  <2>2. \A i \in 1..(1 + Len(q)) : i <= 1 => i = 1
    BY <2>3
  <2> QED BY <1>2, <2>1, <2>2, <2>3
<1>6. ASSUME NoRepeats(q), x \notin Elements(q),
             NEW i \in 1..Len(p), NEW j \in 1..Len(p), p[i] = p[j]
      PROVE  i = j
  <2>1. \A k \in 1..Len(q) : q[k] # x
    BY <1>6, InElements
  <2>2. \A k \in 1..Len(p) : k > 1 => k - 1 \in 1..Len(q) /\ p[k] = q[k - 1]
    BY <1>5
  <2>3. \A k \in 1..Len(p) : ~(k > 1) => k = 1 /\ p[k] = x
    BY <1>5
  <2>4. i > 1 /\ j > 1 => i - 1 = j - 1
    BY <1>6, <2>2 DEF NoRepeats
  <2> QED BY <1>5, <1>6, <2>1, <2>2, <2>3, <2>4
<1> QED BY <1>4, <1>6 DEF NoRepeats

\* emit() starts the first append of an event no place knows yet.
LEMMA StoreEmits ==
    ASSUME StoreOK, Once, SeqOK, Emit
    PROVE  StoreOK' /\ Once'
<1>1. /\ seq \in Int /\ seq' = seq + 1 /\ saving' = saving \cup {seq'}
      /\ UNCHANGED <<critical, log, failed, retries, flush, faults>>
  BY DEF Emit, SeqOK
<1>2. 1..seq \subseteq 1..seq' /\ seq' \in 1..seq' /\ seq' \notin 1..seq
  BY <1>1 DEF SeqOK
<1>3. log \in Seq(1..seq')
  BY <1>2, Wider DEF StoreOK
<1>4. StoreOK'
  BY <1>1, <1>2, <1>3 DEF StoreOK, Retries
<1>5. Elements(log) \subseteq 1..seq /\ Elements(failed) \subseteq 1..seq
  BY ElementsIn DEF StoreOK
<1>6. \A r \in retries : Elements(r.batch) \subseteq 1..seq
  <2>1. ASSUME NEW r \in retries PROVE r.batch \in Seq(critical)
    BY DEF StoreOK, Retries
  <2> QED BY <2>1, ElementsIn DEF StoreOK
<1>7. PICK n : n = seq'
  OBVIOUS
<1>8. n \notin Elements(log) /\ n \notin Elements(failed) /\ \A r \in retries : n \notin Elements(r.batch)
  BY <1>2, <1>5, <1>6, <1>7
<1>9. saving' = saving \cup {n} /\ log' = log /\ failed' = failed /\ retries' = retries
  BY <1>1, <1>7
<1>10. InOnePlace(saving', log', failed', retries')
  BY <1>8, <1>9 DEF Once, InOnePlace
<1> QED BY <1>4, <1>10, OnceNext

\* An append that succeeds; with something in the buffer, a retry begins.
LEMMA StoreAppends ==
    ASSUME StoreOK, Once, NEW e \in Events, Appended(e)
    PROVE  StoreOK' /\ Once'
<1>1. /\ e \in saving /\ saving' = saving \ {e} /\ log' = Append(log, e)
      /\ UNCHANGED <<seq, critical, flush, faults>>
  BY DEF Appended
<1>2. /\ log' \in Seq(1..seq) /\ Elements(log') = Elements(log) \cup {e} /\ NoRepeats(log')
  <2>1. e \in 1..seq /\ e \notin Elements(log)
    BY <1>1 DEF StoreOK, Once
  <2>2. log \in Seq(1..seq) /\ NoRepeats(log) /\ log' = Append(log, e)
    BY <1>1 DEF StoreOK, Once
  <2>3. PICK q, L, x, S : q = log /\ L = log' /\ x = e /\ S = 1..seq
    OBVIOUS
  <2>4. L \in Seq(S) /\ Elements(L) = Elements(q) \cup {x} /\ NoRepeats(L)
    <3>1. q \in Seq(S) /\ NoRepeats(q) /\ x \in S /\ x \notin Elements(q) /\ L = Append(q, x)
      BY <2>1, <2>2, <2>3
    <3> QED BY <3>1, WithAppended
  <2> QED BY <2>3, <2>4
<1>3. /\ Elements(log') \cap (saving' \cup Elements(failed)) = {}
      /\ \A r \in retries : Elements(log') \cap Elements(r.batch) = {}
  BY <1>1, <1>2 DEF Once
<1>4. CASE failed # <<>> /\ TakeBatch("append")
  <2>1. flush' \in {"no", "retrying", "sleeping"}
    BY <1>1 DEF StoreOK
  <2> QED BY <1>1, <1>2, <1>3, <1>4, <2>1, OnceTaken
<1>5. CASE UNCHANGED <<failed, retries>>
  <2>1. StoreOK'
    BY <1>1, <1>2, <1>5 DEF StoreOK, Retries
  <2>2. InOnePlace(saving', log', failed', retries')
    BY <1>1, <1>2, <1>3, <1>5 DEF Once, InOnePlace
  <2> QED BY <2>1, <2>2, OnceNext
<1> QED BY <1>4, <1>5 DEF Appended

\* An append that fails: the event goes to the buffer, or nowhere.
LEMMA StoreRefuses ==
    ASSUME BusAssumption, StoreOK, Once, NEW e \in Events, AppendFails(e)
    PROVE  StoreOK' /\ Once'
<1>1. /\ e \in saving /\ saving' = saving \ {e} /\ faults < MaxFaults /\ faults' = faults + 1
      /\ UNCHANGED <<seq, log, retries, flush>>
  BY DEF AppendFails
<1>2. faults' \in 0..MaxFaults
  BY <1>1 DEF StoreOK, BusAssumption
<1>3. CASE critical' = critical \cup {e} /\ failed' = LastOf(Append(failed, e), MaxFailedBuffer)
  <2>1. critical' \subseteq 1..seq /\ critical \subseteq critical' /\ e \in critical'
    BY <1>1, <1>3 DEF StoreOK
  <2>2. failed \in Seq(critical')
    BY <2>1, Wider DEF StoreOK
  <2>3. PICK q : q = Append(failed, e)
    OBVIOUS
  <2>4. q \in Seq(critical') /\ Elements(q) = Elements(failed) \cup {e} /\ NoRepeats(q)
    <3>1. NoRepeats(failed) /\ e \notin Elements(failed)
      BY <1>1 DEF Once
    <3> QED BY <2>1, <2>2, <2>3, <3>1, WithAppended
  <2>5. failed' \in Seq(critical') /\ Elements(failed') \subseteq Elements(q) /\ NoRepeats(failed')
    <3>1. MaxFailedBuffer \in Nat
      BY DEF BusAssumption
    <3> QED BY <1>3, <2>3, <2>4, <3>1, LastKept
  <2>6. retries \subseteq Retries'
    <3>1. ASSUME NEW r \in retries PROVE r \in Retries'
      <4>1. /\ r \in [by : {"append", "flush"}, batch : Seq(critical) \ {<<>>}]
        BY DEF StoreOK, Retries
      <4>2. r.batch \in Seq(critical')
        BY <2>1, <4>1, Wider
      <4> QED BY <4>1, <4>2 DEF Retries
    <3> QED BY <3>1
  <2>7. StoreOK'
    BY <1>1, <1>2, <2>1, <2>5, <2>6 DEF StoreOK
  <2>8. Once'
    <3>1. Elements(failed') \subseteq Elements(failed) \cup {e}
      BY <2>4, <2>5
    <3>2. \A r \in retries : e \notin Elements(r.batch)
      BY <1>1 DEF Once
    <3>3. e \notin Elements(log)
      BY <1>1 DEF Once
    <3>4. /\ saving' \cap Elements(log') = {} /\ saving' \cap Elements(failed') = {}
          /\ Elements(failed') \cap Elements(log') = {}
      BY <1>1, <3>1, <3>3 DEF Once
    <3>5. \A r \in retries' : Elements(r.batch) \cap (saving' \cup Elements(log') \cup Elements(failed')) = {}
      BY <1>1, <3>1, <3>2 DEF Once
    <3>6. NoRepeats(log)' /\ NoRepeats(failed)'
      BY <1>1, <2>5 DEF Once, NoRepeats
    <3>7. /\ \A r \in retries' : NoRepeats(r.batch)
          /\ \A r, q2 \in retries' : r # q2 => Elements(r.batch) \cap Elements(q2.batch) = {}
      BY <1>1 DEF Once
    <3> QED BY <3>4, <3>5, <3>6, <3>7 DEF Once, NoRepeats, Elements
  <2> QED BY <2>7, <2>8
<1>4. CASE UNCHANGED <<critical, failed>>
  <2>1. StoreOK'
    BY <1>1, <1>2, <1>4 DEF StoreOK, Retries
  <2>2. InOnePlace(saving', log', failed', retries')
    BY <1>1, <1>4 DEF Once, InOnePlace
  <2> QED BY <2>1, <2>2, OnceNext
<1> QED BY <1>3, <1>4 DEF AppendFails

\* A retry that succeeds: the head of its batch is in the store.
LEMMA StoreRetries ==
    ASSUME StoreOK, Once, NEW r \in retries, RetryAppended(r)
    PROVE  StoreOK' /\ Once'
<1>b. PICK b : b = r.batch
  OBVIOUS
<1>1. /\ log' = Append(log, Head(b)) /\ UNCHANGED <<seq, critical, saving, failed, faults>>
      /\ \/ Len(b) > 1 /\ flush' = flush /\ retries' = (retries \ {r}) \cup {[r EXCEPT !.batch = Tail(b)]}
         \/ Len(b) = 1 /\ AfterRetry(r) /\ retries' = retries \ {r}
  BY <1>b DEF RetryAppended
<1>2. /\ r \in Retries /\ b \in Seq(critical) /\ b # <<>> /\ NoRepeats(b)
      /\ Elements(b) \cap (saving \cup Elements(log) \cup Elements(failed)) = {}
      /\ \A q \in retries : q # r => Elements(b) \cap Elements(q.batch) = {}
  BY <1>b DEF StoreOK, Retries, Once
<1>3. PICK h, t :
         /\ h = Head(b) /\ t = Tail(b) /\ h \in critical /\ t \in Seq(critical)
         /\ Len(t) = Len(b) - 1 /\ Len(b) \in Nat /\ NoRepeats(t) /\ h \notin Elements(t)
         /\ Elements(b) = {h} \cup Elements(t)
  <2>1. PICK h, t : h = Head(b) /\ t = Tail(b)
    OBVIOUS
  <2>2. /\ h \in critical /\ t \in Seq(critical)
        /\ Len(t) = Len(b) - 1 /\ Len(b) \in Nat \ {0} /\ NoRepeats(t) /\ h \notin Elements(t)
        /\ Elements(b) = {h} \cup Elements(t)
    BY <1>2, <2>1, HeadAndTail
  <2> QED BY <2>1, <2>2
<1>4. /\ log' \in Seq(1..seq) /\ Elements(log') = Elements(log) \cup {h} /\ NoRepeats(log')
  <2>1. PICK q, L, S : q = log /\ L = log' /\ S = 1..seq
    OBVIOUS
  <2>2. q \in Seq(S) /\ NoRepeats(q) /\ h \in S /\ h \notin Elements(q) /\ L = Append(q, h)
    BY <1>1, <1>2, <1>3, <2>1 DEF StoreOK, Once
  <2>3. L \in Seq(S) /\ Elements(L) = Elements(q) \cup {h} /\ NoRepeats(L)
    BY <2>2, WithAppended
  <2> QED BY <2>1, <2>3
<1>5. flush' \in {"no", "retrying", "sleeping"}
  BY <1>1 DEF AfterRetry, StoreOK
<1>6. CASE retries' = retries \ {r}
  <2>1. StoreOK'
    BY <1>1, <1>4, <1>5, <1>6 DEF StoreOK, Retries
  <2>2. InOnePlace(saving', log', failed', retries')
    BY <1>1, <1>2, <1>3, <1>4, <1>6 DEF Once, InOnePlace
  <2> QED BY <2>1, <2>2, OnceNext
<1>7. CASE Len(b) > 1 /\ retries' = (retries \ {r}) \cup {[r EXCEPT !.batch = Tail(b)]}
  <2>1. PICK n : n = [r EXCEPT !.batch = t]
    OBVIOUS
  <2>2. t # <<>>
    <3>1. Len(t) # 0
      BY <1>3, <1>7
    <3> QED BY <3>1
  <2>3. n \in Retries /\ n.batch = t
    BY <1>2, <1>3, <2>1, <2>2 DEF Retries
  <2>4. retries' = (retries \ {r}) \cup {n}
    BY <1>3, <1>7, <2>1
  <2>5. StoreOK'
    BY <1>1, <1>4, <1>5, <2>3, <2>4 DEF StoreOK, Retries
  <2>6. PICK T, H : T = Elements(t) /\ H = Elements(log) \cup {h}
    OBVIOUS
  <2>7. /\ Elements(n.batch) = T /\ NoRepeats(n.batch) /\ Elements(log') = H
        /\ T \cap (saving \cup H \cup Elements(failed)) = {}
        /\ \A q \in retries : q # r => T \cap Elements(q.batch) = {} /\ Elements(q.batch) \cap H = {}
        /\ saving \cap H = {} /\ Elements(failed) \cap H = {}
    BY <1>2, <1>3, <1>4, <2>3, <2>6 DEF Once
  <2>8. ASSUME NEW q \in retries'
        PROVE  /\ NoRepeats(q.batch)
               /\ Elements(q.batch) \cap (saving \cup H \cup Elements(failed)) = {}
    <3>1. CASE q = n
      BY <2>7, <3>1
    <3>2. CASE q \in retries /\ q # r
      BY <2>7, <3>2 DEF Once
    <3> QED BY <2>4, <3>1, <3>2
  <2>9. ASSUME NEW p \in retries', NEW q \in retries', p # q
        PROVE  Elements(p.batch) \cap Elements(q.batch) = {}
    <3>1. CASE p = n
      BY <2>4, <2>7, <2>9, <3>1
    <3>2. CASE q = n
      BY <2>4, <2>7, <2>9, <3>2
    <3>3. CASE p # n /\ q # n
      BY <2>4, <2>9, <3>3 DEF Once
    <3> QED BY <3>1, <3>2, <3>3
  <2>10. InOnePlace(saving', log', failed', retries')
    <3>1. NoRepeats(failed) /\ saving \cap Elements(failed) = {}
      BY DEF Once
    <3> QED BY <1>1, <1>4, <2>7, <2>8, <2>9, <3>1 DEF InOnePlace
  <2> QED BY <2>5, <2>10, OnceNext
<1> QED BY <1>1, <1>6, <1>7

\* A retry that fails: the head of its batch is back in the buffer.
LEMMA StoreRetryFails ==
    ASSUME BusAssumption, StoreOK, Once, NEW r \in retries, RetryFails(r)
    PROVE  StoreOK' /\ Once'
<1>b. PICK b : b = r.batch
  OBVIOUS
<1>1. /\ failed' = <<Head(b)>> \o failed /\ retries' = retries \ {r}
      /\ faults < MaxFaults /\ faults' = faults + 1
      /\ AfterRetry(r) /\ UNCHANGED <<seq, critical, saving, log>>
  BY <1>b DEF RetryFails
<1>2. /\ b \in Seq(critical) /\ b # <<>>
      /\ Elements(b) \cap (saving \cup Elements(log) \cup Elements(failed)) = {}
      /\ \A q \in retries : q # r => Elements(b) \cap Elements(q.batch) = {}
  BY <1>b DEF StoreOK, Retries, Once
<1>3. PICK h : h = Head(b) /\ h \in critical /\ h \in Elements(b)
  BY <1>2, HeadAndTail
<1>4. failed' \in Seq(critical) /\ Elements(failed') = {h} \cup Elements(failed) /\ NoRepeats(failed')
  <2>1. PICK q, p : q = failed /\ p = failed'
    OBVIOUS
  <2>2. q \in Seq(critical) /\ NoRepeats(q) /\ h \notin Elements(q) /\ p = <<h>> \o q
    BY <1>1, <1>2, <1>3, <2>1 DEF StoreOK, Once
  <2>3. p \in Seq(critical) /\ Elements(p) = {h} \cup Elements(q) /\ NoRepeats(p)
    BY <1>3, <2>2, Prepended
  <2> QED BY <2>1, <2>3
<1>5. flush' \in {"no", "retrying", "sleeping"} /\ faults' \in 0..MaxFaults
  BY <1>1 DEF AfterRetry, StoreOK, BusAssumption
<1>6. StoreOK'
  BY <1>1, <1>4, <1>5 DEF StoreOK, Retries
<1>7. InOnePlace(saving', log', failed', retries')
  <2>1. /\ h \notin saving /\ h \notin Elements(log)
        /\ \A q \in retries' : h \notin Elements(q.batch)
    BY <1>1, <1>2, <1>3
  <2>2. PICK F : F = failed'
    OBVIOUS
  <2>3. Elements(F) = {h} \cup Elements(failed) /\ NoRepeats(F)
    BY <1>4, <2>2
  <2>4. InOnePlace(saving, log, F, retries')
    BY <1>1, <2>1, <2>3 DEF Once, InOnePlace
  <2> QED BY <1>1, <2>2, <2>4
<1> QED BY <1>6, <1>7, OnceNext

\* The rounds of flushFailedEvents().
LEMMA StoreFlushes ==
    ASSUME StoreOK, Once, FlushRound \/ FlushEnds
    PROVE  StoreOK' /\ Once'
<1>1. CASE FlushRound
  <2>1. /\ failed # <<>> /\ TakeBatch("flush") /\ flush' = "retrying"
        /\ UNCHANGED <<seq, critical, saving, log, faults>>
    BY <1>1 DEF FlushRound
  <2>2. /\ saving' \subseteq saving /\ log' \in Seq(1..seq) /\ NoRepeats(log')
        /\ Elements(log') \cap (saving' \cup Elements(failed)) = {}
        /\ \A r \in retries : Elements(log') \cap Elements(r.batch) = {}
    BY <2>1 DEF StoreOK, Once
  <2> QED BY <2>1, <2>2, OnceTaken
<1>2. CASE FlushEnds
  <2>1. flush' = "no" /\ UNCHANGED <<seq, critical, saving, log, failed, retries, faults>>
    BY <1>2 DEF FlushEnds
  <2>2. StoreOK'
    BY <2>1 DEF StoreOK, Retries
  <2>3. InOnePlace(saving', log', failed', retries')
    BY <2>1, OnceNext
  <2> QED BY <2>2, <2>3, OnceNext
<1> QED BY <1>1, <1>2

\* Nothing else moves an event.
LEMMA StoreRests ==
    ASSUME BusAssumption, StoreOK, Once, UNCHANGED <<seq, critical, saving, log, failed, retries, flush>>,
           faults' = faults \/ (faults < MaxFaults /\ faults' = faults + 1)
    PROVE  StoreOK' /\ Once'
<1>1. faults' \in 0..MaxFaults
  BY DEF StoreOK, BusAssumption
<1>2. StoreOK'
  BY <1>1 DEF StoreOK, Retries
<1>3. InOnePlace(saving', log', failed', retries')
  BY OnceNext
<1> QED BY <1>2, <1>3, OnceNext

TimelineOK == timeline \in Seq(Events) /\ Len(timeline) <= TimelineLimit

\* emit() trims the timeline when it grows past its limit.
LEMMA TimelineKept ==
    ASSUME BusAssumption, SeqOK, TimelineOK, Emit
    PROVE  TimelineOK'
<1>1. PICK q, x, t : q = timeline /\ x = seq' /\ t = timeline'
  OBVIOUS
<1>2. /\ q \in Seq(Events) /\ Len(q) <= TimelineLimit /\ Len(q) \in Nat /\ x \in Events
      /\ TimelineKeep \in Nat /\ TimelineLimit \in Nat /\ TimelineKeep <= TimelineLimit
  BY <1>1 DEF TimelineOK, Emit, SeqOK, Events, BusAssumption
<1>3. PICK a : a = Append(q, x) /\ a \in Seq(Events) /\ Len(a) = Len(q) + 1
  <2>1. PICK a : a = Append(q, x)
    OBVIOUS
  <2>2. a \in Seq(Events) /\ Len(a) = Len(q) + 1
    BY <1>2, <2>1, AppendProperties
  <2> QED BY <2>1, <2>2
<1>4. t = IF Len(q) + 1 > TimelineLimit THEN LastOf(a, TimelineKeep) ELSE a
  BY <1>1, <1>3 DEF Emit
<1>5. LastOf(a, TimelineKeep) \in Seq(Events) /\ Len(LastOf(a, TimelineKeep)) <= TimelineKeep
  BY <1>2, <1>3, LastKept
<1>6. CASE Len(q) + 1 > TimelineLimit
  <2>1. t \in Seq(Events) /\ Len(t) <= TimelineKeep /\ Len(t) \in Nat
    BY <1>4, <1>5, <1>6
  <2>2. Len(t) <= TimelineLimit
    BY <1>2, <2>1
  <2> QED BY <1>1, <2>1, <2>2 DEF TimelineOK, Events
<1>7. CASE ~(Len(q) + 1 > TimelineLimit)
  <2>1. t \in Seq(Events) /\ Len(t) = Len(q) + 1
    BY <1>3, <1>4, <1>7
  <2>2. Len(t) <= TimelineLimit
    BY <1>2, <1>7, <2>1
  <2> QED BY <1>1, <2>1, <2>2 DEF TimelineOK, Events
<1> QED BY <1>6, <1>7

----------------------------------------------------------------------------
\* The invariant: each part of the bus, and what holds the parts together.

BusInv == SeqOK /\ SubsOK /\ SubInv /\ StoreOK /\ Once /\ TimelineOK

\* The invariant holds at first.
LEMMA BusInitHolds == BusAssumption /\ Init => BusInv
<1> SUFFICES ASSUME BusAssumption, Init PROVE BusInv
  OBVIOUS
<1>1. SeqOK /\ seq = 0 /\ MaxEvents \in Nat
  BY DEF SeqOK, Init, BusAssumption
<1>2. PICK e : e = <<>> /\ e \in Seq(Events)
  BY Emptied
<1>3. PICK N : /\ N = NoSubscriber /\ N \in SubStates
               /\ N.state = "none" /\ N.got = e /\ N.queue = e /\ ~N.waiting
               /\ N.read = {} /\ N.at = -1 /\ N.replay = "no"
  <2>1. PICK N : N = NoSubscriber
    OBVIOUS
  <2>2. N = [state |-> "none", since |-> 0, at |-> -1, queue |-> e, waiting |-> FALSE,
             replay |-> "no", todo |-> e, read |-> {}, got |-> e]
    BY <1>2, <2>1 DEF NoSubscriber
  <2>3. 0 \in 0..MaxEvents /\ -1 \in -1..MaxEvents /\ {} \in SUBSET Events
    BY <1>1
  <2>4. N \in SubStates
    BY <1>2, <2>2, <2>3 DEF SubStates
  <2> QED BY <2>1, <2>2, <2>4
<1>4. \A s \in Subscribers : sub[s] = N
  BY <1>3 DEF Init
<1>5. SubsOK
  BY <1>3 DEF SubsOK, Init
<1>6. Fresh(N) /\ Covered(N, seq) /\ InFeed(N, seq)
  BY <1>1, <1>2, <1>3 DEF Fresh, Covered, InFeed
<1>7. SubInv
  BY <1>4, <1>6 DEF SubInv
<1>8. StoreOK
  BY <1>1 DEF StoreOK, Init, BusAssumption
<1>9. Once
  <2>1. log = e /\ failed = e /\ saving = {} /\ retries = {} /\ Elements(e) = {} /\ NoRepeats(e)
    BY <1>2, OfEmpty DEF Init
  <2> QED BY <2>1 DEF Once
<1>10. TimelineOK
  <2>1. timeline = e /\ Len(e) = 0 /\ TimelineLimit \in Nat
    BY <1>2 DEF Init, BusAssumption
  <2> QED BY <1>2, <2>1 DEF TimelineOK
<1> QED BY <1>1, <1>5, <1>7, <1>8, <1>9, <1>10 DEF BusInv

\* emit(), for all the subscribers at once.
From == [s \in Live |-> sub[s].at]
Received == [s \in Live |-> sub[s].got]
Waiters == {s \in Live : sub[s].waiting}

\* emit() keeps the parts about subscribers, and hands the event at once to those
\* that wait.
LEMMA EmittedToAll ==
    ASSUME BusAssumption, SeqOK, SubsOK, SubInv, Emit
    PROVE  /\ SeqOK' /\ SubsOK' /\ SubInv'
           /\ From' = From
           /\ Received' = [s \in Live |-> IF s \in Waiters THEN Append(Received[s], seq') ELSE Received[s]]
<1>1. /\ seq < MaxEvents /\ seq' = seq + 1 /\ seq \in 0..MaxEvents /\ MaxEvents \in Nat
      /\ sub' = [s \in Subscribers |-> Pushed(sub[s], <<seq'>>)]
  BY DEF Emit, SeqOK, BusAssumption
<1>2. SeqOK'
  BY <1>1 DEF SeqOK
<1>3. ASSUME NEW s \in Subscribers
      PROVE  /\ sub'[s] \in SubStates /\ sub'[s].at = sub[s].at
             /\ Fresh(sub'[s]) /\ Covered(sub'[s], seq')
             /\ s \in Live =>
                  /\ InFeed(sub'[s], seq')
                  /\ sub'[s].got = IF sub[s].waiting THEN Append(sub[s].got, seq') ELSE sub[s].got
  <2>1. PICK S, x, T : S = sub[s] /\ x = seq' /\ T = Pushed(S, <<x>>)
    OBVIOUS
  <2>2. T = sub'[s]
    BY <1>1, <2>1
  <2>3. S \in SubStates /\ x = seq + 1 /\ Fresh(S) /\ Covered(S, seq) /\ (s \in Live => InFeed(S, seq))
    BY <1>1, <2>1 DEF SubsOK, SubInv
  <2>4. /\ T \in SubStates /\ T.at = S.at /\ Fresh(T) /\ Covered(T, x)
        /\ InFeed(S, seq) => InFeed(T, x) /\ T.got = IF S.waiting THEN Append(S.got, x) ELSE S.got
    BY <1>1, <2>1, <2>3, EmittedTo
  <2>5. s \in Live => InFeed(T, x) /\ T.got = IF S.waiting THEN Append(S.got, x) ELSE S.got
    BY <2>3, <2>4
  <2> QED BY <2>1, <2>2, <2>4, <2>5
<1>4. SubsOK'
  BY <1>1, <1>3 DEF SubsOK
<1>5. SubInv'
  BY <1>3 DEF SubInv
<1>6. Live \subseteq Subscribers
  BY DEF Subscribers
<1>7. From' = From
  BY <1>3, <1>6 DEF From
<1>8. Received' = [s \in Live |-> IF s \in Waiters THEN Append(Received[s], seq') ELSE Received[s]]
  BY <1>3, <1>6 DEF Received, Waiters
<1> QED BY <1>2, <1>4, <1>5, <1>7, <1>8

\* What the feed sees of a step of one subscriber.
LEMMA FeedOfOne ==
    ASSUME SubsOK, NEW s \in Subscribers, NEW T, sub' = [sub EXCEPT ![s] = T]
    PROVE  /\ s \notin Live => From' = From /\ Received' = Received
           /\ s \in Live => /\ From' = [From EXCEPT ![s] = T.at]
                            /\ Received' = [Received EXCEPT ![s] = T.got]
<1>1. sub'[s] = T /\ \A r \in Subscribers : r # s => sub'[r] = sub[r]
  BY DEF SubsOK
<1>2. Live \subseteq Subscribers
  BY DEF Subscribers
<1>3. ASSUME s \notin Live PROVE From' = From /\ Received' = Received
  BY <1>1, <1>2, <1>3 DEF From, Received
<1>4. ASSUME s \in Live
      PROVE  /\ From' = [From EXCEPT ![s] = T.at]
             /\ Received' = [Received EXCEPT ![s] = T.got]
  <2>1. From' = [r \in Live |-> IF r = s THEN T.at ELSE sub[r].at]
    BY <1>1, <1>2, <1>4 DEF From
  <2>2. Received' = [r \in Live |-> IF r = s THEN T.got ELSE sub[r].got]
    BY <1>1, <1>2, <1>4 DEF Received
  <2>3. From' = [From EXCEPT ![s] = T.at]
    BY <2>1, <1>4 DEF From
  <2>4. Received' = [Received EXCEPT ![s] = T.got]
    BY <2>2, <1>4 DEF Received
  <2> QED BY <2>3, <2>4
<1> QED BY <1>3, <1>4

\* A step of the store, which no subscriber sees.
StoreStep ==
    \/ \E e \in Events : Appended(e) \/ AppendFails(e)
    \/ \E r \in retries : RetryAppended(r) \/ RetryFails(r)
    \/ FlushRound \/ FlushEnds

\* Every step of the store keeps the invariant.
LEMMA StoreStepHolds ==
    ASSUME BusAssumption, BusInv, StoreStep
    PROVE  BusInv' /\ UNCHANGED <<seq, sub>>
<1> USE DEF BusInv
<1>1. StoreOK' /\ Once'
  BY StoreAppends, StoreRefuses, StoreRetries, StoreRetryFails, StoreFlushes DEF StoreStep
<1>2. UNCHANGED <<seq, sub, timeline>>
  BY DEF StoreStep, Appended, AppendFails, RetryAppended, RetryFails, FlushRound, FlushEnds
<1>3. SeqOK' /\ SubsOK' /\ TimelineOK'
  BY <1>2 DEF SeqOK, SubsOK, TimelineOK
<1>4. SubInv'
  BY <1>2 DEF SubInv
<1> QED BY <1>1, <1>2, <1>3, <1>4

\* A step of one subscriber, which the store does not see.
SubStep(s) == Subscribe(s) \/ Ask(s) \/ Close(s) \/ ReplayRead(s) \/ ReplayPush(s) \/ ReplayFails(s)

\* Every step of a subscriber keeps the invariant.
LEMMA SubStepHolds ==
    ASSUME BusAssumption, BusInv, NEW s \in Subscribers, SubStep(s)
    PROVE  BusInv' /\ seq' = seq
<1> USE DEF BusInv
<1>1. \E T : OneStep(s, T)
  <2>1. log \in Seq(1..seq) /\ timeline \in Seq(Events)
    BY DEF StoreOK, TimelineOK
  <2> QED BY <2>1, SubscribeStep, AskStep, CloseStep, ReplayReadStep, ReplayPushStep, ReplayFailsStep
          DEF SubStep
<1>2. UNCHANGED <<seq, critical, timeline, saving, log, failed, retries, flush>>
  BY DEF SubStep, Subscribe, Ask, Close, ReplayRead, ReplayPush, ReplayFails, storeVars
<1>3. faults' = faults \/ (faults < MaxFaults /\ faults' = faults + 1)
  BY DEF SubStep, Subscribe, Ask, Close, ReplayRead, ReplayPush, ReplayFails, storeVars
<1>4. StoreOK' /\ Once'
  BY <1>2, <1>3, StoreRests
<1>5. SubsOK' /\ SubInv'
  <2>1. PICK T : OneStep(s, T)
    BY <1>1
  <2> QED BY <1>2, <2>1, OneChanges DEF OneStep
<1>6. SeqOK' /\ TimelineOK'
  BY <1>2 DEF SeqOK, TimelineOK
<1> QED BY <1>2, <1>4, <1>5, <1>6

\* A step is an emission, or one of the store, or one of a subscriber.
LEMMA NextKinds == Next => Emit \/ StoreStep \/ \E s \in Subscribers : SubStep(s)
BY DEF Next, SubNext, StoreNext, StoreStep, SubStep

\* Every step keeps the invariant.
LEMMA BusStep == BusAssumption /\ BusInv /\ [Next]_vars => BusInv'
<1> SUFFICES ASSUME BusAssumption, BusInv, [Next]_vars PROVE BusInv'
  OBVIOUS
<1>1. CASE Emit
  <2>1. SeqOK' /\ SubsOK' /\ SubInv'
    BY <1>1, EmittedToAll DEF BusInv
  <2>2. StoreOK' /\ Once'
    BY <1>1, StoreEmits DEF BusInv
  <2>3. TimelineOK'
    BY <1>1, TimelineKept DEF BusInv
  <2> QED BY <2>1, <2>2, <2>3 DEF BusInv
<1>2. CASE StoreStep
  BY <1>2, StoreStepHolds
<1>3. CASE \E s \in Subscribers : SubStep(s)
  BY <1>3, SubStepHolds
<1>4. CASE UNCHANGED vars
  <2>1. UNCHANGED <<seq, critical, timeline, saving, log, failed, retries, flush, sub, faults>>
    BY <1>4 DEF vars, storeVars
  <2>2. StoreOK' /\ Once'
    BY <2>1, StoreRests DEF BusInv
  <2>3. SeqOK' /\ SubsOK' /\ TimelineOK'
    BY <2>1 DEF BusInv, SeqOK, SubsOK, TimelineOK
  <2>4. SubInv'
    BY <2>1 DEF BusInv, SubInv
  <2> QED BY <2>2, <2>3, <2>4 DEF BusInv
<1> QED BY <1>1, <1>2, <1>3, <1>4, NextKinds

\* The types of the variables.
THEOREM BusTypes == Spec => []TypeOK
<1>1. BusInv => TypeOK
  BY DEF BusInv, SeqOK, SubsOK, StoreOK, TimelineOK, TypeOK, Retries
<1> QED BY <1>1, BusInitHolds, BusStep, BusAssumption, PTL DEF Spec

\* For any number of events, subscribers and failures: the first append of an
\* event, the automatic retries and flushFailedEvents() never put an event into
\* the store twice, or keep one for another append that is in it; and a
\* subscriber with a bookmark has, or is about to get, all that was in the store
\* when its replay read it and all that was emitted since it subscribed.
THEOREM EventsAlwaysKept == Spec => []EventsAreKept
<1>1. BusInv => EventsAreKept
  <2> SUFFICES ASSUME BusInv PROVE StoredOnce /\ ReplayCovers
    BY DEF EventsAreKept
  <2>1. StoredOnce
    <3>1. \A i, j \in 1..Len(log) : log[i] = log[j] => i = j
      BY DEF BusInv, Once, NoRepeats
    <3>2. ASSUME NEW x \in Held PROVE x \notin Elements(log)
      <4>1. x \in saving \/ x \in Elements(failed) \/ \E r \in retries : x \in Elements(r.batch)
        BY <3>2 DEF Held
      <4> QED BY <4>1 DEF BusInv, Once
    <3> QED BY <3>1, <3>2 DEF StoredOnce
  <2>2. ReplayCovers
    <3>1. Replaying \subseteq Subscribers
      BY DEF Subscribers
    <3> QED BY <3>1 DEF BusInv, SubInv, Covered, ReplayCovers
  <2> QED BY <2>1, <2>2
<1> QED BY <1>1, BusInitHolds, BusStep, BusAssumption, PTL DEF Spec

\* What the feed sees of the bus.
LEMMA FeedInit == Init => Feed!Init
BY DEF Init, Feed!Init, NoSubscriber, Feed!NotReading, Subscribers

\* Every step of the bus is a step of the feed, or changes nothing it sees.
LEMMA FeedStep == BusAssumption /\ BusInv /\ [Next]_vars => [Feed!Next]_(Feed!feedVars)
<1> SUFFICES ASSUME BusAssumption, BusInv, [Next]_vars PROVE [Feed!Next]_(Feed!feedVars)
  OBVIOUS
<1> USE DEF BusInv
<1>1. CASE Emit
  <2>1. /\ From' = From
        /\ Received' = [s \in Live |-> IF s \in Waiters THEN Append(Received[s], seq') ELSE Received[s]]
    BY <1>1, EmittedToAll
  <2>2. ASSUME NEW s \in Waiters PROVE From[s] # -1 /\ From[s] + Len(Received[s]) + 1 = seq'
    <3>1. PICK S, n : S = sub[s] /\ n = seq
      OBVIOUS
    <3>2. s \in Live /\ s \in Subscribers /\ S.waiting /\ S \in SubStates /\ n \in Nat
      BY <3>1 DEF Waiters, Subscribers, SubsOK, SeqOK
    <3>3. InFeed(S, n)
      BY <3>1, <3>2 DEF SubInv
    <3>4. S.state = "live" /\ S.queue = <<>> /\ S.at # -1 /\ S.at + Len(S.got) + Len(S.queue) = n
      BY <3>2, <3>3 DEF InFeed
    <3>5. S.at \in Int /\ Len(S.got) \in Int /\ Len(S.queue) = 0
      <4>1. S.at \in -1..MaxEvents /\ S.got \in Seq(Events)
        BY <3>2, SubFields
      <4> QED BY <3>4, <4>1
    <3>6. S.at + Len(S.got) + 1 = n + 1
      BY <3>4, <3>5, <3>2
    <3>7. seq' = n + 1
      BY <1>1, <3>1 DEF Emit
    <3> QED BY <3>1, <3>2, <3>4, <3>6, <3>7 DEF From, Received
  <2>3. seq' = seq + 1 /\ Waiters \in SUBSET Live
    BY <1>1 DEF Emit, Waiters
  <2>w. PICK R \in SUBSET Live : R = Waiters
    BY <2>3
  <2>4. Feed!EmitTo(R)
    BY <2>1, <2>2, <2>3, <2>w DEF Feed!EmitTo, Feed!NextEvent, Feed!NotReading, From, Received
  <2>5. \E Q \in SUBSET Live : Feed!EmitTo(Q)
    BY <2>4, Zenon
  <2>6. Feed!Next
    BY <2>5, Zenon DEF Feed!Next
  <2> QED BY <2>6
<1>2. CASE StoreStep
  BY <1>2, StoreStepHolds DEF Feed!feedVars
<1>3. ASSUME NEW s \in Subscribers, SubStep(s) PROVE [Feed!Next]_(Feed!feedVars)
  <2> DEFINE Quiet == seq' = seq /\ From' = From /\ Received' = Received
  <2>0. Quiet => [Feed!Next]_(Feed!feedVars)
    BY DEF Feed!feedVars, From, Received
  <2>1. seq' = seq
    BY <1>3, SubStepHolds
  <2>2. CASE s \notin Live
    <3>1. PICK T : sub' = [sub EXCEPT ![s] = T]
      <4>1. log \in Seq(1..seq) /\ timeline \in Seq(Events)
        BY DEF StoreOK, TimelineOK
      <4> QED BY <1>3, <4>1, SubscribeStep, AskStep, CloseStep, ReplayReadStep, ReplayPushStep, ReplayFailsStep
              DEF SubStep, OneStep
    <3> QED BY <2>0, <2>1, <2>2, <3>1, FeedOfOne
  <2>3. CASE Subscribe(s) /\ s \in Live
    <3>1. PICK T : /\ sub' = [sub EXCEPT ![s] = T]
                   /\ sub[s].at = -1 /\ T.at = seq /\ T.got = sub[s].got
      BY <2>3, SubscribeStep DEF OneStep
    <3>0. From' = [From EXCEPT ![s] = T.at] /\ Received' = [Received EXCEPT ![s] = T.got]
      BY <2>3, <3>1, FeedOfOne
    <3>2. From' = [From EXCEPT ![s] = seq] /\ Received' = [Received EXCEPT ![s] = sub[s].got]
      BY <3>0, <3>1
    <3>3. Received' = Received /\ From[s] = -1
      BY <2>3, <3>1, <3>2 DEF Received, From
    <3>4. Feed!Subscribe(s)
      BY <2>1, <2>3, <3>2, <3>3 DEF Feed!Subscribe, Feed!NotReading, From, Received
    <3> QED BY <2>3, <3>4 DEF Feed!Next
  <2>4. CASE Close(s) /\ s \in Live
    <3>1. PICK T : /\ sub' = [sub EXCEPT ![s] = T] /\ T.at = sub[s].at /\ T.got = sub[s].got
      BY <2>4, CloseStep DEF OneStep
    <3>0. From' = [From EXCEPT ![s] = T.at] /\ Received' = [Received EXCEPT ![s] = T.got]
      BY <2>4, <3>1, FeedOfOne
    <3>2. From' = [From EXCEPT ![s] = sub[s].at] /\ Received' = [Received EXCEPT ![s] = sub[s].got]
      BY <3>0, <3>1
    <3>3. Received' = Received /\ From' = From
      BY <2>4, <3>2 DEF Received, From
    <3> QED BY <2>0, <2>1, <3>3
  <2>5. CASE Ask(s) /\ s \in Live
    <3>1. PICK T : /\ sub' = [sub EXCEPT ![s] = T] /\ sub[s].state = "live" /\ T.at = sub[s].at
                   /\ \/ T.got = sub[s].got
                      \/ sub[s].queue # <<>> /\ T.got = Append(sub[s].got, sub[s].queue[1])
      BY <2>5, AskStep DEF OneStep
    <3>0. From' = [From EXCEPT ![s] = T.at] /\ Received' = [Received EXCEPT ![s] = T.got]
      BY <2>5, <3>1, FeedOfOne
    <3>2. From' = [From EXCEPT ![s] = sub[s].at] /\ Received' = [Received EXCEPT ![s] = T.got]
      BY <3>0, <3>1
    <3>3. From' = From
      BY <2>5, <3>2 DEF From
    <3>4. CASE T.got = sub[s].got
      <4>1. Received' = Received
        BY <2>5, <3>2, <3>4 DEF Received
      <4> QED BY <2>0, <2>1, <3>3, <4>1
    <3>5. CASE sub[s].queue # <<>> /\ T.got = Append(sub[s].got, sub[s].queue[1])
      <4>1. PICK S, n, x : S = sub[s] /\ n = seq /\ x = S.queue[1]
        OBVIOUS
      <4>2. S \in SubStates /\ n \in Int /\ InFeed(S, n) /\ S.state = "live"
        BY <2>5, <3>1, <4>1 DEF SubsOK, SeqOK, SubInv, Subscribers
      <4>3. S.at \in Int /\ Len(S.got) \in Int /\ Len(S.queue) \in Nat /\ Len(S.queue) # 0
        <5>1. S.at \in -1..MaxEvents /\ S.got \in Seq(Events) /\ S.queue \in Seq(Events) /\ S.queue # <<>>
          BY <3>5, <4>1, <4>2, SubFields
        <5> QED BY <5>1
      <4>4. S.at # -1 /\ S.at + Len(S.got) + Len(S.queue) = n /\ x = S.at + Len(S.got) + 1
        <5>1. PICK a, g, k \in Int : a = S.at /\ g = Len(S.got) /\ k = Len(S.queue) /\ k > 0
          <6>1. PICK a, g, k : a = S.at /\ g = Len(S.got) /\ k = Len(S.queue)
            OBVIOUS
          <6>2. a \in Int /\ g \in Int /\ k \in Nat /\ k # 0
            BY <4>3, <6>1
          <6>3. k > 0 /\ k \in Int
            BY <6>2
          <6> QED BY <6>1, <6>2, <6>3
        <5>2. /\ a # -1 /\ a + g + k = n
              /\ \A i \in 1..k : S.queue[i] = a + g + i
          BY <4>2, <5>1 DEF InFeed
        <5>3. 1 \in 1..k
          BY <5>1
        <5>4. S.queue[1] = a + g + 1
          BY <5>2, <5>3
        <5> QED BY <4>1, <5>1, <5>2, <5>4
      <4>5. x <= n
        <5>1. PICK a, g, k \in Int : a = S.at /\ g = Len(S.got) /\ k = Len(S.queue) /\ k > 0
          <6>1. PICK a, g, k : a = S.at /\ g = Len(S.got) /\ k = Len(S.queue)
            OBVIOUS
          <6>2. a \in Int /\ g \in Int /\ k \in Nat /\ k # 0
            BY <4>3, <6>1
          <6>3. k > 0 /\ k \in Int
            BY <6>2
          <6> QED BY <6>1, <6>2, <6>3
        <5>2. a + g + k = n /\ x = a + g + 1
          BY <4>4, <5>1
        <5> QED BY <4>2, <5>1, <5>2
      <4>6. Received' = [Received EXCEPT ![s] = Append(Received[s], x)] /\ From[s] = S.at /\ Received[s] = S.got
        BY <2>5, <3>2, <3>5, <4>1 DEF Received, From
      <4>7. Feed!Deliver(s)
        BY <2>1, <2>5, <3>3, <4>1, <4>4, <4>5, <4>6
           DEF Feed!Deliver, Feed!NextEvent, Feed!NotReading, From, Received
      <4> QED BY <2>5, <4>7 DEF Feed!Next
    <3> QED BY <3>1, <3>4, <3>5
  <2>6. s \in Live => ~(ReplayRead(s) \/ ReplayPush(s) \/ ReplayFails(s))
    <3>1. log \in Seq(1..seq) /\ timeline \in Seq(Events)
      BY DEF StoreOK, TimelineOK
    <3> QED BY <3>1, ReplayReadStep, ReplayPushStep, ReplayFailsStep
  <2> QED BY <1>3, <2>2, <2>3, <2>4, <2>5, <2>6 DEF SubStep
<1>4. CASE UNCHANGED vars
  BY <1>4 DEF vars, Feed!feedVars
<1> QED BY <1>1, <1>2, <1>3, <1>4, NextKinds

\* A subscriber without a bookmark is handed every event from its subscription on,
\* in order, without gaps or repetitions, whatever others and the store do.
THEOREM BusImplementsFeed == Spec => ImplementsFeed
BY FeedInit, FeedStep, BusInitHolds, BusStep, BusAssumption, PTL DEF Spec, ImplementsFeed, Feed!Spec

=============================================================================
