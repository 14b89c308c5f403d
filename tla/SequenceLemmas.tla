---------------------------- MODULE SequenceLemmas ----------------------------
(***************************************************************************)
(* What the proofs need to know of sequences: what is in them, in which    *)
(* order, and how that changes as elements come and go; and that InOrder   *)
(* lists a finite set of integers in ascending order.                      *)
(***************************************************************************)
EXTENDS Orders, SequencesExt, SequenceTheorems, FiniteSetTheorems, WellFoundedInduction, TLAPS

LEMMA PrecedesIn ==
    ASSUME NEW s, NEW a, NEW b, Precedes(s, a, b)
    PROVE  a \in Range(s) /\ b \in Range(s)
BY DEF Precedes, Range

LEMMA RangeIn == ASSUME NEW S, NEW s \in Seq(S) PROVE Range(s) \subseteq S
BY DEF Range

LEMMA EmptyHasNothing ==
    /\ Range(<<>>) = {}
    /\ \A a, b : ~Precedes(<<>>, a, b)
    /\ IsInjective(<<>>)
BY DEF Range, Precedes, IsInjective

\* A sequence with an element put at its end.
LEMMA AppendOrder ==
    ASSUME NEW S, NEW s \in Seq(S), NEW x \in S
    PROVE  /\ Append(s, x) \in Seq(S)
           /\ Range(Append(s, x)) = Range(s) \cup {x}
           /\ IsInjective(s) /\ x \notin Range(s) => IsInjective(Append(s, x))
           /\ \A a, b : Precedes(Append(s, x), a, b) <=>
                 Precedes(s, a, b) \/ (a \in Range(s) /\ b = x)
<1> DEFINE t == Append(s, x)
<1>1. t \in Seq(S) /\ Len(t) = Len(s) + 1 /\ Len(s) \in Nat
  OBVIOUS
<1>2. DOMAIN s = 1..Len(s) /\ DOMAIN t = 1..(Len(s) + 1)
  OBVIOUS
<1>3. t[Len(s) + 1] = x /\ \A i \in 1..Len(s) : t[i] = s[i]
  OBVIOUS
<1> HIDE DEF t
<1>4. Range(t) = Range(s) \cup {x}
  BY <1>1, <1>2, <1>3 DEF Range
<1>5. IsInjective(s) /\ x \notin Range(s) => IsInjective(t)
  BY <1>1, <1>2, <1>3 DEF Range, IsInjective
<1>6. ASSUME NEW a, NEW b
      PROVE  Precedes(t, a, b) <=> Precedes(s, a, b) \/ (a \in Range(s) /\ b = x)
  <2>1. ASSUME Precedes(t, a, b) PROVE Precedes(s, a, b) \/ (a \in Range(s) /\ b = x)
    BY <2>1, <1>1, <1>2, <1>3 DEF Precedes, Range
  <2>2. ASSUME Precedes(s, a, b) PROVE Precedes(t, a, b)
    BY <2>2, <1>1, <1>2, <1>3 DEF Precedes
  <2>3. ASSUME a \in Range(s), b = x PROVE Precedes(t, a, b)
    BY <2>3, <1>1, <1>2, <1>3 DEF Precedes, Range
  <2> QED BY <2>1, <2>2, <2>3
<1> QED BY <1>1, <1>4, <1>5, <1>6 DEF t

\* A sequence with an element put at its front.
LEMMA PushOrder ==
    ASSUME NEW S, NEW s \in Seq(S), NEW x \in S
    PROVE  /\ <<x>> \o s \in Seq(S)
           /\ Range(<<x>> \o s) = Range(s) \cup {x}
           /\ IsInjective(s) /\ x \notin Range(s) => IsInjective(<<x>> \o s)
           /\ \A a, b : Precedes(<<x>> \o s, a, b) <=>
                 Precedes(s, a, b) \/ (a = x /\ b \in Range(s))
<1> DEFINE t == <<x>> \o s
<1>1. t \in Seq(S) /\ Len(t) = Len(s) + 1 /\ Len(s) \in Nat
  OBVIOUS
<1>2. DOMAIN s = 1..Len(s) /\ DOMAIN t = 1..(Len(s) + 1)
  BY <1>1
<1>3. t[1] = x /\ \A i \in 1..Len(s) : t[i + 1] = s[i]
  OBVIOUS
<1> HIDE DEF t
<1>4. Range(t) = Range(s) \cup {x}
  <2>1. ASSUME NEW i \in DOMAIN t PROVE t[i] \in Range(s) \cup {x}
    <3>1. CASE i = 1
      BY <3>1, <1>3
    <3>2. CASE i # 1
      <4>1. i - 1 \in 1..Len(s) /\ t[i] = s[i - 1]
        BY <3>2, <1>1, <1>2, <1>3
      <4> QED BY <4>1, <1>2 DEF Range
    <3> QED BY <3>1, <3>2
  <2>2. ASSUME NEW i \in DOMAIN s PROVE s[i] \in Range(t)
    <3>1. i + 1 \in DOMAIN t /\ t[i + 1] = s[i]
      BY <1>1, <1>2, <1>3
    <3> QED BY <3>1 DEF Range
  <2>3. x \in Range(t)
    BY <1>1, <1>2, <1>3 DEF Range
  <2> QED BY <2>1, <2>2, <2>3 DEF Range
<1>5. \A i \in DOMAIN t : i = 1 \/ (i - 1 \in DOMAIN s /\ t[i] = s[i - 1])
  BY <1>1, <1>2, <1>3
<1>6. IsInjective(s) /\ x \notin Range(s) => IsInjective(t)
  BY <1>1, <1>2, <1>3, <1>5 DEF Range, IsInjective
<1>7. ASSUME NEW a, NEW b
      PROVE  Precedes(t, a, b) <=> Precedes(s, a, b) \/ (a = x /\ b \in Range(s))
  <2>1. ASSUME Precedes(t, a, b) PROVE Precedes(s, a, b) \/ (a = x /\ b \in Range(s))
    <3>1. PICK i, j \in DOMAIN t : i < j /\ t[i] = a /\ t[j] = b
      BY <2>1 DEF Precedes
    <3>2. j - 1 \in DOMAIN s /\ b = s[j - 1]
      BY <3>1, <1>1, <1>2, <1>5
    <3>3. CASE i = 1
      BY <3>1, <3>2, <3>3, <1>3 DEF Range
    <3>4. CASE i # 1
      <4>1. i - 1 \in DOMAIN s /\ a = s[i - 1] /\ i - 1 < j - 1
        BY <3>1, <3>4, <1>1, <1>2, <1>5
      <4> QED BY <3>2, <4>1 DEF Precedes
    <3> QED BY <3>3, <3>4
  <2>2. ASSUME Precedes(s, a, b) PROVE Precedes(t, a, b)
    <3>1. PICK i, j \in DOMAIN s : i < j /\ s[i] = a /\ s[j] = b
      BY <2>2 DEF Precedes
    <3>2. i + 1 \in DOMAIN t /\ j + 1 \in DOMAIN t /\ i + 1 < j + 1 /\ t[i + 1] = a /\ t[j + 1] = b
      BY <3>1, <1>1, <1>2, <1>3
    <3> QED BY <3>2 DEF Precedes
  <2>3. ASSUME a = x, b \in Range(s) PROVE Precedes(t, a, b)
    <3>1. PICK j \in DOMAIN s : s[j] = b
      BY <2>3 DEF Range
    <3>2. 1 \in DOMAIN t /\ j + 1 \in DOMAIN t /\ 1 < j + 1 /\ t[1] = a /\ t[j + 1] = b
      BY <2>3, <3>1, <1>1, <1>2, <1>3
    <3> QED BY <3>2 DEF Precedes
  <2> QED BY <2>1, <2>2, <2>3
<1> QED BY <1>1, <1>4, <1>6, <1>7 DEF t

\* A sequence is its head before its tail.
LEMMA TailOrder ==
    ASSUME NEW S, NEW s \in Seq(S), s # <<>>
    PROVE  /\ Head(s) \in S /\ Tail(s) \in Seq(S)
           /\ Range(s) = Range(Tail(s)) \cup {Head(s)}
           /\ IsInjective(s) => IsInjective(Tail(s)) /\ Head(s) \notin Range(Tail(s))
           /\ \A a, b : Precedes(s, a, b) <=>
                 Precedes(Tail(s), a, b) \/ (a = Head(s) /\ b \in Range(Tail(s)))
<1>1. Head(s) \in S /\ Tail(s) \in Seq(S)
  OBVIOUS
<1>2. /\ Range(s) = Range(Tail(s)) \cup {Head(s)}
      /\ \A a, b : Precedes(s, a, b) <=>
            Precedes(Tail(s), a, b) \/ (a = Head(s) /\ b \in Range(Tail(s)))
  <2> DEFINE h == Head(s)
             t == Tail(s)
  <2>1. s = <<h>> \o t /\ h \in S /\ t \in Seq(S)
    OBVIOUS
  <2> HIDE DEF h, t
  <2> DEFINE u == <<h>> \o t
  <2>2. /\ Range(u) = Range(t) \cup {h}
        /\ \A a, b : Precedes(u, a, b) <=> Precedes(t, a, b) \/ (a = h /\ b \in Range(t))
    BY <2>1, PushOrder
  <2>3. s = u
    BY <2>1
  <2> HIDE DEF u
  <2>4. /\ Range(s) = Range(t) \cup {h}
        /\ \A a, b : Precedes(s, a, b) <=> Precedes(t, a, b) \/ (a = h /\ b \in Range(t))
    BY <2>2, <2>3
  <2> QED BY <2>4 DEF h, t
<1>3. IsInjective(s) => IsInjective(Tail(s)) /\ Head(s) \notin Range(Tail(s))
  <2> DEFINE t == Tail(s)
  <2>1. DOMAIN s = 1..Len(s) /\ DOMAIN t = 1..(Len(s) - 1) /\ Len(s) \in Nat
    OBVIOUS
  <2>2. Head(s) = s[1] /\ \A i \in DOMAIN t : t[i] = s[i + 1]
    OBVIOUS
  <2> HIDE DEF t
  <2>3. 1 \in DOMAIN s /\ \A i \in DOMAIN t : i + 1 \in DOMAIN s /\ i + 1 # 1
    <3>1. Len(s) # 0
      OBVIOUS
    <3> QED BY <2>1, <3>1
  <2>4. ASSUME IsInjective(s) PROVE IsInjective(t)
    <3> SUFFICES ASSUME NEW i \in DOMAIN t, NEW j \in DOMAIN t, t[i] = t[j] PROVE i = j
      BY DEF IsInjective
    <3>1. i + 1 = j + 1
      BY <2>2, <2>3, <2>4 DEF IsInjective
    <3> QED BY <2>1, <3>1
  <2>5. ASSUME IsInjective(s) PROVE Head(s) \notin Range(t)
    BY <2>2, <2>3, <2>5 DEF IsInjective, Range
  <2> QED BY <2>4, <2>5 DEF t
<1> QED BY <1>1, <1>2, <1>3

\* Which element goes.
LEMMA RemoveFirstIs ==
    ASSUME NEW S, NEW s \in Seq(S), NEW c
    PROVE  /\ c \notin Range(s) => RemoveFirst(s, c) = s
           /\ c \in Range(s) => \E k \in 1..Len(s) : s[k] = c /\ RemoveFirst(s, c) = RemoveAt(s, k)
<1> DEFINE I == {i \in 1..Len(s) : s[i] = c}
<1>1. Range(s) = {s[i] : i \in 1..Len(s)}
  BY DEF Range
<1>2. CASE c \notin Range(s)
  BY <1>1, <1>2 DEF RemoveFirst
<1>3. CASE c \in Range(s)
  <2>1. I # {} /\ I \subseteq Nat
    BY <1>1, <1>3
  <2>2. RemoveFirst(s, c) = RemoveAt(s, Min(I))
    BY <2>1 DEF RemoveFirst, SelectInSeq
  <2>3. PICK k \in I : \A j \in I : k <= j
    <3>1. PICK k \in I : \A j \in I : ~ (<<j, k>> \in OpToRel(<, Nat))
      BY <2>1, WFMin, NatLessThanWellFounded
    <3>2. \A j \in I : ~(j < k)
      BY <2>1, <3>1 DEF OpToRel
    <3> QED BY <3>2
  <2>4. Min(I) \in I
    BY <2>3 DEF Min
  <2>5. Min(I) \in 1..Len(s) /\ s[Min(I)] = c
    BY <2>4
  <2> QED BY <1>3, <2>2, <2>5
<1> QED BY <1>2, <1>3

\* Where the elements of s are after one has been removed.
LEMMA RemoveAtIs ==
    ASSUME NEW S, NEW s \in Seq(S), NEW k \in 1..Len(s)
    PROVE  /\ RemoveAt(s, k) \in Seq(S) /\ Len(RemoveAt(s, k)) = Len(s) - 1
           /\ \A i \in 1..(k - 1) : RemoveAt(s, k)[i] = s[i]
           /\ \A i \in k..(Len(s) - 1) : RemoveAt(s, k)[i] = s[i + 1]
<1> DEFINE a == SubSeq(s, 1, k - 1)
           b == SubSeq(s, k + 1, Len(s))
<1>1. a \in Seq(S) /\ Len(a) = k - 1 /\ \A i \in 1..(k - 1) : a[i] = s[i]
  OBVIOUS
<1>2. b \in Seq(S) /\ Len(b) = Len(s) - k /\ \A i \in 1..(Len(s) - k) : b[i] = s[k + i]
  OBVIOUS
<1>3. RemoveAt(s, k) = a \o b
  BY DEF RemoveAt
<1> HIDE DEF a, b
<1>4. a \o b \in Seq(S) /\ Len(a \o b) = Len(s) - 1
  <2>1. Len(a \o b) = Len(a) + Len(b) /\ a \o b \in Seq(S)
    BY <1>1, <1>2, ConcatProperties
  <2> QED BY <1>1, <1>2, <2>1
<1>5. \A i \in 1..(k - 1) : (a \o b)[i] = s[i]
  BY <1>1, <1>2
<1>6. ASSUME NEW i \in k..(Len(s) - 1) PROVE (a \o b)[i] = s[i + 1]
  <2>1. i - (k - 1) \in 1..(Len(s) - k) /\ k + (i - (k - 1)) = i + 1
    OBVIOUS
  <2>2. (a \o b)[i] = b[i - (k - 1)]
    BY <1>1, <1>2
  <2> QED BY <2>1, <2>2, <1>2
<1> QED BY <1>3, <1>4, <1>5, <1>6

\* A sequence without the first c.
LEMMA RemoveOrder ==
    ASSUME NEW S, NEW s \in Seq(S), NEW c
    PROVE  /\ RemoveFirst(s, c) \in Seq(S)
           /\ Range(RemoveFirst(s, c)) \subseteq Range(s)
           /\ Range(s) \ {c} \subseteq Range(RemoveFirst(s, c))
           /\ IsInjective(s) =>
                 /\ IsInjective(RemoveFirst(s, c))
                 /\ c \notin Range(RemoveFirst(s, c))
                 /\ \A a, b : Precedes(RemoveFirst(s, c), a, b) <=>
                       Precedes(s, a, b) /\ a # c /\ b # c
<1>1. CASE c \notin Range(s)
  <2>1. RemoveFirst(s, c) = s
    BY <1>1, RemoveFirstIs
  <2>2. \A a, b : Precedes(s, a, b) => a \in Range(s) /\ b \in Range(s)
    BY DEF Precedes, Range
  <2> QED BY <1>1, <2>1, <2>2
<1>2. CASE c \in Range(s)
  <2>1. PICK k \in 1..Len(s) : s[k] = c /\ RemoveFirst(s, c) = RemoveAt(s, k)
    BY <1>2, RemoveFirstIs
  <2> DEFINE t == RemoveAt(s, k)
             to(i) == IF i < k THEN i ELSE i + 1
             from(i) == IF i < k THEN i ELSE i - 1
  <2>2. /\ t \in Seq(S) /\ Len(s) \in Nat /\ k \in 1..Len(s)
        /\ DOMAIN s = 1..Len(s) /\ DOMAIN t = 1..(Len(s) - 1)
    BY RemoveAtIs
  <2>3. \A i \in DOMAIN t : to(i) \in DOMAIN s /\ to(i) # k /\ t[i] = s[to(i)]
    <3>1. \A i \in 1..(k - 1) : t[i] = s[i]
      BY RemoveAtIs
    <3>2. \A i \in k..(Len(s) - 1) : t[i] = s[i + 1]
      BY RemoveAtIs
    <3> HIDE DEF t
    <3> TAKE i \in DOMAIN t
    <3>3. CASE i < k
      BY <2>2, <3>1, <3>3
    <3>4. CASE ~(i < k)
      BY <2>2, <3>2, <3>4
    <3> QED BY <3>3, <3>4
  <2> HIDE DEF t
  <2>4. \A i \in DOMAIN s : i # k => from(i) \in DOMAIN t /\ to(from(i)) = i
    BY <2>2
  <2>5. \A i, j \in DOMAIN t : (i < j <=> to(i) < to(j)) /\ (to(i) = to(j) => i = j)
    BY <2>2
  <2>6. \A i, j \in DOMAIN s : i # k /\ j # k /\ i < j => from(i) < from(j)
    BY <2>2
  <2> HIDE DEF to, from
  <2>7. \A i \in DOMAIN s : i # k => t[from(i)] = s[i]
    BY <2>3, <2>4
  <2>8. Range(t) \subseteq Range(s) /\ Range(s) \ {c} \subseteq Range(t)
    BY <2>1, <2>3, <2>4, <2>7 DEF Range
  <2>9. ASSUME IsInjective(s) PROVE IsInjective(t) /\ c \notin Range(t)
    <3>1. IsInjective(t)
      BY <2>3, <2>5, <2>9 DEF IsInjective
    <3>2. c \notin Range(t)
      BY <2>1, <2>2, <2>3, <2>9 DEF IsInjective, Range
    <3> QED BY <3>1, <3>2
  <2>10. ASSUME IsInjective(s), NEW a, NEW b
         PROVE  Precedes(t, a, b) <=> Precedes(s, a, b) /\ a # c /\ b # c
    <3>1. ASSUME Precedes(t, a, b) PROVE Precedes(s, a, b) /\ a # c /\ b # c
      <4>1. PICK i, j \in DOMAIN t : i < j /\ t[i] = a /\ t[j] = b
        BY <3>1 DEF Precedes
      <4>2. to(i) < to(j) /\ s[to(i)] = a /\ s[to(j)] = b
        BY <4>1, <2>3, <2>5
      <4>3. a # c /\ b # c
        BY <4>1, <2>9, <2>10 DEF Range
      <4> QED BY <4>2, <4>3, <2>3 DEF Precedes
    <3>2. ASSUME Precedes(s, a, b), a # c, b # c PROVE Precedes(t, a, b)
      <4>1. PICK i, j \in DOMAIN s : i < j /\ s[i] = a /\ s[j] = b
        BY <3>2 DEF Precedes
      <4>2. i # k /\ j # k
        BY <4>1, <3>2, <2>1
      <4> QED BY <4>1, <4>2, <2>4, <2>6, <2>7 DEF Precedes
    <3> QED BY <3>1, <3>2
  <2> QED BY <2>1, <2>2, <2>8, <2>9, <2>10 DEF t
<1> QED BY <1>1, <1>2

-----------------------------------------------------------------------------
(* InOrder.                                                                *)

Below(S, n) == {m \in S : m < n}

\* A set of integers has more below a greater member.
LEMMA BelowGrows ==
    ASSUME NEW S \in SUBSET Int, IsFiniteSet(S), NEW a \in S, NEW b \in S, a < b
    PROVE  Cardinality(Below(S, a)) < Cardinality(Below(S, b))
<1> DEFINE A == Below(S, a)
           B == Below(S, b)
<1>1. A \subseteq S /\ B \subseteq S /\ a \notin A /\ A \cup {a} \subseteq B
  <2>1. a \in Int /\ b \in Int /\ \A m \in S : m \in Int
    OBVIOUS
  <2>2. \A m \in S : m < a => m < b
    BY <2>1
  <2>3. ~(a < a)
    BY <2>1
  <2> QED BY <2>2, <2>3 DEF Below
<1>2. IsFiniteSet(A) /\ IsFiniteSet(B)
  BY <1>1, FS_Subset
<1>3. Cardinality(A \cup {a}) = Cardinality(A) + 1
  BY <1>1, <1>2, FS_AddElement
<1>4. Cardinality(A \cup {a}) <= Cardinality(B)
  BY <1>1, <1>2, FS_Subset
<1>5. Cardinality(A) \in Nat /\ Cardinality(B) \in Nat
  BY <1>2, FS_CardinalityType
<1> QED BY <1>3, <1>4, <1>5

\* Some member has i - 1 below it, for each i up to the number of members.
LEMMA EachRank ==
    ASSUME NEW S \in SUBSET Int, IsFiniteSet(S)
    PROVE  /\ Cardinality(S) \in Nat
           /\ \A n \in S : Cardinality(Below(S, n)) \in 0..(Cardinality(S) - 1)
           /\ \A i \in 1..Cardinality(S) : \E n \in S : Cardinality(Below(S, n)) = i - 1
<1> DEFINE N == Cardinality(S)
           rank == [n \in S |-> Cardinality(Below(S, n)) + 1]
<1>1. N \in Nat
  BY FS_CardinalityType
<1>2. ASSUME NEW n \in S PROVE Cardinality(Below(S, n)) \in 0..(N - 1)
  <2>1. Below(S, n) \subseteq S \ {n}
    BY DEF Below
  <2>2. IsFiniteSet(S \ {n}) /\ Cardinality(S \ {n}) = N - 1
    BY FS_RemoveElement
  <2>3. IsFiniteSet(Below(S, n)) /\ Cardinality(Below(S, n)) <= Cardinality(S \ {n})
    BY <2>1, <2>2, FS_Subset
  <2>4. Cardinality(Below(S, n)) \in Nat
    BY <2>3, FS_CardinalityType
  <2> QED BY <1>1, <2>2, <2>3, <2>4
<1>3. ASSUME NEW i \in 1..N, \A n \in S : Cardinality(Below(S, n)) # i - 1 PROVE FALSE
  <2> DEFINE T == 1..N \ {i}
  <2>1. IsFiniteSet(1..N) /\ Cardinality(1..N) = N
    BY <1>1, FS_Interval
  <2>2. IsFiniteSet(T) /\ Cardinality(T) = N - 1
    BY <2>1, FS_RemoveElement
  <2>3. rank \in [S -> T]
    <3> SUFFICES ASSUME NEW n \in S PROVE Cardinality(Below(S, n)) + 1 \in T
      OBVIOUS
    <3> QED BY <1>1, <1>2, <1>3
  <2> HIDE DEF T, rank
  <2>4. PICK a, b \in S : a # b /\ rank[a] = rank[b]
    <3>1. Cardinality(T) < Cardinality(S)
      BY <1>1, <2>2
    <3> QED BY <2>2, <2>3, <3>1, FS_PigeonHole
  <2>5. a < b \/ b < a
    BY <2>4
  <2>6. Cardinality(Below(S, a)) = Cardinality(Below(S, b))
    BY <1>2, <2>4 DEF rank
  <2> QED BY <1>2, <2>5, <2>6, BelowGrows
<1> QED BY <1>1, <1>2, <1>3

\* A finite set of integers in its order.
LEMMA InOrderIs ==
    ASSUME NEW S \in SUBSET Int, IsFiniteSet(S)
    PROVE  /\ InOrder(S) \in Seq(S) /\ Len(InOrder(S)) = Cardinality(S)
           /\ Range(InOrder(S)) = S
           /\ IsInjective(InOrder(S))
           /\ \A i, j \in DOMAIN InOrder(S) : i < j => InOrder(S)[i] < InOrder(S)[j]
<1> DEFINE N == Cardinality(S)
           s == InOrder(S)
<1>1. s = [i \in 1..N |-> CHOOSE n \in S : Cardinality(Below(S, n)) = i - 1]
  BY DEF InOrder, Below
<1>2. N \in Nat
  BY EachRank
<1>3. \A i \in 1..N : s[i] \in S /\ Cardinality(Below(S, s[i])) = i - 1
  BY <1>1, EachRank
<1>4. DOMAIN s = 1..N
  BY <1>1
<1>5. s \in Seq(S) /\ Len(s) = N
  <2>1. s \in [1..N -> S]
    BY <1>1, <1>3, <1>4
  <2> QED BY <1>2, <2>1
<1> HIDE DEF s
<1>6. ASSUME NEW i \in 1..N, NEW j \in 1..N, i < j PROVE s[i] < s[j]
  <2>1. s[i] \in S /\ s[j] \in S /\ s[i] \in Int /\ s[j] \in Int
    BY <1>3
  <2>2. CASE s[i] = s[j]
    BY <1>3, <1>6, <2>2
  <2>3. CASE s[j] < s[i]
    <3>1. Cardinality(Below(S, s[j])) < Cardinality(Below(S, s[i]))
      BY <2>1, <2>3, BelowGrows
    <3> QED BY <1>3, <1>6, <3>1
  <2> QED BY <2>1, <2>2, <2>3
<1>7. IsInjective(s)
  BY <1>3, <1>4 DEF IsInjective
<1>8. ASSUME NEW n \in S PROVE n \in Range(s)
  <2> DEFINE i == Cardinality(Below(S, n)) + 1
  <2>1. i \in 1..N /\ Cardinality(Below(S, n)) = i - 1
    BY <1>2, EachRank
  <2> HIDE DEF i
  <2>2. s[i] \in S /\ Cardinality(Below(S, s[i])) = i - 1
    BY <1>3, <2>1
  <2>3. Cardinality(Below(S, s[i])) = Cardinality(Below(S, n)) /\ i \in Int
    BY <2>1, <2>2
  <2>4. s[i] = n
    <3>1. s[i] \in Int /\ n \in Int
      BY <2>2
    <3>4. Cardinality(Below(S, n)) \in Int
      BY <1>2, EachRank
    <3>2. CASE s[i] < n
      <4>1. Cardinality(Below(S, s[i])) < Cardinality(Below(S, n))
        BY <2>2, <3>2, BelowGrows
      <4> QED BY <2>3, <3>4, <4>1
    <3>3. CASE n < s[i]
      <4>1. Cardinality(Below(S, n)) < Cardinality(Below(S, s[i]))
        BY <2>2, <3>3, BelowGrows
      <4> QED BY <2>3, <3>4, <4>1
    <3> QED BY <3>1, <3>2, <3>3
  <2> QED BY <1>4, <2>1, <2>4 DEF Range
<1>9. Range(s) = S
  BY <1>3, <1>4, <1>8 DEF Range
<1> QED BY <1>4, <1>5, <1>6, <1>7, <1>9 DEF s

\* What a sequence has at some of its places.
LEMMA PickedIs ==
    ASSUME NEW S, NEW s \in Seq(S), NEW P \in SUBSET DOMAIN s
    PROVE  /\ Picked(s, P) \in Seq(S) /\ Len(Picked(s, P)) = Cardinality(P)
           /\ Range(Picked(s, P)) = {s[i] : i \in P}
           /\ IsInjective(s) => IsInjective(Picked(s, P))
           /\ \A a, b \in DOMAIN Picked(s, P) : a < b =>
                 \E i, j \in P : i < j /\ Picked(s, P)[a] = s[i] /\ Picked(s, P)[b] = s[j]
<1> DEFINE order == InOrder(P)
           t == Picked(s, P)
<1>1. DOMAIN s = 1..Len(s) /\ Len(s) \in Nat
  OBVIOUS
<1>2. P \in SUBSET Int /\ IsFiniteSet(P)
  <2>1. IsFiniteSet(1..Len(s))
    BY <1>1, FS_Interval
  <2>2. IsFiniteSet(P)
    BY <1>1, <2>1, FS_Subset
  <2> QED BY <1>1, <2>2
<1>3. /\ order \in Seq(P) /\ Len(order) = Cardinality(P) /\ Range(order) = P
      /\ IsInjective(order)
      /\ \A i, j \in DOMAIN order : i < j => order[i] < order[j]
  BY <1>2, InOrderIs
<1>4. t = [k \in DOMAIN order |-> s[order[k]]]
  BY DEF Picked
<1> HIDE DEF t, order
<1>5. DOMAIN order = 1..Len(order) /\ Len(order) \in Nat /\ \A k \in DOMAIN order : order[k] \in P
  BY <1>3
<1>6. DOMAIN t = DOMAIN order /\ \A k \in DOMAIN order : t[k] = s[order[k]] /\ s[order[k]] \in S
  <2>1. \A i \in DOMAIN s : s[i] \in S
    BY <1>1
  <2> QED BY <1>4, <1>5, <2>1
<1>7. t \in Seq(S) /\ Len(t) = Cardinality(P)
  <2> DEFINE N == Len(order)
  <2>1. N \in Nat /\ t \in [1..N -> S] /\ DOMAIN t = 1..N
    BY <1>4, <1>5, <1>6
  <2>2. N = Cardinality(P)
    BY <1>3
  <2> HIDE DEF N
  <2>3. t \in Seq(S)
    BY <2>1
  <2>4. Len(t) = N
    BY <2>1, <2>3, LenProperties
  <2> QED BY <2>2, <2>3, <2>4
<1>8. Range(t) = {s[i] : i \in P}
  <2>1. \A i \in P : \E k \in DOMAIN order : order[k] = i
    BY <1>3 DEF Range
  <2> QED BY <1>5, <1>6, <2>1 DEF Range
<1>9. ASSUME IsInjective(s) PROVE IsInjective(t)
  <2> SUFFICES ASSUME NEW a \in DOMAIN t, NEW b \in DOMAIN t, t[a] = t[b] PROVE a = b
    BY DEF IsInjective
  <2>1. order[a] \in DOMAIN s /\ order[b] \in DOMAIN s /\ s[order[a]] = s[order[b]]
    BY <1>5, <1>6
  <2>2. order[a] = order[b]
    BY <1>9, <2>1 DEF IsInjective
  <2> QED BY <1>3, <1>6, <2>2 DEF IsInjective
<1>10. ASSUME NEW a \in DOMAIN t, NEW b \in DOMAIN t, a < b
       PROVE  \E i, j \in P : i < j /\ t[a] = s[i] /\ t[b] = s[j]
  BY <1>3, <1>5, <1>6, <1>10
<1> QED BY <1>7, <1>8, <1>9, <1>10 DEF t

\* Those of a sequence that are in T.
LEMMA OnlyIs ==
    ASSUME NEW S, NEW s \in Seq(S), NEW T
    PROVE  /\ Only(s, T) \in Seq(S)
           /\ Range(Only(s, T)) = Range(s) \cap T
           /\ IsInjective(s) => IsInjective(Only(s, T))
           /\ \A a, b \in DOMAIN Only(s, T) : a < b =>
                 \E i, j \in DOMAIN s : i < j /\ Only(s, T)[a] = s[i] /\ Only(s, T)[b] = s[j]
<1> DEFINE P == {i \in DOMAIN s : s[i] \in T}
<1>1. P \in SUBSET DOMAIN s /\ Only(s, T) = Picked(s, P)
  BY DEF Only
<1>2. {s[i] : i \in P} = Range(s) \cap T
  BY DEF Range
<1> HIDE DEF P
<1>3. /\ Picked(s, P) \in Seq(S) /\ Range(Picked(s, P)) = {s[i] : i \in P}
      /\ IsInjective(s) => IsInjective(Picked(s, P))
      /\ \A a, b \in DOMAIN Picked(s, P) : a < b =>
            \E i, j \in P : i < j /\ Picked(s, P)[a] = s[i] /\ Picked(s, P)[b] = s[j]
  BY <1>1, PickedIs
<1> QED BY <1>1, <1>2, <1>3

\* Where the elements of s are after one has been put in.
LEMMA InsertAtIs ==
    ASSUME NEW S, NEW s \in Seq(S), NEW k \in 1..(Len(s) + 1), NEW e \in S
    PROVE  /\ InsertAt(s, k, e) \in Seq(S) /\ Len(InsertAt(s, k, e)) = Len(s) + 1
           /\ \A i \in 1..(k - 1) : InsertAt(s, k, e)[i] = s[i]
           /\ InsertAt(s, k, e)[k] = e
           /\ \A i \in k..Len(s) : InsertAt(s, k, e)[i + 1] = s[i]
<1> DEFINE a == SubSeq(s, 1, k - 1)
           b == SubSeq(s, k, Len(s))
           c == a \o <<e>>
<1>0. Len(s) \in Nat /\ k \in Int
  OBVIOUS
<1>1. a \in Seq(S) /\ Len(a) = k - 1 /\ \A i \in 1..(k - 1) : a[i] = s[i]
  OBVIOUS
<1>2. b \in Seq(S) /\ Len(b) = Len(s) - k + 1 /\ \A i \in 1..(Len(s) - k + 1) : b[i] = s[k + i - 1]
  OBVIOUS
<1>3. InsertAt(s, k, e) = c \o b
  BY DEF InsertAt
<1> HIDE DEF a, b
<1>4. c \in Seq(S) /\ Len(c) = k /\ c[k] = e /\ \A i \in 1..(k - 1) : c[i] = s[i]
  <2>1. c \in Seq(S) /\ Len(c) = Len(a) + 1
    BY <1>1
  <2>2. c[Len(a) + 1] = e
    BY <1>1
  <2>3. \A i \in 1..Len(a) : c[i] = a[i]
    BY <1>1
  <2> HIDE DEF c
  <2> QED BY <2>1, <2>2, <2>3, <1>1
<1> HIDE DEF c
<1>5. c \o b \in Seq(S) /\ Len(c \o b) = Len(s) + 1
  <2>1. Len(c \o b) = Len(c) + Len(b) /\ c \o b \in Seq(S)
    BY <1>2, <1>4, ConcatProperties
  <2> QED BY <1>0, <1>2, <1>4, <2>1
<1>6. \A i \in 1..k : (c \o b)[i] = c[i]
  BY <1>2, <1>4
<1>7. ASSUME NEW i \in k..Len(s) PROVE (c \o b)[i + 1] = s[i]
  <2>1. i + 1 - k \in 1..(Len(s) - k + 1) /\ k + (i + 1 - k) - 1 = i
    OBVIOUS
  <2>2. (c \o b)[i + 1] = b[i + 1 - k]
    BY <1>2, <1>4
  <2> QED BY <2>1, <2>2, <1>2
<1>8. k \in 1..k /\ \A i \in 1..(k - 1) : i \in 1..k
  OBVIOUS
<1> QED BY <1>3, <1>4, <1>5, <1>6, <1>7, <1>8

-----------------------------------------------------------------------------
(* Functions defined by recursion.                                        *)

\* Induction up to n, over the set of the numbers for which it holds.
LEMMA UpTo ==
    ASSUME NEW n \in Nat, NEW T, 0 \in T, \A k \in 1..n : k - 1 \in T => k \in T
    PROVE  \A k \in 0..n : k \in T
<1> DEFINE F == (0..n) \ T
<1> SUFFICES ASSUME F # {} PROVE FALSE
  OBVIOUS
<1>1. F \subseteq Nat /\ F # {}
  OBVIOUS
<1>2. PICK k \in F : \A j \in F : ~ (<<j, k>> \in OpToRel(<, Nat))
  BY <1>1, WFMin, NatLessThanWellFounded
<1>3. k \in 1..n /\ k \notin T
  <2>1. k \in 0..n /\ k \notin T
    OBVIOUS
  <2>2. k # 0
    BY <2>1
  <2> QED BY <2>1, <2>2
<1>4. k - 1 \in F
  BY <1>3
<1>5. k - 1 < k /\ k - 1 \in Nat /\ k \in Nat
  BY <1>3
<1> QED BY <1>2, <1>4, <1>5 DEF OpToRel

\* A function that begins with base and goes on step by step.
Steps(g, base, n, step) == g[0] = base /\ \A k \in 1..n : g[k] = step[<<k, g[k - 1]>>]

\* There is one.
LEMMA StepsExist ==
    ASSUME NEW S, NEW base \in S, NEW n \in Nat, NEW step \in [(1..n) \X S -> S]
    PROVE  \E g \in [0..n -> S] : Steps(g, base, n, step)
<1> DEFINE T == {m \in 0..n : \E g \in [0..m -> S] : Steps(g, base, m, step)}
<1>1. 0 \in T
  <2> DEFINE g == [k \in 0..0 |-> base]
  <2>1. g \in [0..0 -> S] /\ g[0] = base
    OBVIOUS
  <2>2. Steps(g, base, 0, step)
    BY <2>1 DEF Steps
  <2> HIDE DEF g
  <2> QED BY <2>1, <2>2
<1>2. ASSUME NEW m \in 1..n, m - 1 \in T PROVE m \in T
  <2>1. PICK g \in [0..(m - 1) -> S] : Steps(g, base, m - 1, step)
    BY <1>2
  <2> DEFINE h == [k \in 0..m |-> IF k = m THEN step[<<m, g[m - 1]>>] ELSE g[k]]
  <2>2. g[m - 1] \in S /\ step[<<m, g[m - 1]>>] \in S
    <3>1. g[m - 1] \in S
      OBVIOUS
    <3>2. <<m, g[m - 1]>> \in (1..n) \X S
      BY <3>1
    <3> QED BY <3>1, <3>2
  <2>3. \A k \in 0..(m - 1) : g[k] \in S /\ k # m /\ k \in 0..m
    OBVIOUS
  <2>4. h \in [0..m -> S]
    BY <2>2, <2>3
  <2>5. h[m] = step[<<m, g[m - 1]>>] /\ \A k \in 0..(m - 1) : h[k] = g[k]
    BY <2>3
  <2> HIDE DEF h
  <2>6. h[0] = base
    BY <2>1, <2>5 DEF Steps
  <2>7. ASSUME NEW k \in 1..m PROVE h[k] = step[<<k, h[k - 1]>>]
    <3>1. CASE k = m
      BY <3>1, <2>5
    <3>2. CASE k # m
      <4>1. k \in 1..(m - 1) /\ k \in 0..(m - 1) /\ k - 1 \in 0..(m - 1)
        BY <3>2
      <4> QED BY <4>1, <2>1, <2>5 DEF Steps
    <3> QED BY <3>1, <3>2
  <2>8. Steps(h, base, m, step) /\ m \in 0..n
    BY <2>6, <2>7 DEF Steps
  <2> QED BY <2>4, <2>8
<1> HIDE DEF T
<1>3. n \in T
  BY <1>1, <1>2, UpTo
<1> QED BY <1>3 DEF T

=============================================================================
