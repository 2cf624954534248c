------------------------- MODULE NormalizationProofs -------------------------
(***************************************************************************)
(* Proofs about Normalization, for texts of any length.                    *)
(***************************************************************************)
EXTENDS Normalization, SequenceTheorems, FiniteSetTheorems, WellFoundedInduction, TLAPS

-----------------------------------------------------------------------------
(***************************************************************************)
(* Positions.                                                              *)
(***************************************************************************)
\* From left to right, all positions, each once.
LEMMA AscendingMeans ==
  ASSUME NEW U \in SUBSET Nat, IsFiniteSet(U)
  PROVE  /\ Cardinality(U) \in Nat
         /\ Ascending(U) \in [1..Cardinality(U) -> U]
         /\ \A k, l \in 1..Cardinality(U) : k < l => Ascending(U)[k] < Ascending(U)[l]
         /\ \A i \in U : \E k \in 1..Cardinality(U) : Ascending(U)[k] = i
<1> DEFINE n == Cardinality(U)
           UpTo(i) == {j \in U : j <= i}
           c == [i \in U |-> Cardinality(UpTo(i))]
<1>0. \A i \in U : i \in Nat
  OBVIOUS
<1>1. n \in Nat
  BY FS_CardinalityType
<1>2. \A i \in U : IsFiniteSet(UpTo(i)) /\ c[i] \in 1..n
  <2> TAKE i \in U
  <2>1. IsFiniteSet(UpTo(i)) /\ Cardinality(UpTo(i)) \in Nat /\ Cardinality(UpTo(i)) <= n
    BY FS_Subset, FS_CardinalityType
  <2>2. Cardinality(UpTo(i)) # 0
    BY <2>1, FS_EmptySet
  <2> QED
    BY <1>1, <2>1, <2>2
<1>3. \A i, j \in U : i < j => c[i] < c[j]
  <2> SUFFICES ASSUME NEW i \in U, NEW j \in U, i < j PROVE c[i] < c[j]
    OBVIOUS
  <2>1. UpTo(i) \subseteq UpTo(j) /\ j \in UpTo(j) /\ j \notin UpTo(i)
    <3>1. \A m \in U : m <= i => m <= j
      BY <1>0
    <3>2. j <= j /\ ~(j <= i)
      BY <1>0
    <3> QED
      BY <3>1, <3>2
  <2>2. Cardinality(UpTo(i)) <= Cardinality(UpTo(j)) /\ UpTo(i) # UpTo(j)
        /\ (Cardinality(UpTo(i)) = Cardinality(UpTo(j)) => UpTo(i) = UpTo(j))
    BY <1>2, <2>1, FS_Subset
  <2> HIDE DEF UpTo
  <2> QED
    BY <1>2, <2>2
<1> HIDE DEF c
<1>4. c \in Injection(U, 1..n)
  <2>1. c \in [U -> 1..n]
    BY <1>2 DEF c
  <2>2. \A i, j \in U : c[i] = c[j] => i = j
    <3> SUFFICES ASSUME NEW i \in U, NEW j \in U, c[i] = c[j], i # j PROVE FALSE
      OBVIOUS
    <3>1. i < j \/ j < i
      BY <1>0
    <3>2. c[i] \in 1..n
      BY <1>2
    <3> QED
      BY <1>1, <1>3, <3>1, <3>2
  <2> QED
    BY <2>1, <2>2 DEF Injection, IsInjective
<1>5. c \in Surjection(U, 1..n)
  <2>1. IsFiniteSet(1..n) /\ Cardinality(1..n) = n
    BY <1>1, FS_Interval
  <2> QED
    BY <1>4, <2>1, FS_Injection
<1>6. \A k \in 1..n : \E i \in U : c[i] = k
  BY <1>5 DEF Surjection
<1>7. \A k \in 1..n : Ascending(U)[k] \in U /\ c[Ascending(U)[k]] = k
  <2> TAKE k \in 1..n
  <2>1. Ascending(U)[k] = CHOOSE i \in U : Cardinality(UpTo(i)) = k
    BY DEF Ascending
  <2>2. \E i \in U : Cardinality(UpTo(i)) = k
    BY <1>6 DEF c
  <2>3. Ascending(U)[k] \in U /\ Cardinality(UpTo(Ascending(U)[k])) = k
    BY <2>1, <2>2
  <2> QED
    BY <2>3 DEF c
<1> HIDE DEF UpTo
<1>8. DOMAIN Ascending(U) = 1..n /\ Ascending(U) = [k \in 1..n |-> Ascending(U)[k]]
  BY DEF Ascending
<1>9. \A k, l \in 1..n : k < l => Ascending(U)[k] < Ascending(U)[l]
  <2> SUFFICES ASSUME NEW k \in 1..n, NEW l \in 1..n, k < l,
                      ~(Ascending(U)[k] < Ascending(U)[l])
               PROVE  FALSE
    OBVIOUS
  <2>1. PICK i, j : i = Ascending(U)[k] /\ j = Ascending(U)[l]
    OBVIOUS
  <2>2. i \in U /\ j \in U /\ c[i] = k /\ c[j] = l /\ ~(i < j)
    BY <1>7, <2>1
  <2>3. j < i \/ j = i
    BY <1>0, <2>2
  <2>4. k \in Nat /\ l \in Nat
    BY <1>1
  <2> QED
    BY <1>3, <2>2, <2>3, <2>4
<1>10. \A i \in U : \E k \in 1..n : Ascending(U)[k] = i
  BY <1>2, <1>4, <1>7 DEF Injection, IsInjective
<1> QED
  BY <1>1, <1>7, <1>8, <1>9, <1>10

\* Of finitely many positions one is the first.
LEMMA HasLeast ==
  ASSUME NEW U \in SUBSET Nat, IsFiniteSet(U), U # {}
  PROVE  \E i \in U : \A j \in U : i <= j
<1> DEFINE n == Cardinality(U)  at == Ascending(U)
<1>1. /\ n \in Nat /\ at \in [1..n -> U]
      /\ \A k, l \in 1..n : k < l => at[k] < at[l]
      /\ \A i \in U : \E k \in 1..n : at[k] = i
  BY AscendingMeans
<1> HIDE DEF n, at
<1>0. \A i \in U : i \in Nat
  OBVIOUS
<1>2. 1 \in 1..n /\ at[1] \in U
  <2>1. PICK i \in U : TRUE
    OBVIOUS
  <2>2. PICK k \in 1..n : at[k] = i
    BY <1>1
  <2>3. 1 \in 1..n
    BY <1>1, <2>2
  <2> QED
    BY <1>1, <2>3
<1>3. \A k \in 1..n : at[1] <= at[k]
  <2> TAKE k \in 1..n
  <2>1. at[1] \in U /\ at[k] \in U /\ (k = 1 \/ 1 < k)
    BY <1>1, <1>2
  <2>2. at[1] \in Nat /\ at[k] \in Nat
    BY <1>0, <2>1
  <2>3. k = 1 \/ at[1] < at[k]
    BY <1>1, <1>2, <2>1
  <2> QED
    BY <2>2, <2>3
<1> QED
  BY <1>1, <1>2, <1>3

\* Up to three things are finitely many.
LEMMA FewThings ==
  ASSUME NEW a, NEW b, NEW c
  PROVE  IsFiniteSet({a, b}) /\ IsFiniteSet({a, b, c})
<1>1. IsFiniteSet({a})
  BY FS_Singleton
<1>2. {a, b} = {a} \cup {b} /\ {a, b, c} = {a, b} \cup {c}
  OBVIOUS
<1>3. IsFiniteSet({a, b})
  BY <1>1, <1>2, FS_AddElement
<1>4. IsFiniteSet({a, b, c})
  BY <1>2, <1>3, FS_AddElement
<1> QED
  BY <1>3, <1>4

\* What is left of a text is a text of its words.
LEMMA CompactMeans ==
  ASSUME NEW A, NEW s \in Seq(A), NEW masked
  PROVE  /\ Compact(s, masked) \in Seq(A)
         /\ ToSet(Compact(s, masked)) = {s[i] : i \in DOMAIN s \ masked}
<1> DEFINE kept == DOMAIN s \ masked
           n == Cardinality(kept)
<1>1. kept \in SUBSET Nat /\ IsFiniteSet(kept) /\ DOMAIN s = 1..Len(s)
  <2>1. DOMAIN s = 1..Len(s) /\ Len(s) \in Nat
    BY LenProperties
  <2>2. IsFiniteSet(DOMAIN s)
    BY <2>1, FS_Interval
  <2> QED
    BY <2>1, <2>2, FS_Subset
<1>2. n \in Nat /\ Ascending(kept) \in [1..n -> kept]
      /\ \A i \in kept : \E k \in 1..n : Ascending(kept)[k] = i
  BY <1>1, AscendingMeans
<1>3. Compact(s, masked) = [k \in 1..n |-> s[Ascending(kept)[k]]]
  BY <1>2 DEF Compact
<1>4. \A k \in 1..n : s[Ascending(kept)[k]] \in A
  BY <1>1, <1>2, ElementOfSeq
<1> HIDE DEF kept, n
<1>5. Compact(s, masked) \in Seq(A)
  BY <1>2, <1>3, <1>4
<1>6. ToSet(Compact(s, masked)) = {s[i] : i \in kept}
  <2>1. ToSet(Compact(s, masked)) = {s[Ascending(kept)[k]] : k \in 1..n}
    BY <1>3 DEF ToSet
  <2> QED
    BY <1>2, <2>1
<1> QED
  BY <1>5, <1>6 DEF kept

\* A prefix agrees, as far as it goes, with what it begins.
LEMMA PrefixMeans ==
  ASSUME NEW A, NEW s \in Seq(A), NEW B, NEW t \in Seq(B)
  PROVE  IsPrefix(s, t) <=> Len(s) <= Len(t) /\ \A i \in 1..Len(s) : s[i] = t[i]
<1>1. Len(s) \in Nat /\ Len(t) \in Nat /\ DOMAIN s = 1..Len(s) /\ DOMAIN t = 1..Len(t)
  BY LenProperties
<1>2. SubSeq(s, 1, Len(s)) = [i \in 1..Len(s) |-> s[i]]
  BY <1>1
<1>3. SubSeq(t, 1, Len(s)) = [i \in 1..Len(s) |-> t[i]]
  BY <1>1
<1> QED
  BY <1>1, <1>2, <1>3 DEF IsPrefix

\* Nothing is a prefix of everything.
LEMMA EmptyPrefix ==
  ASSUME NEW A, NEW t \in Seq(A)
  PROVE  IsPrefix(<<>>, t)
<1>1. \A s : SubSeq(s, 1, 0) = <<>>
  BY SubSeqEmpty
<1>2. Len(<<>>) = 0 /\ 0 <= Len(t)
  BY LenProperties
<1> QED
  BY <1>1, <1>2 DEF IsPrefix

\* The classifiers' own copies of what they share.
LEMMA SharedBySeniority ==
  /\ \A u, t : S!IsPrefix(u, t) = IsPrefix(u, t)
  /\ \A t, i : S!From(t, i) = From(t, i)
  /\ \A t, m : S!Compact(t, m) = Compact(t, m)
<1>2. \A U : S!Ascending(U) = Ascending(U)
  BY DEF S!Ascending, Ascending, S!Cardinality, Cardinality, S!IsFiniteSet, IsFiniteSet
<1> QED
  BY <1>2 DEF S!IsPrefix, IsPrefix, S!From, From, S!Compact, Compact

\* What stands from a position on.
LEMMA FromMeans ==
  ASSUME NEW A, NEW t \in Seq(A), NEW i \in 1..Len(t) + 1
  PROVE  /\ From(t, i) \in Seq(A) /\ Len(From(t, i)) = Len(t) - i + 1
         /\ \A k \in 1..Len(t) - i + 1 : From(t, i)[k] = t[i + k - 1]
<1>1. Len(t) \in Nat /\ DOMAIN t = 1..Len(t) /\ \A k \in 1..Len(t) : t[k] \in A
  BY LenProperties, ElementOfSeq
<1>2. From(t, i) = [k \in 1..Len(t) - i + 1 |-> t[i + k - 1]]
  BY <1>1 DEF From
<1> QED
  BY <1>1, <1>2

\* A phrase after another.
LEMMA PrefixOfConcat ==
  ASSUME NEW A, NEW t \in Seq(A), NEW B, NEW u \in Seq(B), NEW v \in Seq(B)
  PROVE  IsPrefix(u \o v, t) <=> IsPrefix(u, t) /\ IsPrefix(v, From(t, Len(u) + 1))
<1>1. /\ u \o v \in Seq(B) /\ Len(u \o v) = Len(u) + Len(v)
      /\ \A k \in 1..Len(u) + Len(v) : (u \o v)[k] = IF k <= Len(u) THEN u[k] ELSE v[k - Len(u)]
  BY ConcatProperties
<1>2. Len(u) \in Nat /\ Len(v) \in Nat /\ Len(t) \in Nat
  BY LenProperties
<1>3. IsPrefix(u \o v, t) <=>
        Len(u) + Len(v) <= Len(t) /\ \A k \in 1..Len(u) + Len(v) : (u \o v)[k] = t[k]
  <2>1. IsPrefix(u \o v, t) <=>
          Len(u \o v) <= Len(t) /\ \A k \in 1..Len(u \o v) : (u \o v)[k] = t[k]
    BY <1>1, PrefixMeans
  <2> HIDE DEF IsPrefix
  <2> QED
    BY <1>1, <2>1
<1>4. IsPrefix(u, t) <=> Len(u) <= Len(t) /\ \A k \in 1..Len(u) : u[k] = t[k]
  BY PrefixMeans
<1>5. CASE Len(u) <= Len(t)
  <2>1. Len(u) + 1 \in 1..Len(t) + 1
    BY <1>2, <1>5
  <2>2. /\ From(t, Len(u) + 1) \in Seq(A) /\ Len(From(t, Len(u) + 1)) = Len(t) - Len(u)
        /\ \A k \in 1..Len(t) - Len(u) : From(t, Len(u) + 1)[k] = t[Len(u) + k]
    <3>1. PICK i : i = Len(u) + 1
      OBVIOUS
    <3>2. /\ i \in 1..Len(t) + 1 /\ Len(t) - i + 1 = Len(t) - Len(u)
          /\ \A k \in 1..Len(t) - Len(u) : i + k - 1 = Len(u) + k
      BY <1>2, <2>1, <3>1
    <3>3. /\ From(t, i) \in Seq(A) /\ Len(From(t, i)) = Len(t) - i + 1
          /\ \A k \in 1..Len(t) - i + 1 : From(t, i)[k] = t[i + k - 1]
      BY <3>2, FromMeans
    <3>4. \A k \in 1..Len(t) - Len(u) : From(t, i)[k] = t[Len(u) + k]
      BY <3>2, <3>3
    <3> QED
      BY <3>1, <3>2, <3>3, <3>4
  <2>3. IsPrefix(v, From(t, Len(u) + 1)) <=>
          /\ Len(v) <= Len(t) - Len(u)
          /\ \A k \in 1..Len(v) : v[k] = From(t, Len(u) + 1)[k]
    BY <2>2, PrefixMeans
  <2>4. IsPrefix(v, From(t, Len(u) + 1)) <=>
          Len(u) + Len(v) <= Len(t) /\ \A k \in 1..Len(v) : v[k] = t[Len(u) + k]
    <3>1. Len(v) <= Len(t) - Len(u) <=> Len(u) + Len(v) <= Len(t)
      BY <1>2
    <3>2. ASSUME Len(v) <= Len(t) - Len(u), NEW k \in 1..Len(v)
          PROVE  From(t, Len(u) + 1)[k] = t[Len(u) + k]
      BY <1>2, <2>2, <3>2
    <3> QED
      BY <2>3, <3>1, <3>2
  <2>5. ASSUME IsPrefix(u, t), IsPrefix(v, From(t, Len(u) + 1))
        PROVE  IsPrefix(u \o v, t)
    <3> SUFFICES ASSUME NEW k \in 1..Len(u) + Len(v) PROVE (u \o v)[k] = t[k]
      BY <1>3, <2>4, <2>5
    <3>1. CASE k <= Len(u)
      BY <1>1, <1>2, <1>4, <2>5, <3>1
    <3>2. CASE ~(k <= Len(u))
      <4>1. k - Len(u) \in 1..Len(v) /\ Len(u) + (k - Len(u)) = k
        BY <1>2, <3>2
      <4> QED
        BY <1>1, <2>4, <2>5, <3>2, <4>1
    <3> QED
      BY <3>1, <3>2
  <2>6. ASSUME IsPrefix(u \o v, t)
        PROVE  IsPrefix(u, t) /\ IsPrefix(v, From(t, Len(u) + 1))
    <3>1. \A k \in 1..Len(u) : u[k] = t[k]
      BY <1>1, <1>2, <1>3, <2>6
    <3>2. \A k \in 1..Len(v) : v[k] = t[Len(u) + k]
      <4> TAKE k \in 1..Len(v)
      <4>1. Len(u) + k \in 1..Len(u) + Len(v) /\ ~(Len(u) + k <= Len(u)) /\ Len(u) + k - Len(u) = k
        BY <1>2
      <4> QED
        BY <1>1, <1>3, <2>6, <4>1
    <3> QED
      BY <1>3, <1>4, <1>5, <2>4, <2>6, <3>1, <3>2
  <2> QED
    BY <2>5, <2>6
<1>6. CASE ~(Len(u) <= Len(t))
  BY <1>2, <1>3, <1>4, <1>6
<1> QED
  BY <1>5, <1>6

\* The longest of some phrases of at most three tokens.
LEMMA HasLongest ==
  ASSUME NEW H, NEW x \in H, \A y \in H : Len(y) \in 0..3
  PROVE  \E y \in H : \A z \in H : Len(z) <= Len(y)
<1> DEFINE size(y) == Len(y)
<1>1. \A y \in H : size(y) \in 0..3
  OBVIOUS
<1>2. SUFFICES \E y \in H : \A z \in H : size(z) <= size(y)
  OBVIOUS
<1> HIDE DEF size
<1>3. CASE \E y \in H : size(y) = 3
  BY <1>1, <1>3
<1>4. CASE (\A y \in H : size(y) # 3) /\ \E y \in H : size(y) = 2
  BY <1>1, <1>4
<1>5. CASE (\A y \in H : size(y) \notin {2, 3}) /\ \E y \in H : size(y) = 1
  BY <1>1, <1>5
<1>6. CASE \A y \in H : size(y) \notin {1, 2, 3}
  BY <1>1, <1>6
<1> QED
  BY <1>3, <1>4, <1>5, <1>6

\* Two tokens in a row.
LEMMA Pair ==
  ASSUME NEW a, NEW b
  PROVE  <<a>> \o <<b>> = <<a, b>>
<1> DEFINE u == <<a>>  v == <<b>>  A == {a, b}
<1>1. u \in Seq(A) /\ v \in Seq(A) /\ Len(u) = 1 /\ Len(v) = 1 /\ u[1] = a /\ v[1] = b
  OBVIOUS
<1>2. <<a, b>> \in Seq(A) /\ Len(<<a, b>>) = 2 /\ <<a, b>>[1] = a /\ <<a, b>>[2] = b
  OBVIOUS
<1> HIDE DEF u, v
<1>3. u \o v \in Seq(A) /\ Len(u \o v) = 2 /\ (u \o v)[1] = a /\ (u \o v)[2] = b
  BY <1>1, ConcatProperties
<1> DEFINE w == u \o v  x == <<a, b>>
<1>4. w \in Seq(A) /\ x \in Seq(A) /\ Len(w) = Len(x) /\ \A i \in 1..Len(w) : w[i] = x[i]
  BY <1>2, <1>3
<1> HIDE DEF w, x, A
<1>5. w = x
  BY <1>4, SeqEqual
<1> QED
  BY <1>5 DEF u, v, w, x

\* Of some numbers up to n one is the least.
LEMMA LeastBelow ==
  ASSUME NEW n \in Nat, NEW B \in SUBSET (0..n), B # {}
  PROVE  \E i \in B : \A j \in B : i <= j
<1>1. IsFiniteSet(0..n) /\ B \in SUBSET Nat
  BY FS_Interval
<1>2. IsFiniteSet(B)
  BY <1>1, FS_Subset
<1> QED
  BY <1>1, <1>2, HasLeast

\* A function of the numbers to n, each value made from the one before.
LEMMA Recursion ==
  ASSUME NEW n \in Nat, NEW V, NEW start \in V, NEW step \in [V -> V]
  PROVE  \E f \in [0..n -> V] : f[0] = start /\ \A k \in 1..n : f[k] = step[f[k - 1]]
<1> DEFINE Suit(f, m) == /\ f \in [0..m -> V]
                         /\ f[0] = start
                         /\ \A k \in 1..m : f[k] = step[f[k - 1]]
           bad == {m \in 0..n : ~\E f : Suit(f, m)}
<1>1. bad = {}
  <2> SUFFICES ASSUME bad # {} PROVE FALSE
    OBVIOUS
  <2>1. bad \in SUBSET (0..n)
    OBVIOUS
  <2>2. PICK m \in bad : \A j \in bad : m <= j
    <3> HIDE DEF bad
    <3> QED
      BY <2>1, LeastBelow
  <2>3. m # 0
    <3> DEFINE f == [k \in 0..0 |-> start]
    <3>1. Suit(f, 0)
      OBVIOUS
    <3> HIDE DEF Suit
    <3> QED
      BY <2>2, <3>1
  <2>4. PICK f : Suit(f, m - 1)
    <3>1. m - 1 \in 0..n /\ ~(m <= m - 1)
      BY <2>2, <2>3
    <3> QED
      BY <2>2, <3>1
  <2> DEFINE g == [k \in 0..m |-> IF k = m THEN step[f[m - 1]] ELSE f[k]]
  <2>5. Suit(g, m)
    <3>1. m \in Nat /\ m >= 1 /\ f[m - 1] \in V
      BY <2>2, <2>3, <2>4
    <3>2. g \in [0..m -> V]
      BY <2>4, <3>1
    <3>3. g[0] = start
      BY <2>4, <3>1
    <3>4. \A k \in 1..m : g[k] = step[g[k - 1]]
      BY <2>4, <3>1
    <3> QED
      BY <3>2, <3>3, <3>4
  <2> HIDE DEF Suit
  <2> QED
    BY <2>2, <2>5
<1>2. PICK f : Suit(f, n)
  BY <1>1
<1> QED
  BY <1>2

\* What a function of numbers holds at first and never loses it holds at last.
LEMMA Kept ==
  ASSUME NEW n \in Nat, n >= 1, NEW f, NEW all, all \subseteq f[1],
         \A k \in 2..n : f[k - 1] \subseteq f[k]
  PROVE  all \subseteq f[n]
<1> DEFINE bad == {m \in 1..n : ~(all \subseteq f[m])}
<1>1. bad = {}
  <2> SUFFICES ASSUME bad # {} PROVE FALSE
    OBVIOUS
  <2>1. bad \in SUBSET (0..n)
    OBVIOUS
  <2>2. PICK m \in bad : \A j \in bad : m <= j
    <3> HIDE DEF bad
    <3> QED
      BY <2>1, LeastBelow
  <2>3. m # 1
    BY <2>2
  <2>4. m - 1 \in 1..n /\ ~(m <= m - 1) /\ m \in 2..n
    BY <2>2, <2>3
  <2>5. all \subseteq f[m - 1]
    BY <2>2, <2>4
  <2>6. f[m - 1] \subseteq f[m]
    BY <2>4
  <2> QED
    BY <2>2, <2>5, <2>6
<1> QED
  BY <1>1

\* Where markers stand in a text is finitely many places.
LEMMA FewPlaces ==
  ASSUME NEW A, NEW words \in Seq(A), NEW M, IsFiniteSet(M), NEW C,
         \A c \in C : \E m \in M, q \in BOOLEAN : \E s \in Spans(words, m[2]) :
            c = [first |-> s[1], last |-> s[2], label |-> m[1], qualified |-> q]
  PROVE  IsFiniteSet(C)
<1> DEFINE D == DOMAIN words
           made == [x \in (D \X M) \X BOOLEAN |->
                      [first |-> x[1][1], last |-> x[1][1] + Len(x[1][2][2]) - 1,
                       label |-> x[1][2][1], qualified |-> x[2]]]
<1>1. IsFiniteSet(D)
  <2>1. D = 1..Len(words) /\ Len(words) \in Nat
    BY LenProperties
  <2> QED
    BY <2>1, FS_Interval
<1> HIDE DEF D
<1>3. IsFiniteSet(BOOLEAN)
  <2>1. BOOLEAN = {TRUE, FALSE}
    OBVIOUS
  <2> QED
    BY <2>1, FewThings
<1>4. IsFiniteSet((D \X M) \X BOOLEAN)
  BY <1>1, <1>3, FS_Product
<1> DEFINE K == (D \X M) \X BOOLEAN
           T == {made[x] : x \in K}
<1>5. IsFiniteSet(T)
  <2>1. made \in Surjection(K, T)
    BY DEF Surjection
  <2> QED
    BY <1>4, <2>1, FS_Surjection
<1>6. C \subseteq T
  <2> DEFINE Of(m, s, q) == [first |-> s[1], last |-> s[2], label |-> m[1], qualified |-> q]
  <2>1. \A m \in M, q \in BOOLEAN : \A s \in Spans(words, m[2]) : Of(m, s, q) \in T
    <3> SUFFICES ASSUME NEW m \in M, NEW q \in BOOLEAN, NEW s \in Spans(words, m[2])
                 PROVE  Of(m, s, q) \in T
      OBVIOUS
    <3>1. PICK i \in D : s = <<i, i + Len(m[2]) - 1>>
      BY DEF Spans, Span, Starts, D
    <3>2. << <<i, m>>, q>> \in K
      OBVIOUS
    <3>3. made[<< <<i, m>>, q>>] = Of(m, s, q)
      BY <3>1, <3>2
    <3> QED
      BY <3>2, <3>3
  <2>2. \A c \in C : \E m \in M, q \in BOOLEAN : \E s \in Spans(words, m[2]) : c = Of(m, s, q)
    OBVIOUS
  <2> HIDE DEF T, Of
  <2> QED
    BY <2>1, <2>2
<1> QED
  BY <1>5, <1>6, FS_Subset

-----------------------------------------------------------------------------
(***************************************************************************)
(* Seniority.                                                              *)
(***************************************************************************)
Qualifiers == S!DescriptionBare \cup S!Explicit \cup S!Compounds(S!DescriptionBare)

Words == {"seeking", "a", "not", "neither", "either", "entry", "level", "senior", "staff",
          "principal", "engineer", "director", "of", "product"}

\* Phrases of one, two and three tokens.
LEMMA Phrase ==
  ASSUME NEW V, NEW a \in V, NEW b \in V, NEW c \in V
  PROVE  /\ <<a>> \in Seq(V) /\ Len(<<a>>) = 1 /\ <<a>>[1] = a
         /\ <<a, b>> \in Seq(V) /\ Len(<<a, b>>) = 2 /\ <<a, b>>[1] = a
         /\ <<a, b, c>> \in Seq(V) /\ Len(<<a, b, c>>) = 3 /\ <<a, b, c>>[1] = a
OBVIOUS

\* A qualifier's phrase has one to three words and begins with no lead-in.
LEMMA QualifierPhrases ==
  \A e \in Qualifiers : /\ e[2] \in Seq(Words) /\ Len(e[2]) \in 1..3
                        /\ e[2][1] \notin {"a", "not", "neither"}
<1>1. \A e \in S!DescriptionBare : e \in {<<"entry_level", <<"entry", "level">> >>,
                    <<"senior", <<"senior">> >>, <<"staff", <<"staff">> >>}
  BY DEF S!DescriptionBare
<1>2. \A e \in S!Compounds(S!DescriptionBare) :
        e \in {<<"staff", <<"senior", "staff">> >>, <<"principal", <<"senior", "principal">> >>}
  <2>1. {e \in S!DescriptionBare : e[1] = "senior"} = {<<"senior", <<"senior">> >>}
    BY DEF S!DescriptionBare
  <2>2. ASSUME NEW e \in S!Compounds(S!DescriptionBare)
        PROVE  \E tier \in {"staff", "principal"} : e = <<tier, <<"senior">> \o <<tier>> >>
    BY <2>1 DEF S!Compounds
  <2> QED
    BY <2>2, Pair
<1>3. \A e \in S!Explicit :
        e \in {<<"principal", <<"principal", "engineer">> >>,
               <<"director", <<"director", "of", "product">> >>,
               <<"director", <<"product", "director">> >>}
  BY DEF S!Explicit
<1>4. \A e \in Qualifiers :
        e[2] \in {<<"entry", "level">>, <<"senior">>, <<"staff">>, <<"senior", "staff">>,
                  <<"senior", "principal">>, <<"principal", "engineer">>,
                  <<"director", "of", "product">>, <<"product", "director">>}
  BY <1>1, <1>2, <1>3 DEF Qualifiers
<1> DEFINE Fine(x) == x \in Seq(Words) /\ Len(x) \in 1..3 /\ x[1] \notin {"a", "not", "neither"}
<1>5. Fine(<<"entry", "level">>)
  BY Phrase DEF Words
<1>6. Fine(<<"senior">>)
  BY Phrase DEF Words
<1>7. Fine(<<"staff">>)
  BY Phrase DEF Words
<1>8. Fine(<<"senior", "staff">>)
  BY Phrase DEF Words
<1>9. Fine(<<"senior", "principal">>)
  BY Phrase DEF Words
<1>10. Fine(<<"principal", "engineer">>)
  BY Phrase DEF Words
<1>11. Fine(<<"director", "of", "product">>)
  BY Phrase DEF Words
<1>12. Fine(<<"product", "director">>)
  BY Phrase DEF Words
<1> QED
  BY <1>4, <1>5, <1>6, <1>7, <1>8, <1>9, <1>10, <1>11, <1>12

\* What a lead-in may be; all but an article and nothing negate.
LEMMA LeadInKinds ==
  /\ S!LeadIns = {<<>>, <<"a">>} \cup S!NegatedLeadIns
  /\ S!NegatedLeadIns = {<<"not">>, <<"neither">>, <<"not", "either">>, <<"not", "a">>,
                         <<"neither", "a">>, <<"not", "either", "a">>}
<1>1. S!NegatedLeadIns = {<<"not">>, <<"neither">>, <<"not", "either">>, <<"not", "a">>,
                          <<"neither", "a">>, <<"not", "either", "a">>}
  BY DEF S!NegatedLeadIns, S!Negators, S!Articles
<1> QED
  BY <1>1 DEF S!LeadIns, S!Articles

\* A lead-in has at most three words and begins with an article or a negator.
LEMMA LeadInPhrases ==
  \A p \in S!LeadIns :
      /\ p \in Seq(Words) /\ Len(p) \in 0..3 /\ Len(p) \in Nat
      /\ p = <<>> \/ (Len(p) # 0 /\ p[1] \in {"a", "not", "neither"})
<1> DEFINE Fine(p) == /\ p \in Seq(Words) /\ Len(p) \in 0..3 /\ Len(p) \in Nat
                      /\ p = <<>> \/ (Len(p) # 0 /\ p[1] \in {"a", "not", "neither"})
<1>1. Fine(<<>>) /\ Fine(<<"a">>)
  BY Phrase DEF Words
<1>2. Fine(<<"not">>) /\ Fine(<<"neither">>)
  BY Phrase DEF Words
<1>3. Fine(<<"not", "either">>)
  BY Phrase DEF Words
<1>4. Fine(<<"not", "a">>)
  BY Phrase DEF Words
<1>5. Fine(<<"neither", "a">>)
  BY Phrase DEF Words
<1>6. Fine(<<"not", "either", "a">>)
  BY Phrase DEF Words
<1> HIDE DEF Fine
<1>7. \A p \in S!LeadIns : Fine(p)
  BY <1>1, <1>2, <1>3, <1>4, <1>5, <1>6, LeadInKinds
<1> QED
  BY <1>7 DEF Fine

\* A lead-in that begins with an article is one.
LEMMA LeadInKind ==
  /\ \A p \in S!LeadIns : p # <<>> /\ p[1] = "a" => p = <<"a">>
  /\ <<>> \in S!LeadIns /\ <<"a">> \in S!LeadIns
  /\ \A p \in S!LeadIns : p \notin S!NegatedLeadIns <=> p \in {<<>>, <<"a">>}
<1>1. \A p \in S!NegatedLeadIns : p[1] \in {"not", "neither"} /\ Len(p) # 0
  BY LeadInKinds
<1>2. Len(<<>>) = 0 /\ <<"a">>[1] = "a"
  OBVIOUS
<1> QED
  BY <1>1, <1>2, LeadInKinds

\* What is stated is a phrase of a qualifier behind an anchor and a lead-in.
LEMMA StatedMeans ==
  ASSUME NEW A, NEW sentence \in Seq(A)
  PROVE  LET tokens == S!Visible(sentence)
             remainder == From(tokens, Len(S!Anchor) + 1)
         IN \A e \in Qualifiers, p \in {<<>>, <<"a">>} :
              IsPrefix(S!Anchor \o p \o e[2], tokens) <=>
                /\ IsPrefix(S!Anchor, tokens)
                /\ IsPrefix(p, remainder)
                /\ IsPrefix(e[2], From(remainder, Len(p) + 1))
<1> DEFINE tokens == S!Visible(sentence)
           remainder == From(tokens, Len(S!Anchor) + 1)
<1>1. tokens \in Seq(A)
  BY SharedBySeniority, CompactMeans DEF S!Visible
<1> SUFFICES ASSUME NEW e \in Qualifiers, NEW p \in {<<>>, <<"a">>}
             PROVE  IsPrefix(S!Anchor \o p \o e[2], tokens) <=>
                      /\ IsPrefix(S!Anchor, tokens)
                      /\ IsPrefix(p, remainder)
                      /\ IsPrefix(e[2], From(remainder, Len(p) + 1))
  OBVIOUS
<1>2. S!Anchor \in Seq(Words) /\ Len(S!Anchor) = 1
  BY Phrase DEF S!Anchor, Words
<1>3. p \in Seq(Words) /\ e[2] \in Seq(Words) /\ Len(p) \in Nat
  BY LeadInPhrases, LeadInKind, QualifierPhrases
<1> HIDE DEF tokens
<1>4. p \o e[2] \in Seq(Words) /\ S!Anchor \o p \o e[2] = S!Anchor \o (p \o e[2])
  <2> DEFINE u == S!Anchor  v == e[2]
  <2>1. u \in Seq(Words) /\ v \in Seq(Words) /\ p \in Seq(Words)
    BY <1>2, <1>3
  <2> HIDE DEF u, v
  <2>2. p \o v \in Seq(Words) /\ (u \o p) \o v = u \o (p \o v)
    BY <2>1, ConcatProperties, ConcatAssociative
  <2> QED
    BY <2>2 DEF u, v
<1>5. IsPrefix(S!Anchor \o (p \o e[2]), tokens) <=>
        IsPrefix(S!Anchor, tokens) /\ IsPrefix(p \o e[2], From(tokens, Len(S!Anchor) + 1))
  BY <1>1, <1>2, <1>4, PrefixOfConcat
<1>7. ASSUME IsPrefix(S!Anchor, tokens)
      PROVE  IsPrefix(p \o e[2], remainder) <=>
               IsPrefix(p, remainder) /\ IsPrefix(e[2], From(remainder, Len(p) + 1))
  <2>1. Len(tokens) \in Nat /\ 1 <= Len(tokens)
    BY <1>1, <1>2, <1>7, PrefixMeans, LenProperties
  <2>2. remainder \in Seq(A)
    BY <1>1, <1>2, <2>1, FromMeans
  <2> HIDE DEF remainder
  <2> QED
    BY <1>3, <2>2, PrefixOfConcat
<1> QED
  BY <1>4, <1>5, <1>7

\* The classifier's reading and the grammar's agree on every sentence.
LEMMA SentenceRead ==
  ASSUME NEW A, NEW sentence \in Seq(A)
  PROVE  LET stated == S!StatedTiers(sentence)
             found == S!SentenceTiers(sentence)
         IN /\ found = {} <=> stated = {}
            /\ found # {} => found \cap stated # {}
<1> DEFINE tokens == S!Visible(sentence)
           remainder == From(tokens, Len(S!Anchor) + 1)
           stated == S!StatedTiers(sentence)
           found == S!SentenceTiers(sentence)
           Read(p, e) == IsPrefix(p, remainder) /\ IsPrefix(e[2], From(remainder, Len(p) + 1))
           heading == {p \in S!LeadIns : IsPrefix(p, remainder)}
           prefix == CHOOSE p \in S!LeadIns :
                       /\ IsPrefix(p, remainder)
                       /\ \A q \in S!LeadIns : IsPrefix(q, remainder) => Len(q) <= Len(p)
           behind == From(remainder, Len(prefix) + 1)
<1>1. tokens \in Seq(A)
  BY SharedBySeniority, CompactMeans DEF S!Visible
<1>2. stated = {e[1] : e \in {x \in Qualifiers : \E p \in {<<>>, <<"a">>} :
                                  IsPrefix(S!Anchor \o p \o x[2], tokens)}}
  BY SharedBySeniority DEF S!StatedTiers, S!Articles, Qualifiers
<1>3. S!Anchor \in Seq(Words) /\ Len(S!Anchor) = 1
  BY Phrase DEF S!Anchor, Words
<1>4. found = IF ~IsPrefix(S!Anchor, tokens) \/ prefix \in S!NegatedLeadIns
              THEN {} ELSE S!NamedTiers(behind)
  BY DEF S!SentenceTiers, S!IsPrefix, IsPrefix, S!From, From
<1>5. \A e \in Qualifiers, p \in {<<>>, <<"a">>} :
        IsPrefix(S!Anchor \o p \o e[2], tokens) <=> IsPrefix(S!Anchor, tokens) /\ Read(p, e)
  BY StatedMeans
<1> HIDE DEF tokens
<1>6. CASE ~IsPrefix(S!Anchor, tokens)
  BY <1>2, <1>4, <1>5, <1>6
<1>7. CASE IsPrefix(S!Anchor, tokens)
  <2>1. Len(tokens) \in Nat /\ 1 <= Len(tokens)
    BY <1>1, <1>3, <1>7, PrefixMeans, LenProperties
  <2>2. remainder \in Seq(A) /\ Len(remainder) \in Nat
    BY <1>1, <1>3, <2>1, FromMeans, LenProperties
  <2> HIDE DEF remainder
  <2>3. prefix \in heading /\ \A q \in heading : Len(q) <= Len(prefix)
    <3>1. <<>> \in heading
      BY <2>2, LeadInKind, EmptyPrefix
    <3>2. \A q \in heading : Len(q) \in 0..3
      <4> TAKE q \in heading
      <4> QED
        BY LeadInPhrases
    <3>3. PICK p \in heading : \A q \in heading : Len(q) <= Len(p)
      BY <3>1, <3>2, HasLongest
    <3> QED
      BY <3>3
  <2>4. Len(prefix) \in Nat /\ Len(prefix) <= Len(remainder) /\ prefix \in Seq(Words)
    <3>1. prefix \in Seq(Words) /\ IsPrefix(prefix, remainder)
      <4>1. prefix \in S!LeadIns /\ IsPrefix(prefix, remainder)
        BY <2>3
      <4> HIDE DEF prefix, heading
      <4> QED
        BY <4>1, LeadInPhrases
    <3> QED
      BY <2>2, <3>1, PrefixMeans, LenProperties
  <2> HIDE DEF prefix
  <2>5. behind \in Seq(A)
    BY <2>2, <2>4, FromMeans
  <2> HIDE DEF behind
  <2> DEFINE leading == S!LeadingQualifier(behind, S!DescriptionBare)
             heads == {e \in Qualifiers : IsPrefix(e[2], behind)}
  <2>6. leading \subseteq heads /\ (heads # {} => leading # {})
    <3> DEFINE compound == S!Heads(behind, S!Compounds(S!DescriptionBare))
               single == S!Heads(behind, S!DescriptionBare \cup S!Explicit)
    <3>1. leading = IF compound # {} THEN compound ELSE S!Longest(single)
      BY DEF S!LeadingQualifier
    <3>2. compound \cup single = heads
      BY SharedBySeniority DEF S!Heads, Qualifiers
    <3> HIDE DEF compound, single
    <3>3. S!Longest(single) \subseteq single
      BY DEF S!Longest
    <3>4. ASSUME single # {} PROVE S!Longest(single) # {}
      <4> DEFINE H == {e[2] : e \in single}
      <4>1. \A x \in H : Len(x) \in 0..3
        BY <3>2, QualifierPhrases
      <4>2. PICK x \in H : \A y \in H : Len(y) <= Len(x)
        BY <3>4, <4>1, HasLongest
      <4> QED
        BY <4>2 DEF S!Longest
    <3> QED
      BY <3>1, <3>2, <3>3, <3>4
  <2>7. /\ \A e \in leading : e[1] \in S!NamedTiers(behind)
        /\ leading = {} => S!NamedTiers(behind) = {}
    BY DEF S!NamedTiers
  <2>8. stated = {e[1] : e \in {x \in Qualifiers : \E p \in {<<>>, <<"a">>} : Read(p, x)}}
    BY <1>2, <1>5, <1>7
  <2>9. ASSUME NEW e \in Qualifiers, NEW p \in {<<>>, <<"a">>}, Read(p, e)
        PROVE  prefix = p
    <3>1. /\ e[2] \in Seq(Words) /\ Len(e[2]) \in 1..3 /\ e[2][1] \notin {"a", "not", "neither"}
          /\ p \in S!LeadIns /\ p \in Seq(Words)
      BY QualifierPhrases, LeadInPhrases, LeadInKind
    <3>2. CASE p = <<>>
      <4>1. From(remainder, Len(p) + 1) = From(remainder, 1)
        BY <3>2
      <4>2. From(remainder, 1) \in Seq(A) /\ Len(From(remainder, 1)) = Len(remainder)
            /\ \A k \in 1..Len(remainder) : From(remainder, 1)[k] = remainder[k]
        <5>1. /\ From(remainder, 1) \in Seq(A) /\ Len(From(remainder, 1)) = Len(remainder) - 1 + 1
              /\ \A k \in 1..Len(remainder) - 1 + 1 : From(remainder, 1)[k] = remainder[1 + k - 1]
          BY <2>2, FromMeans
        <5> QED
          BY <2>2, <5>1
      <4>3. Len(remainder) >= 1 /\ remainder[1] = e[2][1]
        BY <2>9, <3>1, <4>1, <4>2, PrefixMeans
      <4>4. prefix # <<>> => prefix[1] = remainder[1]
        <5>1. Len(prefix) <= Len(remainder) /\ \A k \in 1..Len(prefix) : prefix[k] = remainder[k]
          BY <2>2, <2>3, <2>4, PrefixMeans
        <5>2. prefix # <<>> => Len(prefix) # 0
          BY <2>4, EmptySeq
        <5> QED
          BY <2>4, <5>1, <5>2
      <4> QED
        BY <2>3, <3>1, <3>2, <4>3, <4>4, LeadInPhrases
    <3>3. CASE p = <<"a">>
      <4>1. Len(remainder) >= 1 /\ remainder[1] = "a" /\ p \in heading /\ Len(p) = 1
        <5>1. Len(p) = 1 /\ p[1] = "a"
          BY <3>3
        <5> QED
          BY <2>2, <2>9, <3>1, <5>1, PrefixMeans
      <4>2. Len(prefix) >= 1
        BY <2>3, <4>1
      <4>3. prefix # <<>> /\ prefix[1] = remainder[1]
        <5>1. Len(prefix) <= Len(remainder) /\ \A k \in 1..Len(prefix) : prefix[k] = remainder[k]
          BY <2>2, <2>3, <2>4, PrefixMeans
        <5> QED
          BY <2>4, <4>2, <5>1, EmptySeq
      <4> QED
        BY <2>3, <3>3, <4>1, <4>3, LeadInKind
    <3> QED
      BY <3>2, <3>3
  <2>10. CASE prefix \in S!NegatedLeadIns
    <3>1. stated = {}
      BY <2>8, <2>9, <2>10, LeadInKind
    <3> QED
      BY <1>4, <2>10, <3>1
  <2>11. CASE prefix \notin S!NegatedLeadIns
    <3>1. prefix \in {<<>>, <<"a">>} /\ found = S!NamedTiers(behind)
      BY <1>4, <1>7, <2>3, <2>11, LeadInKind
    <3>2. \A e \in heads : e[1] \in stated
      BY <2>3, <2>8, <3>1 DEF behind
    <3>3. stated # {} => heads # {}
      BY <2>8, <2>9 DEF behind
    <3> HIDE DEF leading, heads, stated, found
    <3>4. (found = {} <=> stated = {}) /\ (found # {} => found \cap stated # {})
      BY <2>6, <2>7, <3>1, <3>2, <3>3
    <3> QED
      BY <3>4 DEF stated, found
  <2> QED
    BY <2>10, <2>11
<1> QED
  BY <1>6, <1>7

-----------------------------------------------------------------------------
(***************************************************************************)
(* Schedules, and what denies them.                                        *)
(***************************************************************************)

\* Suppression reaches its start and what is coordinated with it.
LEMMA ScheduleSpreads ==
  ASSUME NEW tokens, NEW candidates, IsFiniteSet(candidates), candidates # {},
         NEW start \in SUBSET candidates
  PROVE  start \cup {d \in candidates : \E c \in start : E!Coordinated(tokens, c, d)}
           \subseteq E!Spread(tokens, candidates, start)
<1> DEFINE n == Cardinality(candidates)
           next(x) == {d \in candidates : \E c \in x : E!Coordinated(tokens, c, d)}
           step == [x \in SUBSET candidates |-> x \cup next(x)]
           Step(f) == [k \in 0..n |-> IF k = 0 THEN start ELSE f[k - 1] \cup next(f[k - 1])]
           reached == CHOOSE f : f = Step(f)
<1>1. n \in Nat /\ n >= 1
  BY FS_CardinalityType, FS_EmptySet
<1>2. E!Spread(tokens, candidates, start) = reached[n]
  <2>1. \A U : E!Cardinality(U) = Cardinality(U)
    BY DEF E!Cardinality, Cardinality, E!IsFiniteSet, IsFiniteSet
  <2> QED
    BY <2>1 DEF E!Spread
<1> HIDE DEF n
<1>3. \E f : f = Step(f)
  <2>1. \A x \in SUBSET candidates : step[x] = x \cup next(x) /\ next(x) \in SUBSET candidates
    OBVIOUS
  <2> HIDE DEF next
  <2>2. step \in [SUBSET candidates -> SUBSET candidates]
    BY <2>1
  <2> DEFINE V == SUBSET candidates
  <2>3. PICK f \in [0..n -> V] : f[0] = start /\ \A k \in 1..n : f[k] = step[f[k - 1]]
    <3>1. n \in Nat /\ start \in V /\ step \in [V -> V]
      BY <1>1, <2>2
    <3> HIDE DEF step, V
    <3> QED
      BY <3>1, Recursion
  <2>4. \A k \in 0..n : k # 0 => step[f[k - 1]] = f[k - 1] \cup next(f[k - 1])
    <3>1. \A k \in 0..n : k # 0 => f[k - 1] \in V
      BY <1>1
    <3> QED
      BY <2>1, <3>1
  <2> HIDE DEF step
  <2>5. f = Step(f)
    <3>1. \A k \in 0..n : f[k] = IF k = 0 THEN start ELSE f[k - 1] \cup next(f[k - 1])
      <4>1. \A k \in 0..n : k # 0 => k \in 1..n
        BY <1>1
      <4> QED
        BY <2>3, <2>4, <4>1
    <3> HIDE DEF V
    <3> QED
      BY <2>3, <3>1
  <2> QED
    BY <2>5
<1>4. reached = Step(reached)
  BY <1>3
<1> HIDE DEF reached
<1>5. \A k \in 0..n : reached[k] = IF k = 0 THEN start
                                   ELSE reached[k - 1] \cup next(reached[k - 1])
  BY <1>4
<1>6. start \cup next(start) \subseteq reached[1]
  <2>1. 0 \in 0..n /\ 1 \in 0..n /\ 1 - 1 = 0 /\ 1 # 0
    BY <1>1
  <2> QED
    BY <1>5, <2>1
<1>7. \A k \in 2..n : reached[k - 1] \subseteq reached[k]
  <2>1. \A k \in 2..n : k \in 0..n /\ k # 0
    BY <1>1
  <2> QED
    BY <1>5, <2>1
<1> DEFINE all == start \cup next(start)
<1>8. all \subseteq reached[n]
  <2> HIDE DEF all
  <2> QED
    BY <1>1, <1>6, <1>7, Kept DEF all
<1> QED
  BY <1>2, <1>8

\* Of the numbers at a distance, zero or less counts as none.
LEMMA DistanceMeans ==
  ASSUME NEW cue \in Nat, NEW c, c.first \in Nat, c.last \in Nat, cue < c.first, c.first <= c.last
  PROVE  E!Distance(cue, c) = c.first - cue
<1> DEFINE far == c.first - cue  behind == cue - c.last
           U == {0, far, behind}
<1>1. far \in Nat /\ behind \in Int /\ behind < 0 /\ far > 0
  OBVIOUS
<1>2. E!Distance(cue, c) = CHOOSE x \in U : \A y \in U : x >= y
  BY DEF E!Distance, E!Max
<1> HIDE DEF far, behind
<1>3. \A x \in U : (\A y \in U : x >= y) => x = far
  BY <1>1
<1>4. \A y \in U : far >= y
  BY <1>1
<1>5. far \in U
  OBVIOUS
<1> HIDE DEF U
<1>6. E!Distance(cue, c) = far
  BY <1>2, <1>3, <1>4, <1>5
<1> QED
  BY <1>6 DEF far

\* What Employment takes from Phrases is what Normalization does.
LEMMA SharedByEmployment ==
  /\ \A t, m : E!Compact(t, m) = Compact(t, m)
  /\ \A t, u : E!Spans(t, u) = Spans(t, u)
<1>1. \A U : E!Ascending(U) = Ascending(U)
  BY DEF E!Ascending, Ascending, E!Cardinality, Cardinality, E!IsFiniteSet, IsFiniteSet
<1>2. \A t, u : E!Spans(t, u) = Spans(t, u)
  BY DEF E!Spans, Spans, E!Starts, Starts, E!Span, Span, E!IsPrefix, IsPrefix, E!From, From
<1> QED
  BY <1>1, <1>2 DEF E!Compact, Compact

\* Every marker of a schedule, with a noun or bare.
ScheduleMarkers == E!BareMarkers \cup E!Arrangements

\* The phrases of a schedule's markers.
LEMMA SchedulePhrases ==
  \A m \in ScheduleMarkers : /\ m[2] \in Seq({"full", "time", "seasonal", "intern", "role"})
                             /\ Len(m[2]) \in 1..3 /\ m[2][1] \in {"full", "seasonal", "intern"}
<1> DEFINE W == {"full", "time", "seasonal", "intern", "role"}
           Fine(p) == p \in Seq(W) /\ Len(p) \in 1..3 /\ p[1] \in {"full", "seasonal", "intern"}
<1>1. Fine(<<"seasonal">>) /\ Fine(<<"intern">>)
  BY Phrase
<1>2. Fine(<<"full", "time">>) /\ Fine(<<"seasonal", "role">>)
  BY Phrase
<1>3. Fine(<<"full", "time", "role">>)
  BY Phrase
<1> HIDE DEF Fine
<1>4. \A m \in E!BareMarkers : Fine(m[2])
  BY <1>1, <1>2 DEF E!BareMarkers
<1>5. \A m \in E!Arrangements : Fine(m[2])
  BY <1>2, <1>3 DEF E!Arrangements
<1> QED
  BY <1>4, <1>5 DEF ScheduleMarkers, Fine

\* Where a phrase occurs.
LEMMA SpanMeans ==
  ASSUME NEW A, NEW tokens \in Seq(A), NEW B, NEW p \in Seq(B), Len(p) \in 1..3,
         NEW s \in Spans(tokens, p)
  PROVE  /\ s = <<s[1], s[2]>> /\ s[1] \in DOMAIN tokens /\ s[2] = s[1] + Len(p) - 1
         /\ s[2] \in DOMAIN tokens
         /\ \A k \in 1..Len(p) : tokens[s[1] + k - 1] = p[k]
<1>1. PICK i \in Starts(tokens, p) : s = <<i, i + Len(p) - 1>>
  BY DEF Spans, Span
<1>2. DOMAIN tokens = 1..Len(tokens) /\ Len(tokens) \in Nat /\ i \in 1..Len(tokens) + 1
      /\ i \in DOMAIN tokens
  BY <1>1, LenProperties DEF Starts
<1> DEFINE t == From(tokens, i)
<1>3. /\ t \in Seq(A) /\ Len(t) = Len(tokens) - i + 1
      /\ \A k \in 1..Len(tokens) - i + 1 : t[k] = tokens[i + k - 1]
  BY <1>2, FromMeans
<1>4. IsPrefix(p, t)
  BY <1>1 DEF Starts
<1> HIDE DEF t
<1>5. Len(p) <= Len(t) /\ \A k \in 1..Len(p) : p[k] = t[k]
  BY <1>3, <1>4, PrefixMeans
<1>6. \A k \in 1..Len(p) : tokens[i + k - 1] = p[k]
  BY <1>2, <1>3, <1>5
<1>7. i + Len(p) - 1 \in DOMAIN tokens
  <2> DEFINE n == Len(p)
  <2>1. n \in 1..3 /\ n <= Len(tokens) - i + 1
    BY <1>3, <1>5
  <2> HIDE DEF n
  <2>2. i + n - 1 \in 1..Len(tokens)
    BY <1>2, <2>1
  <2> QED
    BY <1>2, <2>2 DEF n
<1> QED
  BY <1>1, <1>2, <1>6, <1>7

\* What a text of two positions apart has between them.
LEMMA Gap ==
  ASSUME NEW A, NEW t \in Seq(A), NEW i \in DOMAIN t, NEW j \in DOMAIN t, i < j
  PROVE  /\ SubSeq(t, i + 1, j - 1) \in Seq(A) /\ Len(SubSeq(t, i + 1, j - 1)) = j - i - 1
         /\ \A k \in 1..j - i - 1 : SubSeq(t, i + 1, j - 1)[k] = t[i + k]
<1>1. DOMAIN t = 1..Len(t) /\ Len(t) \in Nat /\ \A k \in DOMAIN t : t[k] \in A
  BY LenProperties, ElementOfSeq
<1>2. i \in Nat /\ j \in Nat /\ j - i - 1 \in Nat /\ i >= 1 /\ j <= Len(t)
  BY <1>1
<1> DEFINE n == j - i - 1  u == SubSeq(t, i + 1, j - 1)
<1>3. u = [k \in 1..n |-> t[i + k]]
  <2>1. u = [k \in 1..(j - 1) - (i + 1) + 1 |-> t[(i + 1) + k - 1]]
    BY <1>1, <1>2
  <2>2. (j - 1) - (i + 1) + 1 = n
    BY <1>2
  <2>3. \A k \in 1..n : (i + 1) + k - 1 = i + k
    BY <1>2
  <2> QED
    BY <2>1, <2>2, <2>3
<1>4. \A k \in 1..n : t[i + k] \in A
  BY <1>1, <1>2
<1>5. n \in Nat
  BY <1>2
<1> HIDE DEF n, u
<1>6. u \in Seq(A) /\ Len(u) = n /\ \A k \in 1..n : u[k] = t[i + k]
  BY <1>3, <1>4, <1>5
<1> QED
  BY <1>6 DEF n, u

\* Every candidate is a marker's phrase where it occurs, and every such
\* occurrence a candidate.
LEMMA ScheduleCandidates ==
  ASSUME NEW A, NEW tokens \in Seq(A)
  PROVE  /\ IsFiniteSet(E!Candidates(tokens))
         /\ \A c \in E!Candidates(tokens) :
              /\ \E m \in ScheduleMarkers :
                   c.label = m[1] /\ <<c.first, c.last>> \in Spans(tokens, m[2])
              /\ c.first \in DOMAIN tokens /\ c.last \in DOMAIN tokens /\ c.first <= c.last
              /\ tokens[c.first] \in {"full", "seasonal", "intern"}
         /\ \A m \in ScheduleMarkers : \A s \in Spans(tokens, m[2]) :
              \E c \in E!Candidates(tokens) : c.first = s[1] /\ c.last = s[2]
<1> DEFINE C == E!Candidates(tokens)
           Of(m, s, q) == [first |-> s[1], last |-> s[2], label |-> m[1], qualified |-> q]
           F(markers, q) == UNION {{Of(m, s, q) : s \in Spans(tokens, m[2])} : m \in markers}
<1>1. C = F(E!Arrangements, TRUE) \cup F(E!BareMarkers, FALSE)
  <2>1. \A m : E!Spans(tokens, m[2]) = Spans(tokens, m[2])
    BY SharedByEmployment
  <2> QED
    BY <2>1 DEF E!Candidates
<1>2. \A c \in C : \E m \in ScheduleMarkers, q \in BOOLEAN : \E s \in Spans(tokens, m[2]) :
        c = Of(m, s, q)
  <2> HIDE DEF Of, C
  <2>1. \A c \in F(E!Arrangements, TRUE) : \E m \in E!Arrangements :
          \E s \in Spans(tokens, m[2]) : c = Of(m, s, TRUE)
    OBVIOUS
  <2>0. \A c \in F(E!BareMarkers, FALSE) : \E m \in E!BareMarkers :
          \E s \in Spans(tokens, m[2]) : c = Of(m, s, FALSE)
    OBVIOUS
  <2> HIDE DEF F
  <2>2. E!Arrangements \subseteq ScheduleMarkers /\ E!BareMarkers \subseteq ScheduleMarkers
    BY DEF ScheduleMarkers
  <2>3. \A c \in F(E!Arrangements, TRUE) : \E m \in ScheduleMarkers :
          \E s \in Spans(tokens, m[2]) : c = Of(m, s, TRUE)
    BY <2>1, <2>2
  <2>4. \A c \in F(E!BareMarkers, FALSE) : \E m \in ScheduleMarkers :
          \E s \in Spans(tokens, m[2]) : c = Of(m, s, FALSE)
    BY <2>0, <2>2
  <2> QED
    BY <1>1, <2>3, <2>4
<1>3. \A m \in ScheduleMarkers : \A s \in Spans(tokens, m[2]) : \E q \in BOOLEAN : Of(m, s, q) \in C
  <2> HIDE DEF Of, C
  <2>1. \A markers, q : \A m \in markers : \A s \in Spans(tokens, m[2]) :
          Of(m, s, q) \in F(markers, q)
    OBVIOUS
  <2> HIDE DEF F
  <2>2. \A m \in ScheduleMarkers : m \in E!Arrangements \/ m \in E!BareMarkers
    BY DEF ScheduleMarkers
  <2> QED
    BY <1>1, <2>1, <2>2
<1>4. IsFiniteSet(ScheduleMarkers)
  <2>1. IsFiniteSet(E!BareMarkers) /\ IsFiniteSet(E!Arrangements)
    BY FewThings DEF E!BareMarkers, E!Arrangements
  <2> QED
    BY <2>1, FS_Union DEF ScheduleMarkers
<1> HIDE DEF C, F
<1>5. IsFiniteSet(C)
  BY <1>2, <1>4, FewPlaces
<1>6. ASSUME NEW m \in ScheduleMarkers, NEW s \in Spans(tokens, m[2])
      PROVE  /\ s = <<s[1], s[2]>> /\ s[1] \in DOMAIN tokens /\ s[2] \in DOMAIN tokens
             /\ s[1] <= s[2] /\ tokens[s[1]] \in {"full", "seasonal", "intern"}
  <2> DEFINE p == m[2]
  <2>1. /\ p \in Seq({"full", "time", "seasonal", "intern", "role"}) /\ Len(p) \in 1..3
        /\ p[1] \in {"full", "seasonal", "intern"} /\ s \in Spans(tokens, p)
    BY SchedulePhrases
  <2> HIDE DEF p
  <2>2. /\ s = <<s[1], s[2]>> /\ s[1] \in DOMAIN tokens /\ s[2] = s[1] + Len(p) - 1
        /\ s[2] \in DOMAIN tokens /\ \A k \in 1..Len(p) : tokens[s[1] + k - 1] = p[k]
    BY <2>1, SpanMeans
  <2>3. DOMAIN tokens = 1..Len(tokens) /\ Len(tokens) \in Nat
    BY LenProperties
  <2> DEFINE n == Len(p)
  <2>4. n \in 1..3 /\ s[2] = s[1] + n - 1
    BY <2>1, <2>2
  <2>5. 1 \in 1..Len(p) /\ s[1] + 1 - 1 = s[1] /\ s[1] \in Nat
    BY <2>1, <2>2, <2>3
  <2>6. tokens[s[1]] = p[1]
    BY <2>2, <2>5
  <2> HIDE DEF n
  <2>7. s[1] <= s[2]
    BY <2>4, <2>5
  <2> QED
    BY <2>1, <2>2, <2>6, <2>7
<1>7. ASSUME NEW c \in C
      PROVE  /\ \E m \in ScheduleMarkers :
                   c.label = m[1] /\ <<c.first, c.last>> \in Spans(tokens, m[2])
             /\ c.first \in DOMAIN tokens /\ c.last \in DOMAIN tokens /\ c.first <= c.last
             /\ tokens[c.first] \in {"full", "seasonal", "intern"}
  <2>1. PICK m \in ScheduleMarkers, q \in BOOLEAN : \E s \in Spans(tokens, m[2]) : c = Of(m, s, q)
    BY <1>2
  <2>0. PICK s \in Spans(tokens, m[2]) : c = Of(m, s, q)
    BY <2>1
  <2>2. c.first = s[1] /\ c.last = s[2] /\ c.label = m[1]
    BY <2>0
  <2>3. s = <<c.first, c.last>>
    BY <1>6, <2>2
  <2> HIDE DEF Of
  <2> QED
    BY <1>6, <2>2, <2>3
<1>8. ASSUME NEW m \in ScheduleMarkers, NEW s \in Spans(tokens, m[2])
      PROVE  \E c \in C : c.first = s[1] /\ c.last = s[2]
  <2>1. PICK q \in BOOLEAN : Of(m, s, q) \in C
    BY <1>3
  <2>2. Of(m, s, q).first = s[1] /\ Of(m, s, q).last = s[2]
    OBVIOUS
  <2> HIDE DEF Of
  <2> QED
    BY <2>1, <2>2
<1> QED
  BY <1>5, <1>7, <1>8 DEF C

\* A cue suppresses the phrase it stands in front of, a determiner between them
\* or not.
LEMMA DenialAhead ==
  ASSUME NEW A, NEW tokens \in Seq(A), NEW i \in DOMAIN tokens,
         NEW c \in E!Candidates(tokens), i < c.first,
         SubSeq(tokens, i + 1, c.first - 1) \in {<<>>, <<"a">>}
  PROVE  c \in E!NegatedBy(E!Candidates(tokens), i)
<1> DEFINE C == E!Candidates(tokens)
           U == {d \in C : i < d.first}
<1>1. /\ \A d \in C : /\ d.first \in DOMAIN tokens /\ d.last \in DOMAIN tokens
                      /\ d.first <= d.last /\ tokens[d.first] \in {"full", "seasonal", "intern"}
      /\ DOMAIN tokens = 1..Len(tokens) /\ Len(tokens) \in Nat
  BY ScheduleCandidates, LenProperties
<1> HIDE DEF C
<1>2. \A d \in U : E!Distance(i, d) = d.first - i /\ d.first \in Nat /\ i \in Nat
  <2> TAKE d \in U
  <2>1. d.first \in Nat /\ d.last \in Nat /\ i \in Nat /\ d.first <= d.last /\ i < d.first
    BY <1>1
  <2> QED
    BY <2>1, DistanceMeans
<1>3. c \in U
  BY DEF C
<1>4. c.first - i \in 1..2 /\ (c.first - i = 2 => tokens[i + 1] = "a")
  <2> DEFINE u == SubSeq(tokens, i + 1, c.first - 1)
  <2>1. /\ u \in Seq(A) /\ Len(u) = c.first - i - 1
        /\ \A k \in 1..c.first - i - 1 : u[k] = tokens[i + k]
    <3>1. c.first \in DOMAIN tokens
      BY <1>1, <1>3
    <3>2. PICK j \in DOMAIN tokens : j = c.first /\ i < j
      BY <3>1
    <3>3. /\ SubSeq(tokens, i + 1, j - 1) \in Seq(A)
          /\ Len(SubSeq(tokens, i + 1, j - 1)) = j - i - 1
          /\ \A k \in 1..j - i - 1 : SubSeq(tokens, i + 1, j - 1)[k] = tokens[i + k]
      BY <3>2, Gap, ZenonT(60)
    <3> QED
      BY <3>2, <3>3
  <2>2. u \in {<<>>, <<"a">>}
    OBVIOUS
  <2> HIDE DEF u
  <2>3. Len(u) \in 0..1 /\ (Len(u) = 1 => u[1] = "a")
    BY <2>2
  <2>4. c.first - i - 1 \in 0..1 /\ (c.first - i - 1 = 1 => tokens[i + 1] = "a")
    BY <2>1, <2>3
  <2> QED
    BY <1>2, <1>3, <2>4
<1>5. \A d \in U : c.first - i <= d.first - i
  <2> SUFFICES ASSUME NEW d \in U, ~(c.first - i <= d.first - i) PROVE FALSE
    OBVIOUS
  <2>1. d.first \in Nat /\ i \in Nat /\ c.first \in Nat /\ i < d.first
    BY <1>2, <1>3
  <2>2. d.first = i + 1 /\ c.first - i = 2
    BY <1>4, <2>1
  <2>3. tokens[d.first] = "a" /\ tokens[d.first] \in {"full", "seasonal", "intern"}
    BY <1>1, <1>4, <2>2
  <2> QED
    BY <2>3
<1>6. c \in E!Closest(U, i)
  <2>1. E!Distance(i, c) <= E!NegationWindow
    <3>1. E!Distance(i, c) \in 1..2
      BY <1>2, <1>3, <1>4
    <3> QED
      BY <3>1 DEF E!NegationWindow
  <2>2. \A d \in U : E!Distance(i, c) <= E!Distance(i, d)
    BY <1>2, <1>3, <1>5
  <2> HIDE DEF U
  <2> QED
    BY <1>3, <2>1, <2>2 DEF E!Closest
<1>7. E!NegatedBy(C, i) = E!Closest(U, i)
  BY <1>6 DEF E!NegatedBy
<1> QED
  BY <1>6, <1>7 DEF C

\* A span directly behind a negation.
Direct(tokens, cues, leads, s) ==
    \E i \in DOMAIN tokens :
        tokens[i] \in cues /\ i < s[1] /\ SubSeq(tokens, i + 1, s[1] - 1) \in leads

\* What may stand between a span that is denied and another joined to it.
Joint(gap, leads, conjunctions) == \E c \in conjunctions, l \in leads : gap = <<c>> \o l

\* What is denied is directly behind a negation, or joined to a span that is.
LEMMA NegationsMean ==
  ASSUME NEW tokens, NEW spans, NEW cues, NEW leads, NEW conjunctions,
         NEW s \in Negations(tokens, spans, cues, leads, conjunctions)
  PROVE  /\ s \in spans
         /\ \/ Direct(tokens, cues, leads, s)
            \/ \E d \in spans :
                 /\ Direct(tokens, cues, leads, d) /\ d[2] < s[1]
                 /\ Joint(SubSeq(tokens, d[2] + 1, s[1] - 1), leads, conjunctions)
BY DEF Negations, Direct, Joint

\* A joint is a conjunction, or a conjunction and a determiner.
LEMMA JointMeans ==
  ASSUME NEW conjunctions, NEW gap, Joint(gap, {<<>>, <<"a">>}, conjunctions)
  PROVE  Len(gap) \in 1..2 /\ gap[1] \in conjunctions /\ (Len(gap) = 2 => gap[2] = "a")
<1>1. PICK x \in conjunctions, l \in {<<>>, <<"a">>} : gap = <<x>> \o l
  BY DEF Joint
<1>2. CASE l = <<>>
  <2>1. <<x>> \in Seq({x})
    OBVIOUS
  <2>2. gap = <<x>>
    BY <1>1, <1>2, <2>1, ConcatEmptySeq
  <2> QED
    BY <2>2
<1>3. CASE l = <<"a">>
  <2>1. gap = <<x, "a">>
    BY <1>1, <1>3, Pair
  <2> QED
    BY <2>1
<1> QED
  BY <1>2, <1>3

\* A schedule every mention of which is denied is not read from the sentence.
LEMMA ScheduleDenied ==
  ASSUME NEW A, NEW sentence \in Seq(A), NEW marker \in E!BareMarkers
  PROVE  LET tokens == E!Visible(sentence)
             Mentions(label) == UNION {E!Spans(tokens, m[2]) :
                 m \in {x \in E!BareMarkers \cup E!Arrangements : x[1] = label}}
             all == UNION {Mentions(m[1]) : m \in E!BareMarkers}
             denied == Negations(tokens, all, E!NegationCues, {<<>>, <<"a">>}, E!Conjunctions)
         IN Mentions(marker[1]) \subseteq denied => marker[1] \notin E!SentenceLabels(sentence)
<1> DEFINE tokens == E!Visible(sentence)
           Mentions(label) == UNION {E!Spans(tokens, m[2]) :
               m \in {x \in E!BareMarkers \cup E!Arrangements : x[1] = label}}
           all == UNION {Mentions(m[1]) : m \in E!BareMarkers}
           leads == {<<>>, <<"a">>}
           denied == Negations(tokens, all, E!NegationCues, leads, E!Conjunctions)
           C == E!Candidates(tokens)
           cues == {i \in DOMAIN tokens : tokens[i] \in E!NegationCues}
           start == UNION {E!NegatedBy(C, cue) : cue \in cues}
           negated == E!Spread(tokens, C, start)
           denies(s) == Direct(tokens, E!NegationCues, leads, s)
<1>1. SUFFICES ASSUME Mentions(marker[1]) \subseteq denied, marker[1] \in E!SentenceLabels(sentence)
               PROVE  FALSE
  OBVIOUS
<1>2. tokens \in Seq(A)
  BY SharedByEmployment, CompactMeans DEF E!Visible
<1>3. PICK c \in C \ negated : c.label = marker[1]
  BY <1>1 DEF E!SentenceLabels
<1>4. <<c.first, c.last>> \in Mentions(marker[1])
  <2>1. PICK m \in ScheduleMarkers : c.label = m[1] /\ <<c.first, c.last>> \in Spans(tokens, m[2])
    BY <1>2, <1>3, ScheduleCandidates
  <2>2. E!Spans(tokens, m[2]) = Spans(tokens, m[2])
    BY SharedByEmployment
  <2>3. m \in {x \in E!BareMarkers \cup E!Arrangements : x[1] = marker[1]}
    BY <1>3, <2>1 DEF ScheduleMarkers
  <2> HIDE DEF tokens
  <2> QED
    BY <2>1, <2>2, <2>3
<1>5. \A s \in all : \E d \in C : d.first = s[1] /\ d.last = s[2]
  <2> SUFFICES ASSUME NEW s \in all PROVE \E d \in C : d.first = s[1] /\ d.last = s[2]
    OBVIOUS
  <2>1. PICK m \in ScheduleMarkers : s \in E!Spans(tokens, m[2])
    <3> HIDE DEF tokens
    <3> QED
      BY DEF ScheduleMarkers
  <2>2. E!Spans(tokens, m[2]) = Spans(tokens, m[2])
    BY SharedByEmployment
  <2> QED
    BY <1>2, <2>1, <2>2, ScheduleCandidates
<1>6. start \subseteq C
  BY DEF E!NegatedBy, E!Closest
<1>7. start \cup {d \in C : \E e \in start : E!Coordinated(tokens, e, d)} \subseteq negated
  <2>1. IsFiniteSet(C) /\ C # {}
    BY <1>2, <1>3, ScheduleCandidates
  <2> HIDE DEF tokens, C, start
  <2> QED
    BY <1>6, <2>1, ScheduleSpreads
<1>8. \A d \in C : denies(<<d.first, d.last>>) => d \in start
  <2> SUFFICES ASSUME NEW d \in C, NEW i \in DOMAIN tokens, tokens[i] \in E!NegationCues,
                      i < d.first, SubSeq(tokens, i + 1, d.first - 1) \in leads
               PROVE  d \in start
    BY DEF Direct
  <2>1. d \in E!NegatedBy(C, i)
    <3> HIDE DEF tokens
    <3> QED
      BY <1>2, DenialAhead
  <2>2. i \in cues
    OBVIOUS
  <2> HIDE DEF cues, C
  <2> QED
    BY <2>1, <2>2
<1> DEFINE s == <<c.first, c.last>>
           joint(gap) == Joint(gap, leads, E!Conjunctions)
           apart(d) == d[2] < s[1] /\ joint(SubSeq(tokens, d[2] + 1, s[1] - 1))
<1>9. s \in denied
  BY <1>1, <1>4
<1> HIDE DEF tokens, Mentions, C, start, negated, all
<1>10. denies(s) \/ \E d \in all : denies(d) /\ apart(d)
  <2> HIDE DEF leads, s
  <2> QED
    BY <1>9, NegationsMean
<1>11. CASE denies(s)
  <2> HIDE DEF denies
  <2> QED
    BY <1>3, <1>7, <1>8, <1>11
<1>12. CASE \E d \in all : denies(d) /\ apart(d)
  <2>1. PICK d \in all : denies(d) /\ apart(d)
    <3> HIDE DEF denies, apart
    <3> QED
      BY <1>12
  <2>2. PICK e \in C : e.first = d[1] /\ e.last = d[2]
    BY <1>5
  <2>3. e \in start
    <3>1. denies(<<e.first, e.last>>)
      BY <2>1, <2>2 DEF Direct
    <3> HIDE DEF denies
    <3> QED
      BY <1>8, <3>1
  <2> DEFINE gap == SubSeq(tokens, e.last + 1, c.first - 1)
  <2>4. e.last < c.first /\ joint(gap)
    <3> HIDE DEF joint
    <3> QED
      BY <2>1, <2>2
  <2> HIDE DEF gap
  <2>5. Len(gap) \in 1..2 /\ gap[1] \in E!Conjunctions /\ (Len(gap) = 2 => gap[2] = "a")
    BY <2>4, JointMeans
  <2>6. e.last \in Nat /\ c.first \in Nat
    <3>1. DOMAIN tokens = 1..Len(tokens) /\ Len(tokens) \in Nat
      BY <1>2, LenProperties
    <3>2. e.last \in DOMAIN tokens /\ c.first \in DOMAIN tokens
      BY <1>2, <1>3, ScheduleCandidates DEF C
    <3> QED
      BY <3>1, <3>2
  <2>7. E!Coordinated(tokens, e, c)
    BY <2>4, <2>5, <2>6 DEF E!Coordinated, E!Determiners, gap
  <2> QED
    BY <1>3, <1>7, <2>3, <2>7
<1> QED
  <2> HIDE DEF denies, apart
  <2> QED
    BY <1>10, <1>11, <1>12

-----------------------------------------------------------------------------
(***************************************************************************)
(* Arrangements: a sentence that requires attendance, and what denies one. *)
(***************************************************************************)

\* What RemoteType takes from Phrases is what Normalization does.
LEMMA SharedByRemoteType ==
  /\ \A u, t : R!IsPrefix(u, t) = IsPrefix(u, t)
  /\ \A t, i : R!From(t, i) = From(t, i)
  /\ \A U : R!Ascending(U) = Ascending(U)
  /\ \A t, u : R!Spans(t, u) = Spans(t, u)
  /\ \A U : R!Cardinality(U) = Cardinality(U)
<1>1. \A U : R!Ascending(U) = Ascending(U)
  BY DEF R!Ascending, Ascending, R!Cardinality, Cardinality, R!IsFiniteSet, IsFiniteSet
<1>2. \A t, u : R!Spans(t, u) = Spans(t, u)
  BY DEF R!Spans, Spans, R!Starts, Starts, R!Span, Span, R!IsPrefix, IsPrefix, R!From, From
<1>3. \A U : R!Cardinality(U) = Cardinality(U)
  BY DEF R!Cardinality, Cardinality, R!IsFiniteSet, IsFiniteSet
<1> QED
  BY <1>1, <1>2, <1>3 DEF R!IsPrefix, IsPrefix, R!From, From

\* What is masked is part of an excluded phrase where it occurs.
LEMMA MaskedMeans ==
  ASSUME NEW A, NEW words \in Seq(A), NEW p
  PROVE  R!Masked(words, <<p>>) \subseteq UNION {s[1]..s[2] : s \in Spans(words, p)}
<1> DEFINE at == R!Ascending(R!Starts(words, p))
           spans == [k \in DOMAIN at |-> R!Span(at[k], p)]
           n == Cardinality(Starts(words, p))
           V == UNION {s[1]..s[2] : s \in Spans(words, p)}
           Step(f, m) == [s \in SUBSET (1..m) |->
             IF s = {} THEN {} ELSE R!MaskSpan(f[s \ {R!Max(s)}], spans[R!Max(s)])]
           iter == CHOOSE f : f = Step(f, n)
<1>1. R!Masked(words, <<p>>) = R!FoldLeft(R!MaskSpan, {}, spans)
  <2> DEFINE InOrder(q) == LET a == R!Ascending(R!Starts(words, q))
                           IN [k \in DOMAIN a |-> R!Span(a[k], q)]
             u == [i \in DOMAIN <<p>> |-> InOrder(<<p>>[i])]
             flatten == CHOOSE f : f = [i \in 1..Len(u) |-> IF i = 1 THEN u[i] ELSE f[i-1] \o u[i]]
  <2>1. u = [i \in 1..1 |-> InOrder(p)]
    <3> HIDE DEF InOrder
    <3> QED
      OBVIOUS
  <2>2. InOrder(p) = spans
    OBVIOUS
  <2>3. R!Masked(words, <<p>>) = R!FoldLeft(R!MaskSpan, {}, R!FlattenSeq(u))
    BY DEF R!Masked
  <2> HIDE DEF u, InOrder, spans
  <2>4. Len(u) = 1 /\ u[1] = spans
    BY <2>1, <2>2
  <2>5. R!FlattenSeq(u) = flatten[1]
    BY <2>4 DEF R!FlattenSeq
  <2>6. \E f : f = [i \in 1..Len(u) |-> IF i = 1 THEN u[i] ELSE f[i-1] \o u[i]]
    <3> DEFINE g == [i \in 1..1 |-> spans]
    <3>1. g = [i \in 1..Len(u) |-> IF i = 1 THEN u[i] ELSE g[i-1] \o u[i]]
      BY <2>4
    <3> QED
      BY <3>1
  <2>7. flatten = [i \in 1..Len(u) |-> IF i = 1 THEN u[i] ELSE flatten[i-1] \o u[i]]
    BY <2>6
  <2> HIDE DEF flatten
  <2>8. flatten[1] = spans
    BY <2>4, <2>7
  <2> QED
    BY <2>3, <2>5, <2>8
<1>2. n \in Nat /\ DOMAIN spans = 1..n /\ \A k \in 1..n : spans[k] \in Spans(words, p)
  <2>1. R!Starts(words, p) = Starts(words, p)
    BY DEF R!Starts, Starts, R!IsPrefix, IsPrefix, R!From, From
  <2>2. Starts(words, p) \in SUBSET Nat /\ IsFiniteSet(Starts(words, p))
    <3>1. DOMAIN words = 1..Len(words) /\ Len(words) \in Nat
      BY LenProperties
    <3>2. Starts(words, p) \subseteq DOMAIN words /\ IsFiniteSet(DOMAIN words)
      BY <3>1, FS_Interval DEF Starts
    <3> QED
      BY <3>1, <3>2, FS_Subset
  <2>3. n \in Nat /\ at \in [1..n -> Starts(words, p)]
    BY <2>1, <2>2, AscendingMeans, SharedByRemoteType
  <2> HIDE DEF at, n
  <2>4. \A k \in 1..n : spans[k] = Span(at[k], p)
    BY <2>3 DEF R!Span, Span
  <2> QED
    BY <2>3, <2>4 DEF Spans
<1> HIDE DEF n
<1>3. R!FoldLeft(R!MaskSpan, {}, spans) = iter[1..n]
  <2> HIDE DEF spans
  <2> QED
    BY <1>2 DEF R!FoldLeft, R!MapThenFoldSet
<1>4. \A m \in 1..n : \A s \in SUBSET (1..m) : m \in s => R!Max(s) = m
  <2> SUFFICES ASSUME NEW m \in 1..n, NEW s \in SUBSET (1..m), m \in s PROVE R!Max(s) = m
    OBVIOUS
  <2>1. \A y \in s : y \in 1..m
    OBVIOUS
  <2>2. \A y \in s : m >= y /\ (y >= m => y = m)
    BY <2>1, <1>2
  <2> QED
    BY <2>2 DEF R!Max
<1> HIDE DEF spans
<1>5. \E f : f = Step(f, n)
  <2> DEFINE Suit(f, m) == f = Step(f, m)
             bad == {m \in 0..n : ~\E f : Suit(f, m)}
  <2>1. bad = {}
    <3> SUFFICES ASSUME bad # {} PROVE FALSE
      OBVIOUS
    <3>1. PICK m \in bad : \A j \in bad : m <= j
      <4>1. bad \in SUBSET (0..n)
        OBVIOUS
      <4> HIDE DEF bad
      <4> QED
        BY <1>2, <4>1, LeastBelow
    <3>2. m # 0
      <4> DEFINE f == [s \in SUBSET (1..0) |-> {}]
      <4>1. \A s \in SUBSET (1..0) : s = {}
        OBVIOUS
      <4>2. Suit(f, 0)
        BY <4>1
      <4> HIDE DEF Suit
      <4> QED
        BY <3>1, <4>2
    <3>3. m \in 1..n /\ m - 1 \in 0..n /\ ~(m <= m - 1)
      BY <3>1, <3>2, <1>2
    <3>4. PICK f : Suit(f, m - 1)
      BY <3>1, <3>3
    <3> DEFINE before == SUBSET (1..m - 1)
               g == [s \in SUBSET (1..m) |->
                       IF m \in s THEN R!MaskSpan(f[s \ {m}], spans[m]) ELSE f[s]]
    <3>5. \A s \in SUBSET (1..m) : (m \notin s => s \in before) /\ s \ {m} \in before
      BY <3>3
    <3>6. before \subseteq SUBSET (1..m)
      BY <3>3
    <3>7. \A s \in before : g[s] = f[s] /\ m \notin s
      BY <3>3, <3>6
    <3>8. \A s \in before :
            f[s] = IF s = {} THEN {} ELSE R!MaskSpan(f[s \ {R!Max(s)}], spans[R!Max(s)])
      BY <3>4
    <3>9. ASSUME NEW s \in SUBSET (1..m)
          PROVE  g[s] = IF s = {} THEN {} ELSE R!MaskSpan(g[s \ {R!Max(s)}], spans[R!Max(s)])
      <4>1. CASE m \in s
        <5>1. R!Max(s) = m /\ s \ {m} \in before /\ s # {}
          BY <1>4, <3>3, <3>5, <4>1
        <5>2. g[s] = R!MaskSpan(f[s \ {m}], spans[m]) /\ g[s \ {m}] = f[s \ {m}]
          BY <3>7, <4>1, <5>1
        <5> HIDE DEF g, before
        <5> QED
          BY <5>1, <5>2
      <4>2. CASE m \notin s
        <5>1. s \in before /\ s \ {R!Max(s)} \in before
          BY <3>5, <4>2
        <5>2. g[s] = f[s] /\ g[s \ {R!Max(s)}] = f[s \ {R!Max(s)}]
          BY <3>7, <5>1
        <5> HIDE DEF g, before
        <5> QED
          BY <3>8, <5>1, <5>2
      <4> QED
        BY <4>1, <4>2
    <3>10. Suit(g, m)
      <4>1. g = [s \in SUBSET (1..m) |-> g[s]]
        OBVIOUS
      <4> HIDE DEF g
      <4> QED
        BY <3>9, <4>1
    <3> HIDE DEF Suit
    <3> QED
      BY <3>1, <3>10
  <2>2. n \in 0..n
    BY <1>2
  <2> QED
    BY <2>1, <2>2
<1>6. iter = Step(iter, n)
  BY <1>5
<1> HIDE DEF iter
<1>7. \A s \in SUBSET (1..n) :
        iter[s] = IF s = {} THEN {} ELSE R!MaskSpan(iter[s \ {R!Max(s)}], spans[R!Max(s)])
  BY <1>6
<1>8. \A m \in 1..n : \A y : y \subseteq V => R!MaskSpan(y, spans[m]) \subseteq V
  <2> SUFFICES ASSUME NEW m \in 1..n, NEW y, y \subseteq V
               PROVE  R!MaskSpan(y, spans[m]) \subseteq V
    OBVIOUS
  <2>1. spans[m][1]..spans[m][2] \subseteq V
    BY <1>2
  <2> HIDE DEF V
  <2> QED
    BY <2>1 DEF R!MaskSpan
<1> HIDE DEF V
<1> DEFINE bad == {m \in 0..n : \E s \in SUBSET (1..m) : ~(iter[s] \subseteq V)}
<1>9. bad = {}
  <2> SUFFICES ASSUME bad # {} PROVE FALSE
    OBVIOUS
  <2>1. PICK m \in bad : \A j \in bad : m <= j
    <3>1. bad \in SUBSET (0..n)
      OBVIOUS
    <3> HIDE DEF bad
    <3> QED
      BY <1>2, <3>1, LeastBelow
  <2>2. PICK s \in SUBSET (1..m) : ~(iter[s] \subseteq V)
    OBVIOUS
  <2>3. s \in SUBSET (1..n) /\ s # {}
    <3>1. s \in SUBSET (1..n)
      BY <1>2, <2>1
    <3> QED
      BY <1>7, <2>2, <3>1
  <2>4. m \in 1..n /\ m - 1 \in 0..n /\ ~(m <= m - 1)
    <3>1. m # 0
      <4>1. 1..0 = {}
        OBVIOUS
      <4> QED
        BY <2>2, <2>3, <4>1
    <3> QED
      BY <1>2, <2>1, <3>1
  <2>5. \A x \in SUBSET (1..m - 1) : iter[x] \subseteq V
    <3>1. m - 1 \notin bad
      BY <2>1, <2>4
    <3> QED
      BY <2>4, <3>1
  <2>6. m \in s
    <3>1. m \notin s => s \in SUBSET (1..m - 1)
      BY <2>4
    <3> QED
      BY <2>2, <2>5, <3>1
  <2>7. s \ {m} \in SUBSET (1..m - 1) /\ R!Max(s) = m
    BY <1>4, <2>4, <2>6
  <2>8. iter[s] = R!MaskSpan(iter[s \ {m}], spans[m])
    BY <1>7, <2>3, <2>7
  <2>9. iter[s \ {m}] \subseteq V
    BY <2>5, <2>7
  <2> QED
    BY <1>8, <2>2, <2>4, <2>8, <2>9
<1>10. iter[1..n] \subseteq V
  <2>1. n \in 0..n /\ 1..n \in SUBSET (1..n)
    BY <1>2
  <2> QED
    BY <1>9, <2>1
<1> QED
  BY <1>1, <1>3, <1>10 DEF V

\* Nothing is hidden in a sentence without the second word of an exclusion.
LEMMA NothingHidden ==
  ASSUME NEW A, NEW words \in Seq(A), "team" \notin ToSet(words)
  PROVE  R!Masked(words, R!Exclusions) = {}
<1> DEFINE p == <<"remote", "team">>
           InOrder(q) == LET at == R!Ascending(R!Starts(words, q))
                         IN [k \in DOMAIN at |-> R!Span(at[k], q)]
<1>0. p \in Seq({"remote", "team"}) /\ Len(p) = 2 /\ p[2] = "team"
  OBVIOUS
<1>1. R!Starts(words, p) = {}
  <2> HIDE DEF p
  <2> SUFFICES ASSUME NEW i \in DOMAIN words, IsPrefix(p, From(words, i)) PROVE FALSE
    BY SharedByRemoteType DEF R!Starts
  <2>1. DOMAIN words = 1..Len(words) /\ Len(words) \in Nat /\ i \in 1..Len(words) + 1
    BY LenProperties
  <2>2. /\ From(words, i) \in Seq(A) /\ Len(From(words, i)) = Len(words) - i + 1
        /\ \A k \in 1..Len(words) - i + 1 : From(words, i)[k] = words[i + k - 1]
    BY <2>1, FromMeans
  <2> DEFINE t == From(words, i)
  <2>3. t \in Seq(A) /\ IsPrefix(p, t)
    BY <2>2
  <2>4. 2 <= Len(t) /\ t[2] = "team"
    <3> HIDE DEF t
    <3> QED
      BY <1>0, <2>3, PrefixMeans
  <2>5. words[i + 1] = "team" /\ i + 1 \in DOMAIN words
    BY <2>1, <2>2, <2>4
  <2> QED
    BY <2>5 DEF ToSet
<1>2. Spans(words, p) = {}
  BY <1>1, SharedByRemoteType DEF Spans, R!Starts, Starts
<1>3. R!Exclusions = <<p>>
  BY DEF R!Exclusions
<1> QED
  BY <1>2, <1>3, MaskedMeans

\* The words of a raw sentence are its tokens that do not separate.
LEMMA WordsMean ==
  ASSUME NEW A, NEW raw \in Seq(A)
  PROVE  /\ R!WordsOf(raw) \in Seq(A)
         /\ ToSet(R!WordsOf(raw)) = {w \in ToSet(raw) : w \notin R!Separators}
<1> DEFINE gaps == {i \in DOMAIN raw : raw[i] \in R!Separators}
<1>1. R!WordsOf(raw) = Compact(raw, gaps)
  <2>1. DOMAIN raw \ gaps = {i \in DOMAIN raw : raw[i] \notin R!Separators}
    OBVIOUS
  <2> QED
    BY <2>1, SharedByRemoteType DEF R!WordsOf, R!WordPositions, Compact
<1>2. ToSet(Compact(raw, gaps)) = {w \in ToSet(raw) : w \notin R!Separators}
  <2>1. ToSet(Compact(raw, gaps)) = {raw[i] : i \in DOMAIN raw \ gaps}
    BY CompactMeans
  <2> QED
    BY <2>1 DEF ToSet
<1> HIDE DEF gaps
<1> QED
  BY <1>1, <1>2, CompactMeans

\* A phrase of one word occurs where the word stands.
LEMMA OneWord ==
  ASSUME NEW A, NEW words \in Seq(A), NEW k \in DOMAIN words
  PROVE  <<k, k>> \in R!Spans(words, <<words[k]>>)
<1> DEFINE p == <<words[k]>>  t == From(words, k)
<1>1. DOMAIN words = 1..Len(words) /\ Len(words) \in Nat /\ k \in 1..Len(words) + 1
      /\ words[k] \in A
  BY LenProperties, ElementOfSeq
<1>2. p \in Seq(A) /\ Len(p) = 1 /\ p[1] = words[k]
  BY <1>1
<1>3. t \in Seq(A) /\ Len(t) = Len(words) - k + 1 /\ t[1] = words[k]
  <2>1. /\ t \in Seq(A) /\ Len(t) = Len(words) - k + 1
        /\ \A m \in 1..Len(words) - k + 1 : t[m] = words[k + m - 1]
    BY <1>1, FromMeans
  <2> QED
    BY <1>1, <2>1
<1>4. Len(p) <= Len(t)
  BY <1>1, <1>2, <1>3
<1>5. IsPrefix(p, t)
  <2> HIDE DEF p, t
  <2> QED
    BY <1>2, <1>3, <1>4, PrefixMeans
<1>6. k \in Starts(words, p) /\ Span(k, p) = <<k, k>>
  BY <1>1, <1>5 DEF Starts, Span
<1> QED
  BY <1>6, SharedByRemoteType DEF Spans

\* A sentence has finitely many candidates.
LEMMA FewCandidates ==
  ASSUME NEW A, NEW words \in Seq(A)
  PROVE  IsFiniteSet(R!Candidates(words))
<1> DEFINE labels == {"remote", "hybrid"}
           M == R!Arrangements \cup {R!Blocker} \cup R!BareMarkers
           D == DOMAIN words
           made == [x \in (D \X M) \X BOOLEAN |->
                      [first |-> x[1][1], last |-> x[1][1] + Len(x[1][2][2]) - 1,
                       label |-> x[1][2][1], qualified |-> x[2]]]
<1>1. IsFiniteSet(D)
  <2>1. D = 1..Len(words) /\ Len(words) \in Nat
    BY LenProperties
  <2> QED
    BY <2>1, FS_Interval
<1>2. IsFiniteSet(M)
  <2>1. IsFiniteSet(labels) /\ IsFiniteSet(R!Nouns)
    BY FewThings DEF R!Nouns
  <2> DEFINE named == [x \in labels \X R!Nouns |-> <<x[1], <<x[1]>> \o x[2]>>]
             N == {named[x] : x \in labels \X R!Nouns}
  <2>2. IsFiniteSet(N)
    <3>1. named \in Surjection(labels \X R!Nouns, N)
      BY DEF Surjection
    <3> QED
      BY <2>1, <3>1, FS_Product, FS_Surjection
  <2>3. R!Arrangements \subseteq N \cup {<<"remote", <<"wfh">> >>}
    <3>1. \A label \in labels, noun \in R!Nouns : <<label, <<label>> \o noun>> \in N
      <4> SUFFICES ASSUME NEW label \in labels, NEW noun \in R!Nouns
                   PROVE  <<label, <<label>> \o noun>> \in N
        OBVIOUS
      <4>1. /\ <<label, noun>> \in labels \X R!Nouns
            /\ named[<<label, noun>>] = <<label, <<label>> \o noun>>
        OBVIOUS
      <4> HIDE DEF named
      <4> QED
        BY <4>1
    <3> DEFINE f(label, noun) == <<label, <<label>> \o noun>>
               wfh == <<"remote", <<"wfh">> >>
               V == {f(label, noun) : label \in labels, noun \in R!Nouns}
    <3>2. R!Arrangements = V \cup {wfh}
      BY DEF R!Arrangements
    <3>3. \A label \in labels, noun \in R!Nouns : f(label, noun) \in N
      BY <3>1
    <3>4. V \subseteq N
      <4> HIDE DEF N, f, labels
      <4> QED
        BY <3>3
    <3> HIDE DEF N, V, wfh
    <3> QED
      BY <3>2, <3>4 DEF wfh
  <2> HIDE DEF N
  <2>4. IsFiniteSet(R!Arrangements)
    BY <2>2, <2>3, FS_AddElement, FS_Subset
  <2>5. IsFiniteSet(R!BareMarkers)
    BY FewThings DEF R!BareMarkers
  <2> QED
    BY <2>4, <2>5, FS_AddElement, FS_Union
<1> HIDE DEF M
<1>3. \A c \in R!Candidates(words) : \E m \in M, q \in BOOLEAN : \E s \in Spans(words, m[2]) :
        c = [first |-> s[1], last |-> s[2], label |-> m[1], qualified |-> q]
  BY SharedByRemoteType DEF R!Candidates, M
<1> QED
  BY <1>2, <1>3, FewPlaces

\* From no candidate, suppression spreads to none.
LEMMA NothingSpreads ==
  ASSUME NEW words, NEW candidates, IsFiniteSet(candidates)
  PROVE  R!Spread(words, candidates, {}) = {}
<1> DEFINE n == Cardinality(candidates)
           Step(f) == [k \in 0..n |->
                         IF k = 0 THEN {}
                         ELSE f[k - 1] \cup {d \in candidates :
                                \E c \in f[k - 1] : R!Coordinated(words, c, d)}]
           reached == CHOOSE f : f = Step(f)
           none == [k \in 0..n |-> {}]
<1>1. n \in Nat
  BY FS_CardinalityType
<1>2. R!Spread(words, candidates, {}) = reached[n]
  BY SharedByRemoteType DEF R!Spread
<1> HIDE DEF n
<1>3. none = Step(none)
  BY <1>1
<1>4. reached = Step(reached)
  BY <1>3
<1> HIDE DEF reached
<1>5. \A k \in 0..n : reached[k] = IF k = 0 THEN {} ELSE reached[k - 1] \cup
          {d \in candidates : \E c \in reached[k - 1] : R!Coordinated(words, c, d)}
  BY <1>4
<1> DEFINE B == {m \in 0..n : reached[m] # {}}
<1>6. B = {}
  <2> SUFFICES ASSUME B # {} PROVE FALSE
    OBVIOUS
  <2>1. B \subseteq Nat
    BY <1>1
  <2>2. PICK k \in B : \A m \in B : k <= m
    <3>1. IsFiniteSet(B)
      <4>1. IsFiniteSet(0..n) /\ B \subseteq 0..n
        BY <1>1, FS_Interval
      <4> HIDE DEF B
      <4> QED
        BY <4>1, FS_Subset
    <3> HIDE DEF B
    <3> QED
      BY <2>1, <3>1, HasLeast
  <2>3. k # 0 /\ k \in 0..n
    BY <1>1, <1>5
  <2>4. reached[k - 1] = {}
    BY <1>1, <2>2, <2>3
  <2> QED
    BY <1>5, <2>3, <2>4
<1> QED
  BY <1>1, <1>2, <1>6

\* A sentence that requires attendance and holds no cue says so.
LEMMA AttendanceSaid ==
  ASSUME NEW A, NEW raw \in Seq(A), "attend-office" \in ToSet(raw),
         ToSet(raw) \cap (R!NegationCues \cup R!ContextCues) = {}
  PROVE  "blocker" \in R!SentenceLabels(raw)
<1> DEFINE words == R!WordsOf(raw)
           candidates == R!Candidates(words)
           cues == R!CuePositions(words, R!NegationCues)
           negated == R!Spread(words, candidates,
                               UNION {R!Nearest(candidates, cue) : cue \in cues})
           outOfContext == {c \in candidates :
             \E i \in R!CuePositions(words, R!ContextCues) : R!Distance(i, c) <= R!ContextWindow}
<1>1. /\ words \in Seq(A) /\ "attend-office" \in ToSet(words) /\ "team" \notin ToSet(words)
      /\ ToSet(words) \cap R!NegationCues = {} /\ ToSet(words) \cap R!ContextCues = {}
  BY WordsMean DEF R!Separators, R!ContextCues
<1> HIDE DEF words
<1>2. cues = {} /\ R!CuePositions(words, R!ContextCues) = {}
  BY <1>1 DEF R!CuePositions, ToSet
<1>3. R!Masked(words, R!Exclusions) = {}
  BY <1>1, NothingHidden
<1>4. PICK k \in DOMAIN words : words[k] = "attend-office"
  BY <1>1 DEF ToSet
<1>5. <<k, k>> \in R!Spans(words, <<"attend-office">>)
  BY <1>1, <1>4, OneWord
<1> DEFINE found == [first |-> k, last |-> k, label |-> "blocker", qualified |-> TRUE]
<1>6. found \in candidates
  <2> DEFINE s == <<k, k>>
             hidden == R!Masked(words, R!Exclusions)
             markers == R!Arrangements \cup {R!Blocker}
             Of(m, x) == [first |-> x[1], last |-> x[2], label |-> m[1], qualified |-> TRUE]
             Whole(m) == {x \in R!Spans(words, m[2]) : (x[1]..x[2]) \cap hidden = {}}
             Found == UNION {{Of(m, x) : x \in Whole(m)} : m \in markers}
  <2>1. s \in R!Spans(words, R!Blocker[2]) /\ found = Of(R!Blocker, s)
    BY <1>5 DEF R!Blocker
  <2>2. s \in Whole(R!Blocker)
    BY <1>3, <2>1
  <2>3. R!Blocker \in markers
    OBVIOUS
  <2>4. Found \subseteq candidates
    BY DEF R!Candidates
  <2> HIDE DEF s, Of, Whole, markers, candidates, found
  <2>5. found \in Found
    BY <2>1, <2>2, <2>3
  <2> QED
    BY <2>4, <2>5
<1>7. negated = {} /\ outOfContext = {}
  <2>1. UNION {R!Nearest(candidates, cue) : cue \in cues} = {}
    BY <1>2
  <2>2. IsFiniteSet(candidates)
    BY <1>1, FewCandidates
  <2> HIDE DEF candidates
  <2>3. negated = {}
    BY <2>1, <2>2, NothingSpreads
  <2> QED
    BY <1>2, <2>3
<1> HIDE DEF candidates, negated, outOfContext
<1>8. R!SentenceLabels(raw) = {c.label : c \in {x \in candidates : x.qualified}}
  <2>1. R!SentenceLabels(raw) =
          IF candidates # {} /\ \E cue \in cues : R!Nearest(candidates, cue) = {}
          THEN {}
          ELSE {c.label : c \in {x \in candidates \ (negated \cup outOfContext) :
                   x.qualified \/ \E d \in negated : R!CommaBetween(raw, x, d)}}
    BY DEF R!SentenceLabels, words, candidates, negated, outOfContext
  <2> QED
    BY <1>2, <1>7, <2>1
<1>9. found.label = "blocker" /\ found.qualified
  OBVIOUS
<1> HIDE DEF found
<1> QED
  BY <1>6, <1>8, <1>9

\* Every marker of an arrangement, and the words they are made of.
ArrangementMarkers == R!Arrangements \cup {R!Blocker} \cup R!BareMarkers
ArrangementWords ==
    {"remote", "hybrid", "wfh", "role", "attendance", "requirement", "attend-office"}

\* The phrases of an arrangement's markers, none with a negation in it.
LEMMA ArrangementPhrases ==
  \A m \in ArrangementMarkers : m[2] \in Seq(ArrangementWords) /\ Len(m[2]) \in 1..3
<1> DEFINE Fine(p) == p \in Seq(ArrangementWords) /\ Len(p) \in 1..3
           labels == {"remote", "hybrid"}
           of(label, noun) == <<label, <<label>> \o noun>>
           N == {of(label, noun) : label \in labels, noun \in R!Nouns}
<1>1. /\ Fine(<<"remote">>) /\ Fine(<<"hybrid">>) /\ Fine(<<"wfh">>)
      /\ Fine(<<"attend-office">>)
  BY Phrase DEF ArrangementWords
<1>2. ASSUME NEW label \in labels, NEW noun \in R!Nouns
      PROVE  Fine(<<label>> \o noun)
  <2>1. noun \in Seq(ArrangementWords) /\ Len(noun) \in 1..2
    BY Phrase DEF R!Nouns, ArrangementWords
  <2>2. <<label>> \in Seq(ArrangementWords) /\ Len(<<label>>) = 1
    BY Phrase DEF ArrangementWords
  <2> QED
    BY <2>1, <2>2, ConcatProperties
<1> HIDE DEF Fine
<1>3. \A m \in R!BareMarkers \cup {R!Blocker} : Fine(m[2])
  BY <1>1 DEF R!BareMarkers, R!Blocker
<1>4. \A m \in R!Arrangements : Fine(m[2])
  <2>1. R!Arrangements = N \cup {<<"remote", <<"wfh">> >>}
    BY DEF R!Arrangements
  <2>2. \A label \in labels, noun \in R!Nouns : Fine(of(label, noun)[2])
    BY <1>2
  <2>3. Fine(<<"remote", <<"wfh">> >>[2])
    BY <1>1
  <2>4. \A m \in N : Fine(m[2])
    <3> HIDE DEF labels, of
    <3> QED
      BY <2>2
  <2> HIDE DEF N
  <2> QED
    BY <2>1, <2>3, <2>4
<1> QED
  BY <1>3, <1>4 DEF ArrangementMarkers, Fine

\* A candidate's span is of words of its phrase.
LEMMA ArrangementCandidates ==
  ASSUME NEW A, NEW words \in Seq(A), NEW c \in R!Candidates(words)
  PROVE  /\ c.first \in DOMAIN words /\ c.last \in DOMAIN words /\ c.first <= c.last
         /\ \A k \in c.first..c.last : words[k] \in ArrangementWords
<1> DEFINE Of(m, s, q) == [first |-> s[1], last |-> s[2], label |-> m[1], qualified |-> q]
<1>1. PICK m \in ArrangementMarkers : \E q \in BOOLEAN : \E s \in R!Spans(words, m[2]) :
        c = Of(m, s, q)
  BY DEF R!Candidates, ArrangementMarkers
<1>2. PICK s \in R!Spans(words, m[2]) : c.first = s[1] /\ c.last = s[2]
  BY <1>1
<1> DEFINE p == m[2]  n == Len(p)
<1>3. p \in Seq(ArrangementWords) /\ n \in 1..3 /\ s \in Spans(words, p)
  BY ArrangementPhrases, SharedByRemoteType
<1> HIDE DEF p
<1>4. /\ s[1] \in DOMAIN words /\ s[2] = s[1] + n - 1 /\ s[2] \in DOMAIN words
      /\ \A k \in 1..n : words[s[1] + k - 1] = p[k]
  BY <1>3, SpanMeans
<1>5. /\ DOMAIN words = 1..Len(words) /\ Len(words) \in Nat
      /\ \A k \in 1..n : p[k] \in ArrangementWords
  BY <1>3, LenProperties, ElementOfSeq
<1> HIDE DEF n
<1>6. ASSUME NEW k \in s[1]..s[2] PROVE words[k] \in ArrangementWords
  <2>1. k - s[1] + 1 \in 1..n /\ s[1] + (k - s[1] + 1) - 1 = k
    <3>1. PICK a \in Nat : a = s[1]
      BY <1>4, <1>5
    <3>2. n \in 1..3 /\ k \in a..a + n - 1
      BY <1>3, <1>4, <3>1
    <3>3. k - a + 1 \in 1..n /\ a + (k - a + 1) - 1 = k
      BY <3>2
    <3> QED
      BY <3>1, <3>3
  <2> QED
    BY <1>4, <1>5, <2>1
<1>7. s[1] <= s[2]
  BY <1>3, <1>4, <1>5
<1> QED
  BY <1>2, <1>4, <1>6, <1>7

\* How far a cue that is no part of a candidate is from it.
LEMMA DistanceOutside ==
  ASSUME NEW cue \in Nat, NEW c, c.first \in Nat, c.last \in Nat, c.first <= c.last,
         cue < c.first \/ cue > c.last
  PROVE  /\ R!Distance(cue, c) \in Nat \ {0}
         /\ c.first = cue + 1 => R!Distance(cue, c) = 1
<1> DEFINE far == c.first - cue  behind == cue - c.last
           U == {0, far, behind}
<1>1. /\ far \in Int /\ behind \in Int /\ ((far > 0 /\ behind < 0) \/ (behind > 0 /\ far < 0))
      /\ (c.first = cue + 1 => far = 1)
  OBVIOUS
<1>2. R!Distance(cue, c) = CHOOSE x \in U : \A y \in U : x >= y
  BY DEF R!Distance, R!Max
<1> HIDE DEF far, behind
<1>3. CASE far > 0 /\ behind < 0
  <2>1. \A x \in U : (\A y \in U : x >= y) => x = far
    BY <1>1, <1>3
  <2>2. far \in U /\ \A y \in U : far >= y
    BY <1>1, <1>3
  <2> HIDE DEF U
  <2>3. R!Distance(cue, c) = far
    BY <1>2, <2>1, <2>2
  <2> QED
    BY <1>1, <1>3, <2>3
<1>4. CASE behind > 0 /\ far < 0
  <2>1. \A x \in U : (\A y \in U : x >= y) => x = behind
    BY <1>1, <1>4
  <2>2. behind \in U /\ \A y \in U : behind >= y
    BY <1>1, <1>4
  <2> HIDE DEF U
  <2>3. R!Distance(cue, c) = behind
    BY <1>2, <2>1, <2>2
  <2> QED
    BY <1>1, <1>4, <2>3
<1> QED
  BY <1>1, <1>3, <1>4

\* A negation is never hidden, and suppresses the phrase directly behind it.
LEMMA DenialNext ==
  ASSUME NEW A, NEW words \in Seq(A), NEW i \in DOMAIN words, words[i] \in R!NegationCues,
         NEW c \in R!Candidates(words), c.first = i + 1
  PROVE  /\ i \in R!CuePositions(words, R!NegationCues)
         /\ c \in R!Nearest(R!Candidates(words), i)
<1> DEFINE C == R!Candidates(words)  p == <<"remote", "team">>
<1>1. words[i] = "not" /\ "not" \notin ArrangementWords /\ DOMAIN words = 1..Len(words)
      /\ Len(words) \in Nat
  BY LenProperties DEF R!NegationCues, ArrangementWords
<1>2. i \notin R!Masked(words, R!Exclusions)
  <2> SUFFICES ASSUME i \in R!Masked(words, <<p>>) PROVE FALSE
    BY DEF R!Exclusions
  <2>0. p \in Seq({"remote", "team"}) /\ Len(p) \in 1..3
    OBVIOUS
  <2>1. Len(p) = 2 /\ p[1] = "remote" /\ p[2] = "team"
    OBVIOUS
  <2> HIDE DEF p
  <2>2. R!Masked(words, <<p>>) \subseteq UNION {s[1]..s[2] : s \in Spans(words, p)}
    BY MaskedMeans
  <2>3. PICK s \in Spans(words, p) : i \in s[1]..s[2]
    BY <2>2
  <2>4. /\ s[1] \in DOMAIN words /\ s[2] = s[1] + Len(p) - 1 /\ s[2] \in DOMAIN words
        /\ \A k \in 1..Len(p) : words[s[1] + k - 1] = p[k]
    BY <2>0, SpanMeans
  <2>5. s[1] \in Nat /\ s[2] = s[1] + 1 /\ words[s[1]] = "remote" /\ words[s[1] + 1] = "team"
    BY <1>1, <2>1, <2>4
  <2>6. i = s[1] \/ i = s[1] + 1
    BY <1>1, <2>3, <2>5
  <2> QED
    BY <1>1, <2>5, <2>6
<1>3. \A d \in C : R!Distance(i, d) \in Nat \ {0} /\ (d.first = i + 1 => R!Distance(i, d) = 1)
  <2> TAKE d \in C
  <2>1. /\ d.first \in DOMAIN words /\ d.last \in DOMAIN words /\ d.first <= d.last
        /\ \A k \in d.first..d.last : words[k] \in ArrangementWords
    BY ArrangementCandidates
  <2>2. i \notin d.first..d.last
    BY <1>1, <2>1
  <2>3. i \in Nat /\ d.first \in Nat /\ d.last \in Nat /\ (i < d.first \/ i > d.last)
    BY <1>1, <2>1, <2>2
  <2> QED
    BY <2>1, <2>3, DistanceOutside
<1> HIDE DEF C
<1>4. R!Distance(i, c) = 1
  BY <1>3 DEF C
<1>5. \A d \in C : R!Distance(i, c) <= R!Distance(i, d)
  BY <1>3, <1>4
<1>6. c \in R!Nearest(C, i)
  <2>1. R!Distance(i, c) <= R!NegationWindow
    BY <1>4 DEF R!NegationWindow
  <2> QED
    BY <1>5, <2>1 DEF R!Nearest, C
<1> QED
  BY <1>2, <1>6 DEF R!CuePositions, C

\* Suppression reaches its start and what is coordinated with it.
LEMMA ArrangementSpreads ==
  ASSUME NEW words, NEW candidates, IsFiniteSet(candidates), candidates # {},
         NEW start \in SUBSET candidates
  PROVE  start \cup {d \in candidates : \E c \in start : R!Coordinated(words, c, d)}
           \subseteq R!Spread(words, candidates, start)
<1> DEFINE n == Cardinality(candidates)
           next(x) == {d \in candidates : \E c \in x : R!Coordinated(words, c, d)}
           step == [x \in SUBSET candidates |-> x \cup next(x)]
           Step(f) == [k \in 0..n |-> IF k = 0 THEN start ELSE f[k - 1] \cup next(f[k - 1])]
           reached == CHOOSE f : f = Step(f)
<1>1. n \in Nat /\ n >= 1
  BY FS_CardinalityType, FS_EmptySet
<1>2. R!Spread(words, candidates, start) = reached[n]
  BY SharedByRemoteType DEF R!Spread
<1> HIDE DEF n
<1>3. \E f : f = Step(f)
  <2>1. \A x \in SUBSET candidates : step[x] = x \cup next(x) /\ next(x) \in SUBSET candidates
    OBVIOUS
  <2> HIDE DEF next
  <2>2. step \in [SUBSET candidates -> SUBSET candidates]
    BY <2>1
  <2> DEFINE V == SUBSET candidates
  <2>3. PICK f \in [0..n -> V] : f[0] = start /\ \A k \in 1..n : f[k] = step[f[k - 1]]
    <3>1. n \in Nat /\ start \in V /\ step \in [V -> V]
      BY <1>1, <2>2
    <3> HIDE DEF step, V
    <3> QED
      BY <3>1, Recursion
  <2>4. \A k \in 0..n : k # 0 => step[f[k - 1]] = f[k - 1] \cup next(f[k - 1])
    <3>1. \A k \in 0..n : k # 0 => f[k - 1] \in V
      BY <1>1
    <3> QED
      BY <2>1, <3>1
  <2> HIDE DEF step
  <2>5. f = Step(f)
    <3>1. \A k \in 0..n : f[k] = IF k = 0 THEN start ELSE f[k - 1] \cup next(f[k - 1])
      <4>1. \A k \in 0..n : k # 0 => k \in 1..n
        BY <1>1
      <4> QED
        BY <2>3, <2>4, <4>1
    <3> HIDE DEF V
    <3> QED
      BY <2>3, <3>1
  <2> QED
    BY <2>5
<1>4. reached = Step(reached)
  BY <1>3
<1> HIDE DEF reached
<1>5. \A k \in 0..n : reached[k] = IF k = 0 THEN start
                                   ELSE reached[k - 1] \cup next(reached[k - 1])
  BY <1>4
<1>6. start \cup next(start) \subseteq reached[1]
  <2>1. 0 \in 0..n /\ 1 \in 0..n /\ 1 - 1 = 0 /\ 1 # 0
    BY <1>1
  <2> QED
    BY <1>5, <2>1
<1>7. \A k \in 2..n : reached[k - 1] \subseteq reached[k]
  <2>1. \A k \in 2..n : k \in 0..n /\ k # 0
    BY <1>1
  <2> QED
    BY <1>5, <2>1
<1> DEFINE all == start \cup next(start)
<1>8. all \subseteq reached[n]
  <2> HIDE DEF all
  <2> QED
    BY <1>1, <1>6, <1>7, Kept DEF all
<1> QED
  BY <1>2, <1>8

\* An arrangement every mention of which is denied is not read from the sentence.
LEMMA ArrangementDenied ==
  ASSUME NEW A, NEW raw \in Seq(A), NEW label \in {"remote", "hybrid"}
  PROVE  LET words == R!WordsOf(raw)
             Mentions(l) == {<<c.first, c.last>> : c \in {x \in R!Candidates(words) : x.label = l}}
             all == UNION {Mentions(l) : l \in {"remote", "hybrid"}}
             denied == Negations(words, all, R!NegationCues, {<<>>}, R!Conjunctions)
         IN Mentions(label) \subseteq denied => label \notin R!SentenceLabels(raw)
<1> DEFINE words == R!WordsOf(raw)
           C == R!Candidates(words)
           Mentions(l) == {<<c.first, c.last>> : c \in {x \in C : x.label = l}}
           all == UNION {Mentions(l) : l \in {"remote", "hybrid"}}
           leads == {<<>>}
           denied == Negations(words, all, R!NegationCues, leads, R!Conjunctions)
           cues == R!CuePositions(words, R!NegationCues)
           start == UNION {R!Nearest(C, cue) : cue \in cues}
           negated == R!Spread(words, C, start)
           denies(s) == Direct(words, R!NegationCues, leads, s)
<1>1. SUFFICES ASSUME Mentions(label) \subseteq denied, label \in R!SentenceLabels(raw)
               PROVE  FALSE
  OBVIOUS
<1>2. words \in Seq(A)
  BY WordsMean
<1>3. PICK c \in C \ negated : c.label = label
  BY <1>1 DEF R!SentenceLabels
<1> DEFINE s == <<c.first, c.last>>
<1>4. s \in denied
  <2>1. s \in Mentions(label)
    <3> HIDE DEF C
    <3> QED
      BY <1>3
  <2> QED
    BY <1>1, <2>1
<1>5. \A x \in all : \E d \in C : d.first = x[1] /\ d.last = x[2]
  <2> HIDE DEF C
  <2> QED
    OBVIOUS
<1>6. start \subseteq C
  BY DEF R!Nearest
<1>7. start \cup {d \in C : \E e \in start : R!Coordinated(words, e, d)} \subseteq negated
  <2>1. IsFiniteSet(C) /\ C # {}
    BY <1>2, <1>3, FewCandidates
  <2> HIDE DEF words, C, start
  <2> QED
    BY <1>6, <2>1, ArrangementSpreads
<1>8. /\ \A d \in C : d.first \in DOMAIN words /\ d.last \in DOMAIN words
      /\ DOMAIN words = 1..Len(words) /\ Len(words) \in Nat
  BY <1>2, ArrangementCandidates, LenProperties
<1> HIDE DEF words
<1>9. ASSUME NEW i \in DOMAIN words, NEW j \in DOMAIN words, i < j
      PROVE  /\ SubSeq(words, i + 1, j - 1) \in Seq(A)
             /\ Len(SubSeq(words, i + 1, j - 1)) = j - i - 1
             /\ \A k \in 1..j - i - 1 : SubSeq(words, i + 1, j - 1)[k] = words[i + k]
  BY <1>2, <1>9, Gap
<1>10. \A d \in C : denies(<<d.first, d.last>>) => d \in start
  <2> SUFFICES ASSUME NEW d \in C, NEW i \in DOMAIN words, words[i] \in R!NegationCues,
                      i < d.first, SubSeq(words, i + 1, d.first - 1) = <<>>
               PROVE  d \in start
    BY DEF Direct
  <2>1. d.first = i + 1
    <3>1. Len(SubSeq(words, i + 1, d.first - 1)) = d.first - i - 1
      BY <1>8, <1>9
    <3>2. d.first - i - 1 = 0
      BY <3>1
    <3> QED
      BY <1>8, <3>2
  <2>2. i \in cues /\ d \in R!Nearest(C, i)
    BY <1>2, <2>1, DenialNext
  <2> HIDE DEF cues, C
  <2> QED
    BY <2>2
<1> HIDE DEF Mentions, C, start, negated, all
<1> DEFINE joint(gap) == Joint(gap, leads, R!Conjunctions)
           apart(d) == d[2] < s[1] /\ joint(SubSeq(words, d[2] + 1, s[1] - 1))
<1>11. denies(s) \/ \E d \in all : denies(d) /\ apart(d)
  <2> HIDE DEF leads, s
  <2> QED
    BY <1>4, NegationsMean
<1>12. CASE denies(s)
  <2> HIDE DEF denies
  <2> QED
    BY <1>3, <1>7, <1>10, <1>12
<1>13. CASE \E d \in all : denies(d) /\ apart(d)
  <2>1. PICK d \in all : denies(d) /\ apart(d)
    <3> HIDE DEF denies, apart
    <3> QED
      BY <1>13
  <2>2. PICK e \in C : e.first = d[1] /\ e.last = d[2]
    BY <1>5
  <2>3. e \in start
    <3>1. denies(<<e.first, e.last>>)
      BY <2>1, <2>2 DEF Direct
    <3> HIDE DEF denies
    <3> QED
      BY <1>10, <3>1
  <2> DEFINE gap == SubSeq(words, e.last + 1, c.first - 1)
  <2>4. e.last < c.first /\ joint(gap)
    <3> HIDE DEF joint
    <3> QED
      BY <2>1, <2>2
  <2>5. e.last \in DOMAIN words /\ c.first \in DOMAIN words
    BY <1>3, <1>8
  <2>6. /\ Len(gap) = c.first - e.last - 1
        /\ \A k \in 1..c.first - e.last - 1 : gap[k] = words[e.last + k]
    <3>1. PICK i \in DOMAIN words, j \in DOMAIN words : i = e.last /\ j = c.first /\ i < j
      BY <2>4, <2>5
    <3>2. /\ Len(SubSeq(words, i + 1, j - 1)) = j - i - 1
          /\ \A k \in 1..j - i - 1 : SubSeq(words, i + 1, j - 1)[k] = words[i + k]
      BY <1>9, <3>1
    <3> QED
      BY <3>1, <3>2
  <2>7. Len(gap) = 1 /\ gap[1] \in R!Conjunctions
    <3>1. PICK x \in R!Conjunctions : gap = <<x>> \o <<>>
      BY <2>4 DEF Joint
    <3>2. <<x>> \in Seq({x})
      OBVIOUS
    <3> HIDE DEF gap
    <3>3. gap = <<x>>
      BY <3>1, <3>2, ConcatEmptySeq
    <3> QED
      BY <3>3
  <2> HIDE DEF gap
  <2>8. c.first = e.last + 2 /\ words[e.last + 1] \in R!Conjunctions
    <3>1. c.first - e.last - 1 = 1
      BY <2>6, <2>7
    <3>2. c.first = e.last + 2
      BY <1>8, <2>5, <3>1
    <3>3. gap[1] = words[e.last + 1]
      BY <2>6, <3>1
    <3> QED
      BY <2>7, <3>2, <3>3
  <2>9. R!Coordinated(words, e, c)
    BY <2>8 DEF R!Coordinated
  <2> QED
    BY <1>3, <1>7, <2>3, <2>9
<1> QED
  <2> HIDE DEF denies, apart
  <2> QED
    BY <1>11, <1>12, <1>13

-----------------------------------------------------------------------------
(***************************************************************************)
(* Years of experience in a title whose numbers are denied.                *)
(***************************************************************************)

\* Of some numbers up to n one is the greatest.
LEMMA GreatestBelow ==
  ASSUME NEW n \in Nat, NEW B \in SUBSET (0..n), B # {}
  PROVE  X!Max(B) \in B
<1> DEFINE back == [i \in 0..n |-> n - i]
           U == {back[i] : i \in B}
<1>1. \A i \in 0..n : back[i] \in 0..n /\ back[back[i]] = i
  OBVIOUS
<1>2. \A i, j \in 0..n : back[i] <= back[j] => j <= i
  OBVIOUS
<1> HIDE DEF back
<1>3. U \in SUBSET (0..n) /\ U # {}
  BY <1>1
<1>4. PICK u \in U : \A v \in U : u <= v
  <2> HIDE DEF U
  <2> QED
    BY <1>3, LeastBelow
<1>5. PICK i \in B : u = back[i]
  OBVIOUS
<1>6. \A j \in B : j <= i
  BY <1>2, <1>4, <1>5
<1>7. \A j \in B : i >= j
  BY <1>6
<1> QED
  BY <1>7 DEF X!Max

\* What Experience takes from Phrases is what Normalization does.
LEMMA SharedByExperience ==
  \A U : X!Ascending(U) = Ascending(U)
BY DEF X!Ascending, Ascending, X!Cardinality, Cardinality, X!IsFiniteSet, IsFiniteSet

\* Nothing stands between two neighbours.
LEMMA AscendingNext ==
  ASSUME NEW U \in SUBSET Nat, IsFiniteSet(U), NEW k \in 1..Cardinality(U),
         k + 1 \in 1..Cardinality(U), NEW b \in U
  PROVE  b <= Ascending(U)[k] \/ Ascending(U)[k + 1] <= b
<1> DEFINE n == Cardinality(U)  at == Ascending(U)
<1>1. /\ n \in Nat /\ at \in [1..n -> U] /\ \A l, m \in 1..n : l < m => at[l] < at[m]
      /\ \E m \in 1..n : at[m] = b
  BY AscendingMeans
<1> HIDE DEF n, at
<1>2. k \in 1..n /\ k + 1 \in 1..n
  BY DEF n
<1>3. PICK m \in 1..n : at[m] = b
  BY <1>1
<1>4. b \in Nat /\ at[k] \in Nat /\ at[k + 1] \in Nat
  BY <1>1, <1>2
<1>5. m < k \/ m = k \/ m = k + 1 \/ k + 1 < m
  BY <1>1, <1>2
<1>6. b <= at[k] \/ at[k + 1] <= b
  BY <1>1, <1>2, <1>3, <1>4, <1>5
<1> QED
  BY <1>6 DEF at

\* Redaction hides numbers, and changes nothing else.
LEMMA RedactedMeans ==
  ASSUME NEW A, NEW t \in Seq(A)
  PROVE  /\ X!Redacted(t) \in Seq(A \cup {"#"}) /\ Len(X!Redacted(t)) = Len(t)
         /\ \A i \in DOMAIN t :
              \/ X!Redacted(t)[i] = t[i]
              \/ X!Redacted(t)[i] = "#" /\ (t[i] = "decimal" \/ t[i] \in X!Numbers)
<1> DEFINE composites == {p \in X!PoisonPatterns : p[2] = X!RangeSeparators}
           poisoned == UNION {X!Consumed(t, composites)}
                       \cup UNION {X!Consumed(t, {p}) : p \in X!PoisonPatterns \ composites}
           seen(i) == IF t[i] = "decimal" \/ (i \in poisoned /\ t[i] \in X!Numbers)
                      THEN "#" ELSE t[i]
<1>1. X!Redacted(t) = [i \in DOMAIN t |-> seen(i)]
  BY DEF X!Redacted
<1> HIDE DEF poisoned
<1>2. DOMAIN t = 1..Len(t) /\ Len(t) \in Nat /\ \A i \in DOMAIN t : t[i] \in A
  BY LenProperties, ElementOfSeq
<1>3. \A i \in DOMAIN t : \/ seen(i) = t[i]
                          \/ seen(i) = "#" /\ (t[i] = "decimal" \/ t[i] \in X!Numbers)
  OBVIOUS
<1>4. \A i \in 1..Len(t) : seen(i) \in A \cup {"#"}
  BY <1>2
<1> HIDE DEF seen
<1>5. X!Redacted(t) = [i \in 1..Len(t) |-> seen(i)]
  BY <1>1, <1>2
<1>6. X!Redacted(t) \in Seq(A \cup {"#"}) /\ Len(X!Redacted(t)) = Len(t)
  BY <1>2, <1>4, <1>5
<1> QED
  BY <1>1, <1>3, <1>6

\* A segment without a hyphen is not cut.
LEMMA Uncut ==
  ASSUME NEW A, NEW t \in Seq(A), "-" \notin ToSet(t)
  PROVE  X!Cut(t) = <<t>>
<1> DEFINE n == Len(t)  U == {0, n + 1}  at == X!Ascending(U)
           IsDigit(i) == i \in DOMAIN t /\ t[i] \in X!Numbers
           cuts == {i \in DOMAIN t : t[i] = "-" /\ ~IsDigit(i - 1) /\ ~IsDigit(i + 1)}
<1>1. n \in Nat /\ DOMAIN t = 1..n
  BY LenProperties
<1>2. cuts = {}
  BY DEF ToSet
<1>3. X!Cut(t) = [k \in 1..(Len(at) - 1) |-> SubSeq(t, at[k] + 1, at[k + 1] - 1)]
  <2> DEFINE bounds == X!Ascending(cuts \cup U)
  <2>1. X!Cut(t) = [k \in 1..(Len(bounds) - 1) |-> SubSeq(t, bounds[k] + 1, bounds[k + 1] - 1)]
    BY DEF X!Cut
  <2>2. cuts \cup U = U
    BY <1>2
  <2> HIDE DEF cuts, U
  <2> QED
    BY <2>1, <2>2
<1> HIDE DEF n
<1>4. IsFiniteSet(U) /\ Cardinality(U) = 2
  <2>1. IsFiniteSet({0}) /\ Cardinality({0}) = 1
    BY FS_Singleton
  <2>2. n + 1 \notin {0} /\ U = {0} \cup {n + 1}
    BY <1>1
  <2>3. IsFiniteSet({0} \cup {n + 1}) /\ Cardinality({0} \cup {n + 1}) = Cardinality({0}) + 1
    BY <2>1, <2>2, FS_AddElement
  <2>4. Cardinality({0} \cup {n + 1}) = 2
    BY <2>1, <2>3
  <2> QED
    BY <2>2, <2>3, <2>4
<1>5. at \in [1..2 -> U] /\ at[1] < at[2]
  <2>1. U \in SUBSET Nat
    BY <1>1
  <2> HIDE DEF U
  <2>2. /\ Ascending(U) \in [1..Cardinality(U) -> U]
        /\ \A k, l \in 1..Cardinality(U) : k < l => Ascending(U)[k] < Ascending(U)[l]
    BY <1>4, <2>1, AscendingMeans
  <2> QED
    BY <1>4, <2>2, SharedByExperience
<1>6. at[1] = 0 /\ at[2] = n + 1 /\ Len(at) = 2
  <2>1. at[1] \in U /\ at[2] \in U
    BY <1>5
  <2>2. at[1] = 0 /\ at[2] = n + 1
    BY <1>1, <1>5, <2>1
  <2>3. at \in Seq(U) /\ Len(at) = 2
    <3> HIDE DEF U, at
    <3>1. at = [k \in 1..2 |-> at[k]] /\ \A k \in 1..2 : at[k] \in U
      BY <1>5
    <3> QED
      BY <3>1
  <2> QED
    BY <2>2, <2>3
<1> HIDE DEF at
<1>7. X!Cut(t) = [k \in 1..1 |-> SubSeq(t, at[k] + 1, at[k + 1] - 1)]
  BY <1>3, <1>6
<1>8. SubSeq(t, at[1] + 1, at[1 + 1] - 1) = t
  <2>1. at[1] + 1 = 1 /\ at[1 + 1] - 1 = n
    BY <1>1, <1>6
  <2>2. SubSeq(t, 1, n) = [k \in 1..n |-> t[k]]
    BY <1>1
  <2> QED
    BY <1>1, <2>1, <2>2
<1>9. X!Cut(t) = [k \in 1..1 |-> t]
  BY <1>7, <1>8
<1> QED
  BY <1>9

\* Parts of one piece each, put together.
LEMMA OnePiece ==
  ASSUME NEW A, NEW e \in Seq(A)
  PROVE  X!FlattenSeq([i \in 1..Len(e) |-> <<e[i]>>]) = e
<1> DEFINE n == Len(e)  u == [i \in 1..n |-> <<e[i]>>]
           Step(f) == [i \in 1..n |-> IF i = 1 THEN u[i] ELSE f[i - 1] \o u[i]]
           flatten == CHOOSE f : f = Step(f)
           upTo == [i \in 1..n |-> [k \in 1..i |-> e[k]]]
<1>1. n \in Nat /\ DOMAIN e = 1..n /\ (\A i \in 1..n : e[i] \in A) /\ Len(u) = n
      /\ e = [k \in 1..n |-> e[k]]
  BY LenProperties, ElementOfSeq
<1>2. X!FlattenSeq(u) = IF n = 0 THEN <<>> ELSE flatten[n]
  BY <1>1 DEF X!FlattenSeq
<1> HIDE DEF n
<1>3. CASE n = 0
  BY <1>1, <1>2, <1>3 DEF n
<1>4. CASE n # 0
  <2>1. \A i \in 1..n : /\ upTo[i] \in Seq(A) /\ Len(upTo[i]) = i
                         /\ \A k \in 1..i : upTo[i][k] = e[k]
    <3> TAKE i \in 1..n
    <3>1. i \in Nat /\ \A k \in 1..i : e[k] \in A
      BY <1>1
    <3>2. upTo[i] = [k \in 1..i |-> e[k]]
      OBVIOUS
    <3> HIDE DEF upTo
    <3> QED
      BY <3>1, <3>2
  <2>2. \A i \in 1..n : u[i] \in Seq(A) /\ Len(u[i]) = 1 /\ u[i][1] = e[i] /\ u[i] = <<e[i]>>
    BY <1>1
  <2> HIDE DEF u
  <2>3. 1 \in 1..n => upTo[1] = u[1]
    <3> SUFFICES ASSUME 1 \in 1..n PROVE upTo[1] = u[1]
      OBVIOUS
    <3>1. Len(upTo[1]) = Len(u[1]) /\ \A k \in 1..Len(upTo[1]) : upTo[1][k] = u[1][k]
      BY <2>1, <2>2
    <3> HIDE DEF upTo
    <3> QED
      BY <2>1, <2>2, <3>1, SeqEqual
  <2>4. \A i \in 2..n : upTo[i - 1] \o u[i] = upTo[i]
    <3> SUFFICES ASSUME NEW i \in 2..n PROVE upTo[i - 1] \o u[i] = upTo[i]
      OBVIOUS
    <3> HIDE DEF upTo
    <3>1. i \in 1..n /\ i - 1 \in 1..n
      BY <1>1
    <3> DEFINE a == upTo[i - 1]  b == u[i]  c == upTo[i]
    <3>2. /\ a \in Seq(A) /\ Len(a) = i - 1 /\ (\A k \in 1..i - 1 : a[k] = e[k])
          /\ b \in Seq(A) /\ Len(b) = 1 /\ b[1] = e[i]
          /\ c \in Seq(A) /\ Len(c) = i /\ \A k \in 1..i : c[k] = e[k]
      BY <2>1, <2>2, <3>1
    <3> HIDE DEF a, b, c
    <3>3. /\ a \o b \in Seq(A) /\ Len(a \o b) = Len(a) + Len(b)
          /\ \A k \in 1..Len(a) + Len(b) :
               (a \o b)[k] = IF k <= Len(a) THEN a[k] ELSE b[k - Len(a)]
      BY <3>2, ConcatProperties
    <3>4. /\ Len(a \o b) = i
          /\ \A k \in 1..i : (a \o b)[k] = IF k <= i - 1 THEN a[k] ELSE b[k - (i - 1)]
      BY <3>1, <3>2, <3>3
    <3>5. \A k \in 1..i : (a \o b)[k] = c[k]
      <4> TAKE k \in 1..i
      <4>1. k \in 1..i - 1 \/ (k = i /\ ~(k <= i - 1) /\ k - (i - 1) = 1)
        BY <3>1
      <4> QED
        BY <3>2, <3>4, <4>1
    <3>6. a \o b = c
      <4> DEFINE ab == a \o b
      <4>1. ab \in Seq(A) /\ c \in Seq(A) /\ Len(ab) = Len(c) /\ \A k \in 1..Len(ab) : ab[k] = c[k]
        BY <3>2, <3>3, <3>4, <3>5
      <4> HIDE DEF ab
      <4> QED
        BY <4>1, SeqEqual DEF ab
    <3> QED
      BY <3>6 DEF a, b, c
  <2>5. upTo = Step(upTo)
    <3>1. upTo = [i \in 1..n |-> upTo[i]]
      OBVIOUS
    <3> HIDE DEF upTo
    <3>2. \A i \in 1..n : upTo[i] = IF i = 1 THEN u[i] ELSE upTo[i - 1] \o u[i]
      <4> TAKE i \in 1..n
      <4>1. i = 1 \/ i \in 2..n
        BY <1>1
      <4> QED
        BY <2>3, <2>4, <4>1
    <3> QED
      BY <3>1, <3>2
  <2>6. flatten = Step(flatten)
    BY <2>5
  <2> HIDE DEF flatten, upTo
  <2>7. \A i \in 1..n : flatten[i] = IF i = 1 THEN u[i] ELSE flatten[i - 1] \o u[i]
    BY <2>6
  <2> DEFINE bad == {i \in 1..n : flatten[i] # upTo[i]}
  <2>8. bad = {}
    <3> SUFFICES ASSUME bad # {} PROVE FALSE
      OBVIOUS
    <3>1. PICK i \in bad : \A j \in bad : i <= j
      <4>1. bad \in SUBSET (0..n)
        BY <1>1
      <4> HIDE DEF bad
      <4> QED
        BY <1>1, <4>1, LeastBelow
    <3>2. i \in 1..n /\ i # 1
      BY <2>3, <2>7
    <3>3. i \in 2..n /\ i - 1 \in 1..n /\ ~(i <= i - 1)
      BY <1>1, <3>2
    <3>4. flatten[i - 1] = upTo[i - 1]
      BY <3>1, <3>3
    <3> QED
      BY <2>4, <2>7, <3>2, <3>3, <3>4
  <2>9. n \in 1..n
    BY <1>1, <1>4
  <2>10. flatten[n] = [k \in 1..n |-> e[k]]
    BY <2>8, <2>9 DEF upTo
  <2> QED
    BY <1>1, <1>2, <1>4, <2>10 DEF n, u
<1> QED
  BY <1>3, <1>4

\* What a production of years is made of.
YearTokens == {"lo", "hi", "between", "and", "to", "-", "at-least", "up-to", "or-more",
               "or-fewer", "+", "years", "experience"}

\* A production is a phrase with a bound in it.
Bounding(p) == /\ p \in Seq(YearTokens)
               /\ \E k \in 1..Len(p) : p[k] \in {"lo", "hi"}

\* A production with more before or behind it bounds too.
LEMMA StillBounding ==
  ASSUME NEW p, Bounding(p), NEW q \in Seq(YearTokens)
  PROVE  Bounding(p \o q) /\ Bounding(q \o p)
<1>1. PICK k \in 1..Len(p) : p[k] \in {"lo", "hi"}
  BY DEF Bounding
<1>2. p \in Seq(YearTokens) /\ Len(p) \in Nat /\ Len(q) \in Nat
  BY LenProperties DEF Bounding
<1>3. Bounding(p \o q)
  <2>1. /\ p \o q \in Seq(YearTokens) /\ Len(p \o q) = Len(p) + Len(q)
        /\ \A i \in 1..Len(p) + Len(q) : (p \o q)[i] = IF i <= Len(p) THEN p[i] ELSE q[i - Len(p)]
    BY <1>2, ConcatProperties
  <2>2. k \in 1..Len(p) + Len(q) /\ k <= Len(p)
    BY <1>2
  <2> QED
    BY <1>1, <2>1, <2>2 DEF Bounding
<1>4. Bounding(q \o p)
  <2>1. /\ q \o p \in Seq(YearTokens) /\ Len(q \o p) = Len(q) + Len(p)
        /\ \A i \in 1..Len(q) + Len(p) : (q \o p)[i] = IF i <= Len(q) THEN q[i] ELSE p[i - Len(q)]
    BY <1>2, ConcatProperties
  <2>2. k + Len(q) \in 1..Len(q) + Len(p) /\ ~(k + Len(q) <= Len(q)) /\ k + Len(q) - Len(q) = k
    BY <1>2
  <2>3. (q \o p)[k + Len(q)] = p[k]
    BY <2>1, <2>2
  <2> QED
    BY <1>1, <2>1, <2>2, <2>3 DEF Bounding
<1> QED
  BY <1>3, <1>4

\* Phrases of up to four tokens with a bound first or second.
LEMMA PhrasesBound ==
  ASSUME NEW V, V = YearTokens,
         NEW a \in V, NEW b \in V, NEW c \in V, NEW d \in V, {a, b} \cap {"lo", "hi"} # {}
  PROVE  /\ a \in {"lo", "hi"} => Bounding(<<a>>)
         /\ Bounding(<<a, b>>) /\ Bounding(<<a, b, c>>) /\ Bounding(<<a, b, c, d>>)
<1>1. <<a>> \in Seq(V) /\ Len(<<a>>) = 1 /\ <<a>>[1] = a
  OBVIOUS
<1>2. <<a, b>> \in Seq(V) /\ Len(<<a, b>>) = 2 /\ <<a, b>>[1] = a /\ <<a, b>>[2] = b
  OBVIOUS
<1>3. /\ <<a, b, c>> \in Seq(V) /\ Len(<<a, b, c>>) = 3
      /\ <<a, b, c>>[1] = a /\ <<a, b, c>>[2] = b
  OBVIOUS
<1>4. /\ <<a, b, c, d>> \in Seq(V) /\ Len(<<a, b, c, d>>) = 4
      /\ <<a, b, c, d>>[1] = a /\ <<a, b, c, d>>[2] = b
  OBVIOUS
<1> DEFINE Ends(p) == p[1] = a /\ p[2] = b /\ Len(p) \in 2..4
<1>5. ASSUME NEW p \in Seq(V), Ends(p) PROVE Bounding(p)
  BY <1>5 DEF Bounding
<1>6. a \in {"lo", "hi"} => Bounding(<<a>>)
  BY <1>1 DEF Bounding
<1>7. Ends(<<a, b>>) /\ Ends(<<a, b, c>>) /\ Ends(<<a, b, c, d>>)
  BY <1>2, <1>3, <1>4
<1> HIDE DEF Ends
<1> QED
  BY <1>2, <1>3, <1>4, <1>5, <1>6, <1>7

\* The productions a title or a sentence is searched for.
YearCatalogues == {X!ForwardPhrases, X!Values, X!LabelValues}

\* Every production of years has a bound in it.
LEMMA ProductionsBound ==
  \A productions \in YearCatalogues : \A j \in DOMAIN productions : Bounding(productions[j])
<1> DEFINE V == YearTokens
<1>0. /\ "lo" \in V /\ "hi" \in V /\ "between" \in V /\ "and" \in V /\ "to" \in V /\ "-" \in V
      /\ "at-least" \in V /\ "up-to" \in V /\ "or-more" \in V /\ "or-fewer" \in V
      /\ "+" \in V /\ "years" \in V /\ "experience" \in V
  BY DEF YearTokens
<1> HIDE DEF V
<1>1. X!Unit \in Seq(V) /\ <<"or-fewer">> \in Seq(V) /\ <<"or-more">> \in Seq(V)
      /\ <<"experience">> \in Seq(V)
  BY <1>0, Phrase DEF X!Unit
<1>2. \A j \in DOMAIN X!Values : Bounding(X!Values[j])
  <2>1. DOMAIN X!Values = 1..3 /\ X!Values[1] = <<"lo", "-", "hi", "years">>
        /\ X!Values[2] = <<"lo", "+", "years">> /\ X!Values[3] = <<"lo", "years">>
    BY DEF X!Values
  <2>2. Bounding(<<"lo", "-", "hi", "years">>)
    BY <1>0, PhrasesBound DEF V
  <2>3. Bounding(<<"lo", "+", "years">>)
    BY <1>0, PhrasesBound DEF V
  <2>4. Bounding(<<"lo", "years">>)
    BY <1>0, PhrasesBound DEF V
  <2> QED
    BY <2>1, <2>2, <2>3, <2>4
<1>3. \A j \in DOMAIN X!LabelValues : Bounding(X!LabelValues[j])
  <2> SUFFICES ASSUME NEW j \in DOMAIN X!Values PROVE Bounding(<<"experience">> \o X!Values[j])
    BY DEF X!LabelValues
  <2> QED
    BY <1>1, <1>2, StillBounding DEF V
<1>4. \A j \in DOMAIN X!ForwardPhrases : Bounding(X!ForwardPhrases[j])
  <2> DEFINE F == X!ForwardPhrases  u == X!Unit
  <2>1. /\ DOMAIN F = 1..11
        /\ F[1] = <<"between", "lo", "and", "hi">> \o u /\ F[2] = <<"lo", "to", "hi">> \o u
        /\ F[3] = <<"lo", "-", "hi">> \o u /\ F[4] = <<"at-least", "lo">> \o u
        /\ F[5] = <<"up-to", "hi">> \o u /\ F[6] = <<"lo", "or-more">> \o u
        /\ F[7] = <<"hi", "or-fewer">> \o u /\ F[8] = <<"lo", "+">> \o u
        /\ F[9] = <<"hi">> \o u \o <<"or-fewer">> /\ F[10] = <<"lo">> \o u \o <<"or-more">>
        /\ F[11] = <<"lo">> \o u
    BY DEF X!ForwardPhrases
  <2> HIDE DEF F, u
  <2>11. Bounding(<<"between", "lo", "and", "hi">>)
    BY <1>0, PhrasesBound DEF V
  <2>12. Bounding(<<"lo", "to", "hi">>)
    BY <1>0, PhrasesBound DEF V
  <2>13. Bounding(<<"lo", "-", "hi">>)
    BY <1>0, PhrasesBound DEF V
  <2>14. Bounding(<<"at-least", "lo">>)
    BY <1>0, PhrasesBound DEF V
  <2>15. Bounding(<<"up-to", "hi">>)
    BY <1>0, PhrasesBound DEF V
  <2>16. Bounding(<<"lo", "or-more">>)
    BY <1>0, PhrasesBound DEF V
  <2>17. Bounding(<<"hi", "or-fewer">>)
    BY <1>0, PhrasesBound DEF V
  <2>18. Bounding(<<"lo", "+">>)
    BY <1>0, PhrasesBound DEF V
  <2>19. Bounding(<<"hi">>)
    BY <1>0, PhrasesBound DEF V
  <2>20. Bounding(<<"lo">>)
    BY <1>0, PhrasesBound DEF V
  <2>2. Bounding(F[1]) /\ Bounding(F[2]) /\ Bounding(F[3])
    BY <1>1, <2>1, <2>11, <2>12, <2>13, StillBounding DEF u, V
  <2>3. Bounding(F[4]) /\ Bounding(F[5]) /\ Bounding(F[6])
    BY <1>1, <2>1, <2>14, <2>15, <2>16, StillBounding DEF u, V
  <2>4. Bounding(F[7]) /\ Bounding(F[8])
    BY <1>1, <2>1, <2>17, <2>18, StillBounding DEF u, V
  <2>5. Bounding(<<"hi">> \o u) /\ Bounding(<<"lo">> \o u)
    BY <1>1, <2>19, <2>20, StillBounding DEF u, V
  <2>6. Bounding(F[9]) /\ Bounding(F[10]) /\ Bounding(F[11])
    BY <1>1, <2>1, <2>5, StillBounding DEF V
  <2>7. \A j \in 1..11 : j = 1 \/ j = 2 \/ j = 3 \/ j = 4 \/ j = 5 \/ j = 6 \/ j = 7 \/ j = 8
                         \/ j = 9 \/ j = 10 \/ j = 11
    OBVIOUS
  <2> QED
    BY <2>1, <2>2, <2>3, <2>4, <2>6, <2>7 DEF F
<1> QED
  BY <1>2, <1>3, <1>4 DEF YearCatalogues

\* Without a number nothing is a production of years.
LEMMA NoNumberNoPhrase ==
  ASSUME NEW A, NEW tokens \in Seq(A), ToSet(tokens) \cap X!Numbers = {},
         NEW productions \in YearCatalogues, NEW i \in DOMAIN tokens
  PROVE  X!PhraseAt(tokens, productions, i) = X!NoPhrase
<1> DEFINE matching == {j \in DOMAIN productions :
                          X!Matches(tokens, i, X!Pattern(productions[j]))}
<1>1. matching = {}
  <2> SUFFICES ASSUME NEW j \in DOMAIN productions,
                      X!Matches(tokens, i, X!Pattern(productions[j]))
               PROVE  FALSE
    OBVIOUS
  <2> DEFINE p == productions[j]  pattern == X!Pattern(p)
  <2>1. Bounding(p)
    BY ProductionsBound
  <2> HIDE DEF p
  <2>2. PICK k \in 1..Len(p) : p[k] \in {"lo", "hi"}
    BY <2>1 DEF Bounding
  <2>3. p \in Seq(YearTokens) /\ Len(p) \in Nat /\ DOMAIN p = 1..Len(p)
    BY <2>1, LenProperties DEF Bounding
  <2>4. DOMAIN pattern = 1..Len(p) /\ Len(pattern) = Len(p) /\ pattern[k] = X!Numbers
    BY <2>2, <2>3 DEF X!Pattern
  <2>5. /\ i + Len(pattern) - 1 <= Len(tokens)
        /\ \A l \in DOMAIN pattern : tokens[i + l - 1] \in pattern[l]
    BY DEF X!Matches, p
  <2> HIDE DEF pattern
  <2>6. tokens[i + k - 1] \in X!Numbers
    BY <2>4, <2>5
  <2>7. i + k - 1 \in DOMAIN tokens
    <3>1. DOMAIN tokens = 1..Len(tokens) /\ Len(tokens) \in Nat
      BY LenProperties
    <3> QED
      BY <2>3, <2>4, <2>5, <3>1
  <2> QED
    BY <2>6, <2>7 DEF ToSet
<1> QED
  BY <1>1 DEF X!PhraseAt

\* And none is found in the whole text.
LEMMA NoNumberNoPhrases ==
  ASSUME NEW A, NEW tokens \in Seq(A), ToSet(tokens) \cap X!Numbers = {},
         NEW productions \in YearCatalogues
  PROVE  X!Phrases(tokens, productions) = <<>>
<1> DEFINE next(found, i) ==
             LET phrase == X!PhraseAt(tokens, productions, i)
             IN IF phrase = X!NoPhrase \/ (found # <<>> /\ i <= X!Last(found).last)
                THEN found ELSE Append(found, phrase)
           at == [i \in DOMAIN tokens |-> i]
           n == Len(tokens)
           Step(f) == [s \in SUBSET DOMAIN at |->
             IF s = {} THEN <<>> ELSE next(f[s \ {X!Max(s)}], at[X!Max(s)])]
           iter == CHOOSE f : f = Step(f)
           none == [s \in SUBSET DOMAIN at |-> <<>>]
<1>1. n \in Nat /\ DOMAIN tokens = 1..n /\ DOMAIN at = 1..n
  BY LenProperties
<1>2. X!Phrases(tokens, productions) = iter[DOMAIN at]
  BY DEF X!Phrases, X!FoldLeft, X!MapThenFoldSet
<1>3. \A i \in 1..n : \A found : next(found, i) = found
  BY <1>1, NoNumberNoPhrase
<1>4. \A s \in SUBSET (1..n) : s # {} => X!Max(s) \in 1..n
  <2> SUFFICES ASSUME NEW s \in SUBSET (1..n), s # {} PROVE X!Max(s) \in 1..n
    OBVIOUS
  <2>1. s \in SUBSET (0..n)
    BY <1>1
  <2> QED
    BY <1>1, <2>1, GreatestBelow
<1> HIDE DEF n, next
<1>5. \A i \in 1..n : at[i] = i
  BY <1>1
<1>6. \A s \in SUBSET DOMAIN at : none[s] =
        IF s = {} THEN <<>> ELSE next(none[s \ {X!Max(s)}], at[X!Max(s)])
  <2> TAKE s \in SUBSET DOMAIN at
  <2> HIDE DEF at
  <2>1. s \ {X!Max(s)} \in SUBSET DOMAIN at /\ none[s] = <<>> /\ none[s \ {X!Max(s)}] = <<>>
    OBVIOUS
  <2>2. s # {} => at[X!Max(s)] = X!Max(s) /\ X!Max(s) \in 1..n
    BY <1>1, <1>4, <1>5
  <2> HIDE DEF none
  <2> QED
    BY <1>3, <2>1, <2>2
<1>7. none = Step(none)
  <2>1. none = [s \in SUBSET DOMAIN at |-> none[s]]
    OBVIOUS
  <2> HIDE DEF none, at
  <2> QED
    BY <1>6, <2>1
<1>8. iter = Step(iter)
  BY <1>7
<1> HIDE DEF iter
<1>9. \A s \in SUBSET (1..n) :
        iter[s] = IF s = {} THEN <<>> ELSE next(iter[s \ {X!Max(s)}], at[X!Max(s)])
  <2> HIDE DEF at
  <2> QED
    BY <1>1, <1>8
<1>10. \A s \in SUBSET (1..n) : s # {} => iter[s] = iter[s \ {X!Max(s)}]
  <2> TAKE s \in SUBSET (1..n)
  <2>1. s # {} => at[X!Max(s)] = X!Max(s) /\ X!Max(s) \in 1..n
    BY <1>4, <1>5
  <2> HIDE DEF at
  <2> QED
    BY <1>3, <1>9, <2>1
<1> DEFINE bad == {m \in 0..n : \E s \in SUBSET (1..m) : iter[s] # <<>>}
<1>11. \A m \in 1..n : \A s \in SUBSET (1..m) : m \in s => X!Max(s) = m
  <2> SUFFICES ASSUME NEW m \in 1..n, NEW s \in SUBSET (1..m), m \in s PROVE X!Max(s) = m
    OBVIOUS
  <2>1. \A y \in s : y \in 1..m
    OBVIOUS
  <2>2. \A y \in s : m >= y /\ (y >= m => y = m)
    BY <1>1, <2>1
  <2> QED
    BY <2>2 DEF X!Max
<1>12. bad = {}
  <2> SUFFICES ASSUME bad # {} PROVE FALSE
    OBVIOUS
  <2>1. PICK m \in bad : \A j \in bad : m <= j
    <3>1. bad \in SUBSET (0..n)
      OBVIOUS
    <3> HIDE DEF bad
    <3> QED
      BY <1>1, <3>1, LeastBelow
  <2>2. PICK s \in SUBSET (1..m) : iter[s] # <<>>
    OBVIOUS
  <2>3. s \in SUBSET (1..n) /\ s # {}
    <3>1. s \in SUBSET (1..n)
      BY <1>1, <2>1
    <3> QED
      BY <1>9, <2>2, <3>1
  <2>4. m \in 1..n /\ m - 1 \in 0..n /\ ~(m <= m - 1)
    <3>1. m # 0
      <4>1. 1..0 = {}
        OBVIOUS
      <4> QED
        BY <2>2, <2>3, <4>1
    <3> QED
      BY <1>1, <2>1, <3>1
  <2>5. \A x \in SUBSET (1..m - 1) : iter[x] = <<>>
    <3>1. m - 1 \notin bad
      BY <2>1, <2>4
    <3> QED
      BY <2>4, <3>1
  <2>6. m \in s
    <3>1. m \notin s => s \in SUBSET (1..m - 1)
      BY <2>4
    <3> QED
      BY <2>2, <2>5, <3>1
  <2>7. s \ {m} \in SUBSET (1..m - 1) /\ X!Max(s) = m
    BY <1>11, <2>4, <2>6
  <2>8. iter[s] = iter[s \ {m}]
    BY <1>10, <2>3, <2>7
  <2> QED
    BY <2>2, <2>5, <2>7, <2>8
<1>13. n \in 0..n /\ 1..n \in SUBSET (1..n)
  BY <1>1
<1>14. iter[1..n] = <<>>
  BY <1>12, <1>13
<1> QED
  BY <1>1, <1>2, <1>14

\* Of a title alone, no value but "0" is read if no bound but "0" is.
LEMMA AnswerZero ==
  ASSUME NEW U \in SUBSET {"0"}
  PROVE  X!Combine(U, {}).value \in {"none", "0"}
<1>1. U \cup {} = U /\ (U = {} \/ U = {"0"})
  OBVIOUS
<1>2. X!Cardinality({}) = 0
  BY FS_EmptySet DEF X!Cardinality, Cardinality, X!IsFiniteSet, IsFiniteSet
<1>3. CASE X!Cardinality(U) # 1
  BY <1>1, <1>3 DEF X!Combine, X!Unavailable
<1>4. CASE X!Cardinality(U) = 1
  <2>1. U = {"0"}
    <3>1. U = {} => X!Cardinality(U) = 0
      BY <1>2
    <3> QED
      BY <1>1, <1>4, <3>1
  <2>2. X!Combine(U, {}) = X!Answer(U, "inferred")
    BY <1>1, <1>4 DEF X!Combine
  <2>3. X!Answer(U, "inferred").value = CHOOSE v \in U : TRUE
    BY DEF X!Answer
  <2> QED
    BY <2>1, <2>2, <2>3
<1> QED
  BY <1>3, <1>4

\* A sequence is of one token if it has that token, and no other.
LEMMA OneToken ==
  ASSUME NEW A, NEW x, NEW t \in Seq(A)
  PROVE  t = <<x>> <=> Len(t) = 1 /\ t[1] = x
<1>1. Len(<<x>>) = 1 /\ <<x>>[1] = x /\ DOMAIN <<x>> = 1..1 /\ <<x>> = [k \in 1..1 |-> x]
  OBVIOUS
<1>2. DOMAIN t = 1..Len(t) /\ t = [k \in DOMAIN t |-> t[k]]
  BY LenProperties, SeqDef
<1>3. ASSUME Len(t) = 1, t[1] = x PROVE t = <<x>>
  <2>1. t = [k \in 1..1 |-> t[k]] /\ \A k \in 1..1 : t[k] = x
    BY <1>2, <1>3
  <2> QED
    BY <1>1, <2>1
<1> QED
  BY <1>1, <1>3

\* A segment whose numbers, if any, are qualified bounds nothing but by zero.
LEMMA SegmentDenied ==
  ASSUME NEW segments, NEW i, NEW A, segments[i] \in Seq(A), segments[i] # <<>>,
         ToSet(segments[i]) \cap X!Numbers # {} => X!Qualified(segments, i)
  PROVE  /\ X!SegmentBounds(segments, i).minimum \subseteq {"0"}
         /\ X!SegmentBounds(segments, i).maximum \subseteq {"0"}
<1> DEFINE t == segments[i]
           short == X!PhraseAt(t, X!Values, 1)
           forward == X!Phrases(t, X!ForwardPhrases)
           labelled == X!Phrases(t, X!LabelValues)
           Fine(b) == b.minimum \subseteq {"0"} /\ b.maximum \subseteq {"0"}
<1>1. Fine(X!Nothing) /\ Fine(X!Zero)
  BY DEF X!Nothing, X!Zero
<1>2. X!SegmentBounds(segments, i) =
        CASE X!QualifierOnly(t) \/ X!Blank(t) -> X!Nothing
          [] t = X!ZeroPhrase -> X!Zero
          [] OTHER -> IF X!Qualified(segments, i) THEN X!Nothing
                      ELSE IF short.last = Len(t) THEN X!Union({short})
                      ELSE IF forward # <<>> THEN X!Union(X!ToSet(forward))
                      ELSE IF labelled # <<>> THEN X!Union({labelled[1]})
                      ELSE X!Nothing
  BY DEF X!SegmentBounds
<1>3. ASSUME ToSet(t) \cap X!Numbers = {}
      PROVE  short.last # Len(t) /\ forward = <<>> /\ labelled = <<>>
  <2>1. t \in Seq(A) /\ 1 \in DOMAIN t /\ Len(t) # 0
    BY EmptySeq, LenProperties
  <2> HIDE DEF t
  <2>2. short = X!NoPhrase
    BY <1>3, <2>1, NoNumberNoPhrase DEF YearCatalogues
  <2>3. forward = <<>> /\ labelled = <<>>
    BY <1>3, <2>1, NoNumberNoPhrases DEF YearCatalogues
  <2>4. X!NoPhrase.last = 0
    BY DEF X!NoPhrase
  <2> QED
    BY <2>1, <2>2, <2>3, <2>4
<1> HIDE DEF t, short, forward, labelled, Fine
<1>4. CASE X!QualifierOnly(t) \/ X!Blank(t)
  <2>1. t # X!ZeroPhrase
    <3>1. Len(X!ZeroPhrase) = 3
      BY DEF X!ZeroPhrase
    <3>2. X!Blank(t) => Len(t) # 3
      <4>1. t \in Seq(A)
        BY DEF t
      <4> DEFINE blank == <<" ">>
      <4>2. X!Blank(t) <=> t = <<>> \/ t = blank
        BY DEF X!Blank
      <4>3. t = blank => Len(t) = 1
        BY <4>1, OneToken
      <4>4. t = <<>> => Len(t) = 0
        BY EmptySeq
      <4> HIDE DEF blank
      <4> QED
        BY <4>2, <4>3, <4>4
    <3>3. X!QualifierOnly(t) => Len(t) # 3
      <4>1. X!QualifierOnly(t) => Len(t) = 1
        BY DEF X!QualifierOnly
      <4> QED
        BY <4>1
    <3>4. t = X!ZeroPhrase => Len(t) = 3
      BY <3>1
    <3> QED
      BY <1>4, <3>2, <3>3, <3>4
  <2> QED
    BY <1>1, <1>2, <1>4, <2>1 DEF Fine
<1>5. CASE ~(X!QualifierOnly(t) \/ X!Blank(t)) /\ t = X!ZeroPhrase
  BY <1>1, <1>2, <1>5 DEF Fine
<1>6. CASE ~(X!QualifierOnly(t) \/ X!Blank(t)) /\ t # X!ZeroPhrase
  <2>1. X!SegmentBounds(segments, i) =
          IF X!Qualified(segments, i) THEN X!Nothing
          ELSE IF short.last = Len(t) THEN X!Union({short})
          ELSE IF forward # <<>> THEN X!Union(X!ToSet(forward))
          ELSE IF labelled # <<>> THEN X!Union({labelled[1]})
          ELSE X!Nothing
    BY <1>2, <1>6
  <2>2. X!SegmentBounds(segments, i) = X!Nothing
    <3>1. X!Qualified(segments, i) \/ ToSet(t) \cap X!Numbers = {}
      BY DEF t
    <3> QED
      BY <1>3, <2>1, <3>1
  <2> QED
    BY <1>1, <2>2 DEF Fine
<1> QED
  BY <1>4, <1>5, <1>6

\* The segments of a title without hyphens are its parts, redacted.
LEMMA SegmentsUncut ==
  ASSUME NEW A, NEW texts \in Seq(A),
         \A i \in DOMAIN texts :
            texts[i] \in Seq(ToSet(texts[i])) /\ "-" \notin ToSet(texts[i])
  PROVE  /\ DOMAIN X!TitleSegments(texts) = DOMAIN texts
         /\ \A i \in DOMAIN texts : X!TitleSegments(texts)[i] = X!Redacted(texts[i])
<1> DEFINE n == Len(texts)
           e == [i \in 1..n |-> X!Redacted(texts[i])]
           V == {X!Redacted(texts[i]) : i \in 1..n}
<1>1. n \in Nat /\ DOMAIN texts = 1..n
  BY LenProperties
<1>2. \A i \in 1..n : X!Cut(X!Redacted(texts[i])) = <<X!Redacted(texts[i])>>
  <2> TAKE i \in 1..n
  <2> DEFINE t == texts[i]  r == X!Redacted(t)  B == ToSet(t)
  <2>1. t \in Seq(B) /\ "-" \notin B
    BY <1>1
  <2> HIDE DEF t, B
  <2>2. /\ r \in Seq(B \cup {"#"}) /\ Len(r) = Len(t)
        /\ \A k \in DOMAIN t : r[k] = t[k] \/ r[k] = "#"
    BY <2>1, RedactedMeans
  <2> HIDE DEF r
  <2>3. DOMAIN t = 1..Len(t) /\ DOMAIN r = 1..Len(r) /\ \A k \in DOMAIN t : t[k] \in B
    BY <2>1, <2>2, LenProperties, ElementOfSeq
  <2>4. "-" \notin ToSet(r)
    BY <2>1, <2>2, <2>3 DEF ToSet
  <2> QED
    BY <2>2, <2>4, Uncut DEF r, t
<1> HIDE DEF n
<1>3. e \in Seq(V) /\ Len(e) = n
  <2>1. \A i \in 1..n : X!Redacted(texts[i]) \in V
    OBVIOUS
  <2> HIDE DEF V
  <2> QED
    BY <1>1, <2>1
<1>4. [i \in DOMAIN texts |-> X!Cut(X!Redacted(texts[i]))] = [i \in 1..Len(e) |-> <<e[i]>>]
  <2>1. \A i \in 1..n : X!Cut(X!Redacted(texts[i])) = <<e[i]>>
    BY <1>2
  <2> HIDE DEF e
  <2> QED
    BY <1>1, <1>3, <2>1
<1>5. X!TitleSegments(texts) = e
  <2> HIDE DEF e, V
  <2>1. X!FlattenSeq([i \in 1..Len(e) |-> <<e[i]>>]) = e
    BY <1>3, OnePiece
  <2> QED
    BY <1>4, <2>1 DEF X!TitleSegments
<1> QED
  BY <1>1, <1>5

\* No years but none are read from a title all of whose numbers are denied.
LEMMA YearsDenied ==
  ASSUME NEW A, NEW texts \in Seq(A),
         \A i \in DOMAIN texts : texts[i] \in Seq(ToSet(texts[i])) /\ texts[i] # <<>>
  PROVE  LET said == Compact(texts, {i \in DOMAIN texts : texts[i] = <<" ">>})
             qualifiers == X!NotRequired \cup X!Preference
             Alone(j) == j \in DOMAIN said /\ Len(said[j]) = 1 /\ said[j][1] \in qualifiers
             Denied(i) == \/ {said[i][1], Last(said[i])} \cap qualifiers # {}
                          \/ Alone(i - 1) \/ Alone(i + 1)
             Numbered(i) == ToSet(said[i]) \cap X!Numbers # {}
         IN (\A i \in DOMAIN said : "-" \notin ToSet(said[i]) /\ (Numbered(i) => Denied(i)))
            => /\ X!TitleBounds(texts).minimum \subseteq {"0"}
               /\ X!TitleBounds(texts).maximum \subseteq {"0"}
<1> DEFINE blank == <<" ">>
           blanks == {i \in DOMAIN texts : texts[i] = blank}
           said == Compact(texts, blanks)
           qualifiers == X!NotRequired \cup X!Preference
           Alone(j) == j \in DOMAIN said /\ Len(said[j]) = 1 /\ said[j][1] \in qualifiers
           Denied(i) == \/ {said[i][1], Last(said[i])} \cap qualifiers # {}
                        \/ Alone(i - 1) \/ Alone(i + 1)
           Numbered(i) == ToSet(said[i]) \cap X!Numbers # {}
           U == DOMAIN texts \ blanks
           at == Ascending(U)
           n == Cardinality(U)
           segments == X!TitleSegments(texts)
<1>0. SUFFICES ASSUME \A i \in DOMAIN said : "-" \notin ToSet(said[i]) /\ (Numbered(i) => Denied(i))
               PROVE  /\ X!TitleBounds(texts).minimum \subseteq {"0"}
                      /\ X!TitleBounds(texts).maximum \subseteq {"0"}
  OBVIOUS
<1>1. DOMAIN texts = 1..Len(texts) /\ Len(texts) \in Nat
  BY LenProperties
<1>b. ASSUME NEW B, NEW t \in Seq(B) PROVE t = blank <=> Len(t) = 1 /\ t[1] = " "
  BY OneToken
<1> HIDE DEF blank
<1>u. \A i \in DOMAIN texts : i \in U <=> texts[i] # blank
  OBVIOUS
<1>2. U \in SUBSET Nat /\ IsFiniteSet(U) /\ U \subseteq DOMAIN texts
  <2>1. IsFiniteSet(DOMAIN texts)
    BY <1>1, FS_Interval
  <2>2. U \subseteq DOMAIN texts
    OBVIOUS
  <2> HIDE DEF U, blanks
  <2> QED
    BY <1>1, <2>1, <2>2, FS_Subset
<1>3. /\ n \in Nat /\ at \in [1..n -> U] /\ \A k, l \in 1..n : k < l => at[k] < at[l]
      /\ \A i \in U : \E k \in 1..n : at[k] = i
  BY <1>2, AscendingMeans
<1>4. DOMAIN said = 1..n /\ \A k \in 1..n : said[k] = texts[at[k]]
  <2>1. said = [k \in DOMAIN at |-> texts[at[k]]]
    BY DEF Compact
  <2> HIDE DEF said, at, U, n, blanks
  <2> QED
    BY <1>3, <2>1
<1> HIDE DEF said, U, at, n, segments, blanks
<1>5. \A k \in 1..n : k + 1 \in 1..n => \A b \in U : b <= at[k] \/ at[k + 1] <= b
  BY <1>2, AscendingNext DEF at, n
<1>6. \A i \in DOMAIN texts : texts[i] \in Seq(ToSet(texts[i])) /\ "-" \notin ToSet(texts[i])
  <2> SUFFICES ASSUME NEW i \in DOMAIN texts PROVE "-" \notin ToSet(texts[i])
    OBVIOUS
  <2> DEFINE t == texts[i]
  <2>1. CASE i \notin U
    <3>1. t = blank /\ t \in Seq(ToSet(t))
      BY <1>u, <2>1
    <3>2. Len(t) = 1 /\ t[1] = " " /\ DOMAIN t = 1..Len(t)
      BY <3>1, <1>b, LenProperties
    <3> HIDE DEF t
    <3>3. \A k \in DOMAIN t : t[k] = " "
      <4>1. DOMAIN t = {1}
        <5>1. DOMAIN t = 1..1
          BY <3>2
        <5>2. 1..1 = {1}
          OBVIOUS
        <5> QED
          BY <5>1, <5>2
      <4> QED
        BY <3>2, <4>1
    <3>4. "-" \notin ToSet(t)
      BY <3>3 DEF ToSet
    <3> QED
      BY <3>4 DEF t
  <2>2. CASE i \in U
    <3>1. PICK k \in 1..n : at[k] = i
      BY <1>3, <2>2
    <3>2. k \in DOMAIN said /\ said[k] = texts[i]
      BY <1>4, <3>1
    <3> QED
      BY <1>0, <3>2
  <2> QED
    BY <2>1, <2>2
<1>9. DOMAIN segments = DOMAIN texts /\ \A i \in DOMAIN texts : segments[i] = X!Redacted(texts[i])
  BY <1>6, SegmentsUncut DEF segments
<1>10. ASSUME NEW i \in DOMAIN texts
       PROVE  /\ segments[i] \in Seq(ToSet(texts[i]) \cup {"#"}) /\ segments[i] # <<>>
              /\ Len(segments[i]) = Len(texts[i]) /\ Len(texts[i]) \in Nat \ {0}
              /\ DOMAIN texts[i] = 1..Len(texts[i])
              /\ \A k \in DOMAIN texts[i] :
                   \/ segments[i][k] = texts[i][k]
                   \/ segments[i][k] = "#" /\ (texts[i][k] = "decimal" \/ texts[i][k] \in X!Numbers)
  <2> DEFINE t == texts[i]  B == ToSet(t)
  <2>1. t \in Seq(B) /\ t # <<>> /\ segments[i] = X!Redacted(t)
    BY <1>6, <1>9
  <2> HIDE DEF B, t
  <2>2. Len(t) \in Nat \ {0} /\ DOMAIN t = 1..Len(t)
    BY <2>1, EmptySeq, LenProperties
  <2>3. /\ segments[i] \in Seq(B \cup {"#"}) /\ Len(segments[i]) = Len(t)
        /\ \A k \in DOMAIN t :
              \/ segments[i][k] = t[k]
              \/ segments[i][k] = "#" /\ (t[k] = "decimal" \/ t[k] \in X!Numbers)
    BY <2>1, RedactedMeans
  <2>4. segments[i] # <<>>
    BY <2>2, <2>3, EmptySeq
  <2> QED
    BY <2>2, <2>3, <2>4 DEF t, B
<1>11. " " \notin X!Numbers \cup {"decimal", "#"} /\ "#" \notin X!Numbers
       /\ \A q \in qualifiers : q \notin X!Numbers \cup {"decimal"}
  BY DEF X!Numbers, X!Value, X!NotRequired, X!Preference
<1>12. \A i \in DOMAIN texts : X!Blank(segments[i]) <=> i \notin U
  <2> TAKE i \in DOMAIN texts
  <2> DEFINE t == texts[i]  r == segments[i]  B == ToSet(texts[i])
  <2>1. /\ t \in Seq(B) /\ r \in Seq(B \cup {"#"}) /\ r # <<>> /\ Len(r) = Len(t)
        /\ DOMAIN t = 1..Len(t)
        /\ \A k \in DOMAIN t :
              \/ r[k] = t[k]
              \/ r[k] = "#" /\ (t[k] = "decimal" \/ t[k] \in X!Numbers)
    BY <1>6, <1>10
  <2>2. i \notin U <=> t = blank
    BY <1>u
  <2>3. X!Blank(r) <=> r = blank
    BY <2>1 DEF X!Blank, blank
  <2> HIDE DEF t, r, B
  <2>4. t = blank <=> Len(t) = 1 /\ t[1] = " "
    BY <2>1, <1>b
  <2>5. r = blank <=> Len(r) = 1 /\ r[1] = " "
    BY <2>1, <1>b
  <2>6. Len(t) = 1 => (t[1] = " " <=> r[1] = " ")
    <3>1. Len(t) = 1 => 1 \in DOMAIN t
      BY <2>1
    <3>2. ASSUME 1 \in DOMAIN t PROVE t[1] = " " <=> r[1] = " "
      <4>1. \/ r[1] = t[1]
            \/ r[1] = "#" /\ (t[1] = "decimal" \/ t[1] \in X!Numbers)
        BY <2>1, <3>2
      <4> QED
        BY <4>1, <1>11
    <3> QED
      BY <3>1, <3>2
  <2> QED
    BY <2>1, <2>2, <2>3, <2>4, <2>5, <2>6 DEF r
<1> DEFINE there == {j \in DOMAIN segments : ~X!Blank(segments[j])}
<1>13. there = U
  BY <1>2, <1>9, <1>12
<1>14. ASSUME NEW j \in 1..n, Len(said[j]) = 1, said[j][1] \in qualifiers
       PROVE  X!QualifierOnly(segments[at[j]])
  <2>1. at[j] \in DOMAIN texts /\ said[j] = texts[at[j]]
    BY <1>2, <1>3, <1>4
  <2> DEFINE i == at[j]  t == texts[i]  r == segments[i]
  <2>2. /\ Len(r) = Len(t) /\ DOMAIN t = 1..Len(t)
        /\ \A k \in DOMAIN t :
              \/ r[k] = t[k]
              \/ r[k] = "#" /\ (t[k] = "decimal" \/ t[k] \in X!Numbers)
    BY <1>10, <2>1
  <2>3. Len(t) = 1 /\ t[1] \in qualifiers
    BY <1>14, <2>1
  <2> HIDE DEF i, t, r
  <2>4. 1 \in DOMAIN t
    BY <2>2, <2>3
  <2>5. \/ r[1] = t[1]
        \/ r[1] = "#" /\ (t[1] = "decimal" \/ t[1] \in X!Numbers)
    BY <2>2, <2>4
  <2>6. Len(r) = 1 /\ r[1] \in qualifiers
    BY <1>11, <2>2, <2>3, <2>5
  <2> HIDE DEF qualifiers
  <2>7. X!QualifierOnly(r)
    BY <2>6 DEF X!QualifierOnly, qualifiers
  <2> QED
    BY <2>7 DEF r, i
<1>15. ASSUME NEW i \in DOMAIN texts, ToSet(segments[i]) \cap X!Numbers # {}
       PROVE  X!Qualified(segments, i)
  <2> DEFINE t == segments[i]
  <2>1. PICK k \in DOMAIN texts[i] : t[k] \in X!Numbers /\ t[k] = texts[i][k]
    <3>1. DOMAIN t = DOMAIN texts[i]
      BY <1>10, LenProperties
    <3>2. PICK k \in DOMAIN t : t[k] \in X!Numbers
      BY <1>15 DEF ToSet
    <3> QED
      BY <1>10, <1>11, <3>1, <3>2
  <2>2. i \in U
    <3>1. ASSUME texts[i] = blank PROVE FALSE
      <4>1. texts[i] \in Seq(ToSet(texts[i]))
        BY <1>6
      <4>2. Len(texts[i]) = 1 /\ texts[i][1] = " "
        BY <1>b, <3>1, <4>1
      <4>3. k = 1
        <5>1. DOMAIN texts[i] = 1..Len(texts[i])
          BY <1>10
        <5>2. k \in 1..1
          BY <2>1, <4>2, <5>1
        <5> QED
          BY <5>2
      <4> QED
        BY <1>11, <2>1, <4>2, <4>3
    <3> QED
      BY <1>u, <3>1
  <2>3. PICK m \in 1..n : at[m] = i
    BY <1>3, <2>2
  <2>4. said[m] = texts[i]
    BY <1>4, <2>3
  <2>5. Denied(m)
    <3>1. Numbered(m)
      BY <2>1, <2>4 DEF ToSet
    <3> QED
      BY <1>0, <1>4, <3>1
  <2>6. CASE {said[m][1], Last(said[m])} \cap qualifiers # {}
    <3>1. t[1] \in qualifiers \/ t[Len(t)] \in qualifiers
      <4>1. 1 \in DOMAIN texts[i] /\ Len(texts[i]) \in DOMAIN texts[i] /\ Len(t) = Len(texts[i])
        <5> DEFINE l == Len(texts[i])
        <5>1. l \in Nat \ {0} /\ DOMAIN texts[i] = 1..l /\ Len(t) = l
          BY <1>10
        <5> HIDE DEF l
        <5>2. 1 \in 1..l /\ l \in 1..l
          BY <5>1
        <5> QED
          BY <5>1, <5>2 DEF l
      <4>2. texts[i][1] \in qualifiers \/ texts[i][Len(texts[i])] \in qualifiers
        BY <2>4, <2>6 DEF Last
      <4>3. \A l \in DOMAIN texts[i] : texts[i][l] \in qualifiers => t[l] = texts[i][l]
        BY <1>10, <1>11
      <4> QED
        BY <4>1, <4>2, <4>3
    <3>2. 1 \in DOMAIN t /\ Len(t) \in DOMAIN t
      <4>1. DOMAIN t = 1..Len(t) /\ Len(t) \in Nat \ {0}
        BY <1>10, LenProperties
      <4> QED
        BY <4>1
    <3> QED
      BY <3>1, <3>2 DEF X!Qualified, X!Last
  <2>7. CASE Alone(m - 1)
    <3> DEFINE j == m - 1  before == {l \in there : l < i}
    <3>1. j \in 1..n /\ j + 1 = m /\ j < m
      BY <1>3, <1>4, <2>7
    <3>2. X!QualifierOnly(segments[at[j]])
      BY <1>14, <2>7, <3>1
    <3>3. at[j] \in U /\ at[j] < i
      BY <1>3, <2>3, <3>1
    <3>4. \A b \in before : b <= at[j]
      <4> TAKE b \in before
      <4>1. b \in U /\ b < i
        BY <1>13
      <4>2. b <= at[j] \/ i <= b
        BY <1>5, <2>3, <3>1, <4>1
      <4>3. b \in Nat /\ i \in Nat
        BY <1>2, <2>2, <4>1
      <4> QED
        BY <4>1, <4>2, <4>3
    <3>5. at[j] \in before /\ before \in SUBSET Nat
      BY <1>2, <1>13, <3>3
    <3> HIDE DEF before, j, there
    <3>6. \A b \in before : at[j] >= b /\ (b >= at[j] => b = at[j])
      BY <3>4, <3>5
    <3>7. X!Max(before) = at[j]
      BY <3>5, <3>6 DEF X!Max
    <3>8. segments[at[j]] \in X!Neighbours(segments, i)
      BY <3>5, <3>7 DEF X!Neighbours, before, there
    <3> QED
      BY <3>2, <3>8 DEF X!Qualified
  <2>8. CASE Alone(m + 1)
    <3> DEFINE j == m + 1  behind == {l \in there : l > i}
    <3>1. j \in 1..n /\ m < j
      BY <1>3, <1>4, <2>8
    <3>2. X!QualifierOnly(segments[at[j]])
      BY <1>14, <2>8, <3>1
    <3>3. at[j] \in U /\ at[j] > i
      BY <1>2, <1>3, <2>3, <3>1
    <3>4. \A b \in behind : at[j] <= b
      <4> TAKE b \in behind
      <4>1. b \in U /\ b > i
        BY <1>13
      <4>2. b <= i \/ at[j] <= b
        BY <1>5, <2>3, <3>1, <4>1
      <4>3. b \in Nat /\ i \in Nat
        BY <1>2, <2>2, <4>1
      <4> QED
        BY <4>1, <4>2, <4>3
    <3>5. at[j] \in behind /\ behind \in SUBSET Nat
      BY <1>2, <1>13, <3>3
    <3> HIDE DEF behind, j, there
    <3>6. \A b \in behind : at[j] <= b /\ (b <= at[j] => b = at[j])
      BY <3>4, <3>5
    <3>7. X!Min(behind) = at[j]
      BY <3>5, <3>6 DEF X!Min
    <3>8. segments[at[j]] \in X!Neighbours(segments, i)
      BY <3>5, <3>7 DEF X!Neighbours, behind, there
    <3> QED
      BY <3>2, <3>8 DEF X!Qualified
  <2> QED
    BY <2>5, <2>6, <2>7, <2>8
<1>16. \A i \in DOMAIN segments : /\ X!SegmentBounds(segments, i).minimum \subseteq {"0"}
                                  /\ X!SegmentBounds(segments, i).maximum \subseteq {"0"}
  <2> TAKE i \in DOMAIN segments
  <2>1. i \in DOMAIN texts
    BY <1>9
  <2>2. segments[i] \in Seq(ToSet(texts[i]) \cup {"#"}) /\ segments[i] # <<>>
    BY <1>10, <2>1
  <2>3. ToSet(segments[i]) \cap X!Numbers # {} => X!Qualified(segments, i)
    BY <1>15, <2>1
  <2> QED
    BY <2>2, <2>3, SegmentDenied
<1>17. X!TitleBounds(texts) = X!Union({X!SegmentBounds(segments, i) : i \in DOMAIN segments})
  BY DEF X!TitleBounds, segments
<1> QED
  BY <1>16, <1>17 DEF X!Union

\* Of a title without a number it does not deny, and of no sentence, neither
\* bound is more than zero.
LEMMA YearsAnswer ==
  ASSUME NEW t, X!TitleBounds(t).minimum \subseteq {"0"}, X!TitleBounds(t).maximum \subseteq {"0"}
  PROVE  LET r == X!ClassifyExperience(t, <<>>)
         IN r.minimum.value \in {"none", "0"} /\ r.maximum.value \in {"none", "0"}
<1> DEFINE low == X!TitleBounds(t).minimum  high == X!TitleBounds(t).maximum
           least == X!Combine(low, {})  most == X!Combine(high, {})
           r == X!ClassifyExperience(t, <<>>)
<1>1. X!DescriptionBounds(<<>>) = [minimum |-> {}, maximum |-> {}]
  <2>1. {X!SentenceBounds(<<>>[i]) : i \in DOMAIN <<>>} = {}
    OBVIOUS
  <2>2. X!Union({}) = [minimum |-> {}, maximum |-> {}]
    BY DEF X!Union
  <2> QED
    BY <2>1, <2>2 DEF X!DescriptionBounds
<1>2. r = X!NotInverted(least, most)
  <2>1. X!DescriptionBounds(<<>>).minimum = {} /\ X!DescriptionBounds(<<>>).maximum = {}
    BY <1>1
  <2>2. r = X!NotInverted(X!Combine(low, X!DescriptionBounds(<<>>).minimum),
                          X!Combine(high, X!DescriptionBounds(<<>>).maximum))
    BY DEF X!ClassifyExperience, X!Reconciled
  <2> QED
    BY <2>1, <2>2
<1>3. least.value \in {"none", "0"} /\ most.value \in {"none", "0"}
  BY AnswerZero
<1>4. X!Unavailable.value = "none"
  BY DEF X!Unavailable
<1> HIDE DEF least, most, r
<1>5. \/ r.minimum = least /\ r.maximum = most
      \/ r.minimum = X!Unavailable /\ r.maximum = X!Unavailable
  <2> DEFINE inverted == /\ least # X!Unavailable /\ most # X!Unavailable
                         /\ X!Value[least.value] > X!Value[most.value]
  <2>1. r = IF inverted THEN [minimum |-> X!Unavailable, maximum |-> X!Unavailable]
            ELSE [minimum |-> least, maximum |-> most]
    BY <1>2 DEF X!NotInverted
  <2> HIDE DEF inverted
  <2> QED
    BY <2>1
<1> QED
  BY <1>3, <1>4, <1>5 DEF r

-----------------------------------------------------------------------------
(***************************************************************************)
(* What a posting holds, and the theorems.                                 *)
(***************************************************************************)
\* A posting of a text field is parts of that field, and the answer is what
\* the classifier says of all of them; a compensation is read as a whole.
Holding ==
    /\ field \in Fields
    /\ field \in TextFields =>
         /\ title \in Seq(Segments[field]) /\ description \in Seq(Sentences[field])
         /\ result = Classify(field, title, description)
    /\ field = "salary" =>
         /\ title = <<>> /\ description = <<>>
         /\ compensation \in Compensations \cup {<<>>}
         /\ result = P!ClassifySalary(compensation)

\* The answer kept is always the one the whole of the posting gives.
THEOREM HoldingKept == NormalizationSpec => []Holding
<1>1. NormalizationInit => Holding
  <2> SUFFICES ASSUME NormalizationInit PROVE Holding
    OBVIOUS
  <2> USE DEF NormalizationInit, Fields, TextFields
  <2>1. <<>> \in Seq(Segments[field]) /\ <<>> \in Seq(Sentences[field])
    BY EmptySeq
  <2> QED
    BY <2>1 DEF Holding
<1>2. Holding /\ [NormalizationNext]_normalizationVars => Holding'
  <2> SUFFICES ASSUME Holding, [NormalizationNext]_normalizationVars PROVE Holding'
    OBVIOUS
  <2>1. CASE AddSegment
    <3>1. PICK segment \in Segments[field] :
            /\ title' = Append(title, segment)
            /\ result' = Classify(field, title', description)
            /\ UNCHANGED <<field, description, compensation>>
      BY <2>1 DEF AddSegment
    <3>2. title' \in Seq(Segments[field]) /\ field \in TextFields /\ field # "salary"
      BY <2>1, <3>1, AppendProperties DEF AddSegment, Holding, TextFields
    <3> QED
      BY <3>1, <3>2 DEF Holding
  <2>2. CASE AddSentence
    <3>1. PICK sentence \in Sentences[field] :
            /\ description' = Append(description, sentence)
            /\ result' = Classify(field, title, description')
            /\ UNCHANGED <<field, title, compensation>>
      BY <2>2 DEF AddSentence
    <3>2. description' \in Seq(Sentences[field]) /\ field \in TextFields /\ field # "salary"
      BY <2>2, <3>1, AppendProperties DEF AddSentence, Holding, TextFields
    <3> QED
      BY <3>1, <3>2 DEF Holding
  <2>3. CASE ReadCompensation
    BY <2>3 DEF ReadCompensation, Holding, TextFields
  <2>4. CASE UNCHANGED normalizationVars
    BY <2>4 DEF normalizationVars, Holding
  <2> QED
    BY <2>1, <2>2, <2>3, <2>4 DEF NormalizationNext
<1> QED
  BY <1>1, <1>2, PTL DEF NormalizationSpec

\* A sentence of a posting is a text of its own words.
LEMMA PartsAreTexts ==
  ASSUME Holding, field \in TextFields
  PROVE  /\ \A i \in DOMAIN title : title[i] \in Seq(ToSet(title[i])) /\ title[i] # <<>>
         /\ \A i \in DOMAIN description :
              description[i] \in Seq(ToSet(description[i])) /\ description[i] # <<>>
<1>1. title \in Seq(Segments[field]) /\ description \in Seq(Sentences[field])
  BY DEF Holding
<1>2. DOMAIN title = 1..Len(title) /\ DOMAIN description = 1..Len(description)
  BY <1>1, LenProperties
<1>3. /\ \A i \in DOMAIN title : title[i] \in Segments[field]
      /\ \A i \in DOMAIN description : description[i] \in Sentences[field]
  BY <1>1, <1>2, ElementOfSeq
<1> QED
  BY <1>3, PartsAssumption

\* Taking the longest of each first neither loses a reading of a sentence nor
\* finds one that is not there, whatever the sentence (seniority.py:124-147).
THEOREM TierFound == NormalizationSpec => []TierFoundIffStated
<1>1. Holding => TierFoundIffStated
  <2> SUFFICES ASSUME Holding, field = "seniority", NEW i \in DOMAIN description
               PROVE  LET stated == S!StatedTiers(description[i])
                          found == S!SentenceTiers(description[i])
                      IN /\ found = {} <=> stated = {}
                         /\ found # {} => found \cap stated # {}
    BY DEF TierFoundIffStated
  <2>1. description[i] \in Seq(ToSet(description[i]))
    BY PartsAreTexts DEF TextFields
  <2> QED
    BY <2>1, SentenceRead
<1> QED
  BY <1>1, HoldingKept, PTL

\* One sentence that requires office attendance, with no negation or unrelated
\* noun in it, keeps the whole posting from being "remote", however many other
\* sentences and titles say otherwise (remote.py:646-655).
THEOREM OfficeAttendance == NormalizationSpec => []OfficeAttendanceBlocks
<1>1. Holding => OfficeAttendanceBlocks
  <2> SUFFICES ASSUME Holding, field = "remote_type", NEW i \in DOMAIN description,
                      R!Blocker[2][1] \in ToSet(description[i]),
                      ToSet(description[i]) \cap (R!NegationCues \cup R!ContextCues) = {}
               PROVE  result.value # "remote"
    BY DEF OfficeAttendanceBlocks
  <2>1. description[i] \in Seq(ToSet(description[i]))
    BY PartsAreTexts DEF TextFields
  <2>2. "attend-office" \in ToSet(description[i])
    BY DEF R!Blocker
  <2>3. "blocker" \in R!DescriptionLabels(description)
    BY <2>1, <2>2, AttendanceSaid DEF R!DescriptionLabels
  <2>4. result = R!ClassifyRemoteType(title, description)
    BY DEF Holding, TextFields, Classify
  <2>5. R!Unavailable.value = "none"
    BY DEF R!Unavailable
  <2> QED
    BY <2>3, <2>4, <2>5 DEF R!ClassifyRemoteType
<1> QED
  BY <1>1, HoldingKept, PTL

\* What a posting mentions only to deny it is never what its answer claims: no
\* schedule and no arrangement is read from a sentence whose every mention of
\* it stands behind a negation (employment.py:588-596, 482-499), and no number
\* of years from a title whose numbers are all said to be preferred or not
\* required (experience.py:716-749).
THEOREM NegatedNotClaimed == NormalizationSpec => []NegatedNeverClaimed
<1>1. ASSUME Holding, field = "employment_type", NEW i \in DOMAIN description
      PROVE  LET tokens == E!Visible(description[i])
                 Mentions(label) == UNION {E!Spans(tokens, m[2]) :
                     m \in {x \in E!BareMarkers \cup E!Arrangements : x[1] = label}}
                 all == UNION {Mentions(m[1]) : m \in E!BareMarkers}
                 denied == Negations(tokens, all, E!NegationCues, {<<>>, <<"a">>}, E!Conjunctions)
             IN \A m \in E!BareMarkers :
                 Mentions(m[1]) \subseteq denied => m[1] \notin E!SentenceLabels(description[i])
  <2>1. description[i] \in Seq(ToSet(description[i]))
    BY <1>1, PartsAreTexts DEF TextFields
  <2> QED
    BY <2>1, ScheduleDenied
<1>2. ASSUME Holding, field = "remote_type", NEW i \in DOMAIN description
      PROVE  LET words == R!WordsOf(description[i])
                 Mentions(label) == {<<c.first, c.last>> :
                     c \in {x \in R!Candidates(words) : x.label = label}}
                 all == UNION {Mentions(l) : l \in {"remote", "hybrid"}}
                 denied == Negations(words, all, R!NegationCues, {<<>>}, R!Conjunctions)
             IN \A l \in {"remote", "hybrid"} :
                 Mentions(l) \subseteq denied => l \notin R!SentenceLabels(description[i])
  <2>1. description[i] \in Seq(ToSet(description[i]))
    BY <1>2, PartsAreTexts DEF TextFields
  <2> QED
    BY <2>1, ArrangementDenied
<1>3. ASSUME Holding, field = "experience", description = <<>>
      PROVE  LET said == Compact(title, {i \in DOMAIN title : title[i] = <<" ">>})
                 qualifiers == X!NotRequired \cup X!Preference
                 Alone(j) == j \in DOMAIN said /\ Len(said[j]) = 1 /\ said[j][1] \in qualifiers
                 Denied(i) == \/ {said[i][1], Last(said[i])} \cap qualifiers # {}
                              \/ Alone(i - 1) \/ Alone(i + 1)
                 Numbered(i) == ToSet(said[i]) \cap X!Numbers # {}
             IN (\A i \in DOMAIN said : "-" \notin ToSet(said[i]) /\ (Numbered(i) => Denied(i)))
                => \A k \in 1..2 : Stored(result)[k].value \in {"none", "0"}
  <2> DEFINE said == Compact(title, {i \in DOMAIN title : title[i] = <<" ">>})
             qualifiers == X!NotRequired \cup X!Preference
             Alone(j) == j \in DOMAIN said /\ Len(said[j]) = 1 /\ said[j][1] \in qualifiers
             Denied(i) == \/ {said[i][1], Last(said[i])} \cap qualifiers # {}
                          \/ Alone(i - 1) \/ Alone(i + 1)
             Numbered(i) == ToSet(said[i]) \cap X!Numbers # {}
             allDenied == \A i \in DOMAIN said :
                              "-" \notin ToSet(said[i]) /\ (Numbered(i) => Denied(i))
  <2>1. \A i \in DOMAIN title : title[i] \in Seq(ToSet(title[i])) /\ title[i] # <<>>
    BY <1>3, PartsAreTexts DEF TextFields
  <2>2. title \in Seq(Segments["experience"])
    BY <1>3 DEF Holding, TextFields
  <2>3. allDenied => /\ X!TitleBounds(title).minimum \subseteq {"0"}
                      /\ X!TitleBounds(title).maximum \subseteq {"0"}
    BY <2>1, <2>2, YearsDenied
  <2> HIDE DEF allDenied
  <2>4. result = X!ClassifyExperience(title, <<>>)
    BY <1>3 DEF Holding, TextFields, Classify
  <2>5. allDenied => /\ result.minimum.value \in {"none", "0"}
                      /\ result.maximum.value \in {"none", "0"}
    BY <2>3, <2>4, YearsAnswer
  <2>6. Stored(result) = <<result.minimum, result.maximum>>
    BY <1>3 DEF Stored
  <2>7. allDenied => \A k \in 1..2 : Stored(result)[k].value \in {"none", "0"}
    <3>1. Stored(result)[1] = result.minimum /\ Stored(result)[2] = result.maximum
      BY <2>6
    <3>2. \A k \in 1..2 : k = 1 \/ k = 2
      OBVIOUS
    <3> QED
      BY <2>5, <3>1, <3>2
  <2> QED
    BY <2>7 DEF allDenied
<1>4. Holding => NegatedNeverClaimed
  BY <1>1, <1>2, <1>3 DEF NegatedNeverClaimed
<1> QED
  BY <1>4, HoldingKept, PTL
=============================================================================
