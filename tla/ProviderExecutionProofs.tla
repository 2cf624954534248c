----------------------- MODULE ProviderExecutionProofs -----------------------
(***************************************************************************)
(* What execute_provider_query keeps at every step, for any provider, any  *)
(* sources and any result: the rows it wrote are accounted for by its      *)
(* counters, row by row.  The proofs about its two callers cite it.        *)
(*                                                                         *)
(* First the facts about sums over finite sets that the roll-ups need,     *)
(* then those about counting rows, then the invariant of an execution.     *)
(***************************************************************************)
EXTENDS ProviderExecution, FiniteSetTheorems, WellFoundedInduction, SequenceTheorems, TLAPS

\* A set of subsets of a finite set has a least one: what the proofs by
\* induction on the size of a set use.
LEMMA LeastSubset ==
  ASSUME NEW S, IsFiniteSet(S), NEW T, T \subseteq SUBSET S, T # {}
  PROVE  \E x \in T : \A y \in T : y \subseteq x => y = x
<1>1. IsWellFoundedOn(StrictSubsetOrdering(S), SUBSET S)
  BY FS_StrictSubsetOrderingWellFounded, FS_FiniteSubsetsOfFinite
<1>2. PICK x \in T : \A y \in T : ~ (<<y, x>> \in StrictSubsetOrdering(S))
  BY <1>1, WFMin
<1>3. ASSUME NEW y \in T, y \subseteq x, y # x PROVE FALSE
  <2>1. <<y, x>> \in StrictSubsetOrdering(S)
    BY <1>3 DEF StrictSubsetOrdering
  <2> QED
    BY <2>1, <1>2
<1> QED
  BY <1>3

Pick(s) == CHOOSE x \in s : TRUE

LEMMA PickIn == ASSUME NEW s, s # {} PROVE Pick(s) \in s
BY DEF Pick

\* g adds up f over the subsets of S, an element at a time.
Adds(f, S, g) ==
    g = [s \in SUBSET S |-> IF s = {} THEN 0 ELSE f[Pick(s)] + g[s \ {Pick(s)}]]

Adder(f, S) == CHOOSE g : Adds(f, S, g)

LEMMA SumIsAdder ==
  ASSUME NEW f, NEW S
  PROVE  SumFunctionOnSet(f, S) = Adder(f, S)[S]
BY DEF SumFunctionOnSet, FoldFunctionOnSet, MapThenFoldSet, Adder, Adds, Pick

\* What adds up over two sets agrees on their common subsets.
LEMMA AddsAgree ==
  ASSUME NEW f, NEW S, NEW T, NEW g, NEW h, Adds(f, S, g), Adds(f, T, h),
         NEW U, IsFiniteSet(U), U \subseteq S, U \subseteq T
  PROVE  g[U] = h[U]
<1> DEFINE Bad == {s \in SUBSET U : g[s] # h[s]}
<1>1. SUFFICES ASSUME Bad # {} PROVE FALSE
  OBVIOUS
<1>2. PICK s \in Bad : \A y \in Bad : y \subseteq s => y = s
  <2>1. Bad \subseteq SUBSET U
    OBVIOUS
  <2> HIDE DEF Bad
  <2> QED
    BY <1>1, <2>1, LeastSubset
<1>3. s \in SUBSET S /\ s \in SUBSET T /\ s \subseteq U
  OBVIOUS
<1>4. g[s] = IF s = {} THEN 0 ELSE f[Pick(s)] + g[s \ {Pick(s)}]
  BY <1>3 DEF Adds
<1>5. h[s] = IF s = {} THEN 0 ELSE f[Pick(s)] + h[s \ {Pick(s)}]
  BY <1>3 DEF Adds
<1>6. CASE s = {}
  BY <1>4, <1>5, <1>6
<1>7. CASE s # {}
  <2>1. Pick(s) \in s
    BY <1>7, PickIn
  <2>2. s \ {Pick(s)} \notin Bad
    BY <2>1, <1>2
  <2>3. g[s \ {Pick(s)}] = h[s \ {Pick(s)}]
    BY <2>2, <1>3
  <2> QED
    BY <2>3, <1>4, <1>5, <1>7
<1> QED
  BY <1>6, <1>7

LEMMA AdderAdds ==
  ASSUME NEW f, NEW S, IsFiniteSet(S)
  PROVE  Adds(f, S, Adder(f, S))
<1> DEFINE Bad == {s \in SUBSET S : ~ \E g : Adds(f, s, g)}
<1>1. SUFFICES ASSUME Bad # {} PROVE FALSE
  <2>1. SUFFICES \E g : Adds(f, S, g)
    BY DEF Adder
  <2> QED
    OBVIOUS
<1>2. PICK s \in Bad : \A y \in Bad : y \subseteq s => y = s
  <2>1. Bad \subseteq SUBSET S
    OBVIOUS
  <2> HIDE DEF Bad
  <2> QED
    BY <1>1, <2>1, LeastSubset
<1> DEFINE A(t) == Adder(f, t)
           g == [t \in SUBSET s |-> IF t = {} THEN 0
                                    ELSE f[Pick(t)] + A(t \ {Pick(t)})[t \ {Pick(t)}]]
<1>3. ASSUME NEW t \in SUBSET s, t # s PROVE Adds(f, t, A(t))
  <2>1. t \notin Bad
    BY <1>2, <1>3
  <2>2. \E h : Adds(f, t, h)
    BY <2>1
  <2> QED
    BY <2>2 DEF Adder
<1>4. ASSUME NEW t \in SUBSET s, t # s PROVE A(t)[t] = g[t]
  <2>1. Adds(f, t, A(t))
    BY <1>3, <1>4
  <2>2. A(t)[t] = IF t = {} THEN 0 ELSE f[Pick(t)] + A(t)[t \ {Pick(t)}]
    BY <2>1 DEF Adds
  <2>3. CASE t = {}
    BY <2>2, <2>3
  <2>4. CASE t # {}
    <3> DEFINE u == t \ {Pick(t)}
    <3>1. u \in SUBSET s /\ u # s /\ u \subseteq t
      BY <1>4, <2>4, PickIn
    <3>2. Adds(f, u, A(u))
      BY <3>1, <1>3
    <3>3. IsFiniteSet(u)
      BY <3>1, FS_Subset
    <3>4. A(t)[u] = A(u)[u]
      BY <2>1, <3>1, <3>2, <3>3, AddsAgree
    <3> QED
      BY <2>2, <2>4, <3>4
  <2> QED
    BY <2>3, <2>4
<1>5. ASSUME NEW t \in SUBSET s
      PROVE  g[t] = IF t = {} THEN 0 ELSE f[Pick(t)] + g[t \ {Pick(t)}]
  <2>1. CASE t = {}
    BY <2>1
  <2>2. CASE t # {}
    <3> DEFINE u == t \ {Pick(t)}
    <3>1. u \in SUBSET s /\ u # s
      BY <2>2, PickIn
    <3>2. A(u)[u] = g[u]
      BY <3>1, <1>4
    <3> HIDE DEF A
    <3> QED
      BY <3>2, <2>2
  <2> QED
    BY <2>1, <2>2
<1>6. Adds(f, s, g)
  <2> DEFINE h == [t \in SUBSET s |-> IF t = {} THEN 0 ELSE f[Pick(t)] + g[t \ {Pick(t)}]]
  <2>1. g = h
    <3>1. \A t \in SUBSET s : g[t] = h[t]
      BY <1>5
    <3> HIDE DEF A
    <3> QED
      BY <3>1
  <2> QED
    BY <2>1 DEF Adds
<1> QED
  BY <1>6

\* The sum over a finite set is a term and the sum over the rest.
LEMMA SumUnfold ==
  ASSUME NEW f, NEW S, IsFiniteSet(S)
  PROVE  SumFunctionOnSet(f, S) =
           IF S = {} THEN 0 ELSE f[Pick(S)] + SumFunctionOnSet(f, S \ {Pick(S)})
<1> DEFINE T == S \ {Pick(S)}
<1>1. IsFiniteSet(T) /\ T \subseteq S
  BY FS_Subset
<1>2. Adds(f, S, Adder(f, S)) /\ Adds(f, T, Adder(f, T))
  BY <1>1, AdderAdds
<1>3. Adder(f, S)[T] = Adder(f, T)[T]
  BY <1>1, <1>2, AddsAgree
<1>4. Adder(f, S)[S] = IF S = {} THEN 0 ELSE f[Pick(S)] + Adder(f, S)[T]
  BY <1>2 DEF Adds
<1> QED
  BY <1>3, <1>4, SumIsAdder

LEMMA SumEmpty ==
  ASSUME NEW f PROVE SumFunctionOnSet(f, {}) = 0
BY SumUnfold, FS_EmptySet

LEMMA SumType ==
  ASSUME NEW f, NEW S, IsFiniteSet(S), \A x \in S : f[x] \in Nat
  PROVE  SumFunctionOnSet(f, S) \in Nat
<1> DEFINE Bad == {s \in SUBSET S : SumFunctionOnSet(f, s) \notin Nat}
<1>1. SUFFICES ASSUME Bad # {} PROVE FALSE
  OBVIOUS
<1>2. PICK s \in Bad : \A y \in Bad : y \subseteq s => y = s
  <2>1. Bad \subseteq SUBSET S
    OBVIOUS
  <2> HIDE DEF Bad
  <2> QED
    BY <1>1, <2>1, LeastSubset
<1>3. IsFiniteSet(s)
  BY FS_Subset
<1>4. s # {}
  BY SumEmpty
<1>5. Pick(s) \in s /\ s \ {Pick(s)} \notin Bad
  BY <1>2, <1>4, PickIn
<1>6. SumFunctionOnSet(f, s \ {Pick(s)}) \in Nat /\ f[Pick(s)] \in Nat
  BY <1>5
<1> QED
  BY <1>3, <1>4, <1>6, SumUnfold

\* The sum is that of any of its terms and of the others.
LEMMA SumRemove ==
  ASSUME NEW f, NEW S, IsFiniteSet(S), \A x \in S : f[x] \in Nat, NEW e \in S
  PROVE  SumFunctionOnSet(f, S) = f[e] + SumFunctionOnSet(f, S \ {e})
<1> DEFINE Q(s) == SumFunctionOnSet(f, s)
           Bad == {s \in SUBSET S : \E x \in s : Q(s) # f[x] + Q(s \ {x})}
<1>1. SUFFICES ASSUME Bad # {} PROVE FALSE
  OBVIOUS
<1>2. PICK s \in Bad : \A y \in Bad : y \subseteq s => y = s
  <2>1. Bad \subseteq SUBSET S
    OBVIOUS
  <2> HIDE DEF Bad
  <2> QED
    BY <1>1, <2>1, LeastSubset
<1>3. PICK x \in s : Q(s) # f[x] + Q(s \ {x})
  OBVIOUS
<1> DEFINE p == Pick(s)
<1>4. p \in s /\ IsFiniteSet(s)
  BY PickIn, FS_Subset
<1>5. Q(s) = f[p] + Q(s \ {p})
  BY <1>4, SumUnfold
<1>6. p # x
  BY <1>3, <1>5
<1>7. s \ {p} \notin Bad /\ s \ {x} \notin Bad
  BY <1>2, <1>4
<1>8. Q(s \ {p}) = f[x] + Q((s \ {p}) \ {x})
  BY <1>6, <1>7
<1>9. Q(s \ {x}) = f[p] + Q((s \ {p}) \ {x})
  <2>1. (s \ {x}) \ {p} = (s \ {p}) \ {x}
    OBVIOUS
  <2>2. Q(s \ {x}) = f[p] + Q((s \ {x}) \ {p})
    BY <1>4, <1>6, <1>7
  <2> QED
    BY <2>1, <2>2
<1>10. Q((s \ {p}) \ {x}) \in Nat /\ f[x] \in Nat /\ f[p] \in Nat
  <2>1. IsFiniteSet((s \ {p}) \ {x})
    BY <1>4, FS_Subset
  <2>2. Q((s \ {p}) \ {x}) \in Nat
    BY <2>1, SumType
  <2> QED
    BY <2>2, <1>4
<1> HIDE DEF Q, p
<1> QED
  BY <1>3, <1>5, <1>8, <1>9, <1>10

\* Equal terms, equal sums.
LEMMA SumSame ==
  ASSUME NEW f, NEW g, NEW S, IsFiniteSet(S), \A x \in S : f[x] = g[x]
  PROVE  SumFunctionOnSet(f, S) = SumFunctionOnSet(g, S)
<1> DEFINE Bad == {s \in SUBSET S : SumFunctionOnSet(f, s) # SumFunctionOnSet(g, s)}
<1>1. SUFFICES ASSUME Bad # {} PROVE FALSE
  OBVIOUS
<1>2. PICK s \in Bad : \A y \in Bad : y \subseteq s => y = s
  <2>1. Bad \subseteq SUBSET S
    OBVIOUS
  <2> HIDE DEF Bad
  <2> QED
    BY <1>1, <2>1, LeastSubset
<1>3. IsFiniteSet(s)
  BY FS_Subset
<1>4. s # {}
  BY SumEmpty
<1>5. Pick(s) \in s /\ s \ {Pick(s)} \notin Bad
  BY <1>2, <1>4, PickIn
<1>6. /\ SumFunctionOnSet(f, s \ {Pick(s)}) = SumFunctionOnSet(g, s \ {Pick(s)})
      /\ f[Pick(s)] = g[Pick(s)]
  BY <1>5
<1> QED
  BY <1>3, <1>4, <1>6, SumUnfold

\* The sum over two disjoint sets.
LEMMA SumUnion ==
  ASSUME NEW f, NEW S, NEW T, IsFiniteSet(S), IsFiniteSet(T), S \cap T = {},
         \A x \in S \cup T : f[x] \in Nat
  PROVE  SumFunctionOnSet(f, S \cup T) = SumFunctionOnSet(f, S) + SumFunctionOnSet(f, T)
<1> DEFINE Q(s) == SumFunctionOnSet(f, s)
           Bad == {t \in SUBSET T : Q(S \cup t) # Q(S) + Q(t)}
<1>1. SUFFICES ASSUME Bad # {} PROVE FALSE
  OBVIOUS
<1>2. PICK t \in Bad : \A y \in Bad : y \subseteq t => y = t
  <2>1. Bad \subseteq SUBSET T
    OBVIOUS
  <2> HIDE DEF Bad
  <2> QED
    BY <1>1, <2>1, LeastSubset
<1> DEFINE p == Pick(t)
           u == t \ {p}
<1>3. IsFiniteSet(t) /\ IsFiniteSet(u) /\ IsFiniteSet(S \cup u) /\ IsFiniteSet(S \cup t)
  BY FS_Subset, FS_Union
<1>4. Q(S) \in Nat /\ Q(u) \in Nat
  BY <1>3, SumType
<1>10. Q(S \cup t) # Q(S) + Q(t)
  OBVIOUS
<1>5. t # {}
  <2>1. Q({}) = 0 /\ S \cup {} = S
    BY SumEmpty
  <2>2. Q(S) = Q(S) + 0
    BY <1>4
  <2> QED
    BY <2>1, <2>2, <1>10
<1>6. p \in t /\ p \notin S /\ f[p] \in Nat
  BY <1>5, PickIn
<1>7. Q(S \cup u) = Q(S) + Q(u)
  BY <1>2, <1>6
<1>8. Q(t) = f[p] + Q(u)
  BY <1>3, <1>6, SumRemove
<1>9. Q(S \cup t) = f[p] + Q(S \cup u)
  <2>1. (S \cup t) \ {p} = S \cup u
    BY <1>6
  <2>2. Q(S \cup t) = f[p] + Q((S \cup t) \ {p})
    BY <1>3, <1>6, SumRemove
  <2> HIDE DEF Q, u, p
  <2> QED
    BY <2>1, <2>2
<1> HIDE DEF Q, p, u
<1> QED
  BY <1>4, <1>6, <1>7, <1>8, <1>9, <1>10

\* A sum of zeros.
LEMMA SumZero ==
  ASSUME NEW f, NEW S, IsFiniteSet(S), \A x \in S : f[x] = 0
  PROVE  SumFunctionOnSet(f, S) = 0
<1> DEFINE Bad == {s \in SUBSET S : SumFunctionOnSet(f, s) # 0}
<1>1. SUFFICES ASSUME Bad # {} PROVE FALSE
  OBVIOUS
<1>2. PICK s \in Bad : \A y \in Bad : y \subseteq s => y = s
  <2>1. Bad \subseteq SUBSET S
    OBVIOUS
  <2> HIDE DEF Bad
  <2> QED
    BY <1>1, <2>1, LeastSubset
<1>3. IsFiniteSet(s)
  BY FS_Subset
<1>4. s # {}
  BY SumEmpty
<1>5. Pick(s) \in s /\ s \ {Pick(s)} \notin Bad
  BY <1>2, <1>4, PickIn
<1> QED
  BY <1>3, <1>4, <1>5, SumUnfold

\* The same sum, of numbers under other names.
LEMMA SumRenamed ==
  ASSUME NEW S, IsFiniteSet(S), NEW D, IsFiniteSet(D), NEW h \in [S -> D], NEW f, NEW g,
         \A d \in D : \E x \in S : d = h[x],
         \A x, y \in S : h[x] = h[y] => x = y,
         \A x \in S : f[h[x]] = g[x] /\ g[x] \in Nat
  PROVE  SumFunctionOnSet(f, D) = SumFunctionOnSet(g, S)
<1> DEFINE Im(s) == {h[x] : x \in s}
           Bad == {s \in SUBSET S : SumFunctionOnSet(f, Im(s)) # SumFunctionOnSet(g, s)}
<1>1. D = Im(S)
  OBVIOUS
<1>2. SUFFICES ASSUME Bad # {} PROVE FALSE
  BY <1>1
<1>3. PICK s \in Bad : \A y \in Bad : y \subseteq s => y = s
  <2>1. Bad \subseteq SUBSET S
    OBVIOUS
  <2> HIDE DEF Bad
  <2> QED
    BY <1>2, <2>1, LeastSubset
<1>4. s \subseteq S /\ IsFiniteSet(s) /\ IsFiniteSet(Im(s))
  <2>1. s \subseteq S /\ Im(s) \subseteq D
    OBVIOUS
  <2> QED
    BY <2>1, FS_Subset
<1>5. s # {}
  <2>1. Im({}) = {}
    OBVIOUS
  <2> QED
    BY <2>1, SumEmpty
<1> DEFINE e == Pick(s)
<1>6. e \in s /\ s \ {e} \notin Bad
  BY <1>3, <1>5, PickIn
<1>7. SumFunctionOnSet(g, s) = g[e] + SumFunctionOnSet(g, s \ {e})
  BY <1>4, <1>5, SumUnfold
<1>8. SumFunctionOnSet(f, Im(s)) = f[h[e]] + SumFunctionOnSet(f, Im(s \ {e}))
  <2>1. Im(s) \ {h[e]} = Im(s \ {e})
    BY <1>4, <1>6
  <2>2. \A a \in Im(s) : f[a] \in Nat
    BY <1>4
  <2>3. h[e] \in Im(s)
    BY <1>6
  <2> HIDE DEF Im
  <2>4. SumFunctionOnSet(f, Im(s)) = f[h[e]] + SumFunctionOnSet(f, Im(s) \ {h[e]})
    BY <1>4, <2>2, <2>3, SumRemove
  <2> QED
    BY <2>1, <2>4
<1>9. f[h[e]] = g[e] /\ s \ {e} \in SUBSET S
  BY <1>4, <1>6
<1> QED
  BY <1>3, <1>6, <1>7, <1>8, <1>9

-----------------------------------------------------------------------------
(***************************************************************************)
(* Counting rows and postings.                                             *)
(***************************************************************************)
\* Rows of a table like raws, counted.
RowsOf(rows, p, s, statuses) ==
    Cardinality({i \in DOMAIN rows : /\ rows[i].provider = p
                                     /\ rows[i].source = s
                                     /\ rows[i].status \in statuses})

\* Postings of a source before the n-th.
JobsBefore(jobs, s, n) == Cardinality({i \in DOMAIN jobs : i < n /\ jobs[i].source = s})

One(condition) == IF condition THEN 1 ELSE 0

\* Does a row count as one of p and s with one of some statuses?
CountsAs(row, p, s, statuses) ==
    row.provider = p /\ row.source = s /\ row.status \in statuses

\* The positions of a sequence with some property are finitely many.
LEMMA PositionsFinite ==
  ASSUME NEW T, NEW q \in Seq(T), NEW I, I \subseteq DOMAIN q
  PROVE  IsFiniteSet(I) /\ Cardinality(I) \in Nat
<1>1. DOMAIN q = 1..Len(q) /\ Len(q) \in Nat
  OBVIOUS
<1>2. IsFiniteSet(DOMAIN q)
  BY <1>1, FS_Interval
<1> QED
  BY <1>2, FS_Subset, FS_CardinalityType

LEMMA RowsType ==
  ASSUME NEW rows \in Seq(RawRow), NEW p, NEW s, NEW T
  PROVE  RowsOf(rows, p, s, T) \in Nat
BY PositionsFinite DEF RowsOf

\* A row written.
LEMMA RowsAppend ==
  ASSUME NEW rows \in Seq(RawRow), NEW row \in RawRow, NEW p, NEW s, NEW T
  PROVE  RowsOf(Append(rows, row), p, s, T) =
           RowsOf(rows, p, s, T) + One(CountsAs(row, p, s, T))
<1> DEFINE n == Len(rows) + 1
           A == {i \in DOMAIN rows : CountsAs(rows[i], p, s, T)}
           B == {i \in DOMAIN Append(rows, row) : CountsAs(Append(rows, row)[i], p, s, T)}
<1>1. /\ DOMAIN Append(rows, row) = DOMAIN rows \cup {n} /\ n \notin DOMAIN rows
      /\ \A i \in DOMAIN rows : Append(rows, row)[i] = rows[i]
      /\ Append(rows, row)[n] = row
  OBVIOUS
<1>2. RowsOf(rows, p, s, T) = Cardinality(A)
  BY DEF RowsOf, CountsAs
<1>3. RowsOf(Append(rows, row), p, s, T) = Cardinality(B)
  BY DEF RowsOf, CountsAs
<1>4. IsFiniteSet(A) /\ Cardinality(A) \in Nat /\ n \notin A
  <2>1. A \subseteq DOMAIN rows
    OBVIOUS
  <2> HIDE DEF A
  <2> QED
    BY <2>1, <1>1, PositionsFinite
<1>5. CASE CountsAs(row, p, s, T)
  <2>1. B = A \cup {n}
    BY <1>1, <1>5
  <2>2. Cardinality(A \cup {n}) = Cardinality(A) + 1
    BY <1>4, FS_AddElement
  <2> QED
    BY <2>1, <2>2, <1>2, <1>3, <1>5 DEF One
<1>6. CASE ~CountsAs(row, p, s, T)
  <2>1. B = A
    BY <1>1, <1>6
  <2> HIDE DEF A, B
  <2> QED
    BY <2>1, <1>2, <1>3, <1>4, <1>6 DEF One
<1> QED
  BY <1>5, <1>6

\* One row changed: what it counted as before, and what it counts as after.
LEMMA RowsSettle ==
  ASSUME NEW rows \in Seq(RawRow), NEW new, NEW k \in DOMAIN rows, NEW p, NEW s, NEW T,
         DOMAIN new = DOMAIN rows,
         \A i \in DOMAIN rows : i # k => new[i] = rows[i]
  PROVE  RowsOf(new, p, s, T) + One(CountsAs(rows[k], p, s, T)) =
           RowsOf(rows, p, s, T) + One(CountsAs(new[k], p, s, T))
<1> DEFINE A == {i \in DOMAIN rows : CountsAs(rows[i], p, s, T)}
           B == {i \in DOMAIN new : CountsAs(new[i], p, s, T)}
           C == A \ {k}
<1>2. RowsOf(rows, p, s, T) = Cardinality(A)
  BY DEF RowsOf, CountsAs
<1>3. RowsOf(new, p, s, T) = Cardinality(B)
  BY DEF RowsOf, CountsAs
<1>4. IsFiniteSet(C) /\ Cardinality(C) \in Nat /\ k \notin C
  <2>1. C \subseteq DOMAIN rows
    OBVIOUS
  <2> QED
    BY <2>1, PositionsFinite
<1>5. Cardinality(C \cup {k}) = Cardinality(C) + 1
  BY <1>4, FS_AddElement
<1>6. A = IF CountsAs(rows[k], p, s, T) THEN C \cup {k} ELSE C
  OBVIOUS
<1>7. B = IF CountsAs(new[k], p, s, T) THEN C \cup {k} ELSE C
  OBVIOUS
<1> HIDE DEF A, B, C
<1> QED
  BY <1>2, <1>3, <1>4, <1>5, <1>6, <1>7 DEF One

\* No row of a provider, none counted.
LEMMA RowsNone ==
  ASSUME NEW rows \in Seq(RawRow), NEW p, NEW s, NEW T,
         \A k \in DOMAIN rows : rows[k].provider # p
  PROVE  RowsOf(rows, p, s, T) = 0
<1>1. {i \in DOMAIN rows : /\ rows[i].provider = p
                           /\ rows[i].source = s
                           /\ rows[i].status \in T} = {}
  OBVIOUS
<1> QED
  BY <1>1, FS_EmptySet DEF RowsOf

\* The rows of two sets of statuses.
LEMMA RowsUnion ==
  ASSUME NEW rows \in Seq(RawRow), NEW p, NEW s, NEW T, NEW U, T \cap U = {}
  PROVE  RowsOf(rows, p, s, T \cup U) = RowsOf(rows, p, s, T) + RowsOf(rows, p, s, U)
<1> DEFINE A(V) == {i \in DOMAIN rows : /\ rows[i].provider = p
                                        /\ rows[i].source = s
                                        /\ rows[i].status \in V}
<1>1. A(T) \cup A(U) = A(T \cup U) /\ A(T) \cap A(U) = {}
  OBVIOUS
<1>2. \A V : IsFiniteSet(A(V)) /\ Cardinality(A(V)) \in Nat
  <2> TAKE V
  <2>1. A(V) \subseteq DOMAIN rows
    OBVIOUS
  <2> HIDE DEF A
  <2> QED
    BY <2>1, PositionsFinite
<1>3. \A V : RowsOf(rows, p, s, V) = Cardinality(A(V))
  BY DEF RowsOf
<1> HIDE DEF A
<1>4. Cardinality(A(T) \cup A(U)) =
        Cardinality(A(T)) + Cardinality(A(U)) - Cardinality(A(T) \cap A(U))
  BY <1>2, FS_Union
<1>5. Cardinality(A(T) \cap A(U)) = 0
  BY <1>1, FS_EmptySet
<1>6. Cardinality(A(T \cup U)) = Cardinality(A(T)) + Cardinality(A(U))
  <2>1. A(T \cup U) = A(T) \cup A(U)
    BY <1>1
  <2>2. Cardinality(A(T)) \in Nat /\ Cardinality(A(U)) \in Nat
    BY <1>2
  <2>3. Cardinality(A(T)) + Cardinality(A(U)) - 0 = Cardinality(A(T)) + Cardinality(A(U))
    BY <2>2
  <2> QED
    BY <2>1, <2>3, <1>4, <1>5
<1> QED
  BY <1>3, <1>6

LEMMA JobsType ==
  ASSUME NEW jobs \in Seq(DiscoveredJob), NEW s, NEW n
  PROVE  JobsBefore(jobs, s, n) \in Nat /\ JobsOf(jobs, s) \in Nat
BY PositionsFinite DEF JobsBefore, JobsOf

\* One posting more.
LEMMA JobsNext ==
  ASSUME NEW jobs \in Seq(DiscoveredJob), NEW s, NEW n \in DOMAIN jobs
  PROVE  JobsBefore(jobs, s, n + 1) = JobsBefore(jobs, s, n) + One(jobs[n].source = s)
<1> DEFINE A == {i \in DOMAIN jobs : i < n /\ jobs[i].source = s}
           B == {i \in DOMAIN jobs : i < n + 1 /\ jobs[i].source = s}
<1>1. IsFiniteSet(A) /\ Cardinality(A) \in Nat /\ n \notin A
  <2>1. A \subseteq DOMAIN jobs
    OBVIOUS
  <2> QED
    BY <2>1, PositionsFinite
<1>2. Cardinality(A \cup {n}) = Cardinality(A) + 1
  BY <1>1, FS_AddElement
<1>3. B = IF jobs[n].source = s THEN A \cup {n} ELSE A
  OBVIOUS
<1>4. JobsBefore(jobs, s, n + 1) = Cardinality(B) /\ JobsBefore(jobs, s, n) = Cardinality(A)
  BY DEF JobsBefore
<1> HIDE DEF A, B
<1> QED
  BY <1>1, <1>2, <1>3, <1>4 DEF One

\* None before the first, all before the one after the last.
LEMMA JobsEnds ==
  ASSUME NEW jobs \in Seq(DiscoveredJob), NEW s
  PROVE  /\ JobsBefore(jobs, s, 1) = 0
         /\ JobsBefore(jobs, s, Len(jobs) + 1) = JobsOf(jobs, s)
         /\ \A n : JobsBefore(jobs, s, n) <= JobsOf(jobs, s)
         /\ (\A i \in DOMAIN jobs : jobs[i].source # s) => JobsOf(jobs, s) = 0
<1> DEFINE A(n) == {i \in DOMAIN jobs : i < n /\ jobs[i].source = s}
           B == {i \in DOMAIN jobs : jobs[i].source = s}
<1>1. A(1) = {} /\ A(Len(jobs) + 1) = B /\ \A n : A(n) \subseteq B
  OBVIOUS
<1>2. IsFiniteSet(B)
  <2>1. B \subseteq DOMAIN jobs
    OBVIOUS
  <2> QED
    BY <2>1, PositionsFinite
<1>3. \A n : JobsBefore(jobs, s, n) = Cardinality(A(n))
  BY DEF JobsBefore
<1>4. JobsOf(jobs, s) = Cardinality(B)
  BY DEF JobsOf
<1>5. (\A i \in DOMAIN jobs : jobs[i].source # s) => B = {}
  OBVIOUS
<1> HIDE DEF A, B
<1> QED
  BY <1>1, <1>2, <1>3, <1>4, <1>5, FS_EmptySet, FS_Subset

-----------------------------------------------------------------------------
(***************************************************************************)
(* The invariant of an execution.                                          *)
(***************************************************************************)
NoRows(p) == \A k \in DOMAIN raws : raws[k].provider # p

\* What the state holds once discover() has answered.
Answered ==
    \E r \in Results :
      /\ Supported(r)
      /\ exec.jobs = r.jobs
      /\ state.failures = r.errors
      /\ state.source_stats = r.source_stats
      /\ state.possibly_incomplete = possibly_incomplete(r)
      /\ state.discovered = [s \in Sources |-> JobsOf(r.jobs, s)]

\* The rows of an execution are those of its own postings, in their order, and
\* the ones still to be settled are as they were fetched.
OwnRows ==
    /\ \A i \in DOMAIN exec.raw_ids :
         /\ exec.raw_ids[i] \in DOMAIN raws
         /\ raws[exec.raw_ids[i]].provider = exec.provider
         /\ raws[exec.raw_ids[i]].source = exec.jobs[i].source
         /\ i >= exec.next => raws[exec.raw_ids[i]].status = "fetched"
    /\ \A i, j \in DOMAIN exec.raw_ids : exec.raw_ids[i] = exec.raw_ids[j] => i = j

\* Rows of the provider in flight and a source.
Fetched(s)  == RawsOf(exec.provider, s, {"fetched"})
Unparsed(s) == RawsOf(exec.provider, s, {"parse_error"})
Stored(s)   == RawsOf(exec.provider, s, {"normalized", "identity_conflict"})
Counting(s) == state.inserted[s] + state.updated[s]

PhaseInv ==
    /\ exec.pc = "idle" => exec = NotExecuting /\ state = NewState
    /\ exec.pc # "idle" => exec.provider \in Providers
    /\ exec.pc = "discover" => /\ state = NewState /\ NoRows(exec.provider)
                               /\ exec.jobs = <<>> /\ exec.raw_ids = <<>> /\ exec.next = 1
    /\ exec.pc = "raised" => Answered \/ (state = NewState /\ NoRows(exec.provider))
    /\ exec.pc \in {"write", "persist", "done"} => Answered
    /\ exec.pc = "write" => exec.next = 1 /\ Len(exec.raw_ids) < Len(exec.jobs)
    /\ exec.pc = "persist" => /\ Len(exec.raw_ids) = Len(exec.jobs)
                              /\ exec.next \in 1..Len(exec.jobs)
    /\ exec.pc \in {"write", "persist"} => OwnRows

\* Rows and counters of a source agree, phase by phase; after a transaction was
\* cut short they may be one apart.
SourceCounted(s) ==
    /\ exec.pc = "write" =>
         /\ Fetched(s) = JobsBefore(exec.jobs, s, Len(exec.raw_ids) + 1)
         /\ Unparsed(s) = 0 /\ Stored(s) = 0
         /\ state.inserted[s] = 0 /\ state.updated[s] = 0
    /\ exec.pc = "persist" =>
         /\ Stored(s) = Counting(s)
         /\ Unparsed(s) + Stored(s) = JobsBefore(exec.jobs, s, exec.next)
         /\ Fetched(s) + JobsBefore(exec.jobs, s, exec.next) = state.discovered[s]
    /\ exec.pc = "done" =>
         /\ Fetched(s) = 0 /\ Stored(s) = Counting(s)
         /\ state.discovered[s] = Unparsed(s) + Stored(s)
    /\ exec.pc = "raised" =>
         /\ Stored(s) = Counting(s) \/ Stored(s) = Counting(s) + 1
         /\ Fetched(s) + Unparsed(s) + Stored(s) <= state.discovered[s]

CountedInv ==
    /\ \A s \in Sources : SourceCounted(s)
    /\ exec.pc = "raised" =>
         \A s, t \in Sources : Stored(s) # Counting(s) /\ Stored(t) # Counting(t) => s = t

ExecutionInv == ExecutionTypeOK /\ PhaseInv /\ CountedInv

\* A row is clean, or one of the execution's still to be settled, or the state
\* says that something went wrong.
ExecutionClean ==
    \/ state.had_parse_error \/ state.had_conflict \/ exec.pc = "raised"
    \/ \A k \in DOMAIN raws :
         \/ raws[k].status = "normalized"
         \/ /\ exec.pc \in {"write", "persist"}
            /\ \E i \in DOMAIN exec.raw_ids : i >= exec.next /\ exec.raw_ids[i] = k

-----------------------------------------------------------------------------
(***************************************************************************)
(* The steps of an execution keep its invariant.                           *)
(***************************************************************************)
LEMMA RawsOfRows ==
  ASSUME NEW p, NEW s, NEW T
  PROVE  RawsOf(p, s, T) = RowsOf(raws, p, s, T) /\ RawsOf(p, s, T)' = RowsOf(raws', p, s, T)
BY DEF RawsOf, RowsOf

LEMMA CountsType ==
  ASSUME ExecutionTypeOK, NEW s \in Sources
  PROVE  /\ Fetched(s) \in Nat /\ Unparsed(s) \in Nat /\ Stored(s) \in Nat
         /\ state.inserted[s] \in Nat /\ state.updated[s] \in Nat
         /\ state.discovered[s] \in Nat /\ Counting(s) \in Nat
<1>1. Fetched(s) \in Nat /\ Unparsed(s) \in Nat /\ Stored(s) \in Nat
  BY RawsOfRows, RowsType DEF Fetched, Unparsed, Stored, ExecutionTypeOK
<1>2. /\ state.inserted[s] \in Nat /\ state.updated[s] \in Nat
      /\ state.discovered[s] \in Nat
  BY DEF ExecutionTypeOK, ProviderExecutionState, Counters
<1> QED
  BY <1>1, <1>2 DEF Counting

\* The answer is kept while only the rows and the counters move.
LEMMA AnsweredKept ==
  ASSUME Answered, exec'.provider = exec.provider, exec'.sources = exec.sources,
         exec'.jobs = exec.jobs, state'.failures = state.failures,
         state'.source_stats = state.source_stats, state'.discovered = state.discovered,
         state'.possibly_incomplete = state.possibly_incomplete
  PROVE  Answered'
<1>1. PICK r \in Results :
        /\ Supported(r)
        /\ exec.jobs = r.jobs
        /\ state.failures = r.errors
        /\ state.source_stats = r.source_stats
        /\ state.possibly_incomplete = possibly_incomplete(r)
        /\ state.discovered = [s \in Sources |-> JobsOf(r.jobs, s)]
  BY DEF Answered
<1>2. Supported(r)'
  BY <1>1 DEF Supported
<1> QED
  BY <1>1, <1>2 DEF Answered

\* What the checks on a result guarantee about the answer.
LEMMA AnsweredFacts ==
  ASSUME ExecutionTypeOK, Answered
  PROVE  /\ \A i \in DOMAIN exec.jobs : /\ exec.jobs[i].provider = exec.provider
                                        /\ exec.jobs[i].source \in exec.sources
         /\ \A i \in DOMAIN state.failures : state.failures[i].source \in exec.sources
         /\ \A s \in Sources : state.discovered[s] = JobsOf(exec.jobs, s)
         /\ \A s \in exec.sources : state.source_stats[s] \in SourceRunStats
         /\ exec.provider \in Providers
         /\ ~state.possibly_incomplete =>
              /\ state.failures = <<>>
              /\ \A s \in exec.sources : /\ state.source_stats[s].completed
                                         /\ ~state.source_stats[s].incomplete_results
         /\ \E r \in Results : r.provider = exec.provider /\ state.failures = r.errors
<1>1. PICK r \in Results :
        /\ Supported(r)
        /\ exec.jobs = r.jobs
        /\ state.failures = r.errors
        /\ state.source_stats = r.source_stats
        /\ state.possibly_incomplete = possibly_incomplete(r)
        /\ state.discovered = [s \in Sources |-> JobsOf(r.jobs, s)]
  BY DEF Answered
<1>2. ValidResult(r)
  BY ResultAssumption
<1>3. requested_sources(r) = exec.sources /\ r.provider = exec.provider
  BY <1>1 DEF Supported
<1>4. \A i \in DOMAIN exec.jobs : exec.jobs[i].provider = exec.provider
  BY <1>1, <1>3 DEF Supported
<1>5. \A i \in DOMAIN exec.jobs : exec.jobs[i].source \in exec.sources
  BY <1>1, <1>2, <1>3 DEF ValidResult
<1>6. \A i \in DOMAIN state.failures : state.failures[i].source \in exec.sources
  BY <1>1, <1>2, <1>3 DEF ValidResult
<1>7. \A s \in exec.sources : state.source_stats[s] \in SourceRunStats
  BY <1>1, <1>2, <1>3 DEF ValidResult, requested_sources
<1>8. exec.provider \in Providers
  BY <1>2, <1>3 DEF ValidResult
<1>9. ~state.possibly_incomplete =>
              /\ state.failures = <<>>
              /\ \A s \in exec.sources : /\ state.source_stats[s].completed
                                         /\ ~state.source_stats[s].incomplete_results
  BY <1>1, <1>3 DEF possibly_incomplete
<1>10. \A s \in Sources : state.discovered[s] = JobsOf(exec.jobs, s)
  BY <1>1
<1> QED
  BY <1>1, <1>3, <1>4, <1>5, <1>6, <1>7, <1>8, <1>9, <1>10

LEMMA NewStateType == NewState \in ProviderExecutionState
<1>1. Zero \in Counters
  BY DEF Zero, Counters
<1>2. <<>> \in Seq(ProviderError)
  OBVIOUS
<1> QED
  BY <1>1, <1>2 DEF NewState, ProviderExecutionState

LEMMA NotExecutingType == NotExecuting \in Execution
<1>1. <<>> \in Seq(DiscoveredJob) /\ <<>> \in Seq(Nat)
  OBVIOUS
<1> QED
  BY <1>1 DEF NotExecuting, Execution

\* Nothing is executed before the first provider.
LEMMA ExecutionInitInv == ExecutionInit => ExecutionInv /\ ExecutionClean
<1> SUFFICES ASSUME ExecutionInit PROVE ExecutionInv /\ ExecutionClean
  OBVIOUS
<1>1. raws = <<>> /\ state = NewState /\ exec = NotExecuting /\ exec.pc = "idle"
  BY DEF ExecutionInit, NotExecuting
<1>2. ExecutionTypeOK
  BY <1>1, NewStateType, NotExecutingType DEF ExecutionTypeOK
<1>3. PhaseInv
  BY <1>1 DEF PhaseInv
<1>4. CountedInv
  BY <1>1 DEF CountedInv, SourceCounted
<1>5. ExecutionClean
  BY <1>1 DEF ExecutionClean
<1> QED
  BY <1>2, <1>3, <1>4, <1>5 DEF ExecutionInv

\* Nor while the caller does something else.
LEMMA ExecutionUnchanged ==
  ASSUME ExecutionInv, UNCHANGED executionVars
  PROVE  ExecutionInv'
<1>1. raws' = raws /\ state' = state /\ exec' = exec
  BY DEF executionVars
<1>2. ExecutionTypeOK'
  BY <1>1 DEF ExecutionInv, ExecutionTypeOK
<1>3. PhaseInv'
  <2>1. Answered => Answered'
    BY <1>1, AnsweredKept
  <2>2. OwnRows => OwnRows'
    BY <1>1 DEF OwnRows
  <2>3. \A p : NoRows(p) => NoRows(p)'
    BY <1>1 DEF NoRows
  <2> QED
    BY <1>1, <2>1, <2>2, <2>3 DEF ExecutionInv, PhaseInv
<1>4. CountedInv'
  <2>1. \A s : /\ Fetched(s)' = Fetched(s) /\ Stored(s)' = Stored(s)
               /\ Unparsed(s)' = Unparsed(s) /\ Counting(s)' = Counting(s)
    BY <1>1 DEF Fetched, Stored, Unparsed, Counting, RawsOf
  <2> QED
    BY <1>1, <2>1 DEF ExecutionInv, CountedInv, SourceCounted
<1> QED
  BY <1>2, <1>3, <1>4 DEF ExecutionInv

\* The caller is done with it and forgets it.
LEMMA ForgottenInv ==
  ASSUME ExecutionInv, raws' = raws, exec' = NotExecuting, state' = NewState
  PROVE  ExecutionInv'
<1>1. exec'.pc = "idle"
  BY DEF NotExecuting
<1>2. ExecutionTypeOK'
  BY NewStateType, NotExecutingType DEF ExecutionInv, ExecutionTypeOK
<1>3. PhaseInv'
  BY <1>1 DEF PhaseInv
<1>4. CountedInv'
  BY <1>1 DEF CountedInv, SourceCounted
<1> QED
  BY <1>2, <1>3, <1>4 DEF ExecutionInv

\* An execution starts for a provider that has no row yet.
LEMMA ExecuteInv ==
  ASSUME ExecutionInv, NEW p \in Providers, NEW S \in SUBSET Sources,
         NoRows(p), raws' = raws, Execute(p, S)
  PROVE  ExecutionInv' /\ exec'.pc = "discover" /\ exec'.provider = p /\ exec'.sources = S
<1>1. /\ exec'.pc = "discover" /\ exec'.provider = p /\ exec'.sources = S
      /\ exec'.jobs = <<>> /\ exec'.raw_ids = <<>> /\ exec'.next = 1
      /\ exec' \in Execution /\ state' = NewState
  BY NotExecutingType DEF Execute, NotExecuting, Execution
<1>2. ExecutionTypeOK'
  BY <1>1, NewStateType DEF ExecutionInv, ExecutionTypeOK
<1>3. NoRows(exec.provider)'
  BY <1>1 DEF NoRows
<1>4. PhaseInv'
  BY <1>1, <1>3 DEF PhaseInv
<1>5. CountedInv'
  BY <1>1 DEF CountedInv, SourceCounted
<1> QED
  BY <1>1, <1>2, <1>4, <1>5 DEF ExecutionInv

\* Whatever is raised before anything was written.
LEMMA DiscoverRaisesInv ==
  ASSUME ExecutionInv, DiscoverRaises
  PROVE  ExecutionInv'
<1>1. /\ exec.pc = "discover" /\ exec' = [exec EXCEPT !.pc = "raised"]
      /\ raws' = raws /\ state' = state
  BY DEF DiscoverRaises, Step
<1>2. exec \in Execution /\ exec.provider \in Providers /\ state = NewState
  BY <1>1 DEF ExecutionInv, ExecutionTypeOK, PhaseInv
<1>3. /\ exec'.pc = "raised" /\ exec' \in Execution /\ exec'.provider = exec.provider
      /\ NoRows(exec.provider)
  BY <1>1, <1>2 DEF Execution, ExecutionInv, PhaseInv
<1>4. ExecutionTypeOK'
  BY <1>1, <1>3 DEF ExecutionInv, ExecutionTypeOK
<1>5. PhaseInv'
  BY <1>1, <1>2, <1>3 DEF PhaseInv, NoRows
<1>6. CountedInv'
  <2>1. ASSUME NEW s \in Sources
        PROVE  /\ Fetched(s)' = 0 /\ Unparsed(s)' = 0 /\ Stored(s)' = 0
               /\ Counting(s)' = 0 /\ state'.discovered[s] = 0
    <3>1. raws \in Seq(RawRow) /\ \A k \in DOMAIN raws : raws[k].provider # exec.provider
      BY <1>3 DEF NoRows, ExecutionInv, ExecutionTypeOK
    <3>2. /\ Fetched(s)' = 0 /\ Unparsed(s)' = 0 /\ Stored(s)' = 0
      BY <1>1, <1>3, <3>1, RawsOfRows, RowsNone DEF Fetched, Unparsed, Stored
    <3> QED
      BY <1>1, <1>2, <3>2 DEF Counting, NewState, Zero
  <2> QED
    BY <1>3, <2>1 DEF CountedInv, SourceCounted
<1> QED
  BY <1>4, <1>5, <1>6 DEF ExecutionInv

\* An answer recorded, with every posting still to be written.
LEMMA DiscoverInv ==
  ASSUME ExecutionInv, NEW result \in Results, Discover(result)
  PROVE  ExecutionInv'
<1>1. exec.pc = "discover" /\ raws' = raws
  BY DEF Discover
<1>2. CASE ~Supported(result)
  BY <1>1, <1>2, DiscoverRaisesInv DEF Discover, DiscoverRaises
<1>3. CASE Supported(result)
  <2> DEFINE next_pc == IF result.jobs = <<>> THEN "done" ELSE "write"
  <2>1. /\ state' = [state EXCEPT
                       !.source_stats = result.source_stats,
                       !.possibly_incomplete = possibly_incomplete(result),
                       !.failures = result.errors,
                       !.discovered = [s \in Sources |-> JobsOf(result.jobs, s)]]
        /\ exec' = [exec EXCEPT !.pc = next_pc, !.jobs = result.jobs]
    BY <1>3 DEF Discover
  <2>2. ValidResult(result)
    BY ResultAssumption
  <2>3. /\ exec \in Execution /\ state \in ProviderExecutionState /\ raws \in Seq(RawRow)
        /\ state = NewState /\ NoRows(exec.provider)
        /\ exec.raw_ids = <<>> /\ exec.next = 1 /\ exec.provider \in Providers
    BY <1>1 DEF ExecutionInv, ExecutionTypeOK, PhaseInv
  <2>4. /\ exec' \in Execution /\ exec'.pc = next_pc /\ exec'.jobs = result.jobs
        /\ exec'.provider = exec.provider /\ exec'.sources = exec.sources
        /\ exec'.raw_ids = <<>> /\ exec'.next = 1
    BY <2>1, <2>2, <2>3 DEF Execution, ValidResult
  <2>5. result.jobs \in Seq(DiscoveredJob)
    BY <2>2 DEF ValidResult
  <2>6. /\ state'.source_stats = result.source_stats
        /\ state'.possibly_incomplete = possibly_incomplete(result)
        /\ state'.failures = result.errors
        /\ state'.discovered = [s \in Sources |-> JobsOf(result.jobs, s)]
        /\ state'.inserted = Zero /\ state'.updated = Zero
        /\ state'.had_parse_error = FALSE /\ state'.had_conflict = FALSE
    BY <2>1, <2>3 DEF NewState
  <2>7. state' \in ProviderExecutionState
    <3>1. [s \in Sources |-> JobsOf(result.jobs, s)] \in Counters
      BY <2>5, JobsType DEF Counters
    <3>2. possibly_incomplete(result) \in BOOLEAN
      BY <2>2 DEF possibly_incomplete, ValidResult
    <3>3. result.errors \in Seq(ProviderError)
          /\ result.source_stats \in [Sources -> SourceRunStats \cup {None}]
      BY <2>2 DEF ValidResult
    <3> QED
      BY <2>1, <2>3, <3>1, <3>2, <3>3 DEF ProviderExecutionState
  <2>8. ExecutionTypeOK'
    BY <1>1, <2>3, <2>4, <2>7 DEF ExecutionTypeOK
  <2>9. Answered'
    <3>1. Supported(result)'
      BY <1>3, <2>4 DEF Supported
    <3> QED
      BY <3>1, <2>4, <2>6 DEF Answered
  <2>10. OwnRows'
    BY <2>4 DEF OwnRows
  <2>11. PhaseInv'
    <3>1. result.jobs # <<>> => Len(result.jobs) > 0
      BY <2>5
    <3> QED
      BY <2>4, <2>3, <2>9, <2>10, <3>1 DEF PhaseInv
  <2>12. ASSUME NEW s \in Sources
         PROVE  /\ Fetched(s)' = 0 /\ Unparsed(s)' = 0 /\ Stored(s)' = 0
                /\ state'.inserted[s] = 0 /\ state'.updated[s] = 0 /\ Counting(s)' = 0
                /\ state'.discovered[s] = JobsOf(result.jobs, s)
    <3>1. \A k \in DOMAIN raws : raws[k].provider # exec.provider
      BY <2>3 DEF NoRows
    <3>2. Fetched(s)' = 0 /\ Unparsed(s)' = 0 /\ Stored(s)' = 0
      BY <1>1, <2>3, <2>4, <3>1, RawsOfRows, RowsNone DEF Fetched, Unparsed, Stored
    <3> QED
      BY <2>6, <3>2 DEF Counting, Zero
  <2>13. ASSUME NEW s \in Sources PROVE SourceCounted(s)'
    <3>1. CASE result.jobs = <<>>
      <4>1. JobsOf(result.jobs, s) = 0
        <5>1. \A i \in DOMAIN result.jobs : result.jobs[i].source # s
          BY <3>1
        <5> QED
          BY <2>5, <5>1, JobsEnds
      <4> QED
        BY <2>4, <2>12, <3>1, <4>1 DEF SourceCounted
    <3>2. CASE result.jobs # <<>>
      <4>1. JobsBefore(result.jobs, s, 1) = 0
        BY <2>5, JobsEnds
      <4>2. Len(exec'.raw_ids) + 1 = 1
        BY <2>4
      <4> QED
        BY <2>4, <2>12, <3>2, <4>1, <4>2 DEF SourceCounted
    <3> QED
      BY <3>1, <3>2
  <2>14. CountedInv'
    BY <2>4, <2>13 DEF CountedInv
  <2> QED
    BY <2>8, <2>11, <2>14 DEF ExecutionInv
<1> QED
  BY <1>2, <1>3

\* The state of an execution whose answer holds is typed and has a count of
\* every source.
LEMMA DiscoveredIsJobs ==
  ASSUME ExecutionTypeOK, Answered, NEW s \in Sources
  PROVE  /\ exec.jobs \in Seq(DiscoveredJob)
         /\ state.discovered[s] = JobsOf(exec.jobs, s)
         /\ JobsOf(exec.jobs, s) \in Nat
         /\ \A n : JobsBefore(exec.jobs, s, n) \in Nat
         /\ \A n : JobsBefore(exec.jobs, s, n) <= JobsOf(exec.jobs, s)
<1>1. exec.jobs \in Seq(DiscoveredJob)
  BY DEF ExecutionTypeOK, Execution
<1> QED
  BY <1>1, AnsweredFacts, JobsType, JobsEnds

\* The next posting's row.
FetchedRow(job) == [provider |-> job.provider, source |-> job.source, status |-> "fetched"]

LEMMA WriteCounts ==
  ASSUME ExecutionTypeOK, Answered, NEW n \in DOMAIN exec.jobs, NEW s \in Sources,
         exec'.provider = exec.provider,
         raws' = Append(raws, FetchedRow(exec.jobs[n]))
  PROVE  /\ FetchedRow(exec.jobs[n]) \in RawRow
         /\ Fetched(s)' = Fetched(s) + One(exec.jobs[n].source = s)
         /\ Unparsed(s)' = Unparsed(s) /\ Stored(s)' = Stored(s)
<1> DEFINE row == FetchedRow(exec.jobs[n])
           p == exec.provider
<1>1. exec.jobs[n] \in DiscoveredJob /\ exec.jobs[n].provider = p /\ raws \in Seq(RawRow)
  BY AnsweredFacts DEF ExecutionTypeOK, Execution
<1>2. row \in RawRow
  BY <1>1 DEF FetchedRow, RawRow, DiscoveredJob
<1>3. /\ CountsAs(row, p, s, {"fetched"}) <=> exec.jobs[n].source = s
      /\ ~CountsAs(row, p, s, {"parse_error"})
      /\ ~CountsAs(row, p, s, {"normalized", "identity_conflict"})
  BY <1>1 DEF FetchedRow, CountsAs
<1> HIDE DEF row
<1>4. \A T : RowsOf(raws', p, s, T) = RowsOf(raws, p, s, T) + One(CountsAs(row, p, s, T))
  BY <1>1, <1>2, RowsAppend DEF row
<1>5. \A T : RowsOf(raws, p, s, T) \in Nat
  BY <1>1, RowsType
<1>6. /\ Fetched(s)' = RowsOf(raws', p, s, {"fetched"})
      /\ Unparsed(s)' = RowsOf(raws', p, s, {"parse_error"})
      /\ Stored(s)' = RowsOf(raws', p, s, {"normalized", "identity_conflict"})
      /\ Fetched(s) = RowsOf(raws, p, s, {"fetched"})
      /\ Unparsed(s) = RowsOf(raws, p, s, {"parse_error"})
      /\ Stored(s) = RowsOf(raws, p, s, {"normalized", "identity_conflict"})
  BY RawsOfRows DEF Fetched, Unparsed, Stored
<1>7. /\ One(CountsAs(row, p, s, {"fetched"})) = One(exec.jobs[n].source = s)
      /\ One(CountsAs(row, p, s, {"parse_error"})) = 0
      /\ One(CountsAs(row, p, s, {"normalized", "identity_conflict"})) = 0
  BY <1>3 DEF One
<1> HIDE DEF p
<1>8. Fetched(s)' = Fetched(s) + One(exec.jobs[n].source = s)
  BY <1>4, <1>6, <1>7
<1>9. Unparsed(s)' = Unparsed(s)
  BY <1>4, <1>5, <1>6, <1>7
<1>10. Stored(s)' = Stored(s)
  BY <1>4, <1>5, <1>6, <1>7
<1> QED
  BY <1>2, <1>8, <1>9, <1>10 DEF row

\* A row written for a posting, whether or not the execution hears of it.
LEMMA WriteInv ==
  ASSUME ExecutionInv, NEW o \in Outcomes, WriteFetchedRow(o)
  PROVE  ExecutionInv'
<1> DEFINE n == Len(exec.raw_ids) + 1
           ids == Append(exec.raw_ids, Len(raws) + 1)
           row == FetchedRow(exec.jobs[n])
<1>1. /\ exec.pc = "write" /\ state' = state
      /\ raws' = IF Commits(o) THEN Append(raws, row) ELSE raws
      /\ exec' = IF Returns(o)
                 THEN [exec EXCEPT !.raw_ids = ids,
                         !.pc = IF Len(ids) = Len(exec.jobs) THEN "persist" ELSE "write"]
                 ELSE [exec EXCEPT !.pc = "raised"]
  BY DEF WriteFetchedRow, FetchedRow
<1>2. /\ ExecutionTypeOK /\ Answered /\ OwnRows /\ exec.next = 1
      /\ Len(exec.raw_ids) < Len(exec.jobs) /\ exec.provider \in Providers
  BY <1>1 DEF ExecutionInv, PhaseInv
<1>3. /\ exec \in Execution /\ exec.raw_ids \in Seq(Nat) /\ exec.jobs \in Seq(DiscoveredJob)
      /\ raws \in Seq(RawRow)
  BY <1>2 DEF ExecutionTypeOK, Execution
<1>4. n \in DOMAIN exec.jobs /\ n \in Nat
  BY <1>2, <1>3
<1>5. /\ exec'.provider = exec.provider /\ exec'.sources = exec.sources
      /\ exec'.jobs = exec.jobs /\ exec'.next = 1
      /\ exec'.pc = IF ~Returns(o) THEN "raised"
                    ELSE IF n = Len(exec.jobs) THEN "persist" ELSE "write"
      /\ exec'.raw_ids = IF Returns(o) THEN ids ELSE exec.raw_ids
      /\ exec' \in Execution
  <2>1. ids \in Seq(Nat) /\ Len(ids) = n
    BY <1>3
  <2> HIDE DEF ids
  <2> QED
    BY <1>1, <1>2, <1>3, <2>1 DEF Execution
<1>6. Returns(o) => Commits(o)
  BY DEF Returns, Commits
<1> HIDE DEF row
<1>7. /\ row \in RawRow
      /\ Commits(o) => \A s \in Sources :
           /\ Fetched(s)' = Fetched(s) + One(exec.jobs[n].source = s)
           /\ Unparsed(s)' = Unparsed(s) /\ Stored(s)' = Stored(s)
      /\ ~Commits(o) => \A s \in Sources :
           /\ Fetched(s)' = Fetched(s)
           /\ Unparsed(s)' = Unparsed(s) /\ Stored(s)' = Stored(s)
  <2>1. row \in RawRow
    <3>1. exec.jobs[n] \in DiscoveredJob
      BY <1>3, <1>4
    <3> QED
      BY <3>1 DEF row, FetchedRow, RawRow, DiscoveredJob
  <2>2. CASE Commits(o)
    BY <1>1, <1>2, <1>4, <1>5, <2>1, <2>2, WriteCounts DEF row
  <2>3. CASE ~Commits(o)
    BY <1>1, <1>5, <2>1, <2>3 DEF Fetched, Unparsed, Stored, RawsOf
  <2> QED
    BY <2>2, <2>3
<1>8. ExecutionTypeOK'
  <2>1. raws' \in Seq(RawRow)
    BY <1>1, <1>3, <1>7
  <2> QED
    BY <1>1, <1>2, <1>5, <2>1 DEF ExecutionTypeOK
<1>9. Answered'
  BY <1>1, <1>2, <1>5, AnsweredKept
<1>10. Returns(o) => OwnRows'
  <2> SUFFICES ASSUME Returns(o) PROVE OwnRows'
    OBVIOUS
  <2>1. raws' = Append(raws, row) /\ exec'.raw_ids = ids
    BY <1>1, <1>5, <1>6
  <2>2. /\ DOMAIN raws' = DOMAIN raws \cup {Len(raws) + 1}
        /\ \A k \in DOMAIN raws : raws'[k] = raws[k]
        /\ raws'[Len(raws) + 1] = row
        /\ Len(raws) + 1 \notin DOMAIN raws
    BY <2>1, <1>3, <1>7
  <2>3. /\ DOMAIN ids = DOMAIN exec.raw_ids \cup {n} /\ n \notin DOMAIN exec.raw_ids
        /\ \A i \in DOMAIN exec.raw_ids : ids[i] = exec.raw_ids[i]
        /\ ids[n] = Len(raws) + 1
    BY <1>3
  <2>4. /\ row.provider = exec.provider /\ row.source = exec.jobs[n].source
        /\ row.status = "fetched"
    BY <1>2, <1>4, AnsweredFacts DEF row, FetchedRow
  <2> HIDE DEF ids, n
  <2>5. ASSUME NEW i \in DOMAIN ids
        PROVE  /\ ids[i] \in DOMAIN raws'
               /\ raws'[ids[i]].provider = exec.provider
               /\ raws'[ids[i]].source = exec.jobs[i].source
               /\ i >= exec'.next => raws'[ids[i]].status = "fetched"
    <3>1. CASE i = n
      BY <2>2, <2>3, <2>4, <3>1
    <3>2. CASE i \in DOMAIN exec.raw_ids
      <4>1. /\ exec.raw_ids[i] \in DOMAIN raws
            /\ raws[exec.raw_ids[i]].provider = exec.provider
            /\ raws[exec.raw_ids[i]].source = exec.jobs[i].source
            /\ i >= exec.next => raws[exec.raw_ids[i]].status = "fetched"
        BY <3>2, <1>2 DEF OwnRows
      <4> QED
        BY <4>1, <3>2, <2>2, <2>3, <1>2, <1>5
    <3> QED
      BY <2>3, <3>1, <3>2
  <2>6. ASSUME NEW i \in DOMAIN ids, NEW j \in DOMAIN ids, ids[i] = ids[j] PROVE i = j
    <3>1. \A k \in DOMAIN exec.raw_ids : exec.raw_ids[k] \in DOMAIN raws
      BY <1>2 DEF OwnRows
    <3>2. CASE i = n \/ j = n
      BY <2>2, <2>3, <2>6, <3>1, <3>2
    <3>3. CASE i \in DOMAIN exec.raw_ids /\ j \in DOMAIN exec.raw_ids
      BY <2>3, <2>6, <3>3, <1>2 DEF OwnRows
    <3> QED
      BY <2>3, <3>2, <3>3
  <2> QED
    BY <2>1, <2>5, <2>6, <1>5 DEF OwnRows
<1>11. PhaseInv'
  <2>1. CASE ~Returns(o)
    BY <1>2, <1>5, <1>9, <2>1 DEF PhaseInv
  <2>2. CASE Returns(o)
    <3>1. Len(exec'.raw_ids) = n
      BY <1>3, <1>5, <2>2
    <3>2. n <= Len(exec.jobs) /\ Len(exec.jobs) \in Nat
      BY <1>3, <1>4
    <3> HIDE DEF n, ids
    <3> QED
      BY <1>2, <1>4, <1>5, <1>9, <1>10, <2>2, <3>1, <3>2 DEF PhaseInv
  <2> QED
    BY <2>1, <2>2
<1>12. ASSUME NEW s \in Sources
       PROVE  SourceCounted(s)' /\ (exec'.pc = "raised" => Stored(s)' = Counting(s)')
  <2>1. /\ Fetched(s) = JobsBefore(exec.jobs, s, n) /\ Unparsed(s) = 0 /\ Stored(s) = 0
        /\ state.inserted[s] = 0 /\ state.updated[s] = 0
    BY <1>1 DEF ExecutionInv, CountedInv, SourceCounted
  <2>2. JobsBefore(exec.jobs, s, n + 1) = JobsBefore(exec.jobs, s, n)
                                            + One(exec.jobs[n].source = s)
    <3> HIDE DEF n
    <3> QED
      BY <1>3, <1>4, JobsNext
  <2>3. /\ state.discovered[s] = JobsOf(exec.jobs, s)
        /\ JobsOf(exec.jobs, s) \in Nat
        /\ \A m : JobsBefore(exec.jobs, s, m) \in Nat
        /\ \A m : JobsBefore(exec.jobs, s, m) <= JobsOf(exec.jobs, s)
    BY <1>2, DiscoveredIsJobs
  <2>4. /\ JobsBefore(exec.jobs, s, Len(exec.jobs) + 1) = JobsOf(exec.jobs, s)
        /\ JobsBefore(exec.jobs, s, 1) = 0
    BY <1>3, JobsEnds
  <2>5. Counting(s)' = 0 /\ state'.inserted[s] = 0 /\ state'.updated[s] = 0
        /\ state'.discovered[s] = state.discovered[s]
    BY <1>1, <2>1 DEF Counting
  <2>6. Returns(o) => Len(exec'.raw_ids) = n
    BY <1>3, <1>5
  <2>7. Unparsed(s)' = 0 /\ Stored(s)' = 0
    BY <1>7, <2>1
  <2> HIDE DEF n, ids
  <2>8. CASE Returns(o)
    <3>1. Fetched(s)' = JobsBefore(exec.jobs, s, n + 1)
      BY <1>6, <1>7, <2>1, <2>2, <2>8
    <3>2. CASE n = Len(exec.jobs)
      BY <1>5, <2>3, <2>4, <2>5, <2>7, <2>8, <3>1, <3>2 DEF SourceCounted
    <3>3. CASE n # Len(exec.jobs)
      BY <1>5, <2>5, <2>6, <2>7, <2>8, <3>1, <3>3 DEF SourceCounted
    <3> QED
      BY <3>2, <3>3
  <2>9. CASE ~Returns(o)
    <3>1. Fetched(s)' \in Nat /\ Fetched(s)' <= JobsOf(exec.jobs, s)
      BY <1>7, <2>1, <2>2, <2>3
    <3> QED
      BY <1>5, <2>3, <2>5, <2>7, <2>9, <3>1 DEF SourceCounted
  <2> QED
    BY <2>8, <2>9
<1>13. CountedInv'
  BY <1>12 DEF CountedInv
<1> QED
  BY <1>8, <1>11, <1>13 DEF ExecutionInv

\* A row, and a table with one row, settled.
LEMMA SettledRow ==
  ASSUME NEW row \in RawRow,
         NEW status \in {"parse_error", "normalized", "identity_conflict"}
  PROVE  /\ [row EXCEPT !.status = status] \in RawRow
         /\ [row EXCEPT !.status = status].provider = row.provider
         /\ [row EXCEPT !.status = status].source = row.source
         /\ [row EXCEPT !.status = status].status = status
BY DEF RawRow

LEMMA SettledRows ==
  ASSUME NEW rows \in Seq(RawRow), NEW k \in DOMAIN rows,
         NEW status \in {"parse_error", "normalized", "identity_conflict"}
  PROVE  /\ [rows EXCEPT ![k].status = status] \in Seq(RawRow)
         /\ DOMAIN [rows EXCEPT ![k].status = status] = DOMAIN rows
         /\ \A j \in DOMAIN rows :
              [rows EXCEPT ![k].status = status][j] =
                IF j = k THEN [rows[k] EXCEPT !.status = status] ELSE rows[j]
<1>1. rows[k] \in RawRow
  OBVIOUS
<1>2. [rows[k] EXCEPT !.status = status] \in RawRow
  BY <1>1, SettledRow
<1> QED
  BY <1>2

\* What settling the next posting does to the rows counted.
LEMMA SettleCounts ==
  ASSUME ExecutionInv, exec.pc = "persist", NEW s \in Sources,
         NEW status \in {"parse_error", "normalized", "identity_conflict"},
         exec'.provider = exec.provider,
         raws' = [raws EXCEPT ![exec.raw_ids[exec.next]].status = status]
  PROVE  LET mine == exec.jobs[exec.next].source = s
         IN  /\ Fetched(s)' + One(mine) = Fetched(s)
             /\ Unparsed(s)' = Unparsed(s) + One(mine /\ status = "parse_error")
             /\ Stored(s)' = Stored(s) + One(mine /\ status # "parse_error")
<1> DEFINE p == exec.provider
           k == exec.raw_ids[exec.next]
           mine == exec.jobs[exec.next].source = s
           N == {"normalized", "identity_conflict"}
           new == [raws[k] EXCEPT !.status = status]
<1>1. /\ ExecutionTypeOK /\ OwnRows /\ raws \in Seq(RawRow)
      /\ exec.next \in DOMAIN exec.raw_ids
  <2>1. /\ Len(exec.raw_ids) = Len(exec.jobs) /\ exec.next \in 1..Len(exec.jobs) /\ OwnRows
        /\ ExecutionTypeOK
    BY DEF ExecutionInv, PhaseInv
  <2>2. exec.raw_ids \in Seq(Nat) /\ raws \in Seq(RawRow)
    BY <2>1 DEF ExecutionTypeOK, Execution
  <2> QED
    BY <2>1, <2>2
<1>2. /\ k \in DOMAIN raws /\ raws[k].provider = p
      /\ raws[k].source = exec.jobs[exec.next].source /\ raws[k].status = "fetched"
  <2>1. exec.next >= exec.next
    BY DEF ExecutionInv, PhaseInv
  <2> QED
    BY <1>1, <2>1 DEF OwnRows
<1>3. /\ raws[k] \in RawRow
      /\ new.provider = p /\ new.source = raws[k].source /\ new.status = status
  <2>1. raws[k] \in RawRow
    BY <1>1, <1>2
  <2> HIDE DEF k
  <2> QED
    BY <1>2, <2>1, SettledRow
<1>4. /\ CountsAs(raws[k], p, s, {"fetched"}) <=> mine
      /\ ~CountsAs(raws[k], p, s, {"parse_error"}) /\ ~CountsAs(raws[k], p, s, N)
  BY <1>2 DEF CountsAs
<1>5. /\ ~CountsAs(new, p, s, {"fetched"})
      /\ CountsAs(new, p, s, {"parse_error"}) <=> mine /\ status = "parse_error"
      /\ CountsAs(new, p, s, N) <=> mine /\ status # "parse_error"
  BY <1>2, <1>3 DEF CountsAs
<1>6. \A T : RowsOf(raws', p, s, T) + One(CountsAs(raws[k], p, s, T)) =
               RowsOf(raws, p, s, T) + One(CountsAs(new, p, s, T))
  <2> TAKE T
  <2>1. raws' = [raws EXCEPT ![k].status = status]
    OBVIOUS
  <2>2. k \in DOMAIN raws /\ raws \in Seq(RawRow)
    BY <1>1, <1>2
  <2>3. /\ DOMAIN raws' = DOMAIN raws /\ raws'[k] = new
        /\ \A i \in DOMAIN raws : i # k => raws'[i] = raws[i]
    BY <2>1, <2>2
  <2> HIDE DEF k, p, new
  <2>4. RowsOf(raws', p, s, T) + One(CountsAs(raws[k], p, s, T)) =
          RowsOf(raws, p, s, T) + One(CountsAs(raws'[k], p, s, T))
    <3> DEFINE r == raws'
    <3>1. DOMAIN r = DOMAIN raws /\ \A i \in DOMAIN raws : i # k => r[i] = raws[i]
      BY <2>3
    <3> HIDE DEF r
    <3>2. RowsOf(r, p, s, T) + One(CountsAs(raws[k], p, s, T)) =
            RowsOf(raws, p, s, T) + One(CountsAs(r[k], p, s, T))
      BY <2>2, <3>1, RowsSettle
    <3> QED
      BY <3>2 DEF r
  <2> QED
    BY <2>3, <2>4
<1>7. raws' \in Seq(RawRow)
  BY <1>1, <1>2, SettledRows
<1>8. \A T : RowsOf(raws, p, s, T) \in Nat /\ RowsOf(raws', p, s, T) \in Nat
  BY <1>1, <1>7, RowsType
<1>9. /\ Fetched(s)' = RowsOf(raws', p, s, {"fetched"})
      /\ Unparsed(s)' = RowsOf(raws', p, s, {"parse_error"})
      /\ Stored(s)' = RowsOf(raws', p, s, N)
      /\ Fetched(s) = RowsOf(raws, p, s, {"fetched"})
      /\ Unparsed(s) = RowsOf(raws, p, s, {"parse_error"})
      /\ Stored(s) = RowsOf(raws, p, s, N)
  BY DEF Fetched, Unparsed, Stored, RawsOf, RowsOf
<1>10. /\ One(CountsAs(raws[k], p, s, {"fetched"})) = One(mine)
       /\ One(CountsAs(raws[k], p, s, {"parse_error"})) = 0
       /\ One(CountsAs(raws[k], p, s, N)) = 0
       /\ One(CountsAs(new, p, s, {"fetched"})) = 0
       /\ One(CountsAs(new, p, s, {"parse_error"})) = One(mine /\ status = "parse_error")
       /\ One(CountsAs(new, p, s, N)) = One(mine /\ status # "parse_error")
  BY <1>4, <1>5 DEF One
<1> HIDE DEF p, k, mine, N, new
<1>11. Fetched(s)' + One(mine) = Fetched(s)
  <2>1. /\ RowsOf(raws', p, s, {"fetched"}) + One(mine) = RowsOf(raws, p, s, {"fetched"}) + 0
        /\ RowsOf(raws, p, s, {"fetched"}) \in Nat
    BY <1>6, <1>8, <1>10
  <2> QED
    BY <1>9, <2>1
<1>12. Unparsed(s)' = Unparsed(s) + One(mine /\ status = "parse_error")
  <2>1. /\ RowsOf(raws', p, s, {"parse_error"}) + 0 =
             RowsOf(raws, p, s, {"parse_error"}) + One(mine /\ status = "parse_error")
        /\ RowsOf(raws', p, s, {"parse_error"}) \in Nat
    BY <1>6, <1>8, <1>10
  <2>2. RowsOf(raws', p, s, {"parse_error"}) + 0 = RowsOf(raws', p, s, {"parse_error"})
    BY <2>1
  <2> QED
    BY <1>9, <2>1, <2>2
<1>13. Stored(s)' = Stored(s) + One(mine /\ status # "parse_error")
  <2>1. /\ RowsOf(raws', p, s, N) + 0 =
             RowsOf(raws, p, s, N) + One(mine /\ status # "parse_error")
        /\ RowsOf(raws', p, s, N) \in Nat
    BY <1>6, <1>8, <1>10
  <2>2. RowsOf(raws', p, s, N) + 0 = RowsOf(raws', p, s, N)
    BY <2>1
  <2> QED
    BY <1>9, <2>1, <2>2
<1> QED
  BY <1>11, <1>12, <1>13 DEF mine

\* The part of the invariant that does not depend on how the posting counts.
LEMMA SettlePhase ==
  ASSUME ExecutionInv, NEW o \in Outcomes,
         NEW status \in {"parse_error", "normalized", "identity_conflict"},
         SettlePosting(status, o), state' \in ProviderExecutionState,
         state'.failures = state.failures, state'.source_stats = state.source_stats,
         state'.discovered = state.discovered,
         state'.possibly_incomplete = state.possibly_incomplete
  PROVE  /\ ExecutionTypeOK' /\ PhaseInv'
         /\ exec'.provider = exec.provider /\ exec'.jobs = exec.jobs
         /\ exec'.next = (IF Returns(o) /\ exec.next # Len(exec.jobs) THEN exec.next + 1
                          ELSE exec.next)
         /\ exec'.pc = IF ~Returns(o) THEN "raised"
                       ELSE IF exec.next = Len(exec.jobs) THEN "done" ELSE "persist"
         /\ exec'.raw_ids = exec.raw_ids /\ exec'.sources = exec.sources
<1> DEFINE k == exec.raw_ids[exec.next]
<1>1. /\ exec.pc = "persist"
      /\ raws' = IF Commits(o) THEN [raws EXCEPT ![k].status = status] ELSE raws
      /\ exec' = IF ~Returns(o) THEN [exec EXCEPT !.pc = "raised"]
                 ELSE IF exec.next = Len(exec.jobs) THEN [exec EXCEPT !.pc = "done"]
                 ELSE [exec EXCEPT !.next = exec.next + 1]
  BY DEF SettlePosting
<1>2. /\ ExecutionTypeOK /\ Answered /\ OwnRows /\ exec.provider \in Providers
      /\ Len(exec.raw_ids) = Len(exec.jobs) /\ exec.next \in 1..Len(exec.jobs)
  BY <1>1 DEF ExecutionInv, PhaseInv
<1>3. /\ exec \in Execution /\ exec.raw_ids \in Seq(Nat) /\ exec.jobs \in Seq(DiscoveredJob)
      /\ raws \in Seq(RawRow) /\ exec.next \in Nat
  BY <1>2 DEF ExecutionTypeOK, Execution
<1>4. exec.next \in DOMAIN exec.raw_ids /\ k \in DOMAIN raws
  BY <1>2, <1>3 DEF OwnRows
<1>5. /\ exec'.provider = exec.provider /\ exec'.jobs = exec.jobs
      /\ exec'.next = (IF Returns(o) /\ exec.next # Len(exec.jobs) THEN exec.next + 1
                       ELSE exec.next)
      /\ exec'.pc = IF ~Returns(o) THEN "raised"
                    ELSE IF exec.next = Len(exec.jobs) THEN "done" ELSE "persist"
      /\ exec'.raw_ids = exec.raw_ids /\ exec'.sources = exec.sources
      /\ exec' \in Execution
  <2>1. CASE ~Returns(o)
    BY <1>1, <1>3, <2>1 DEF Execution
  <2>2. CASE Returns(o) /\ exec.next = Len(exec.jobs)
    BY <1>1, <1>3, <2>2 DEF Execution
  <2>3. CASE Returns(o) /\ exec.next # Len(exec.jobs)
    <3>1. exec' = [exec EXCEPT !.next = exec.next + 1] /\ exec.next + 1 \in Nat
      BY <1>1, <1>3, <2>3
    <3> QED
      BY <1>1, <1>3, <2>3, <3>1 DEF Execution
  <2> QED
    BY <2>1, <2>2, <2>3
<1>6. raws' \in Seq(RawRow)
  BY <1>1, <1>3, <1>4, SettledRows
<1>7. ExecutionTypeOK'
  BY <1>5, <1>6 DEF ExecutionTypeOK
<1>8. Answered'
  BY <1>2, <1>5, AnsweredKept
<1>9. exec'.pc = "persist" => OwnRows'
  <2> SUFFICES ASSUME exec'.pc = "persist" PROVE OwnRows'
    OBVIOUS
  <2>1. Returns(o) /\ exec'.next = exec.next + 1
    BY <1>5
  <2>2. raws' = [raws EXCEPT ![k].status = status]
    BY <1>1, <2>1 DEF Returns, Commits
  <2>3. /\ DOMAIN raws' = DOMAIN raws
        /\ \A j \in DOMAIN raws : /\ raws'[j].provider = raws[j].provider
                                  /\ raws'[j].source = raws[j].source
                                  /\ j # k => raws'[j] = raws[j]
    BY <2>2, <1>3, <1>4 DEF RawRow
  <2>4. ASSUME NEW i \in DOMAIN exec.raw_ids
        PROVE  /\ exec.raw_ids[i] \in DOMAIN raws'
               /\ raws'[exec.raw_ids[i]].provider = exec.provider
               /\ raws'[exec.raw_ids[i]].source = exec.jobs[i].source
               /\ i >= exec.next + 1 => raws'[exec.raw_ids[i]].status = "fetched"
    <3>1. /\ exec.raw_ids[i] \in DOMAIN raws
          /\ raws[exec.raw_ids[i]].provider = exec.provider
          /\ raws[exec.raw_ids[i]].source = exec.jobs[i].source
          /\ i >= exec.next => raws[exec.raw_ids[i]].status = "fetched"
      BY <1>2 DEF OwnRows
    <3>2. i >= exec.next + 1 => i >= exec.next /\ i # exec.next
      BY <1>3
    <3>3. i # exec.next => exec.raw_ids[i] # k
      BY <1>2, <1>4 DEF OwnRows
    <3> HIDE DEF k
    <3> QED
      BY <3>1, <3>2, <3>3, <2>3
  <2> QED
    BY <1>2, <1>5, <2>1, <2>4 DEF OwnRows
<1>10. PhaseInv'
  <2>1. CASE exec'.pc = "persist"
    <3>1. exec.next + 1 \in 1..Len(exec.jobs)
      BY <1>2, <1>3, <1>5, <2>1
    <3> QED
      BY <1>2, <1>5, <1>8, <1>9, <2>1, <3>1 DEF PhaseInv
  <2>2. CASE exec'.pc \in {"done", "raised"}
    BY <1>2, <1>5, <1>8, <2>2 DEF PhaseInv
  <2> QED
    BY <1>5, <2>1, <2>2
<1> QED
  BY <1>5, <1>7, <1>10

\* A posting settled, and counted unless it could not be parsed or the execution
\* never heard of it.
LEMMA SettleInv ==
  ASSUME ExecutionInv, NEW o \in Outcomes,
         NEW status \in {"parse_error", "normalized", "identity_conflict"},
         SettlePosting(status, o), state' \in ProviderExecutionState,
         state'.failures = state.failures, state'.source_stats = state.source_stats,
         state'.discovered = state.discovered,
         state'.possibly_incomplete = state.possibly_incomplete,
         \A s \in Sources : Counting(s)' = Counting(s) +
           One(/\ Returns(o) /\ status # "parse_error"
               /\ exec.jobs[exec.next].source = s)
  PROVE  ExecutionInv'
<1> DEFINE mine(s) == exec.jobs[exec.next].source = s
<1>1. /\ ExecutionTypeOK' /\ PhaseInv' /\ exec'.provider = exec.provider
      /\ exec'.jobs = exec.jobs
      /\ exec'.next = (IF Returns(o) /\ exec.next # Len(exec.jobs) THEN exec.next + 1
                       ELSE exec.next)
      /\ exec'.pc = IF ~Returns(o) THEN "raised"
                    ELSE IF exec.next = Len(exec.jobs) THEN "done" ELSE "persist"
  BY SettlePhase
<1>2. exec.pc = "persist" /\ ExecutionTypeOK /\ Answered /\ exec.next \in DOMAIN exec.jobs
      /\ exec.jobs \in Seq(DiscoveredJob) /\ (Returns(o) => Commits(o))
  <2>1. exec.pc = "persist"
    BY DEF SettlePosting
  <2>2. ExecutionTypeOK /\ Answered /\ exec.next \in 1..Len(exec.jobs)
    BY <2>1 DEF ExecutionInv, PhaseInv
  <2>3. exec.jobs \in Seq(DiscoveredJob)
    BY <2>2 DEF ExecutionTypeOK, Execution
  <2> QED
    BY <2>1, <2>2, <2>3 DEF Returns, Commits
<1>3. ASSUME NEW s \in Sources
      PROVE  /\ Fetched(s)' + One(Commits(o) /\ mine(s)) = Fetched(s)
             /\ Unparsed(s)' = Unparsed(s) +
                  One(Commits(o) /\ mine(s) /\ status = "parse_error")
             /\ Stored(s)' = Stored(s) + One(Commits(o) /\ mine(s) /\ status # "parse_error")
  <2>1. CASE Commits(o)
    <3>1. raws' = [raws EXCEPT ![exec.raw_ids[exec.next]].status = status]
      BY <2>1 DEF SettlePosting
    <3> QED
      BY <1>1, <1>2, <2>1, <3>1, SettleCounts DEF One
  <2>2. CASE ~Commits(o)
    <3>1. raws' = raws
      BY <2>2 DEF SettlePosting
    <3>2. Fetched(s)' = Fetched(s) /\ Unparsed(s)' = Unparsed(s) /\ Stored(s)' = Stored(s)
      BY <1>1, <3>1 DEF Fetched, Unparsed, Stored, RawsOf
    <3> QED
      BY <1>2, <2>2, <3>2, CountsType DEF One
  <2> QED
    BY <2>1, <2>2
<1> HIDE DEF mine
<1>4. ASSUME NEW s \in Sources
      PROVE  /\ Fetched(s) \in Nat /\ Unparsed(s) \in Nat /\ Stored(s) \in Nat
             /\ Counting(s) \in Nat /\ Fetched(s)' \in Nat /\ Unparsed(s)' \in Nat
             /\ Stored(s)' \in Nat /\ state'.discovered[s] = state.discovered[s]
             /\ state.discovered[s] \in Nat
             /\ Stored(s) = Counting(s)
             /\ Unparsed(s) + Stored(s) = JobsBefore(exec.jobs, s, exec.next)
             /\ Fetched(s) + JobsBefore(exec.jobs, s, exec.next) = state.discovered[s]
             /\ JobsBefore(exec.jobs, s, exec.next) \in Nat
  <2>1. /\ Fetched(s) \in Nat /\ Unparsed(s) \in Nat /\ Stored(s) \in Nat
        /\ Counting(s) \in Nat /\ state.discovered[s] \in Nat
    BY <1>2, CountsType
  <2>2. Fetched(s)' \in Nat /\ Unparsed(s)' \in Nat /\ Stored(s)' \in Nat
    BY <1>1, RowsType, RawsOfRows DEF Fetched, Unparsed, Stored, ExecutionTypeOK
  <2>3. /\ Stored(s) = Counting(s)
        /\ Unparsed(s) + Stored(s) = JobsBefore(exec.jobs, s, exec.next)
        /\ Fetched(s) + JobsBefore(exec.jobs, s, exec.next) = state.discovered[s]
    BY <1>2 DEF ExecutionInv, CountedInv, SourceCounted
  <2>4. JobsBefore(exec.jobs, s, exec.next) \in Nat
    BY <1>2, JobsType
  <2> QED
    BY <2>1, <2>2, <2>3, <2>4
<1>5. ASSUME NEW s \in Sources
      PROVE  Counting(s)' = Counting(s) + One(Returns(o) /\ status # "parse_error" /\ mine(s))
  BY DEF mine
<1>6. ASSUME NEW s \in Sources, Returns(o) PROVE SourceCounted(s)'
  <2>1. /\ Stored(s)' = Counting(s)'
        /\ Unparsed(s)' + Stored(s)' = Unparsed(s) + Stored(s) + One(mine(s))
        /\ Fetched(s)' + One(mine(s)) = Fetched(s)
    <3>1. Commits(o)
      BY <1>2, <1>6
    <3>2. /\ Fetched(s)' + One(mine(s)) = Fetched(s)
          /\ Unparsed(s)' = Unparsed(s) + One(mine(s) /\ status = "parse_error")
          /\ Stored(s)' = Stored(s) + One(mine(s) /\ status # "parse_error")
      BY <1>3, <3>1 DEF One
    <3>3. Counting(s)' = Counting(s) + One(mine(s) /\ status # "parse_error")
      BY <1>5, <1>6 DEF One
    <3>4. Stored(s) = Counting(s) /\ Unparsed(s) \in Nat /\ Stored(s) \in Nat
      BY <1>4
    <3> QED
      BY <3>2, <3>3, <3>4 DEF One
  <2>2. JobsBefore(exec.jobs, s, exec.next + 1) =
          JobsBefore(exec.jobs, s, exec.next) + One(mine(s))
    BY <1>2, JobsNext DEF mine
  <2>3. CASE exec.next = Len(exec.jobs)
    <3>1. JobsBefore(exec.jobs, s, exec.next + 1) = state.discovered[s]
      BY <1>2, <2>3, JobsEnds, DiscoveredIsJobs
    <3>2. Fetched(s)' = 0 /\ state'.discovered[s] = Unparsed(s)' + Stored(s)'
      BY <1>4, <2>1, <2>2, <3>1 DEF One
    <3> QED
      BY <1>1, <1>6, <2>1, <2>3, <3>2 DEF SourceCounted
  <2>4. CASE exec.next # Len(exec.jobs)
    <3>1. /\ Unparsed(s)' + Stored(s)' = JobsBefore(exec.jobs, s, exec.next + 1)
          /\ Fetched(s)' + JobsBefore(exec.jobs, s, exec.next + 1) = state'.discovered[s]
      BY <1>4, <2>1, <2>2 DEF One
    <3> QED
      BY <1>1, <1>6, <2>1, <2>4, <3>1 DEF SourceCounted
  <2> QED
    BY <2>3, <2>4
<1>7. ASSUME NEW s \in Sources, ~Returns(o)
      PROVE  /\ SourceCounted(s)'
             /\ Stored(s)' # Counting(s)' => mine(s)
  <2>1. /\ Counting(s)' = Counting(s)
        /\ Stored(s)' = Stored(s) \/ Stored(s)' = Stored(s) + 1
        /\ Fetched(s)' + Unparsed(s)' + Stored(s)' = Fetched(s) + Unparsed(s) + Stored(s)
        /\ Stored(s)' # Stored(s) => mine(s)
    BY <1>3, <1>4, <1>5, <1>7 DEF One
  <2>2. Fetched(s)' + Unparsed(s)' + Stored(s)' <= state'.discovered[s]
    BY <1>4, <2>1
  <2> QED
    BY <1>1, <1>4, <1>7, <2>1, <2>2 DEF SourceCounted
<1>8. CountedInv'
  <2>1. \A s \in Sources : SourceCounted(s)'
    BY <1>6, <1>7
  <2>2. exec'.pc = "raised" =>
          \A s, t \in Sources : Stored(s)' # Counting(s)' /\ Stored(t)' # Counting(t)' => s = t
    BY <1>1, <1>7 DEF mine
  <2> QED
    BY <2>1, <2>2 DEF CountedInv
<1> QED
  BY <1>1, <1>8 DEF ExecutionInv

LEMMA ParseErrorInv ==
  ASSUME ExecutionInv, NEW o \in Outcomes, MarkParseError(o)
  PROVE  ExecutionInv'
<1>1. /\ SettlePosting("parse_error", o) /\ state \in ProviderExecutionState
      /\ state' = IF Returns(o) THEN [state EXCEPT !.had_parse_error = TRUE] ELSE state
  BY DEF MarkParseError, ExecutionInv, ExecutionTypeOK
<1>2. /\ state' \in ProviderExecutionState /\ state'.failures = state.failures
      /\ state'.source_stats = state.source_stats /\ state'.discovered = state.discovered
      /\ state'.possibly_incomplete = state.possibly_incomplete
      /\ state'.inserted = state.inserted /\ state'.updated = state.updated
  BY <1>1 DEF ProviderExecutionState
<1>3. ASSUME NEW s \in Sources PROVE Counting(s)' = Counting(s) /\ Counting(s) \in Nat
  BY <1>2, CountsType DEF Counting, ExecutionInv
<1>4. \A s \in Sources : Counting(s)' = Counting(s) +
        One(/\ Returns(o) /\ "parse_error" # "parse_error"
            /\ exec.jobs[exec.next].source = s)
  BY <1>3 DEF One
<1> QED
  BY <1>1, <1>2, <1>4, SettleInv

\* What counting an outcome does to the state.
LEMMA CountedState ==
  ASSUME ExecutionTypeOK, Answered, NEW kind \in UpsertKind,
         exec.next \in DOMAIN exec.jobs, state' = Counted(kind)
  PROVE  /\ state' \in ProviderExecutionState /\ state'.failures = state.failures
         /\ state'.source_stats = state.source_stats /\ state'.discovered = state.discovered
         /\ state'.possibly_incomplete = state.possibly_incomplete
         /\ state'.had_parse_error = state.had_parse_error
         /\ state'.had_conflict = (state.had_conflict \/ kind \in Conflicting)
         /\ \A s \in Sources :
              Counting(s)' = Counting(s) + One(exec.jobs[exec.next].source = s)
<1> DEFINE t == exec.jobs[exec.next].source
           i == IF kind \in {"INSERTED", "AMBIGUOUS"} THEN 1 ELSE 0
           u == IF kind \in {"INSERTED", "AMBIGUOUS"} THEN 0 ELSE 1
<1>1. state \in ProviderExecutionState /\ t \in Sources
  <2>1. exec.jobs \in Seq(DiscoveredJob)
    BY DEF ExecutionTypeOK, Execution
  <2>2. exec.jobs[exec.next] \in DiscoveredJob
    BY <2>1
  <2> QED
    BY <2>2 DEF ExecutionTypeOK, DiscoveredJob
<1>2. state.inserted \in [Sources -> Nat] /\ state.updated \in [Sources -> Nat]
  BY <1>1 DEF ProviderExecutionState, Counters
<1>3. state' = [state EXCEPT !.inserted = [state.inserted EXCEPT ![t] = @ + i],
                             !.updated = [state.updated EXCEPT ![t] = @ + u],
                             !.had_conflict = @ \/ kind \in Conflicting]
  BY DEF Counted
<1>4. i \in Nat /\ u \in Nat /\ i + u = 1
  OBVIOUS
<1> HIDE DEF t, i, u
<1>5. /\ [state.inserted EXCEPT ![t] = @ + i] \in Counters
      /\ [state.updated EXCEPT ![t] = @ + u] \in Counters
  BY <1>1, <1>2, <1>4 DEF Counters
<1>6. /\ state'.failures = state.failures
      /\ state'.source_stats = state.source_stats /\ state'.discovered = state.discovered
      /\ state'.possibly_incomplete = state.possibly_incomplete
      /\ state'.had_parse_error = state.had_parse_error
      /\ state'.had_conflict = (state.had_conflict \/ kind \in Conflicting)
      /\ state'.inserted = [state.inserted EXCEPT ![t] = @ + i]
      /\ state'.updated = [state.updated EXCEPT ![t] = @ + u]
  BY <1>1, <1>3 DEF ProviderExecutionState
<1>7. state' \in ProviderExecutionState
  BY <1>1, <1>3, <1>5 DEF ProviderExecutionState
<1>8. ASSUME NEW s \in Sources
      PROVE  Counting(s)' = Counting(s) + One(t = s)
  <2>1. state.inserted[s] \in Nat /\ state.updated[s] \in Nat
    BY <1>2
  <2>2. CASE t = s
    BY <1>1, <1>2, <1>4, <1>6, <2>1, <2>2 DEF Counting, One
  <2>3. CASE t # s
    BY <1>1, <1>2, <1>6, <2>1, <2>3 DEF Counting, One
  <2> QED
    BY <2>2, <2>3
<1> QED
  BY <1>6, <1>7, <1>8 DEF t

LEMMA PersistInv ==
  ASSUME ExecutionInv, NEW kind \in UpsertKind, NEW o \in Outcomes, PersistPosting(kind, o)
  PROVE  ExecutionInv'
<1> DEFINE status == IF kind \in Conflicting THEN "identity_conflict" ELSE "normalized"
<1>1. /\ SettlePosting(status, o) /\ exec.pc = "persist"
      /\ state' = IF Returns(o) THEN Counted(kind) ELSE state
  BY DEF PersistPosting, SettlePosting
<1>2. /\ ExecutionTypeOK /\ Answered /\ state \in ProviderExecutionState
      /\ exec.next \in DOMAIN exec.jobs
  BY <1>1 DEF ExecutionInv, PhaseInv, ExecutionTypeOK, Execution
<1>3. /\ status \in {"parse_error", "normalized", "identity_conflict"}
      /\ status # "parse_error"
  OBVIOUS
<1> HIDE DEF status
<1>4. CASE Returns(o)
  BY <1>1, <1>2, <1>3, <1>4, CountedState, SettleInv DEF One
<1>5. CASE ~Returns(o)
  <2>1. \A s \in Sources : Counting(s)' = Counting(s) /\ Counting(s) \in Nat
    BY <1>1, <1>2, <1>5, CountsType DEF Counting
  <2> QED
    BY <1>1, <1>2, <1>3, <1>5, <2>1, SettleInv DEF One
<1> QED
  BY <1>4, <1>5

LEMMA ExecutionStepInv ==
  ASSUME ExecutionInv, ExecutionStep
  PROVE  ExecutionInv'
<1>1. ASSUME NEW result \in Results, Discover(result) PROVE ExecutionInv'
  BY <1>1, DiscoverInv
<1>2. CASE DiscoverRaises
  BY <1>2, DiscoverRaisesInv
<1>3. ASSUME NEW o \in Outcomes, WriteFetchedRow(o) PROVE ExecutionInv'
  BY <1>3, WriteInv
<1>4. ASSUME NEW o \in Outcomes, MarkParseError(o) PROVE ExecutionInv'
  BY <1>4, ParseErrorInv
<1>5. ASSUME NEW o \in Outcomes, NEW kind \in UpsertKind, PersistPosting(kind, o)
      PROVE  ExecutionInv'
  BY <1>5, PersistInv
<1> QED
  BY <1>1, <1>2, <1>3, <1>4, <1>5 DEF ExecutionStep

\* Every step goes on with the execution it is in and writes at most one row,
\* of the provider in flight.
LEMMA ExecutionStepShape ==
  ASSUME ExecutionInv, ExecutionStep
  PROVE  /\ exec'.provider = exec.provider /\ exec'.sources = exec.sources
         /\ exec.pc \in {"discover", "write", "persist"} /\ exec'.pc # "idle"
         /\ \/ raws' = raws
            \/ \E row \in RawRow : row.provider = exec.provider /\ raws' = Append(raws, row)
            \/ \E k \in DOMAIN raws :
                 /\ DOMAIN raws' = DOMAIN raws
                 /\ raws[k].provider = exec.provider /\ raws'[k].provider = exec.provider
                 /\ \A i \in DOMAIN raws : i # k => raws'[i] = raws[i]
<1> DEFINE Wrote ==
         \/ raws' = raws
         \/ \E row \in RawRow : row.provider = exec.provider /\ raws' = Append(raws, row)
         \/ \E k \in DOMAIN raws :
              /\ DOMAIN raws' = DOMAIN raws
              /\ raws[k].provider = exec.provider /\ raws'[k].provider = exec.provider
              /\ \A i \in DOMAIN raws : i # k => raws'[i] = raws[i]
    Same == exec'.provider = exec.provider /\ exec'.sources = exec.sources
    Going == exec.pc \in {"discover", "write", "persist"} /\ exec'.pc # "idle"
<1>0. /\ exec \in Execution /\ raws \in Seq(RawRow)
      /\ exec.pc \in {"write", "persist"} => Answered
  BY DEF ExecutionInv, ExecutionTypeOK, PhaseInv
<1>1. ASSUME NEW result \in Results, Discover(result) PROVE Same /\ Going /\ Wrote
  BY <1>0, <1>1 DEF Discover, Step, Execution
<1>2. CASE DiscoverRaises
  BY <1>0, <1>2 DEF DiscoverRaises, Step, Execution
<1>3. ASSUME NEW o \in Outcomes, WriteFetchedRow(o) PROVE Same /\ Going /\ Wrote
  <2> DEFINE n == Len(exec.raw_ids) + 1
  <2>1. /\ exec.pc = "write"
        /\ raws' = IF Commits(o) THEN Append(raws, FetchedRow(exec.jobs[n])) ELSE raws
    BY <1>3 DEF WriteFetchedRow, FetchedRow
  <2>2. Same /\ Going
    BY <1>0, <1>3 DEF WriteFetchedRow, Execution
  <2>3. n \in DOMAIN exec.jobs
    BY <1>0, <2>1 DEF ExecutionInv, PhaseInv, Execution
  <2>4. exec.jobs[n] \in DiscoveredJob /\ exec.jobs[n].provider = exec.provider
    BY <1>0, <2>1, <2>3, AnsweredFacts DEF Execution, ExecutionInv
  <2>5. /\ FetchedRow(exec.jobs[n]) \in RawRow
        /\ FetchedRow(exec.jobs[n]).provider = exec.provider
    BY <2>4 DEF FetchedRow, RawRow, DiscoveredJob
  <2> QED
    BY <2>1, <2>2, <2>5
<1>4. ASSUME NEW o \in Outcomes, NEW status \in {"parse_error", "normalized", "identity_conflict"},
             SettlePosting(status, o)
      PROVE  Same /\ Going /\ Wrote
  <2> DEFINE k == exec.raw_ids[exec.next]
  <2>1. /\ exec.pc = "persist"
        /\ raws' = IF Commits(o) THEN [raws EXCEPT ![k].status = status] ELSE raws
    BY <1>4 DEF SettlePosting
  <2>2. Same /\ Going
    BY <1>0, <1>4 DEF SettlePosting, Execution
  <2>3. exec.next \in DOMAIN exec.raw_ids /\ OwnRows
    BY <1>0, <2>1 DEF ExecutionInv, PhaseInv, Execution
  <2>4. k \in DOMAIN raws /\ raws[k].provider = exec.provider
    BY <2>3 DEF OwnRows
  <2> HIDE DEF k
  <2>5. /\ [raws[k] EXCEPT !.status = status].provider = exec.provider
        /\ DOMAIN [raws EXCEPT ![k].status = status] = DOMAIN raws
    <3>1. raws[k] \in RawRow
      BY <1>0, <2>4
    <3> QED
      BY <2>4, <3>1, SettledRow
  <2>6. CASE Commits(o)
    BY <2>1, <2>2, <2>4, <2>5, <2>6
  <2>7. CASE ~Commits(o)
    BY <2>1, <2>2, <2>7
  <2> QED
    BY <2>6, <2>7
<1>5. ASSUME NEW o \in Outcomes, MarkParseError(o) PROVE Same /\ Going /\ Wrote
  <2>1. SettlePosting("parse_error", o)
    BY <1>5 DEF MarkParseError
  <2> HIDE DEF Same, Going, Wrote
  <2> QED
    BY <2>1, <1>4
<1>6. ASSUME NEW o \in Outcomes, NEW kind \in UpsertKind, PersistPosting(kind, o)
      PROVE  Same /\ Going /\ Wrote
  <2>1. \E status \in {"parse_error", "normalized", "identity_conflict"} : SettlePosting(status, o)
    BY <1>6 DEF PersistPosting
  <2> HIDE DEF Same, Going, Wrote
  <2> QED
    BY <2>1, <1>4
<1>7. Same /\ Going /\ Wrote
  <2> HIDE DEF Same, Going, Wrote
  <2>1. DiscoverRaises => Same /\ Going /\ Wrote
    BY <1>2 DEF Same, Going, Wrote
  <2> QED
    BY <1>1, <2>1, <1>3, <1>5, <1>6 DEF ExecutionStep
<1> QED
  BY <1>7

\* The rows of every other provider are as they were.
LEMMA OthersKept ==
  ASSUME ExecutionInv, ExecutionStep, NEW q, q # exec.provider
  PROVE  /\ NoRows(q) => NoRows(q)'
         /\ \A s, T : RowsOf(raws', q, s, T) = RowsOf(raws, q, s, T)
<1>0. raws \in Seq(RawRow) /\ raws' \in Seq(RawRow)
  BY ExecutionStepInv DEF ExecutionInv, ExecutionTypeOK
<1>1. CASE raws' = raws
  BY <1>1 DEF NoRows
<1>2. ASSUME NEW row \in RawRow, row.provider = exec.provider, raws' = Append(raws, row)
      PROVE  /\ NoRows(q) => NoRows(q)'
             /\ \A s, T : RowsOf(raws', q, s, T) = RowsOf(raws, q, s, T)
  <2>1. NoRows(q) => NoRows(q)'
    BY <1>0, <1>2 DEF NoRows
  <2>2. \A s, T : RowsOf(raws', q, s, T) = RowsOf(raws, q, s, T)
    <3> TAKE s, T
    <3>1. One(CountsAs(row, q, s, T)) = 0
      BY <1>2 DEF One, CountsAs
    <3> QED
      BY <1>0, <1>2, <3>1, RowsAppend, RowsType
  <2> QED
    BY <2>1, <2>2
<1>3. ASSUME NEW k \in DOMAIN raws, DOMAIN raws' = DOMAIN raws,
             raws[k].provider = exec.provider, raws'[k].provider = exec.provider,
             \A i \in DOMAIN raws : i # k => raws'[i] = raws[i]
      PROVE  /\ NoRows(q) => NoRows(q)'
             /\ \A s, T : RowsOf(raws', q, s, T) = RowsOf(raws, q, s, T)
  <2>1. NoRows(q) => NoRows(q)'
    BY <1>3 DEF NoRows
  <2>2. \A s, T : RowsOf(raws', q, s, T) = RowsOf(raws, q, s, T)
    <3> TAKE s, T
    <3> DEFINE r == raws'
    <3>1. One(CountsAs(raws[k], q, s, T)) = 0 /\ One(CountsAs(r[k], q, s, T)) = 0
      BY <1>3 DEF One, CountsAs
    <3>2. /\ DOMAIN r = DOMAIN raws /\ r \in Seq(RawRow)
          /\ \A i \in DOMAIN raws : i # k => r[i] = raws[i]
      BY <1>0, <1>3
    <3> HIDE DEF r
    <3>3. RowsOf(r, q, s, T) + One(CountsAs(raws[k], q, s, T)) =
            RowsOf(raws, q, s, T) + One(CountsAs(r[k], q, s, T))
      BY <1>0, <3>2, RowsSettle
    <3>4. RowsOf(r, q, s, T) = RowsOf(raws, q, s, T)
      BY <1>0, <3>1, <3>2, <3>3, RowsType
    <3> QED
      BY <3>4 DEF r
  <2> QED
    BY <2>1, <2>2
<1> QED
  BY <1>1, <1>2, <1>3, ExecutionStepShape

\* A row that is not as it should be is told by the state.
LEMMA ExecutionCleanStep ==
  ASSUME ExecutionInv, ExecutionClean, ExecutionStep
  PROVE  ExecutionClean'
<1>0. /\ exec \in Execution /\ raws \in Seq(RawRow) /\ state \in ProviderExecutionState
      /\ exec.raw_ids \in Seq(Nat)
  BY DEF ExecutionInv, ExecutionTypeOK, Execution
<1>1. CASE exec'.pc = "raised"
  BY <1>1 DEF ExecutionClean
<1>2. ASSUME exec'.pc # "raised", NEW result \in Results, Discover(result)
      PROVE  ExecutionClean'
  <2>1. /\ exec.pc = "discover" /\ raws' = raws
        /\ state'.had_parse_error = state.had_parse_error
        /\ state'.had_conflict = state.had_conflict
    BY <1>0, <1>2 DEF Discover, ProviderExecutionState
  <2> QED
    BY <2>1 DEF ExecutionClean
<1>3. ASSUME exec'.pc # "raised", NEW o \in Outcomes, WriteFetchedRow(o)
      PROVE  ExecutionClean'
  <2> DEFINE n == Len(exec.raw_ids) + 1
             ids == Append(exec.raw_ids, Len(raws) + 1)
             row == FetchedRow(exec.jobs[n])
  <2>1. /\ exec.pc = "write" /\ state' = state /\ Returns(o) /\ exec.next = 1
        /\ raws' = Append(raws, row) /\ exec'.pc \in {"write", "persist"}
        /\ exec'.raw_ids = ids /\ exec'.next = 1
    <3>1. Returns(o) /\ Commits(o)
      BY <1>0, <1>3 DEF WriteFetchedRow, Execution, Returns, Commits
    <3>2. exec.pc = "write" /\ exec.next = 1
      BY <1>3 DEF WriteFetchedRow, ExecutionInv, PhaseInv
    <3> QED
      BY <1>0, <1>3, <3>1, <3>2 DEF WriteFetchedRow, Execution, FetchedRow
  <2>2. /\ DOMAIN raws' = DOMAIN raws \cup {Len(raws) + 1}
        /\ \A k \in DOMAIN raws : raws'[k] = raws[k]
    BY <2>1, <1>0
  <2>3. /\ DOMAIN ids = DOMAIN exec.raw_ids \cup {n} /\ n >= 1
        /\ \A i \in DOMAIN exec.raw_ids : ids[i] = exec.raw_ids[i]
        /\ ids[n] = Len(raws) + 1
    BY <1>0
  <2> HIDE DEF ids, n, row
  <2>4. SUFFICES ASSUME ~state.had_parse_error, ~state.had_conflict, NEW k \in DOMAIN raws'
                 PROVE  \/ raws'[k].status = "normalized"
                        \/ \E i \in DOMAIN ids : i >= 1 /\ ids[i] = k
    BY <2>1 DEF ExecutionClean
  <2>5. CASE k = Len(raws) + 1
    BY <2>3, <2>5
  <2>6. CASE k \in DOMAIN raws
    BY <2>1, <2>2, <2>3, <2>4, <2>6 DEF ExecutionClean
  <2> QED
    BY <2>2, <2>5, <2>6
<1>4. ASSUME exec'.pc # "raised", NEW o \in Outcomes, MarkParseError(o)
      PROVE  ExecutionClean'
  <2>1. Returns(o)
    BY <1>0, <1>4 DEF MarkParseError, SettlePosting, Execution
  <2>2. state'.had_parse_error = TRUE
    BY <1>0, <1>4, <2>1 DEF MarkParseError, ProviderExecutionState
  <2> QED
    BY <2>2 DEF ExecutionClean
<1>5. ASSUME exec'.pc # "raised", NEW o \in Outcomes, NEW kind \in UpsertKind,
             PersistPosting(kind, o)
      PROVE  ExecutionClean'
  <2> DEFINE status == IF kind \in Conflicting THEN "identity_conflict" ELSE "normalized"
             k == exec.raw_ids[exec.next]
  <2>1. Returns(o) /\ Commits(o) /\ exec.pc = "persist"
    BY <1>0, <1>5 DEF PersistPosting, SettlePosting, Execution, Returns, Commits
  <2>2. /\ SettlePosting(status, o) /\ state' = Counted(kind) /\ Answered /\ OwnRows
        /\ raws' = [raws EXCEPT ![k].status = status]
        /\ exec.next \in DOMAIN exec.jobs /\ exec.next \in DOMAIN exec.raw_ids
        /\ Len(exec.raw_ids) = Len(exec.jobs)
    <3>1. SettlePosting(status, o) /\ state' = Counted(kind)
      BY <1>5, <2>1 DEF PersistPosting
    <3>2. raws' = [raws EXCEPT ![k].status = status]
      BY <2>1, <3>1 DEF SettlePosting
    <3> QED
      BY <1>0, <2>1, <3>1, <3>2 DEF ExecutionInv, PhaseInv, Execution
  <2>3. /\ state' \in ProviderExecutionState /\ state'.failures = state.failures
        /\ state'.source_stats = state.source_stats /\ state'.discovered = state.discovered
        /\ state'.possibly_incomplete = state.possibly_incomplete
        /\ state'.had_parse_error = state.had_parse_error
        /\ state'.had_conflict = (state.had_conflict \/ kind \in Conflicting)
    BY <2>2, CountedState DEF ExecutionInv
  <2>4. status \in {"parse_error", "normalized", "identity_conflict"}
    OBVIOUS
  <2>5. /\ exec'.next = (IF exec.next # Len(exec.jobs) THEN exec.next + 1 ELSE exec.next)
        /\ exec'.pc = (IF exec.next = Len(exec.jobs) THEN "done" ELSE "persist")
        /\ exec'.raw_ids = exec.raw_ids
    <3> HIDE DEF status
    <3> QED
      BY <2>1, <2>2, <2>3, <2>4, SettlePhase
  <2>6. k \in DOMAIN raws
    BY <2>2 DEF OwnRows
  <2>7. /\ DOMAIN raws' = DOMAIN raws /\ raws'[k].status = status
        /\ \A j \in DOMAIN raws : j # k => raws'[j] = raws[j]
    <3>1. raws[k] \in RawRow
      BY <1>0, <2>6
    <3>2. [raws[k] EXCEPT !.status = status].status = status
      BY <3>1 DEF RawRow
    <3> HIDE DEF k, status
    <3> QED
      BY <1>0, <2>2, <2>6, <3>2
  <2>8. SUFFICES ASSUME ~state'.had_parse_error, ~state'.had_conflict, NEW j \in DOMAIN raws'
                 PROVE  \/ raws'[j].status = "normalized"
                        \/ /\ exec'.pc \in {"write", "persist"}
                           /\ \E i \in DOMAIN exec'.raw_ids : /\ i >= exec'.next
                                                              /\ exec'.raw_ids[i] = j
    BY DEF ExecutionClean
  <2>9. CASE j = k
    BY <2>3, <2>7, <2>8, <2>9
  <2>10. CASE j # k
    <3>1. CASE raws[j].status = "normalized"
      BY <2>7, <2>8, <2>10, <3>1
    <3>2. CASE raws[j].status # "normalized"
      <4>1. PICK i \in DOMAIN exec.raw_ids : i >= exec.next /\ exec.raw_ids[i] = j
        BY <2>1, <2>3, <2>7, <2>8, <3>2 DEF ExecutionClean
      <4>2. i # exec.next
        BY <4>1, <2>10
      <4>3. i \in Nat /\ exec.next \in Nat /\ i <= Len(exec.jobs) /\ Len(exec.jobs) \in Nat
        <5>1. DOMAIN exec.raw_ids = 1..Len(exec.raw_ids) /\ Len(exec.raw_ids) \in Nat
          BY <1>0
        <5> QED
          BY <5>1, <2>2
      <4>4. i >= exec.next + 1 /\ exec.next # Len(exec.jobs)
        BY <4>1, <4>2, <4>3
      <4> QED
        BY <2>5, <4>1, <4>4
    <3> QED
      BY <3>1, <3>2
  <2> QED
    BY <2>9, <2>10
<1>6. DiscoverRaises => exec'.pc = "raised"
  BY <1>0 DEF DiscoverRaises, Step, Execution
<1> QED
  BY <1>1, <1>2, <1>3, <1>4, <1>5, <1>6 DEF ExecutionStep

-----------------------------------------------------------------------------
(***************************************************************************)
(* What the callers read of an execution that came to an end.              *)
(***************************************************************************)
\* The latest of a source's errors is one of them.
LEMMA LatestError ==
  ASSUME NEW failures \in Seq(ProviderError), NEW s
  PROVE  LET mine == {i \in DOMAIN failures : failures[i].source = s}
         IN  /\ mine = {} => selected_error(failures, s) = None
             /\ mine # {} => selected_error(failures, s) \in ProviderError
<1> DEFINE mine == {i \in DOMAIN failures : failures[i].source = s}
           later(i, j) == \/ failures[i].occurred_at > failures[j].occurred_at
                          \/ /\ failures[i].occurred_at = failures[j].occurred_at
                             /\ i >= j
           From(i) == {j \in mine : later(j, i)}
<1>1. /\ IsFiniteSet(mine)
      /\ \A i \in mine : /\ i \in Nat /\ failures[i] \in ProviderError
                         /\ failures[i].occurred_at \in Nat
  <2>1. \A i \in mine : i \in Nat /\ failures[i] \in ProviderError
    OBVIOUS
  <2>2. IsFiniteSet(mine)
    BY PositionsFinite
  <2> QED
    BY <2>1, <2>2 DEF ProviderError
<1>2. /\ mine = {} => selected_error(failures, s) = None
      /\ mine # {} => selected_error(failures, s) =
                        failures[CHOOSE i \in mine : \A j \in mine : later(i, j)]
  BY DEF selected_error
<1> HIDE DEF mine
<1>3. ASSUME mine # {} PROVE \E i \in mine : \A j \in mine : later(i, j)
  <2> DEFINE T == {From(i) : i \in mine}
  <2>1. T \subseteq SUBSET mine /\ T # {}
    BY <1>3
  <2> HIDE DEF T
  <2>2. PICK x \in T : \A y \in T : y \subseteq x => y = x
    BY <1>1, <2>1, LeastSubset
  <2>3. PICK i \in mine : x = From(i)
    BY DEF T
  <2>4. ASSUME NEW j \in mine PROVE later(i, j)
    <3>1. later(i, j) \/ later(j, i)
      BY <1>1
    <3>2. ASSUME later(j, i) PROVE From(j) \subseteq From(i)
      BY <1>1, <3>2
    <3>3. i \in From(i)
      BY <1>1
    <3>4. From(j) \in T
      BY DEF T
    <3> QED
      BY <2>2, <2>3, <3>1, <3>2, <3>3, <3>4
  <2> QED
    BY <2>4
<1>4. ASSUME mine # {} PROVE selected_error(failures, s) \in ProviderError
  <2>1. (CHOOSE i \in mine : \A j \in mine : later(i, j)) \in mine
    BY <1>3, <1>4
  <2> QED
    BY <1>1, <1>2, <1>4, <2>1
<1> QED
  BY <1>2, <1>4 DEF mine

\* A settled row of an execution that came to its end.
LEMMA FinalizedFacts ==
  ASSUME ExecutionInv, exec.pc = "done", NEW s \in exec.sources
  PROVE  /\ Finalized(s) \in Attempt /\ Finalized(s) # None
         /\ Finalized(s).status # "running" /\ Finalized(s).error # AbortError
         /\ Finalized(s).discovered = state.discovered[s]
         /\ Finalized(s).inserted = state.inserted[s]
         /\ Finalized(s).updated = state.updated[s]
         /\ ~state.possibly_incomplete => /\ Finalized(s).status = "completed"
                                          /\ Finalized(s).error = None
<1> DEFINE error == selected_error(state.failures, s)
           stat == state.source_stats[s]
<1>1. ExecutionTypeOK /\ Answered /\ s \in Sources
  BY DEF ExecutionInv, PhaseInv, ExecutionTypeOK, Execution
<1>2. /\ stat \in SourceRunStats
      /\ ~state.possibly_incomplete =>
           state.failures = <<>> /\ stat.completed /\ ~stat.incomplete_results
  BY <1>1, AnsweredFacts
<1>3. state.failures \in Seq(ProviderError)
  BY <1>1 DEF ExecutionTypeOK, ProviderExecutionState
<1>4. error \in ProviderError \cup {None}
  BY <1>3, LatestError
<1>5. state.failures = <<>> => error = None
  <2>1. state.failures = <<>> => {i \in DOMAIN state.failures : state.failures[i].source = s} = {}
    OBVIOUS
  <2> QED
    BY <2>1, <1>3, LatestError
<1>6. error # AbortError
  BY <1>4, NullAssumption, ResultAssumption DEF ProviderError, AbortError
<1>7. /\ stat.completed \in BOOLEAN /\ stat.incomplete_results \in BOOLEAN
  BY <1>2 DEF SourceRunStats
<1>8. /\ resolve_attempt_status(stat) \in {"completed", "partial", "failed"}
      /\ stat.completed /\ ~stat.incomplete_results =>
           resolve_attempt_status(stat) = "completed"
  BY <1>7 DEF resolve_attempt_status
<1>9. /\ state.inserted[s] \in Nat /\ state.updated[s] \in Nat
      /\ state.discovered[s] \in Nat
  BY <1>1, CountsType
<1>10. Finalized(s) = [status |-> resolve_attempt_status(stat),
                       discovered |-> state.discovered[s],
                       inserted |-> state.inserted[s], updated |-> state.updated[s],
                       incomplete_results |-> stat.incomplete_results, error |-> error]
  BY DEF Finalized
<1> HIDE DEF error, stat
<1>11. Finalized(s) \in Attempt
  BY <1>4, <1>7, <1>8, <1>9, <1>10 DEF Attempt
<1> QED
  BY <1>2, <1>5, <1>6, <1>8, <1>10, <1>11, NullAssumption

\* Nothing is counted of a source the execution was not asked for.
LEMMA OnlyOwnSources ==
  ASSUME ExecutionInv, exec.pc \in {"raised", "done"}, NEW s \in Sources \ exec.sources
  PROVE  state.discovered[s] = 0 /\ state.inserted[s] = 0 /\ state.updated[s] = 0
<1>1. ExecutionTypeOK
  BY DEF ExecutionInv
<1>2. CASE Answered
  <2>1. \A i \in DOMAIN exec.jobs : exec.jobs[i].source # s
    BY <1>1, <1>2, AnsweredFacts
  <2>2. exec.jobs \in Seq(DiscoveredJob)
    BY <1>1 DEF ExecutionTypeOK, Execution
  <2>3. state.discovered[s] = 0
    BY <1>1, <1>2, <2>1, <2>2, AnsweredFacts, JobsEnds
  <2>4. /\ Stored(s) = Counting(s) \/ Stored(s) = Counting(s) + 1
        /\ Fetched(s) + Unparsed(s) + Stored(s) <= state.discovered[s]
    <3>1. SourceCounted(s)
      BY DEF ExecutionInv, CountedInv
    <3>2. Fetched(s) \in Nat /\ Unparsed(s) \in Nat /\ Stored(s) \in Nat
      BY <1>1, CountsType
    <3> QED
      BY <3>1, <3>2 DEF SourceCounted
  <2>5. /\ Fetched(s) \in Nat /\ Unparsed(s) \in Nat /\ Stored(s) \in Nat
        /\ state.inserted[s] \in Nat /\ state.updated[s] \in Nat
    BY <1>1, CountsType
  <2>6. Counting(s) = state.inserted[s] + state.updated[s]
    BY DEF Counting
  <2>7. Stored(s) = 0
    BY <2>3, <2>4, <2>5
  <2>8. Counting(s) = 0
    BY <2>4, <2>5, <2>6, <2>7
  <2> QED
    BY <2>3, <2>5, <2>6, <2>8
<1>3. CASE ~Answered
  <2>1. state = NewState
    BY <1>3 DEF ExecutionInv, PhaseInv
  <2> QED
    BY <2>1 DEF NewState, Zero
<1> QED
  BY <1>2, <1>3

\* So its sums are those over the sources it was asked for.
LEMMA SumOwn ==
  ASSUME NEW S \in SUBSET Sources, NEW c \in [Sources -> Nat], \A s \in Sources \ S : c[s] = 0
  PROVE  Sum(c) = SumFunctionOnSet(c, S)
<1>1. IsFiniteSet(S) /\ IsFiniteSet(Sources \ S)
  BY FS_Subset, ResultAssumption
<1>2. SumFunctionOnSet(c, Sources \ S) = 0
  BY <1>1, SumZero
<1>3. SumFunctionOnSet(c, S) \in Nat
  BY <1>1, SumType
<1>4. (Sources \ S) \cup S = Sources /\ (Sources \ S) \cap S = {}
  OBVIOUS
<1>5. SumFunctionOnSet(c, (Sources \ S) \cup S) =
        SumFunctionOnSet(c, Sources \ S) + SumFunctionOnSet(c, S)
  BY <1>1, <1>4, SumUnion
<1>6. SumFunctionOnSet(c, (Sources \ S) \cup S) = SumFunctionOnSet(c, Sources)
  BY <1>4
<1> QED
  BY <1>2, <1>3, <1>5, <1>6 DEF Sum

\* How far the counters of the provider in flight may be from its rows when it is
\* cut short.
LEMMA CutShort ==
  ASSUME ExecutionInv, exec.pc \in {"raised", "done"}
  PROVE  /\ \A s \in Sources :
              /\ Counting(s) <= Stored(s)
              /\ state.discovered[s] >=
                   RawsOf(exec.provider, s, {"fetched", "parse_error", "normalized",
                                             "identity_conflict"})
         /\ \A s, t \in Sources : Counting(s) < Stored(s) =>
              /\ Counting(s) = Stored(s) - 1
              /\ Counting(t) < Stored(t) => t = s
<1>1. \A s \in Sources :
        /\ Fetched(s) \in Nat /\ Unparsed(s) \in Nat /\ Stored(s) \in Nat
        /\ Counting(s) \in Nat /\ state.discovered[s] \in Nat
  BY CountsType DEF ExecutionInv
<1>2. ASSUME NEW s \in Sources
      PROVE  RawsOf(exec.provider, s, {"fetched", "parse_error", "normalized",
                                       "identity_conflict"}) =
               Fetched(s) + (Unparsed(s) + Stored(s))
  <2> DEFINE B == {"normalized", "identity_conflict"}
             A == {"parse_error"} \cup B
             R(T) == RowsOf(raws, exec.provider, s, T)
  <2>1. raws \in Seq(RawRow)
    BY DEF ExecutionInv, ExecutionTypeOK
  <2>2. {"parse_error"} \cap B = {} /\ {"fetched"} \cap A = {}
    OBVIOUS
  <2>3. {"fetched", "parse_error", "normalized", "identity_conflict"} = {"fetched"} \cup A
    OBVIOUS
  <2>4. Stored(s) = R(B) /\ Fetched(s) = R({"fetched"}) /\ Unparsed(s) = R({"parse_error"})
    BY RawsOfRows DEF Fetched, Unparsed, Stored
  <2>5. A = {"parse_error"} \cup B
    OBVIOUS
  <2> HIDE DEF A, B
  <2>6. RowsOf(raws, exec.provider, s, {"fetched"} \cup A) = R({"fetched"}) + R(A)
    BY <2>1, <2>2, RowsUnion
  <2>7. RowsOf(raws, exec.provider, s, {"parse_error"} \cup B) = R({"parse_error"}) + R(B)
    BY <2>1, <2>2, RowsUnion
  <2>8. R(A) = R({"parse_error"}) + R(B)
    BY <2>5, <2>7
  <2> QED
    BY <2>3, <2>4, <2>6, <2>8, RawsOfRows
<1>3. \A s \in Sources :
        /\ Stored(s) = Counting(s) \/ Stored(s) = Counting(s) + 1
        /\ Fetched(s) + Unparsed(s) + Stored(s) <= state.discovered[s]
  <2> TAKE s \in Sources
  <2>1. SourceCounted(s)
    BY DEF ExecutionInv, CountedInv
  <2> QED
    BY <1>1, <2>1 DEF SourceCounted
<1>4. \A s, t \in Sources : Stored(s) # Counting(s) /\ Stored(t) # Counting(t) => s = t
  <2>1. CASE exec.pc = "raised"
    BY <2>1 DEF ExecutionInv, CountedInv
  <2>2. CASE exec.pc = "done"
    BY <2>2 DEF ExecutionInv, CountedInv, SourceCounted
  <2> QED
    BY <2>1, <2>2
<1>5. \A s \in Sources :
        /\ Counting(s) <= Stored(s)
        /\ state.discovered[s] >= Fetched(s) + (Unparsed(s) + Stored(s))
        /\ Counting(s) < Stored(s) => Counting(s) = Stored(s) - 1 /\ Stored(s) # Counting(s)
  BY <1>1, <1>3
<1> QED
  BY <1>2, <1>4, <1>5

-----------------------------------------------------------------------------
(***************************************************************************)
(* The attempt rows of a run, as the contract of its readers sees them.    *)
(***************************************************************************)
\* The rows of attempts, as a reader of the run sees them.
Views(ids, rows) == [a \in ids |-> IF rows[a] = None THEN None
                                   ELSE StatusAndCounts(rows[a])]

LEMMA ViewFacts ==
  ASSUME NEW ids, NEW rows \in [ids -> Attempt \cup {None}], NEW a \in ids
  PROVE  /\ rows[a] = None => Views(ids, rows)[a] = None
         /\ rows[a] # None => /\ Views(ids, rows)[a] = StatusAndCounts(rows[a])
                              /\ Views(ids, rows)[a] # None
                              /\ Views(ids, rows)[a].status = rows[a].status
                              /\ Views(ids, rows)[a].counts = CountsOf(rows[a])
<1>1. Views(ids, rows)[a] = IF rows[a] = None THEN None ELSE StatusAndCounts(rows[a])
  BY DEF Views
<1>2. CASE rows[a] # None
  <2>1. rows[a] \in Attempt
    BY <1>2
  <2>2. /\ CountsOf(rows[a]) \in [discovered : Nat, inserted : Nat, updated : Nat]
        /\ rows[a].status \in {"running", "completed", "partial", "failed"}
    BY <2>1 DEF Attempt, CountsOf
  <2>3. StatusAndCounts(rows[a]) \in
          [status : {"running", "completed", "partial", "failed"},
           counts : [discovered : Nat, inserted : Nat, updated : Nat]]
    BY <2>2 DEF StatusAndCounts
  <2>4. StatusAndCounts(rows[a]) # None
    BY <2>3, NullAssumption
  <2> QED
    BY <1>1, <1>2, <2>4 DEF StatusAndCounts
<1> QED
  BY <1>1, <1>2

\* The sums of the rows C, of what a reader sees of them and of their columns.
ViewTotals(ids, rows, C) ==
    [f \in {"discovered", "inserted", "updated"} |->
       SumFunction([a \in C |-> Views(ids, rows)[a].counts[f]])]
ColumnTotals(rows, C) ==
    [discovered |-> SumFunction([a \in C |-> rows[a].discovered]),
     inserted   |-> SumFunction([a \in C |-> rows[a].inserted]),
     updated    |-> SumFunction([a \in C |-> rows[a].updated])]

\* They are the same.
LEMMA TotalsAgree ==
  ASSUME NEW ids, NEW rows \in [ids -> Attempt \cup {None}],
         NEW C, C = {a \in ids : rows[a] # None}
  PROVE  ViewTotals(ids, rows, C) = ColumnTotals(rows, C)
<1>1. \A a \in C : Views(ids, rows)[a].counts = CountsOf(rows[a])
  BY ViewFacts
<1>2. \A a \in C : /\ Views(ids, rows)[a].counts["discovered"] = rows[a].discovered
                   /\ Views(ids, rows)[a].counts["inserted"] = rows[a].inserted
                   /\ Views(ids, rows)[a].counts["updated"] = rows[a].updated
  <2>1. \A row : /\ CountsOf(row)["discovered"] = row.discovered
                 /\ CountsOf(row)["inserted"] = row.inserted
                 /\ CountsOf(row)["updated"] = row.updated
    BY DEF CountsOf
  <2> QED
    BY <1>1, <2>1
<1>3. [a \in C |-> Views(ids, rows)[a].counts["discovered"]] = [a \in C |-> rows[a].discovered]
  BY <1>2
<1>4. [a \in C |-> Views(ids, rows)[a].counts["inserted"]] = [a \in C |-> rows[a].inserted]
  BY <1>2
<1>5. [a \in C |-> Views(ids, rows)[a].counts["updated"]] = [a \in C |-> rows[a].updated]
  BY <1>2
<1> DEFINE T == ViewTotals(ids, rows, C)
<1>6. /\ T["discovered"] = SumFunction([a \in C |-> rows[a].discovered])
      /\ T["inserted"] = SumFunction([a \in C |-> rows[a].inserted])
      /\ T["updated"] = SumFunction([a \in C |-> rows[a].updated])
  BY <1>3, <1>4, <1>5 DEF ViewTotals
<1>7. DOMAIN T = {"discovered", "inserted", "updated"}
      /\ T = [f \in {"discovered", "inserted", "updated"} |-> T[f]]
  BY DEF ViewTotals
<1> HIDE DEF T
<1>8. T = [discovered |-> T["discovered"], inserted |-> T["inserted"],
           updated |-> T["updated"]]
  BY <1>7
<1> QED
  BY <1>6, <1>8 DEF T, ColumnTotals

=============================================================================
