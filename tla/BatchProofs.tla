------------------------------ MODULE BatchProofs ------------------------------
(***************************************************************************)
(* Proofs about Batch, for any configurations, images and command lines:   *)
(* what the preflight passes has an end, lies in the image and decodes to  *)
(* instructions that fill its code; the report adds up; the exit code      *)
(* tells what happened.  The folds of the model (lookups by segment,       *)
(* infer_specs, the linear decode) are unrolled into the runs of their     *)
(* turns (FoldTurns of RangeSetProofs), the sums of a ledger into those of *)
(* its rows.                                                               *)
(***************************************************************************)
EXTENDS Batch, RangeSetProofs, SequenceTheorems

---------------------------------------------------------------------------
(* Finite unions and sums over finite sets *)

\* The element that is taken first from s.
One(s) == CHOOSE x \in s : TRUE

\* Induction over the subsets of a finite set.
LEMMA SubsetInduction ==
  ASSUME NEW S, IsFiniteSet(S), NEW G, {} \in G,
         \A s \in SUBSET S : s # {} /\ s \ {One(s)} \in G => s \in G
  PROVE  \A s \in SUBSET S : s \in G
<1> DEFINE n == Cardinality(S)
           T == {k \in 0 .. n : \A s \in SUBSET S : Cardinality(s) = k => s \in G}
<1>1. n \in Nat
  BY FS_CardinalityType
<1>2. \A s \in SUBSET S : IsFiniteSet(s) /\ Cardinality(s) \in Nat /\ Cardinality(s) <= n
  BY FS_Subset, FS_CardinalityType
<1>3. \A s \in SUBSET S : Cardinality(s) = 0 => s = {}
  BY <1>2, FS_EmptySet
<1>4. Cardinality({}) = 0
  BY FS_EmptySet
<1>5. 0 \in T
  BY <1>1, <1>3
<1>6. ASSUME NEW k \in 1 .. n, k - 1 \in T
      PROVE  k \in T
  <2> SUFFICES ASSUME NEW s \in SUBSET S, Cardinality(s) = k PROVE s \in G
    BY <1>1
  <2>1. s # {}
    <3> SUFFICES ASSUME s = {} PROVE FALSE
      OBVIOUS
    <3>1. k = 0
      BY <1>4
    <3> QED
      BY <1>1, <3>1
  <2>2. One(s) \in s
    BY <2>1 DEF One
  <2>3. s \ {One(s)} \in SUBSET S /\ Cardinality(s \ {One(s)}) = k - 1
    BY <1>2, <2>2, FS_RemoveElement
  <2>4. s \ {One(s)} \in G
    BY <1>6, <2>3
  <2> QED
    BY <2>1, <2>4
<1>7. \A k \in 0 .. n : k \in T
  <2> HIDE DEF T
  <2> QED BY <1>1, <1>5, <1>6, CountUp
<1>8. \A s \in SUBSET S : Cardinality(s) \in 0 .. n
  BY <1>1, <1>2
<1> QED
  BY <1>7, <1>8

LEMMA UnionFinite ==
  ASSUME NEW X, IsFiniteSet(X), NEW F, \A x \in X : IsFiniteSet(F[x])
  PROVE  IsFiniteSet(UNION {F[x] : x \in X})
<1> DEFINE U(s) == UNION {F[x] : x \in s}
           G == {s \in SUBSET X : IsFiniteSet(U(s))}
<1>1. {} \in G
  <2>1. U({}) = {}
    OBVIOUS
  <2> QED
    BY <2>1, FS_EmptySet
<1>2. ASSUME NEW s \in SUBSET X, s # {}, s \ {One(s)} \in G
      PROVE  s \in G
  <2>1. One(s) \in s
    BY <1>2 DEF One
  <2>2. U(s) = U(s \ {One(s)}) \cup F[One(s)]
    BY <2>1
  <2>3. IsFiniteSet(U(s \ {One(s)})) /\ IsFiniteSet(F[One(s)])
    BY <1>2, <2>1
  <2> HIDE DEF U
  <2>4. IsFiniteSet(U(s \ {One(s)}) \cup F[One(s)])
    BY <2>3, FS_Union
  <2> QED
    BY <2>2, <2>4
<1>3. X \in G
  <2> HIDE DEF G
  <2> QED BY <1>1, <1>2, SubsetInduction
<1> QED
  BY <1>3

LEMMA ImageFinite ==
  ASSUME NEW X, IsFiniteSet(X), NEW F
  PROVE  IsFiniteSet({F[x] : x \in X})
<1> DEFINE G == [x \in X |-> {F[x]}]
<1>1. \A x \in X : IsFiniteSet(G[x])
  BY FS_Singleton
<1> HIDE DEF G
<1>2. IsFiniteSet(UNION {G[x] : x \in X})
  BY <1>1, UnionFinite
<1>3. UNION {G[x] : x \in X} = {F[x] : x \in X}
  BY DEF G
<1> QED
  BY <1>2, <1>3

\* The function that SumFunction folds with, g being what is summed.
SumsOf(g) == {it \in [SUBSET DOMAIN g -> Int] : \A s \in SUBSET DOMAIN g :
                it[s] = IF s = {} THEN 0 ELSE g[One(s)] + it[s \ {One(s)}]}

LEMMA SumExists ==
  ASSUME NEW S, IsFiniteSet(S), NEW g \in [S -> Int]
  PROVE  SumsOf(g) # {}
<1> DEFINE n == Cardinality(S)
           Right(it, s) == it[s] = IF s = {} THEN 0 ELSE g[One(s)] + it[s \ {One(s)}]
           Upto(k) == {it \in [SUBSET S -> Int] :
                         \A s \in SUBSET S : Cardinality(s) <= k => Right(it, s)}
           T == {k \in 0 .. n : Upto(k) # {}}
<1>1. n \in Nat
  BY FS_CardinalityType
<1>2. \A s \in SUBSET S : IsFiniteSet(s) /\ Cardinality(s) \in Nat /\ Cardinality(s) <= n
  BY FS_Subset, FS_CardinalityType
<1>3. \A s \in SUBSET S : s # {} => /\ One(s) \in s /\ s \ {One(s)} \in SUBSET S
                                    /\ Cardinality(s \ {One(s)}) = Cardinality(s) - 1
  BY <1>2, FS_RemoveElement DEF One
<1>9. \A s \in SUBSET S : Cardinality(s) >= 1 => s # {}
  <2> SUFFICES ASSUME NEW s \in SUBSET S, s = {} PROVE ~(Cardinality(s) >= 1)
    OBVIOUS
  <2>1. Cardinality(s) = 0
    BY FS_EmptySet
  <2> QED
    BY <2>1
<1>4. 0 \in T
  <2> DEFINE it == [s \in SUBSET S |-> 0]
  <2>1. ASSUME NEW s \in SUBSET S, Cardinality(s) <= 0
        PROVE  Right(it, s)
    <3>1. Cardinality(s) = 0
      BY <1>2, <2>1
    <3>2. s = {}
      BY <1>2, <3>1, FS_EmptySet
    <3> QED
      BY <3>2
  <2>2. it \in Upto(0)
    <3>1. it \in [SUBSET S -> Int]
      OBVIOUS
    <3> HIDE DEF it, Right
    <3> QED BY <2>1, <3>1
  <2> HIDE DEF Upto
  <2> QED
    BY <1>1, <2>2
<1>5. ASSUME NEW k \in 1 .. n, k - 1 \in T
      PROVE  k \in T
  <2>1. PICK old \in Upto(k - 1) : TRUE
    BY <1>5
  <2> DEFINE it == [s \in SUBSET S |-> IF Cardinality(s) = k
                                       THEN g[One(s)] + old[s \ {One(s)}] ELSE old[s]]
  <2>2. it \in [SUBSET S -> Int]
    <3> SUFFICES ASSUME NEW s \in SUBSET S, Cardinality(s) = k
                 PROVE  g[One(s)] + old[s \ {One(s)}] \in Int
      BY <2>1
    <3>1. s # {}
      BY <1>1, <1>9
    <3> QED
      BY <1>3, <2>1, <3>1
  <2>3. ASSUME NEW s \in SUBSET S, Cardinality(s) <= k
        PROVE  Right(it, s)
    <3>1. CASE Cardinality(s) = k
      <4>1. s # {}
        BY <1>1, <1>9, <3>1
      <4>2. it[s \ {One(s)}] = old[s \ {One(s)}]
        BY <1>1, <1>3, <3>1, <4>1
      <4> QED
        BY <3>1, <4>1, <4>2
    <3>2. CASE Cardinality(s) # k
      <4>1. Cardinality(s) <= k - 1 /\ it[s] = old[s]
        BY <1>1, <1>2, <2>3, <3>2
      <4>2. Right(old, s)
        BY <2>1, <4>1
      <4>3. s # {} => it[s \ {One(s)}] = old[s \ {One(s)}]
        <5> SUFFICES ASSUME s # {} PROVE Cardinality(s \ {One(s)}) # k /\ s \ {One(s)} \in SUBSET S
          OBVIOUS
        <5> QED
          BY <1>1, <1>2, <1>3, <4>1
      <4> QED
        BY <4>1, <4>2, <4>3
    <3> QED
      BY <3>1, <3>2
  <2> HIDE DEF it
  <2>4. it \in Upto(k)
    BY <2>2, <2>3
  <2>5. k \in 0 .. n
    BY <1>1
  <2> HIDE DEF Upto
  <2> QED
    BY <2>4, <2>5
<1>6. n \in T
  <2> HIDE DEF T
  <2> QED BY <1>1, <1>4, <1>5, CountUp
<1>7. PICK it \in Upto(n) : TRUE
  BY <1>6
<1>8. it \in SumsOf(g)
  BY <1>2, <1>7 DEF SumsOf
<1> QED
  BY <1>8

\* The sum of g is that of a function with an equation for every subset.
LEMMA SumTaken ==
  ASSUME NEW S, IsFiniteSet(S), NEW g \in [S -> Int]
  PROVE  \E it \in SumsOf(g) : SumFunction(g) = it[S]
<1> DEFINE Eq(it) == it = [s \in SUBSET DOMAIN g |->
                             IF s = {} THEN 0
                             ELSE g[CHOOSE x \in s : TRUE] + it[s \ {CHOOSE x \in s : TRUE}]]
           it == CHOOSE it : Eq(it)
<1>1. SumFunction(g) = it[S]
  BY DEF SumFunction, SumFunctionOnSet, FoldFunctionOnSet, MapThenFoldSet
<1>2. PICK f : f \in SumsOf(g)
  BY SumExists
<1>3. Eq(f)
  BY <1>2 DEF SumsOf, One
<1>4. Eq(it)
  <2> HIDE DEF Eq
  <2> QED BY <1>3
<1> HIDE DEF it
<1> DEFINE G == {s \in SUBSET S : it[s] = f[s]}
<1>5. {} \in G
  BY <1>3, <1>4
<1>6. ASSUME NEW s \in SUBSET S, s # {}, s \ {One(s)} \in G
      PROVE  s \in G
  <2>1. it[s] = g[One(s)] + it[s \ {One(s)}]
    BY <1>4, <1>6 DEF One
  <2>2. f[s] = g[One(s)] + f[s \ {One(s)}]
    BY <1>3, <1>6 DEF One
  <2> QED
    BY <1>6, <2>1, <2>2
<1>7. S \in G
  <2> HIDE DEF G
  <2> QED BY <1>5, <1>6, SubsetInduction
<1> QED
  BY <1>1, <1>2, <1>7

Sums(it, g, S) ==
  /\ it \in [SUBSET S -> Int] /\ it[{}] = 0
  /\ \A s \in SUBSET S : s # {} =>
       One(s) \in s /\ s \ {One(s)} \in SUBSET S /\ it[s] = g[One(s)] + it[s \ {One(s)}]
LEMMA SumStep ==
  ASSUME NEW S, IsFiniteSet(S), NEW g \in [S -> Int]
  PROVE  \E it : Sums(it, g, S) /\ SumFunction(g) = it[S]
<1>1. \A s \in SUBSET S : s # {} => One(s) \in s
  BY DEF One
<1>2. PICK it \in SumsOf(g) : SumFunction(g) = it[S]
  BY SumTaken
<1>3. Sums(it, g, S)
  BY <1>1, <1>2 DEF SumsOf, Sums
<1> QED
  BY <1>2, <1>3

\* A sum of naturals is zero only if all of them are.
LEMMA SumOfNaturals ==
  ASSUME NEW S, IsFiniteSet(S), NEW g \in [S -> Nat]
  PROVE  /\ SumFunction(g) \in Nat
         /\ SumFunction(g) = 0 <=> \A x \in S : g[x] = 0
<1>1. g \in [S -> Int]
  OBVIOUS
<1>2. PICK it : Sums(it, g, S) /\ SumFunction(g) = it[S]
  BY <1>1, SumStep
<1> DEFINE G == {s \in SUBSET S : it[s] \in Nat /\ (it[s] = 0 <=> \A x \in s : g[x] = 0)}
<1>3. {} \in G
  BY <1>2 DEF Sums
<1>4. ASSUME NEW s \in SUBSET S, s # {}, s \ {One(s)} \in G
      PROVE  s \in G
  <2>1. One(s) \in s /\ it[s] = g[One(s)] + it[s \ {One(s)}]
    BY <1>2, <1>4 DEF Sums
  <2>2. g[One(s)] \in Nat /\ it[s \ {One(s)}] \in Nat
    BY <1>4, <2>1
  <2>3. it[s] \in Nat /\ (it[s] = 0 <=> g[One(s)] = 0 /\ it[s \ {One(s)}] = 0)
    BY <2>1, <2>2
  <2>4. it[s \ {One(s)}] = 0 <=> \A x \in s \ {One(s)} : g[x] = 0
    BY <1>4
  <2>5. (\A x \in s : g[x] = 0) <=> g[One(s)] = 0 /\ \A x \in s \ {One(s)} : g[x] = 0
    BY <2>1
  <2> QED
    BY <2>3, <2>4, <2>5
<1>5. S \in G
  <2> HIDE DEF G
  <2> QED BY <1>3, <1>4, SubsetInduction
<1> QED
  BY <1>2, <1>5

\* The sum of sums.
LEMMA SumAdds ==
  ASSUME NEW S, IsFiniteSet(S), NEW f \in [S -> Int], NEW g \in [S -> Int], NEW h \in [S -> Int],
         \A x \in S : h[x] = f[x] + g[x]
  PROVE  SumFunction(h) = SumFunction(f) + SumFunction(g)
<1>1. PICK a : Sums(a, f, S) /\ SumFunction(f) = a[S]
  BY SumStep
<1>2. PICK b : Sums(b, g, S) /\ SumFunction(g) = b[S]
  BY SumStep
<1>3. PICK c : Sums(c, h, S) /\ SumFunction(h) = c[S]
  BY SumStep
<1> DEFINE G == {s \in SUBSET S : a[s] \in Int /\ b[s] \in Int /\ c[s] = a[s] + b[s]}
<1>4. {} \in G
  <2>1. a[{}] = 0 /\ b[{}] = 0 /\ c[{}] = 0
    BY <1>1, <1>2, <1>3 DEF Sums
  <2> QED
    BY <2>1
<1>5. ASSUME NEW s \in SUBSET S, s # {}, s \ {One(s)} \in G
      PROVE  s \in G
  <2> DEFINE x == One(s)
             r == s \ {One(s)}
  <2>1. x \in S /\ a[s] = f[x] + a[r] /\ b[s] = g[x] + b[r] /\ c[s] = h[x] + c[r]
    BY <1>1, <1>2, <1>3, <1>5 DEF Sums
  <2>2. f[x] \in Int /\ g[x] \in Int /\ h[x] = f[x] + g[x]
    BY <2>1
  <2>3. a[r] \in Int /\ b[r] \in Int /\ c[r] = a[r] + b[r]
    BY <1>5
  <2> HIDE DEF x, r
  <2> QED
    BY <2>1, <2>2, <2>3
<1>6. S \in G
  <2> HIDE DEF G
  <2> QED BY <1>4, <1>5, SubsetInduction
<1> QED
  BY <1>1, <1>2, <1>3, <1>6

\* The sum of a function that is zero but for one place.
LEMMA SumSingle ==
  ASSUME NEW S, IsFiniteSet(S), NEW t \in S, NEW d \in Int
  PROVE  SumFunction([x \in S |-> IF x = t THEN d ELSE 0]) = d
<1> DEFINE g == [x \in S |-> IF x = t THEN d ELSE 0]
<1>1. g \in [S -> Int] /\ \A x \in S : g[x] = IF x = t THEN d ELSE 0
  OBVIOUS
<1> HIDE DEF g
<1>2. PICK it : Sums(it, g, S) /\ SumFunction(g) = it[S]
  BY <1>1, SumStep
<1> DEFINE G == {s \in SUBSET S : it[s] = IF t \in s THEN d ELSE 0}
<1>3. {} \in G
  BY <1>2 DEF Sums
<1>4. ASSUME NEW s \in SUBSET S, s # {}, s \ {One(s)} \in G
      PROVE  s \in G
  <2>1. One(s) \in S /\ One(s) \in s /\ it[s] = g[One(s)] + it[s \ {One(s)}]
    BY <1>2, <1>4 DEF Sums
  <2>2. CASE One(s) = t
    BY <1>1, <1>4, <2>1, <2>2
  <2>3. CASE One(s) # t
    BY <1>1, <1>4, <2>1, <2>3
  <2> QED
    BY <2>2, <2>3
<1>5. S \in G
  <2> HIDE DEF G
  <2> QED BY <1>3, <1>4, SubsetInduction
<1>6. SumFunction(g) = d
  BY <1>2, <1>5
<1> QED
  BY <1>6 DEF g

\* What one more at one place does to the sum.
LEMMA SumUpdate ==
  ASSUME NEW S, IsFiniteSet(S), NEW g \in [S -> Int], NEW t \in S, NEW d \in Int,
         NEW h \in [S -> Int], \A x \in S : h[x] = IF x = t THEN g[x] + d ELSE g[x]
  PROVE  SumFunction(h) = SumFunction(g) + d
<1> DEFINE e == [x \in S |-> IF x = t THEN d ELSE 0]
<1>1. e \in [S -> Int] /\ \A x \in S : h[x] = g[x] + e[x]
  OBVIOUS
<1>2. SumFunction(e) = d
  BY SumSingle
<1> HIDE DEF e
<1>3. SumFunction(h) = SumFunction(g) + SumFunction(e)
  BY <1>1, SumAdds
<1> QED
  BY <1>2, <1>3
---------------------------------------------------------------------------
(* The regions of a function *)

\* Whatever merging preserves holds of every effective region if it holds of
\* every declared one.
LEMMA EffectiveIn ==
  ASSUME NEW f, f.regions \in Seq(Regions), f.regions # <<>>, NEW P, P \subseteq Regions,
         \A i \in 1 .. Len(f.regions) : f.regions[i] \in P,
         \A m, r \in P : m.seg = r.seg /\ r.start <= m.end /\ r.end > m.end
                          => Region(r.seg, m.start, r.endseg, r.end) \in P
  PROVE  \A k \in 1 .. Len(effective_regions(f)) : effective_regions(f)[k] \in P
<1> DEFINE rs == Sort(f.regions)
           n == Len(rs)
<1>1. effective_regions(f) = MergeLoop(rs)
  BY DEF effective_regions, MergeLoop
<1>2. rs \in Seq(Regions) /\ \A k \in 1 .. Len(rs) : rs[k] \in P
  <2>1. /\ rs \in Seq(Regions) /\ Len(rs) = Len(f.regions)
        /\ \A k \in 1 .. Len(f.regions) : \E i \in 1 .. Len(f.regions) : rs[k] = f.regions[i]
    BY SortSound
  <2> HIDE DEF rs
  <2> QED
    BY <2>1
<1> HIDE DEF rs
<1>3. PICK h \in [0 .. n -> Seq(Regions)] :
        /\ h[0] = <<>> /\ h[n] = MergeLoop(rs)
        /\ \A i \in 1 .. n : h[i] = Merge(h[i - 1], rs[i])
  BY <1>2, MergeTurns
<1>4. n \in Nat /\ \A i \in 1 .. n : rs[i] \in P /\ rs[i] \in Regions
  BY <1>2
<1> HIDE DEF n
<1> DEFINE T == {i \in 0 .. n : \A k \in 1 .. Len(h[i]) : h[i][k] \in P}
<1>5. 0 \in T
  BY <1>3, <1>4
<1>6. ASSUME NEW i \in 1 .. n, i - 1 \in T
      PROVE  i \in T
  <2> DEFINE m == h[i - 1]
             r == rs[i]
  <2>1. i - 1 \in 0 .. n /\ i \in 0 .. n /\ r \in P /\ r \in Regions /\ h[i] = Merge(m, r)
    BY <1>3, <1>4
  <2>2. m \in Seq(Regions) /\ \A k \in 1 .. Len(m) : m[k] \in P
    BY <1>3, <1>6, <2>1
  <2> HIDE DEF m, r
  <2>3. \A k \in 1 .. Len(Merge(m, r)) : Merge(m, r)[k] \in P
    <3> DEFINE l == Len(m)
               new == Merge(m, r)
    <3>1. l \in Nat
      BY <2>2
    <3>2. CASE /\ l > 0 /\ m[l].seg = r.seg /\ r.start <= m[l].end /\ r.end > m[l].end
               /\ Len(new) = l /\ \A k \in 1 .. l - 1 : new[k] = m[k]
               /\ new[l] = Region(r.seg, m[l].start, r.endseg, r.end)
      <4>1. l \in 1 .. l
        BY <3>1, <3>2
      <4>2. new[l] \in P
        BY <2>1, <2>2, <3>2, <4>1
      <4>3. \A k \in 1 .. l : k = l \/ k \in 1 .. l - 1
        BY <3>1
      <4> HIDE DEF new, l
      <4>4. \A k \in 1 .. l - 1 : k \in 1 .. l
        BY <3>1
      <4> QED
        BY <2>2, <3>2, <4>2, <4>3, <4>4 DEF new, l
    <3>3. CASE new = m
      BY <2>2, <3>3
    <3>4. CASE Len(new) = l + 1 /\ (\A k \in 1 .. l : new[k] = m[k]) /\ new[l + 1] = r
      <4>1. \A k \in 1 .. l + 1 : k = l + 1 \/ k \in 1 .. l
        BY <3>1
      <4> HIDE DEF new
      <4> QED
        BY <2>1, <2>2, <3>4, <4>1 DEF new
    <3> HIDE DEF new, l
    <3> QED
      BY <2>1, <2>2, <3>2, <3>3, <3>4, MergeOutcomes DEF new, l
  <2> QED
    BY <2>1, <2>3
<1>7. \A i \in 0 .. n : i \in T
  <2> HIDE DEF T
  <2> QED BY <1>4, <1>5, <1>6, CountUp
<1>8. n \in 0 .. n
  BY <1>4
<1> QED
  BY <1>1, <1>3, <1>7, <1>8

\* The effective regions of any function of a configuration.
LEMMA EffectiveTyped ==
  ASSUME NEW f \in Funcs
  PROVE  /\ effective_regions(f) \in Seq(Regions)
         /\ f.regions # <<>> => effective_regions(f) # <<>>
         /\ f.regions = <<>> => effective_regions(f) =
              IF f.end # NoEnd THEN <<Region(f.seg, f.start, f.seg, f.end)>> ELSE <<>>
         /\ f.regions \in Seq(Regions) /\ f.seg \in Nat /\ f.start \in Nat
         /\ f.end # NoEnd => f.end \in Nat
<1>1. f.regions \in Seq(Regions) /\ f.seg \in Nat /\ f.start \in Nat /\ (f.end # NoEnd => f.end \in Nat)
  BY DEF Funcs
<1>2. CASE f.regions # <<>>
  BY <1>1, <1>2, EffectiveRegionsExact
<1>3. CASE f.regions = <<>>
  <2>1. effective_regions(f) = IF f.end # NoEnd THEN <<Region(f.seg, f.start, f.seg, f.end)>> ELSE <<>>
    BY <1>3 DEF effective_regions
  <2>2. f.end # NoEnd => Region(f.seg, f.start, f.seg, f.end) \in Regions
    BY <1>1 DEF Region, Regions
  <2>3. effective_regions(f) \in Seq(Regions)
    BY <2>1, <2>2
  <2> QED
    BY <1>1, <1>3, <2>1, <2>3
<1> QED
  BY <1>2, <1>3

---------------------------------------------------------------------------
(* What validation passes can be built *)

Passes(report) == \A d \in report : d.severity # "error"

LEMMA ErrFails == \A what, at, report : Err(what, at) \in report => ~Passes(report)
  BY DEF Err, Passes

LEMMA IfFails ==
  \A report, what, at : \A cond \in BOOLEAN :
    Passes(report) /\ If(cond, Err(what, at)) \subseteq report => ~cond
  BY DEF If, Err, Passes

\* The checks of one region, in order of its start.
RegionErrors(f, seg, sorted, j) ==
  LET r == sorted[j]
  IN If(r.seg # f.seg \/ r.endseg # f.seg, Err("region leaves segment", r.start))
     \cup If(\/ r.endseg < r.seg \/ (r.endseg = r.seg /\ r.end <= r.start), Err("region range", r.start))
     \cup If(f.end # NoEnd /\ (r.endseg > f.seg \/ (r.endseg = f.seg /\ r.end > f.end)),
             Err("region past end", r.start))
     \cup If(r.seg = r.endseg /\ ~contains_region(r), Err("region outside image", r.start))
     \cup If(~RegionContains([seg |-> seg.seg, start |-> 0, end |-> seg.end], r.seg, r.start)
             \/ r.endseg > seg.seg \/ (r.endseg = seg.seg /\ r.end > seg.end),
             Err("region outside segment", r.start))
     \cup If(j > 1 /\ r.seg = sorted[j - 1].seg
             /\ (sorted[j - 1].endseg > r.seg
                 \/ (sorted[j - 1].endseg = r.seg /\ r.start < sorted[j - 1].end)),
             Err("regions overlap", r.start))

LEMMA RegionErrorsAre ==
  ASSUME NEW f, NEW seg
  PROVE  region_errors(f, seg) =
           (UNION {RegionErrors(f, seg, Sort(f.regions), j) : j \in DOMAIN Sort(f.regions)})
           \cup If(~\E j \in DOMAIN Sort(f.regions) : RegionContains(Sort(f.regions)[j], f.seg, f.start),
                   Err("start outside regions", f.start))
  BY DEF region_errors, RegionErrors

\* Whatever is wrong with a function's ranges is an error.
LEMMA RangesAreErrors ==
  ASSUME NEW c, NEW f, NEW seg
  PROVE  /\ \A d \in data_errors(c, f) : d.severity = "error"
         /\ \A d \in region_errors(f, seg) : d.severity = "error"
<1>1. \A d \in data_errors(c, f) : d.severity = "error"
  <2> SUFFICES ASSUME NEW d \in data_errors(c, f) PROVE d.severity = "error"
    OBVIOUS
  <2>1. \E what, at : d = Err(what, at)
    BY DEF data_errors, If
  <2> QED
    BY <2>1 DEF Err
<1>2. ASSUME NEW j \in DOMAIN Sort(f.regions), NEW d \in RegionErrors(f, seg, Sort(f.regions), j)
      PROVE  d.severity = "error"
  <2>1. \E what, at : d = Err(what, at)
    BY <1>2 DEF RegionErrors, If
  <2> QED
    BY <2>1 DEF Err
<1>3. \A d \in region_errors(f, seg) : d.severity = "error"
  <2> SUFFICES ASSUME NEW d \in region_errors(f, seg) PROVE d.severity = "error"
    OBVIOUS
  <2>1. CASE \E j \in DOMAIN Sort(f.regions) : d \in RegionErrors(f, seg, Sort(f.regions), j)
    BY <1>2, <2>1
  <2>2. CASE d = Err("start outside regions", f.start)
    BY <2>2 DEF Err
  <2> DEFINE J == DOMAIN Sort(f.regions)
             U == UNION {RegionErrors(f, seg, Sort(f.regions), j) : j \in J}
             last == If(~\E j \in J : RegionContains(Sort(f.regions)[j], f.seg, f.start),
                        Err("start outside regions", f.start))
  <2>3. region_errors(f, seg) = U \cup last
    BY DEF region_errors, RegionErrors
  <2>4. \A x \in last : x = Err("start outside regions", f.start)
    BY DEF If
  <2>5. \A x \in U : \E j \in J : x \in RegionErrors(f, seg, Sort(f.regions), j)
    OBVIOUS
  <2> HIDE DEF U, last
  <2>6. d \in U \/ d \in last
    BY <2>3
  <2> QED
    BY <2>1, <2>2, <2>4, <2>5, <2>6
<1> QED
  BY <1>1, <1>3

\* The errors of a function's ranges as validate_function collects them.
RangeErrors(c, f) ==
  data_errors(c, f)
    \cup IF f.regions = <<>> THEN {} ELSE region_errors(f, code_segment_for_function(f))

\* validate_function (validate.rs) without an error gets to the code.
LEMMA GetsToCode ==
  ASSUME NEW c, NEW p, NEW f, NEW local, Passes(validate_function(c, p, f, local))
  PROVE  /\ Outer(f).off # NoEnd /\ ~(Outer(f).off <= f.start)
         /\ f.regions = <<>> => contains_region(Region(f.seg, f.start, f.seg, f.end))
         /\ RangeErrors(c, f) = {}
         /\ validate_code(c, p, f, code_regions(c.text, effective_regions(f)))
              \subseteq validate_function(c, p, f, local)
<1> DEFINE V == validate_function(c, p, f, local)
           code == code_regions(c.text, effective_regions(f))
<1>1. V = validate_ranged(c, p, f, local, RangeErrors(c, f), code)
  BY DEF validate_function, RangeErrors
<1> HIDE DEF V, code
<1>2. Passes(V)
  BY DEF V
<1>3. \A what, at : Err(what, at) \notin V
  BY <1>2, ErrFails
<1>4. Outer(f).off # NoEnd /\ ~(Outer(f).seg # f.seg) /\ ~(Outer(f).off <= f.start)
  BY <1>1, <1>3 DEF validate_ranged
<1>5. ~(f.regions = <<>> /\ ~contains_region(Region(f.seg, f.start, f.seg, f.end)))
  BY <1>1, <1>3, <1>4 DEF validate_ranged
<1>6. ~(f.start >= code_segment_for_function(f).end)
  BY <1>1, <1>3, <1>4, <1>5 DEF validate_ranged
<1>7. RangeErrors(c, f) = {}
  <2> SUFFICES ASSUME NEW d \in RangeErrors(c, f) PROVE FALSE
    OBVIOUS
  <2>1. RangeErrors(c, f) \subseteq V
    BY <1>1, <1>4, <1>5, <1>6 DEF validate_ranged
  <2>2. d.severity = "error"
    BY RangesAreErrors DEF RangeErrors
  <2> QED
    BY <1>2, <2>1, <2>2 DEF Passes
<1>8. validate_code(c, p, f, code) \subseteq V
  BY <1>1, <1>4, <1>5, <1>6, <1>7 DEF validate_ranged
<1> QED
  BY <1>4, <1>5, <1>7, <1>8 DEF V, code

LEMMA RegionsInside ==
  ASSUME NEW c, NEW f \in Funcs, f.regions # <<>>, RangeErrors(c, f) = {}
  PROVE  \A i \in 1 .. Len(f.regions) :
           /\ f.regions[i].seg = f.seg /\ f.regions[i].endseg = f.seg
           /\ f.regions[i].start < f.regions[i].end
           /\ contains_region(f.regions[i])
<1> DEFINE sorted == Sort(f.regions)
           seg == code_segment_for_function(f)
<1>1. f.regions \in Seq(Regions) /\ f.seg \in Nat
  BY DEF Funcs
<1>2. /\ sorted \in Seq(Regions) /\ Len(sorted) = Len(f.regions)
      /\ \A i \in 1 .. Len(f.regions) : \E k \in 1 .. Len(f.regions) : sorted[k] = f.regions[i]
  BY <1>1, SortSound
<1>3. region_errors(f, seg) = {}
  BY DEF RangeErrors
<1>4. \A j \in DOMAIN sorted : RegionErrors(f, seg, sorted, j) = {}
  BY <1>3, RegionErrorsAre
<1> HIDE DEF sorted
<1>5. ASSUME NEW k \in 1 .. Len(f.regions)
      PROVE  /\ sorted[k].seg = f.seg /\ sorted[k].endseg = f.seg
             /\ sorted[k].start < sorted[k].end
             /\ contains_region(sorted[k])
  <2> DEFINE r == sorted[k]
  <2>1. k \in DOMAIN sorted /\ r \in Regions
    BY <1>2
  <2>2. r.seg \in Nat /\ r.endseg \in Nat /\ r.start \in Nat /\ r.end \in Nat
    BY <2>1, RegionsTyped
  <2>3. RegionErrors(f, seg, sorted, k) = {}
    BY <1>4, <2>1
  <2>4. /\ If(r.seg # f.seg \/ r.endseg # f.seg, Err("region leaves segment", r.start)) = {}
        /\ If(\/ r.endseg < r.seg \/ (r.endseg = r.seg /\ r.end <= r.start), Err("region range", r.start)) = {}
        /\ If(r.seg = r.endseg /\ ~contains_region(r), Err("region outside image", r.start)) = {}
    BY <2>3 DEF RegionErrors
  <2> HIDE DEF r
  <2>5. ~(r.seg # f.seg \/ r.endseg # f.seg)
    BY <2>4 DEF If
  <2>6. ~(\/ r.endseg < r.seg \/ (r.endseg = r.seg /\ r.end <= r.start))
    BY <2>4 DEF If
  <2>7. ~(r.seg = r.endseg /\ ~contains_region(r))
    BY <2>4 DEF If
  <2>8. r.start < r.end
    BY <2>2, <2>5, <2>6
  <2> QED
    BY <2>5, <2>7, <2>8 DEF r
<1> QED
  BY <1>2, <1>5

\* What infer_spec and Spec::from_func need of a function.
Sound(f) == ~from_func_panics(f) /\ infer_spec(f).ok

\* Function validation (validate.rs) stops every function without an end or
\* with a region outside the image before Spec::from_func meets it.
THEOREM ValidationSound ==
  ASSUME NEW c, NEW p, NEW f \in Funcs, NEW local,
         Passes(validate_function(c, p, f, local))
  PROVE  /\ Sound(f) /\ effective_regions(f) # <<>>
         /\ \A k \in 1 .. Len(effective_regions(f)) :
              /\ contains_region(effective_regions(f)[k]) /\ effective_regions(f)[k].seg = f.seg
<1> DEFINE regions == effective_regions(f)
<1>1. /\ Outer(f).off # NoEnd
      /\ f.regions = <<>> => contains_region(Region(f.seg, f.start, f.seg, f.end))
      /\ RangeErrors(c, f) = {}
  BY GetsToCode
<1>2. /\ regions \in Seq(Regions)
      /\ f.regions # <<>> => regions # <<>>
      /\ f.regions = <<>> => regions = IF f.end # NoEnd THEN <<Region(f.seg, f.start, f.seg, f.end)>> ELSE <<>>
      /\ f.regions \in Seq(Regions) /\ f.seg \in Nat /\ f.start \in Nat /\ (f.end # NoEnd => f.end \in Nat)
  BY EffectiveTyped
<1>3. f.regions = <<>> => f.end # NoEnd
  BY <1>1 DEF Outer
<1>4. regions # <<>>
  <2>1. CASE f.regions = <<>>
    <3>1. regions = <<Region(f.seg, f.start, f.seg, f.end)>>
      BY <1>2, <1>3, <2>1
    <3>2. Len(regions) = 1
      BY <3>1
    <3> HIDE DEF regions
    <3> QED
      BY <3>2
  <2>2. CASE f.regions # <<>>
    BY <1>2, <2>2
  <2> QED
    BY <2>1, <2>2
<1>5. \A k \in 1 .. Len(regions) : contains_region(regions[k]) /\ regions[k].seg = f.seg
  <2>1. CASE f.regions = <<>>
    BY <1>1, <1>2, <1>3, <2>1 DEF Region
  <2>2. CASE f.regions # <<>>
    <3> DEFINE P == {r \in Regions : r.seg = f.seg /\ contains_region(r)}
    <3>1. \A i \in 1 .. Len(f.regions) : f.regions[i] \in P
      <4>1. \A i \in 1 .. Len(f.regions) : f.regions[i] \in Regions
        BY <1>2
      <4> QED
        BY <1>1, <2>2, <4>1, RegionsInside
    <3>2. ASSUME NEW m \in P, NEW r \in P, m.seg = r.seg, r.start <= m.end, r.end > m.end
          PROVE  Region(r.seg, m.start, r.endseg, r.end) \in P
      <4> DEFINE x == Region(r.seg, m.start, r.endseg, r.end)
      <4>0. m \in Regions /\ r \in Regions
        OBVIOUS
      <4>1. /\ m.start \in Nat /\ m.end \in Nat /\ r.seg \in Nat /\ r.endseg \in Nat /\ r.end \in Nat
        BY <4>0, RegionsTyped
      <4>2. /\ x \in Regions /\ x.seg = r.seg /\ x.start = m.start /\ x.endseg = r.endseg /\ x.end = r.end
        BY <4>1 DEF Region, Regions
      <4>3. /\ r.seg = f.seg /\ m.start <= m.end /\ r.seg = Code /\ r.endseg = Code /\ r.end <= ImageLen
        BY DEF contains_region
      <4> HIDE DEF x
      <4>4. contains_region(x)
        BY <3>2, <4>1, <4>2, <4>3 DEF contains_region
      <4> QED
        BY <4>2, <4>3, <4>4 DEF x
    <3>3. P \subseteq Regions
      OBVIOUS
    <3> HIDE DEF P
    <3>4. \A k \in 1 .. Len(regions) : regions[k] \in P
      BY <1>2, <2>2, <3>1, <3>2, <3>3, EffectiveIn
    <3> QED
      BY <3>4 DEF P
  <2> QED
    BY <2>1, <2>2
<1>6. ~from_func_panics(f)
  BY <1>4 DEF from_func_panics
<1>7. infer_spec(f).ok
  <2>1. {k \in 1 .. Len(regions) : ~contains_region(regions[k])} = {}
    BY <1>5
  <2> DEFINE bad == SelectInSeq(regions, LAMBDA r : ~contains_region(r))
  <2>2. bad = 0
    BY <2>1 DEF SelectInSeq
  <2> HIDE DEF bad, regions
  <2>3. infer_spec(f) = IF from_func_panics(f) THEN [ok |-> FALSE, seg |-> f.seg]
                        ELSE IF bad # 0 THEN [ok |-> FALSE, seg |-> regions[bad].seg]
                        ELSE [ok |-> TRUE, seg |-> f.seg]
    BY DEF infer_spec, bad, regions
  <2> QED
    BY <1>6, <2>2, <2>3
<1> QED
  BY <1>4, <1>5, <1>6, <1>7 DEF Sound

---------------------------------------------------------------------------
(* Which functions are selected *)

\* The functions of a sequence that are in segment seg.
KeepTurn(kept, f, seg) == IF f.seg = seg THEN Append(kept, f) ELSE kept

Kept(fs, seg) == FoldLeft(LAMBDA kept, f : KeepTurn(kept, f, seg), <<>>, fs)

LEMMA KeptTurns ==
  ASSUME NEW fs \in Seq(Funcs), NEW seg
  PROVE  \E h \in [0 .. Len(fs) -> Seq(Funcs)] :
           /\ h[0] = <<>> /\ h[Len(fs)] = Kept(fs, seg)
           /\ \A i \in 1 .. Len(fs) : h[i - 1] \in Seq(Funcs) /\ h[i] = KeepTurn(h[i - 1], fs[i], seg)
<1> DEFINE n == Len(fs)
           V == Seq(Funcs)
           g == [i \in 1 .. n |-> [v \in V |-> KeepTurn(v, fs[i], seg)]]
           Eq(it) == it = [s \in SUBSET DOMAIN fs |->
                            IF s = {} THEN <<>>
                            ELSE KeepTurn(it[s \ {Max(s)}], fs[Max(s)], seg)]
           it == CHOOSE it : Eq(it)
<1>1. n \in Nat /\ DOMAIN fs = 1 .. n /\ \A i \in 1 .. n : fs[i] \in Funcs
  OBVIOUS
<1>2. Kept(fs, seg) = it[1 .. n]
  BY <1>1 DEF Kept, KeepTurn, FoldLeft, MapThenFoldSet
<1>3. \A v \in V, f \in Funcs : KeepTurn(v, f, seg) \in V
  BY DEF KeepTurn
<1>4. <<>> \in V
  OBVIOUS
<1> HIDE DEF V
<1>5. g \in Turns(n, V)
  BY <1>1, <1>3 DEF Turns
<1>6. \A i \in 1 .. n : \A v \in V : g[i][v] = KeepTurn(v, fs[i], seg)
  OBVIOUS
<1> HIDE DEF g, n
<1>7. \A s \in SUBSET (1 .. n) : s # {} => Max(s) \in 1 .. n /\ s \ {Max(s)} \in SUBSET (1 .. n)
  BY <1>1, LargestIndex
<1>8. Eq(it)
  <2>1. PICK f : f \in FoldsOf(n, <<>>, g, V)
    BY <1>1, <1>4, <1>5, FoldExists
  <2>2. Eq(f)
    BY <1>1, <1>6, <1>7, <2>1 DEF FoldsOf
  <2> HIDE DEF Eq
  <2> QED BY <2>2
<1> HIDE DEF it
<1>9. PICK h \in RunsOf(n, <<>>, g, V) : h[n] = it[1 .. n]
  <2>1. it[{}] = <<>>
    BY <1>1, <1>8
  <2>2. \A s \in SUBSET (1 .. n) : s # {} /\ it[s \ {Max(s)}] \in V =>
           it[s] = g[Max(s)][it[s \ {Max(s)}]]
    BY <1>1, <1>6, <1>7, <1>8
  <2> HIDE DEF Eq
  <2>3. Unrolls(it, n, <<>>, g, V)
    BY <2>1, <2>2 DEF Unrolls
  <2> QED
    BY <1>1, <1>4, <1>5, <2>3, FoldTurns
<1>10. ASSUME NEW i \in 1 .. n
       PROVE  h[i - 1] \in V /\ h[i] = KeepTurn(h[i - 1], fs[i], seg)
  <2>1. h[i - 1] \in V /\ h[i] = g[i][h[i - 1]]
    BY <1>1, <1>9 DEF RunsOf
  <2>2. \A v \in V : g[i][v] = KeepTurn(v, fs[i], seg)
    BY <1>6
  <2> QED
    BY <2>1, <2>2
<1> QED
  BY <1>2, <1>9, <1>10 DEF RunsOf, n, V

\* As many as there are, each of them one of them.
LEMMA KeptSound ==
  ASSUME NEW fs \in Seq(Funcs), NEW seg
  PROVE  /\ Kept(fs, seg) \in Seq(Funcs)
         /\ \A k \in 1 .. Len(Kept(fs, seg)) :
              Kept(fs, seg)[k].seg = seg /\ \E i \in 1 .. Len(fs) : Kept(fs, seg)[k] = fs[i]
         /\ Len(Kept(fs, seg)) = Cardinality({i \in 1 .. Len(fs) : fs[i].seg = seg})
         /\ \A i \in 1 .. Len(fs) : fs[i].seg = seg =>
              \E k \in 1 .. Len(Kept(fs, seg)) : Kept(fs, seg)[k] = fs[i]
<1> DEFINE n == Len(fs)
           Of(i) == {j \in 1 .. i : fs[j].seg = seg}
<1>1. n \in Nat /\ \A i \in 1 .. n : fs[i] \in Funcs
  OBVIOUS
<1>2. PICK h \in [0 .. n -> Seq(Funcs)] :
        /\ h[0] = <<>> /\ h[n] = Kept(fs, seg)
        /\ \A i \in 1 .. n : h[i - 1] \in Seq(Funcs) /\ h[i] = KeepTurn(h[i - 1], fs[i], seg)
  BY KeptTurns
<1> HIDE DEF n
<1> DEFINE Good(i) == /\ \A k \in 1 .. Len(h[i]) : h[i][k].seg = seg /\ \E j \in 1 .. n : h[i][k] = fs[j]
                      /\ IsFiniteSet(Of(i)) /\ Len(h[i]) = Cardinality(Of(i))
                      /\ \A j \in 1 .. i : fs[j].seg = seg => \E k \in 1 .. Len(h[i]) : h[i][k] = fs[j]
           T == {i \in 0 .. n : Good(i)}
<1>3. 0 \in T
  <2>1. Of(0) = {}
    OBVIOUS
  <2>2. IsFiniteSet(Of(0)) /\ Cardinality(Of(0)) = 0
    BY <2>1, FS_EmptySet
  <2>3. Len(h[0]) = 0
    BY <1>2
  <2> QED
    BY <1>1, <2>2, <2>3
<1>4. ASSUME NEW i \in 1 .. n, i - 1 \in T
      PROVE  i \in T
  <2> DEFINE old == h[i - 1]
             f == fs[i]
  <2>1. old \in Seq(Funcs) /\ f \in Funcs /\ h[i] = KeepTurn(old, f, seg) /\ i \in 0 .. n /\ i - 1 \in 0 .. n
    BY <1>1, <1>2
  <2>2. Good(i - 1)
    BY <1>4
  <2>3. \A j \in 1 .. i : j = i \/ j \in 1 .. i - 1
    OBVIOUS
  <2>4. CASE f.seg = seg
    <3>1. h[i] = Append(old, f)
      BY <2>1, <2>4 DEF KeepTurn
    <3> DEFINE l == Len(old)
    <3>2. l \in Nat /\ Len(h[i]) = l + 1 /\ h[i][l + 1] = f /\ \A k \in 1 .. l : h[i][k] = old[k]
      BY <2>1, <3>1
    <3>3. Of(i) = Of(i - 1) \cup {i} /\ i \notin Of(i - 1)
      BY <2>3, <2>4
    <3>9. IsFiniteSet(Of(i - 1)) /\ Len(old) = Cardinality(Of(i - 1))
      BY <2>2
    <3> DEFINE S == Of(i - 1)
    <3> HIDE DEF S
    <3>10. IsFiniteSet(S \cup {i}) /\ Cardinality(S \cup {i}) = Cardinality(S) + 1
      BY <3>3, <3>9, FS_AddElement DEF S
    <3>4. IsFiniteSet(Of(i)) /\ Cardinality(Of(i)) = Cardinality(Of(i - 1)) + 1
      BY <3>3, <3>10 DEF S
    <3> HIDE DEF Of
    <3>5. Len(h[i]) = Cardinality(Of(i))
      BY <3>2, <3>4, <3>9
    <3> HIDE DEF old, f, l
    <3>6. \A k \in 1 .. l + 1 : k \in 1 .. l \/ k = l + 1
      BY <3>2
    <3>7. \A k \in 1 .. Len(h[i]) : h[i][k].seg = seg /\ \E j \in 1 .. n : h[i][k] = fs[j]
      BY <2>2, <2>4, <3>2, <3>6 DEF old, f, l
    <3>8. \A j \in 1 .. i : fs[j].seg = seg => \E k \in 1 .. Len(h[i]) : h[i][k] = fs[j]
      <4> SUFFICES ASSUME NEW j \in 1 .. i, fs[j].seg = seg
                   PROVE  \E k \in 1 .. l + 1 : h[i][k] = fs[j]
        BY <3>2
      <4>1. CASE j = i
        BY <3>2, <4>1 DEF f
      <4>2. CASE j \in 1 .. i - 1
        <5>1. PICK k \in 1 .. l : old[k] = fs[j]
          BY <2>2, <4>2 DEF old, l
        <5> QED
          BY <3>2, <5>1
      <4> QED
        BY <2>3, <4>1, <4>2
    <3> QED
      BY <2>1, <3>4, <3>5, <3>7, <3>8
  <2>5. CASE f.seg # seg
    <3>1. h[i] = old
      BY <2>1, <2>5 DEF KeepTurn
    <3>2. Of(i) = Of(i - 1)
      BY <2>3, <2>5
    <3> HIDE DEF Of
    <3> QED
      BY <2>1, <2>2, <2>3, <2>5, <3>1, <3>2
  <2> QED
    BY <2>4, <2>5
<1>5. \A i \in 0 .. n : i \in T
  <2> HIDE DEF T
  <2> QED BY <1>1, <1>3, <1>4, CountUp
<1>6. n \in 0 .. n
  BY <1>1
<1>7. Good(n) /\ h[n] \in Seq(Funcs)
  BY <1>2, <1>5, <1>6
<1> HIDE DEF T
<1> QED
  BY <1>2, <1>7 DEF n

\* The least index of a set of indices.
LEMMA LeastIndex ==
  ASSUME NEW n \in Nat, NEW S \in SUBSET (1 .. n), S # {}
  PROVE  Min(S) \in S
<1>1. S \subseteq Nat
  OBVIOUS
<1>2. \E x \in S : \A y \in S : x =< y
  BY <1>1, NatMinimum
<1> QED
  BY <1>2 DEF Min

LEMMA ConfigTyped ==
  ASSUME NEW c \in Configs
  PROVE  /\ c.funcs \in Seq(Funcs) /\ c.segs \in Seq([name : STRING, seg : Nat])
         /\ c.text \in Seq(TextRegions) /\ c.indirects \in Seq([seg : Nat, addr : Nat])
         /\ Len(c.funcs) \in Nat /\ \A i \in 1 .. Len(c.funcs) : c.funcs[i] \in Funcs
  BY DEF Configs

LEMMA FuncByName ==
  ASSUME NEW c \in Configs, NEW name, func_lookup_by_name(c, name) # NotFound
  PROVE  \E i \in 1 .. Len(c.funcs) : func_lookup_by_name(c, name) = c.funcs[i]
<1> DEFINE I == {i \in 1 .. Len(c.funcs) : c.funcs[i].name = name}
           m == IF I # {} THEN Min(I) ELSE 0
<1>1. Len(c.funcs) \in Nat
  BY ConfigTyped
<1>2. func_lookup_by_name(c, name) = IF m = 0 THEN NotFound ELSE c.funcs[m]
  BY DEF func_lookup_by_name, Lookup, SelectInSeq
<1>3. I # {} => Min(I) \in I
  <2> HIDE DEF m
  <2>1. I \in SUBSET (1 .. Len(c.funcs))
    OBVIOUS
  <2> HIDE DEF I
  <2> QED BY <1>1, <2>1, LeastIndex
<1> QED
  BY <1>2, <1>3

\* The functions of a segment, and how many there are.
LEMMA FuncsOfSeg ==
  ASSUME NEW c \in Configs, NEW seg
  PROVE  /\ func_lookup_by_seg(c, seg) \in Seq(Funcs)
         /\ \A k \in 1 .. Len(func_lookup_by_seg(c, seg)) :
              /\ func_lookup_by_seg(c, seg)[k].seg = seg
              /\ \E i \in 1 .. Len(c.funcs) : func_lookup_by_seg(c, seg)[k] = c.funcs[i]
<1>1. c.funcs \in Seq(Funcs)
  BY ConfigTyped
<1> DEFINE fs == c.funcs
           K == Kept(fs, seg)
<1>2. /\ K \in Seq(Funcs)
      /\ \A k \in 1 .. Len(K) : K[k].seg = seg /\ \E i \in 1 .. Len(fs) : K[k] = fs[i]
      /\ Len(K) = Cardinality({i \in 1 .. Len(fs) : fs[i].seg = seg})
  <2> HIDE DEF fs
  <2> QED BY <1>1, KeptSound DEF fs
<1>3. func_lookup_by_seg(c, seg) = K
  BY DEF func_lookup_by_seg, Kept, KeepTurn
<1> HIDE DEF K
<1> QED
  BY <1>2, <1>3

LEMMA FuncsInSeg ==
  ASSUME NEW c \in Configs, NEW seg
  PROVE  Len(func_lookup_by_seg(c, seg)) = Cardinality({i \in 1 .. Len(c.funcs) : c.funcs[i].seg = seg})
<1>1. c.funcs \in Seq(Funcs)
  BY ConfigTyped
<1> DEFINE fs == c.funcs
<1>2. Len(Kept(fs, seg)) = Cardinality({i \in 1 .. Len(fs) : fs[i].seg = seg})
  <2> HIDE DEF fs
  <2> QED BY <1>1, KeptSound DEF fs
<1>3. func_lookup_by_seg(c, seg) = Kept(fs, seg)
  BY DEF func_lookup_by_seg, Kept, KeepTurn
<1> QED
  BY <1>2, <1>3

LEMMA SelectedSound ==
  ASSUME NEW c \in Configs, NEW scope
  PROVE  /\ Selected(c, scope) \in Seq(Funcs)
         /\ \A k \in 1 .. Len(Selected(c, scope)) :
              \E i \in 1 .. Len(c.funcs) : Selected(c, scope)[k] = c.funcs[i]
<1> DEFINE Of(s) == s \in Seq(Funcs) /\ \A k \in 1 .. Len(s) : \E i \in 1 .. Len(c.funcs) : s[k] = c.funcs[i]
<1>1. Of(<<>>) /\ Of(c.funcs)
  BY ConfigTyped
<1>2. \A i \in 1 .. Len(c.funcs) : Of(<<c.funcs[i]>>)
  BY ConfigTyped
<1>3. ASSUME NEW seg
      PROVE  Of(func_lookup_by_seg(c, seg))
  <2> DEFINE K == func_lookup_by_seg(c, seg)
  <2>1. /\ K \in Seq(Funcs)
        /\ \A k \in 1 .. Len(K) : K[k].seg = seg /\ \E i \in 1 .. Len(c.funcs) : K[k] = c.funcs[i]
    BY FuncsOfSeg
  <2> HIDE DEF K
  <2>2. Of(K)
    BY <2>1
  <2> QED
    BY <2>2 DEF K
<1> DEFINE f == func_lookup_by_name(c, scope.name)
           s == code_seg_lookup_by_name(c, scope.name)
<1>4. Selected(c, scope) = IF scope.kind = "all" THEN c.funcs
                           ELSE IF scope.kind = "function" THEN IF f = NotFound THEN <<>> ELSE <<f>>
                           ELSE IF s = NotFound THEN <<>> ELSE func_lookup_by_seg(c, s.seg)
  BY DEF Selected
<1>5. f # NotFound => \E i \in 1 .. Len(c.funcs) : f = c.funcs[i]
  BY FuncByName
<1> HIDE DEF f, s, Of
<1>6. f # NotFound => Of(<<f>>)
  BY <1>2, <1>5
<1>7. Of(Selected(c, scope))
  BY <1>1, <1>3, <1>4, <1>6
<1> QED
  BY <1>7 DEF Of

---------------------------------------------------------------------------
(* A report is finite *)

\* The addresses from start to end.
Addrs(start, end) == [i \in 1 .. end - start |-> start + i - 1]

LEMMA AddrsTyped ==
  ASSUME NEW start \in Int, NEW end \in Int
  PROVE  /\ Len(Addrs(start, end)) \in Nat
         /\ DOMAIN Addrs(start, end) = 1 .. Len(Addrs(start, end))
         /\ \A i \in 1 .. Len(Addrs(start, end)) : Addrs(start, end)[i] \in Int
<1> DEFINE n == IF end > start THEN end - start ELSE 0
           s == [i \in 1 .. n |-> start + i - 1]
<1>1. n \in Nat /\ 1 .. end - start = 1 .. n
  OBVIOUS
<1>2. Addrs(start, end) = s
  BY <1>1 DEF Addrs
<1> HIDE DEF n
<1>3. s \in Seq(Int) /\ Len(s) = n
  BY <1>1
<1> QED
  BY <1>1, <1>2, <1>3

\* What the linear decode carries along; next is where the next instruction
\* would start.
Decoded(p) == [at : Seq(Int), next : Int \cup {a + p[a].len : a \in Int}, failed : Int]

\* h holds what the decode of the addresses s has after every turn.
RunOf(p, start, end, s, h) ==
  /\ h \in [0 .. Len(s) -> Decoded(p)]
  /\ h[0] = [at |-> <<>>, next |-> start, failed |-> None] /\ h[Len(s)] = Linear(p, start, end)
  /\ \A i \in 1 .. Len(s) : h[i] = Decode(p, end, h[i - 1], s[i])

LEMMA LinearTurns ==
  ASSUME NEW p, NEW start \in Int, NEW end \in Int
  PROVE  \E h : RunOf(p, start, end, Addrs(start, end), h)
<1> DEFINE n == Len(Addrs(start, end))
           V == Decoded(p)
           g == [i \in 1 .. n |-> [v \in V |-> Decode(p, end, v, Addrs(start, end)[i])]]
           Eq(it) == it = [s \in SUBSET DOMAIN Addrs(start, end) |->
                            IF s = {} THEN [at |-> <<>>, next |-> start, failed |-> None]
                            ELSE Decode(p, end, it[s \ {Max(s)}], Addrs(start, end)[Max(s)])]
           it == CHOOSE it : Eq(it)
<1>1. n \in Nat /\ DOMAIN Addrs(start, end) = 1 .. n /\ \A i \in 1 .. n : Addrs(start, end)[i] \in Int
  BY AddrsTyped
<1>2. Linear(p, start, end) = it[1 .. n]
  BY <1>1 DEF Linear, Addrs, FoldLeft, MapThenFoldSet
<1>3. \A v \in V, a \in Int : Decode(p, end, v, a) \in V
  <2> SUFFICES ASSUME NEW v \in V, NEW a \in Int PROVE Decode(p, end, v, a) \in V
    OBVIOUS
  <2>1. [v EXCEPT !.failed = a] \in V
    BY DEF Decoded
  <2> DEFINE J == Int \cup {b + p[b].len : b \in Int}
  <2>3. V = [at : Seq(Int), next : J, failed : Int]
    BY DEF Decoded
  <2>4. a + p[a].len \in J
    OBVIOUS
  <2>5. Append(v.at, a) \in Seq(Int)
    BY <2>3
  <2> HIDE DEF J, V
  <2>2. [v EXCEPT !.at = Append(@, a), !.next = a + p[a].len] \in V
    BY <2>3, <2>4, <2>5
  <2> HIDE DEF V
  <2> QED
    BY <2>1, <2>2 DEF Decode
<1>4. [at |-> <<>>, next |-> start, failed |-> None] \in V
  BY DEF Decoded, None
<1> HIDE DEF V
<1>5. g \in Turns(n, V)
  BY <1>1, <1>3 DEF Turns
<1>6. \A i \in 1 .. n : \A v \in V : g[i][v] = Decode(p, end, v, Addrs(start, end)[i])
  OBVIOUS
<1> HIDE DEF g, n
<1>7. \A s \in SUBSET (1 .. n) : s # {} => Max(s) \in 1 .. n /\ s \ {Max(s)} \in SUBSET (1 .. n)
  BY <1>1, LargestIndex
<1>8. Eq(it)
  <2>1. PICK f : f \in FoldsOf(n, [at |-> <<>>, next |-> start, failed |-> None], g, V)
    BY <1>1, <1>4, <1>5, FoldExists
  <2>2. Eq(f)
    BY <1>1, <1>6, <1>7, <2>1 DEF FoldsOf
  <2> HIDE DEF Eq
  <2> QED BY <2>2
<1> HIDE DEF it
<1>9. PICK h \in RunsOf(n, [at |-> <<>>, next |-> start, failed |-> None], g, V) : h[n] = it[1 .. n]
  <2>1. it[{}] = [at |-> <<>>, next |-> start, failed |-> None]
    BY <1>1, <1>8
  <2>2. \A s \in SUBSET (1 .. n) : s # {} /\ it[s \ {Max(s)}] \in V =>
           it[s] = g[Max(s)][it[s \ {Max(s)}]]
    BY <1>1, <1>6, <1>7, <1>8
  <2> HIDE DEF Eq
  <2>3. Unrolls(it, n, [at |-> <<>>, next |-> start, failed |-> None], g, V)
    BY <2>1, <2>2 DEF Unrolls
  <2> QED
    BY <1>1, <1>4, <1>5, <2>3, FoldTurns
<1>10. ASSUME NEW i \in 1 .. n
       PROVE  h[i - 1] \in V /\ h[i] = Decode(p, end, h[i - 1], Addrs(start, end)[i])
  <2>1. h[i - 1] \in V /\ h[i] = g[i][h[i - 1]]
    BY <1>1, <1>9 DEF RunsOf
  <2>2. \A v \in V : g[i][v] = Decode(p, end, v, Addrs(start, end)[i])
    BY <1>6
  <2> QED
    BY <2>1, <2>2
<1>11. h \in [0 .. n -> V] /\ h[0] = [at |-> <<>>, next |-> start, failed |-> None]
  BY <1>9 DEF RunsOf
<1> QED
  BY <1>2, <1>9, <1>10, <1>11 DEF RunOf, n, V

LEMMA LinearTyped ==
  ASSUME NEW p, NEW start \in Int, NEW end \in Int
  PROVE  Linear(p, start, end).at \in Seq(Int)
<1>1. Linear(p, start, end) \in Decoded(p)
  <2> DEFINE n == Len(Addrs(start, end))
  <2>1. n \in 0 .. n
    BY AddrsTyped
  <2>2. PICK h : RunOf(p, start, end, Addrs(start, end), h)
    BY LinearTurns
  <2>3. h \in [0 .. n -> Decoded(p)] /\ h[n] = Linear(p, start, end)
    BY <2>2 DEF RunOf
  <2> HIDE DEF n
  <2> QED
    BY <2>1, <2>3
<1> QED
  BY <1>1 DEF Decoded

LEMMA FiniteUnions ==
  /\ IsFiniteSet({}) /\ \A x : IsFiniteSet({x})
  /\ \A S, T : IsFiniteSet(S) /\ IsFiniteSet(T) => IsFiniteSet(S \cup T)
  BY FS_EmptySet, FS_Singleton, FS_Union

LEMMA IfFinite == \A cond, d : IsFiniteSet(If(cond, d))
  BY FiniteUnions DEF If

\* The indices of a sequence, or some of them.
LEMMA IndicesFinite ==
  ASSUME NEW X, NEW s \in Seq(X)
  PROVE  \A I \in SUBSET DOMAIN s : IsFiniteSet(I)
<1>1. DOMAIN s = 1 .. Len(s) /\ Len(s) \in Nat
  OBVIOUS
<1>2. IsFiniteSet(DOMAIN s)
  BY <1>1, FS_Interval
<1> QED
  BY <1>2, FS_Subset

LEMMA ElementsFinite ==
  ASSUME NEW X, NEW s \in Seq(X)
  PROVE  IsFiniteSet(ToSet(s))
<1>1. IsFiniteSet(DOMAIN s)
  BY IndicesFinite
<1> DEFINE F == [i \in DOMAIN s |-> s[i]]
<1>2. ToSet(s) = {F[i] : i \in DOMAIN s}
  BY DEF ToSet
<1> HIDE DEF F
<1> QED
  BY <1>1, <1>2, ImageFinite

LEMMA SegmentsReport ==
  ASSUME NEW c, NEW only
  PROVE  IsFiniteSet(validate_code_segments(c, only))
  BY IfFinite, FiniteUnions DEF validate_code_segments

LEMMA TextReport ==
  ASSUME NEW c \in Configs, NEW only
  PROVE  IsFiniteSet(validate_text_sections(c, only))
<1> DEFINE T == {i \in DOMAIN c.text : only = None \/ c.text[i].seg = only}
           one(t) ==
             IF t.seg # t.endseg THEN {Err("text crosses segments", t.start)}
             ELSE IF t.end <= t.start THEN {Err("text range", t.start)}
             ELSE If(~contains_region(t), Err("text outside image", t.start))
                  \cup If(~code_seg_lookup(c, t.seg), Warn("text inert", t.start))
                  \cup If(~t.typed /\ t.access # None, Err("access without type", t.start))
                  \cup If(t.access # None /\ ~contains_addr(t.seg, t.access),
                          Err("access outside image", t.access))
           F == [i \in T |-> one(c.text[i])]
<1>1. IsFiniteSet(T)
  <2>1. T \in SUBSET DOMAIN c.text
    OBVIOUS
  <2> HIDE DEF T
  <2> QED BY <2>1, ConfigTyped, IndicesFinite
<1>2. \A t : IsFiniteSet(one(t))
  BY IfFinite, FiniteUnions
<1>3. \A i \in T : IsFiniteSet(F[i])
  <2> HIDE DEF one
  <2> QED BY <1>2
<1>4. \E x, y : validate_text_sections(c, only) = (UNION {F[i] : i \in T}) \cup x \cup y
                /\ IsFiniteSet(x) /\ IsFiniteSet(y)
  <2>1. UNION {one(c.text[i]) : i \in T} = UNION {F[i] : i \in T}
    OBVIOUS
  <2> DEFINE x == If(\E i, j \in T : i < j /\ c.text[i].name = c.text[j].name,
                     Err("duplicate text name", None))
             y == If(\E i, j \in T : i < j /\ (is_data_hole(c.text[i]) \/ is_data_hole(c.text[j]))
                                     /\ ranges_overlap(c.text[i], c.text[j]),
                     Err("text overlaps", None))
  <2>2. validate_text_sections(c, only) = (UNION {one(c.text[i]) : i \in T}) \cup x \cup y
    BY DEF validate_text_sections
  <2>3. IsFiniteSet(x) /\ IsFiniteSet(y)
    BY IfFinite
  <2> HIDE DEF x, y, F, one
  <2> QED
    BY <2>1, <2>2, <2>3
<1> HIDE DEF F, T
<1> DEFINE U == UNION {F[i] : i \in T}
<1>5. IsFiniteSet(U)
  BY <1>1, <1>3, UnionFinite
<1>6. \E x, y : validate_text_sections(c, only) = U \cup x \cup y /\ IsFiniteSet(x) /\ IsFiniteSet(y)
  BY <1>4
<1> HIDE DEF U
<1> QED
  BY <1>5, <1>6, FiniteUnions

LEMMA IndirectsReport ==
  ASSUME NEW c \in Configs, NEW only
  PROVE  IsFiniteSet(validate_indirects(c, only))
<1> DEFINE I == {i \in DOMAIN c.indirects : only = None \/ c.indirects[i].seg = only}
           outside == {i \in I : ~contains_addr(c.indirects[i].seg, c.indirects[i].addr)}
           F == [i \in outside |-> Err("indirect outside image", c.indirects[i].addr)]
           x == If(\E i, j \in I : i < j /\ c.indirects[i] = c.indirects[j], Err("duplicate indirect", None))
<1>1. IsFiniteSet(outside)
  <2>1. outside \in SUBSET DOMAIN c.indirects
    OBVIOUS
  <2> HIDE DEF outside
  <2> QED BY <2>1, ConfigTyped, IndicesFinite
<1>2. IsFiniteSet(x)
  BY IfFinite
<1>3. validate_indirects(c, only) = x \cup {F[i] : i \in outside}
  <2>1. {Err("indirect outside image", c.indirects[i].addr) : i \in outside} = {F[i] : i \in outside}
    OBVIOUS
  <2> HIDE DEF F
  <2> QED BY <2>1 DEF validate_indirects
<1> HIDE DEF F, outside, x
<1> DEFINE U == {F[i] : i \in outside}
<1>4. IsFiniteSet(U)
  BY <1>1, ImageFinite
<1>5. validate_indirects(c, only) = x \cup U
  BY <1>3
<1> HIDE DEF U
<1> QED
  BY <1>2, <1>4, <1>5, FiniteUnions

LEMMA CodeTyped ==
  ASSUME NEW c \in Configs, NEW rs \in Seq(Regions)
  PROVE  code_regions(c.text, rs) \in Seq(Regions)
<1>1. c.text \in Seq(TextRegions)
  BY ConfigTyped
<1>2. Len(c.text) \in Nat /\ DOMAIN c.text = 1 .. Len(c.text)
      /\ \A i \in 1 .. Len(c.text) : c.text[i] \in TextRegions
  BY <1>1
<1>3. \A t \in TextRegions : Located(t)
  BY DEF TextRegions, Located
<1>4. Declared(c.text)
  BY <1>2, <1>3 DEF Declared
<1> QED
  BY <1>4, CodeRegionsExact

LEMMA DataReport ==
  ASSUME NEW c, NEW f \in Funcs
  PROVE  IsFiniteSet(data_errors(c, f))
<1> DEFINE regions == effective_regions(f)
           I == {i \in DOMAIN regions : code_regions(c.text, <<regions[i]>>) = <<>>}
           F == [i \in I |-> Err("region is data", regions[i].start)]
           x == If(f.seg = Code /\ data_region_containing(c, f.start), Err("start in data", f.start))
<1>1. IsFiniteSet(I)
  <2>1. regions \in Seq(Regions)
    BY EffectiveTyped
  <2>2. I \in SUBSET DOMAIN regions
    OBVIOUS
  <2> HIDE DEF I, regions
  <2> QED
    BY <2>1, <2>2, IndicesFinite
<1>2. data_errors(c, f) = {F[i] : i \in I} \cup x
  <2>1. {Err("region is data", regions[i].start) : i \in I} = {F[i] : i \in I}
    OBVIOUS
  <2> HIDE DEF F
  <2> QED
    BY <2>1 DEF data_errors
<1>3. IsFiniteSet(x)
  BY IfFinite
<1> HIDE DEF F, I, x
<1> DEFINE U == {F[i] : i \in I}
<1>4. IsFiniteSet(U)
  BY <1>1, ImageFinite
<1>5. data_errors(c, f) = U \cup x
  BY <1>2
<1> HIDE DEF U
<1> QED
  BY <1>3, <1>4, <1>5, FiniteUnions

LEMMA RegionReport ==
  ASSUME NEW f \in Funcs, NEW seg
  PROVE  IsFiniteSet(region_errors(f, seg))
<1> DEFINE sorted == Sort(f.regions)
           J == DOMAIN sorted
           F == [j \in J |-> RegionErrors(f, seg, sorted, j)]
           x == If(~\E j \in DOMAIN sorted : RegionContains(sorted[j], f.seg, f.start),
                   Err("start outside regions", f.start))
           U == UNION {F[j] : j \in J}
<1>1. IsFiniteSet(J)
  <2>1. f.regions \in Seq(Regions)
    BY DEF Funcs
  <2>2. sorted \in Seq(Regions)
    BY <2>1, SortSound
  <2> HIDE DEF sorted
  <2> QED
    BY <2>2, IndicesFinite
<1>2. \A j \in J : IsFiniteSet(F[j])
  <2>1. ASSUME NEW j
        PROVE  IsFiniteSet(RegionErrors(f, seg, sorted, j))
    <3> DEFINE r == sorted[j]
               all == [i \in 1 .. 6 |->
                 CASE i = 1 -> If(r.seg # f.seg \/ r.endseg # f.seg, Err("region leaves segment", r.start))
                   [] i = 2 -> If(\/ r.endseg < r.seg \/ (r.endseg = r.seg /\ r.end <= r.start),
                                  Err("region range", r.start))
                   [] i = 3 -> If(f.end # NoEnd /\ (r.endseg > f.seg \/ (r.endseg = f.seg /\ r.end > f.end)),
                                  Err("region past end", r.start))
                   [] i = 4 -> If(r.seg = r.endseg /\ ~contains_region(r), Err("region outside image", r.start))
                   [] i = 5 -> If(~RegionContains([seg |-> seg.seg, start |-> 0, end |-> seg.end], r.seg, r.start)
                                  \/ r.endseg > seg.seg \/ (r.endseg = seg.seg /\ r.end > seg.end),
                                  Err("region outside segment", r.start))
                   [] OTHER -> If(j > 1 /\ r.seg = sorted[j - 1].seg
                                  /\ (sorted[j - 1].endseg > r.seg
                                      \/ (sorted[j - 1].endseg = r.seg /\ r.start < sorted[j - 1].end)),
                                  Err("regions overlap", r.start))]
    <3> HIDE DEF sorted
    <3>1. RegionErrors(f, seg, sorted, j) = all[1] \cup all[2] \cup all[3] \cup all[4] \cup all[5] \cup all[6]
      BY DEF RegionErrors
    <3>2. \A i \in 1 .. 6 : IsFiniteSet(all[i])
      BY IfFinite
    <3> HIDE DEF all
    <3>3. /\ IsFiniteSet(all[1]) /\ IsFiniteSet(all[2]) /\ IsFiniteSet(all[3])
          /\ IsFiniteSet(all[4]) /\ IsFiniteSet(all[5]) /\ IsFiniteSet(all[6])
      BY <3>2
    <3>4. IsFiniteSet(all[1] \cup all[2] \cup all[3])
      BY <3>3, FiniteUnions
    <3>5. IsFiniteSet(all[1] \cup all[2] \cup all[3] \cup all[4])
      BY <3>3, <3>4, FiniteUnions
    <3>6. IsFiniteSet(all[1] \cup all[2] \cup all[3] \cup all[4] \cup all[5])
      BY <3>3, <3>5, FiniteUnions
    <3> QED
      BY <3>1, <3>3, <3>6, FiniteUnions
  <2> HIDE DEF sorted
  <2> QED
    BY <2>1
<1>3. region_errors(f, seg) = U \cup x
  <2>1. UNION {RegionErrors(f, seg, sorted, j) : j \in J} = U
    OBVIOUS
  <2> HIDE DEF U
  <2> QED
    BY <2>1, RegionErrorsAre
<1>4. IsFiniteSet(x)
  BY IfFinite
<1>5. IsFiniteSet(U)
  <2> HIDE DEF J, F
  <2> QED BY <1>1, <1>2, UnionFinite
<1> HIDE DEF U, x
<1> QED
  BY <1>3, <1>4, <1>5, FiniteUnions

LEMMA AnalysisReport ==
  ASSUME NEW c, NEW p, NEW f, NEW d
  PROVE  IsFiniteSet(validate_analysis(c, p, f, d))
<1>1. IsFiniteSet(validate_return_mode(f, d))
  BY IfFinite, FiniteUnions DEF validate_return_mode
<1>2. IsFiniteSet(validate_direct_calls(c, p, d.calls))
  <2> DEFINE A(mode) == {a \in 0 .. ImageLen - 1 : [at |-> a, mode |-> mode] \in d.calls}
             To == [a \in 0 .. ImageLen - 1 |-> p[a].to]
             called(mode) == {To[a] : a \in A(mode)}
             both == called("near") \cap called("far")
             one(to, mode) == LET target == func_lookup(c, to)
                              IN IF target = NotFound THEN {Warn("unconfigured target", to)}
                                 ELSE If(target.mode # mode, Err("call mode", to))
             Nears == called("near") \ both
             Fars == called("far") \ both
             B == [to \in both |-> Err("near and far", to)]
             N == [to \in Nears |-> one(to, "near")]
             F == [to \in Fars |-> one(to, "far")]
             U == {B[to] : to \in both}
             V == UNION {N[to] : to \in Nears}
             W == UNION {F[to] : to \in Fars}
  <2>1. ASSUME NEW mode
        PROVE  IsFiniteSet(called(mode))
    <3>1. A(mode) \in SUBSET (0 .. ImageLen - 1)
      OBVIOUS
    <3> HIDE DEF A, To
    <3>3. IsFiniteSet(0 .. ImageLen - 1)
      BY ImageAssumption, FS_Interval
    <3>2. IsFiniteSet(A(mode))
      BY <3>1, <3>3, FS_Subset
    <3> QED
      BY <3>2, ImageFinite
  <2>2. IsFiniteSet(both) /\ IsFiniteSet(Nears) /\ IsFiniteSet(Fars)
    <3>1. IsFiniteSet(called("near")) /\ IsFiniteSet(called("far"))
      BY <2>1
    <3>2. both \subseteq called("near") /\ Nears \subseteq called("near") /\ Fars \subseteq called("far")
      OBVIOUS
    <3> HIDE DEF both, Nears, Fars, called
    <3> QED
      BY <3>1, <3>2, FS_Subset
  <2>3. \A to, mode : IsFiniteSet(one(to, mode))
    BY IfFinite, FiniteUnions
  <2>4. validate_direct_calls(c, p, d.calls) = U \cup V \cup W
    <3>1. \A mode : called(mode) = {p[a].to : a \in {a \in 0 .. ImageLen - 1 : [at |-> a, mode |-> mode] \in d.calls}}
      OBVIOUS
    <3>2. U = {Err("near and far", to) : to \in both}
      <4> HIDE DEF both
      <4> QED OBVIOUS
    <3>3. V = UNION {one(to, "near") : to \in Nears}
      <4> HIDE DEF Nears, one
      <4> QED OBVIOUS
    <3>4. W = UNION {one(to, "far") : to \in Fars}
      <4> HIDE DEF Fars, one
      <4> QED OBVIOUS
    <3> DEFINE cc(mode) == {p[a].to : a \in {a \in 0 .. ImageLen - 1 : [at |-> a, mode |-> mode] \in d.calls}}
    <3>5. validate_direct_calls(c, p, d.calls) =
            {Err("near and far", to) : to \in cc("near") \cap cc("far")}
            \cup (UNION {one(to, "near") : to \in cc("near") \ (cc("near") \cap cc("far"))})
            \cup (UNION {one(to, "far") : to \in cc("far") \ (cc("near") \cap cc("far"))})
      BY DEF validate_direct_calls
    <3>6. cc("near") = called("near") /\ cc("far") = called("far")
      BY <3>1
    <3> HIDE DEF cc, called, one, U, V, W
    <3> QED
      BY <3>2, <3>3, <3>4, <3>5, <3>6
  <2>5. IsFiniteSet(U) /\ IsFiniteSet(V) /\ IsFiniteSet(W)
    <3>1. IsFiniteSet(U)
      <4> HIDE DEF B, both
      <4> QED BY <2>2, ImageFinite
    <3>2. IsFiniteSet(V)
      <4>1. \A to \in Nears : IsFiniteSet(N[to])
        <5> HIDE DEF one, Nears
        <5> QED BY <2>3
      <4> HIDE DEF N, Nears
      <4> QED BY <2>2, <4>1, UnionFinite
    <3>3. IsFiniteSet(W)
      <4>1. \A to \in Fars : IsFiniteSet(F[to])
        <5> HIDE DEF one, Fars
        <5> QED BY <2>3
      <4> HIDE DEF F, Fars
      <4> QED BY <2>2, <4>1, UnionFinite
    <3> QED
      BY <3>1, <3>2, <3>3
  <2> HIDE DEF U, V, W
  <2> QED
    BY <2>4, <2>5, FiniteUnions
<1> HIDE DEF Warn
<1> QED
  BY <1>1, <1>2, IfFinite, FiniteUnions DEF validate_analysis

LEMMA BranchReport ==
  ASSUME NEW c, NEW p, NEW regions \in Seq(Regions)
  PROVE  IsFiniteSet(validate_branch_targets(c, p, regions))
<1> DEFINE in_range(a) == \E i \in DOMAIN regions : RegionContains(regions[i], Code, a)
           one(a) ==
             IF direct_target(p[a]) = None THEN {}
             ELSE IF data_region_containing(c, direct_target(p[a])) THEN {Err("target in data", a)}
             ELSE If(branch_target(p[a]) # None /\ ~in_range(branch_target(p[a])),
                     Warn("branch leaves", a))
           I == DOMAIN regions
           Of == [i \in I |-> ToSet(Linear(p, regions[i].start, regions[i].end).at)]
           A == UNION {Of[i] : i \in I}
           F == [a \in A |-> one(a)]
           U == UNION {F[a] : a \in A}
<1>1. IsFiniteSet(A)
  <2>1. IsFiniteSet(I)
    BY IndicesFinite
  <2>2. ASSUME NEW i \in I
        PROVE  IsFiniteSet(Of[i])
    <3>1. regions[i].start \in Int /\ regions[i].end \in Int
      <4>1. i \in 1 .. Len(regions)
        BY RegionSeq
      <4>2. regions[i].start \in Nat /\ regions[i].end \in Nat
        BY <4>1, RegionSeq
      <4> HIDE DEF I, Of
      <4> QED
        BY <4>2
    <3>2. Linear(p, regions[i].start, regions[i].end).at \in Seq(Int)
      BY <3>1, LinearTyped
    <3>3. IsFiniteSet(ToSet(Linear(p, regions[i].start, regions[i].end).at))
      BY <3>2, ElementsFinite
    <3> QED
      BY <3>3
  <2> HIDE DEF I, Of
  <2> QED
    BY <2>1, <2>2, UnionFinite
<1>2. \A a : IsFiniteSet(one(a))
  <2> HIDE DEF in_range
  <2> QED BY IfFinite, FiniteUnions
<1>3. validate_branch_targets(c, p, regions) = U
  <2>1. A = UNION {ToSet(Linear(p, regions[i].start, regions[i].end).at) : i \in DOMAIN regions}
    OBVIOUS
  <2>2. U = UNION {one(a) : a \in A}
    <3> HIDE DEF one, A
    <3> QED OBVIOUS
  <2> DEFINE AA == UNION {ToSet(Linear(p, regions[i].start, regions[i].end).at) : i \in DOMAIN regions}
  <2>3. validate_branch_targets(c, p, regions) = UNION {one(a) : a \in AA}
    BY DEF validate_branch_targets
  <2>4. A = AA
    BY <2>1
  <2> HIDE DEF A, AA, one, U
  <2> QED
    BY <2>2, <2>3, <2>4
<1>4. \A a \in A : IsFiniteSet(F[a])
  <2> HIDE DEF one, A
  <2> QED BY <1>2
<1> HIDE DEF F, A
<1>5. IsFiniteSet(U)
  BY <1>1, <1>4, UnionFinite
<1> QED
  BY <1>3, <1>5

LEMMA CodeReport ==
  ASSUME NEW c, NEW p, NEW f, NEW code \in Seq(Regions)
  PROVE  IsFiniteSet(validate_code(c, p, f, code))
<1> DEFINE d == build_with_regions(p, f.start, Outer(f).off,
                  IF f.regions = <<>> /\ ~has_data_in_regions(c, effective_regions(f)) THEN <<>> ELSE code,
                  code_segment_for_function(f).end)
           V == validate_analysis(c, p, f, d)
           B == validate_branch_targets(c, p, code)
<1>1. validate_code(c, p, f, code) =
        IF \E i \in DOMAIN code : first_undecodable_addr(p, code[i]) # None
        THEN {Err("undecodable", f.start)}
        ELSE IF first_data_fallthrough(c, p, code) THEN {Err("falls into data", f.start)}
        ELSE B \cup V
  BY DEF validate_code
<1>2. IsFiniteSet(V)
  <2> HIDE DEF d
  <2> QED BY AnalysisReport
<1>3. IsFiniteSet(B)
  BY BranchReport
<1> HIDE DEF V, B
<1> QED
  BY <1>1, <1>2, <1>3, FiniteUnions

LEMMA FunctionReport ==
  ASSUME NEW c \in Configs, NEW p, NEW f \in Funcs, NEW local
  PROVE  IsFiniteSet(validate_function(c, p, f, local))
<1> DEFINE code == code_regions(c.text, effective_regions(f))
           ranges == RangeErrors(c, f)
           V == validate_code(c, p, f, code)
           X == {x \in ToSet(c.indirects) :
                   /\ \E i \in DOMAIN effective_regions(f) :
                        RegionContains(effective_regions(f)[i], x.seg, x.addr)
                   /\ x.seg = f.seg /\ ~contains_addr(x.seg, x.addr)}
           Y == IF local THEN {Err("indirect outside image", x.addr) : x \in X} ELSE {}
           declared == If(~code_seg_lookup(c, f.seg), Err("undeclared segment", f.start))
           entered == If(f.entry # None /\ ~\E i \in DOMAIN code : RegionContains(code[i], Code, f.entry),
                         Err("entry outside", f.start))
<1>1. IsFiniteSet(ranges)
  <2>1. IsFiniteSet(data_errors(c, f))
    BY DataReport
  <2>2. IsFiniteSet(region_errors(f, code_segment_for_function(f)))
    BY RegionReport
  <2>3. IsFiniteSet(IF f.regions = <<>> THEN {} ELSE region_errors(f, code_segment_for_function(f)))
    BY <2>2, FiniteUnions
  <2> QED
    BY <2>1, <2>3, FiniteUnions DEF RangeErrors
<1>2. IsFiniteSet(V)
  <2>1. code \in Seq(Regions)
    BY EffectiveTyped, CodeTyped
  <2> HIDE DEF code
  <2> QED
    BY <2>1, CodeReport
<1>3. IsFiniteSet(Y)
  <2>1. IsFiniteSet(ToSet(c.indirects))
    BY ConfigTyped, ElementsFinite
  <2>2. IsFiniteSet(X)
    <3>1. X \subseteq ToSet(c.indirects)
      OBVIOUS
    <3> HIDE DEF X
    <3> QED BY <2>1, <3>1, FS_Subset
  <2> DEFINE F == [x \in X |-> Err("indirect outside image", x.addr)]
             U == {F[x] : x \in X}
  <2>3. IsFiniteSet(U)
    <3> HIDE DEF F, X
    <3> QED BY <2>2, ImageFinite
  <2>4. Y = IF local THEN U ELSE {}
    <3> HIDE DEF X
    <3> QED OBVIOUS
  <2> HIDE DEF U, Y
  <2> QED
    BY <2>3, <2>4, FiniteUnions
<1>4. IsFiniteSet(declared) /\ IsFiniteSet(entered)
  BY IfFinite
<1>5. validate_function(c, p, f, local) =
        IF Outer(f).off = NoEnd THEN {Err("no end", f.start)}
        ELSE IF Outer(f).seg # f.seg THEN {Err("crosses segments", f.start)}
        ELSE IF Outer(f).off <= f.start THEN {Err("range", f.start)}
        ELSE IF f.regions = <<>> /\ ~contains_region(Region(f.seg, f.start, f.seg, f.end))
        THEN declared \cup ranges \cup {Err("outside image", f.start)}
        ELSE IF f.start >= code_segment_for_function(f).end
        THEN declared \cup ranges \cup {Err("starts outside segment", f.start)}
        ELSE IF ranges # {} THEN declared \cup ranges
        ELSE declared \cup entered \cup Y \cup V
  <2>1. validate_function(c, p, f, local) = validate_ranged(c, p, f, local, ranges, code)
    BY DEF validate_function, RangeErrors
  <2> HIDE DEF ranges, code
  <2> QED
    BY <2>1 DEF validate_ranged
<1> HIDE DEF code, ranges, V, X, Y, declared, entered
<1>6. IsFiniteSet(declared \cup ranges)
  BY <1>1, <1>4, FiniteUnions
<1>7. IsFiniteSet(declared \cup entered \cup Y \cup V)
  <2>1. IsFiniteSet(declared \cup entered \cup Y)
    BY <1>3, <1>4, FiniteUnions
  <2> QED
    BY <1>2, <2>1, FiniteUnions
<1>8. \A d : IsFiniteSet(declared \cup ranges \cup {d}) /\ IsFiniteSet({d})
  BY <1>6, FiniteUnions
<1> QED
  BY <1>5, <1>6, <1>7, <1>8

\* validate_config (validate.rs): the number of global failures a run books
\* is that of a finite report.
LEMMA ReportFinite ==
  ASSUME NEW c \in Configs, NEW p, NEW scope
  PROVE  IsFiniteSet(validate_config(c, p, scope))
<1> DEFINE S == Selected(c, scope)
           only == IF scope.kind = "all" THEN None ELSE code_seg_lookup_by_name(c, scope.name).seg
           F == [i \in DOMAIN S |-> validate_function(c, p, S[i], scope.kind = "function")]
           U == UNION {F[i] : i \in DOMAIN S}
           a == If(scope.kind = "segment" /\ S = <<>>, Warn("no functions", None))
           b1 == validate_code_segments(c, IF scope.kind = "all" THEN "" ELSE scope.name)
           b2 == validate_text_sections(c, only)
           b3 == validate_indirects(c, only)
           b == IF scope.kind = "function" THEN {} ELSE b1 \cup b2 \cup b3
           d == If(\E i, j \in DOMAIN S : i < j /\ S[i].name = S[j].name, Err("duplicate name", None))
           e == If(\E i, j \in DOMAIN S : i < j /\ S[i].seg = S[j].seg /\ S[i].start = S[j].start,
                   Err("shared start", None))
<1>1. validate_config(c, p, scope) =
        IF scope.kind = "function" /\ S = <<>> THEN {Err("no such function", None)}
        ELSE IF scope.kind = "segment" /\ code_seg_lookup_by_name(c, scope.name) = NotFound
        THEN {Err("no such segment", None)}
        ELSE a \cup b \cup d \cup e \cup U
  <2>1. U = UNION {validate_function(c, p, S[i], scope.kind = "function") : i \in DOMAIN S}
    <3> HIDE DEF S
    <3> QED OBVIOUS
  <2> HIDE DEF U
  <2> QED
    BY <2>1 DEF validate_config
<1>2. S \in Seq(Funcs)
  BY SelectedSound
<1>3. IsFiniteSet(U)
  <2>1. IsFiniteSet(DOMAIN S)
    <3> HIDE DEF S
    <3> QED BY <1>2, IndicesFinite
  <2>2. \A i \in DOMAIN S : IsFiniteSet(F[i])
    <3> HIDE DEF S
    <3>1. \A i \in DOMAIN S : S[i] \in Funcs
      BY <1>2
    <3> QED
      BY <3>1, FunctionReport
  <2> HIDE DEF S, F
  <2> QED
    BY <2>1, <2>2, UnionFinite
<1>4. IsFiniteSet(a) /\ IsFiniteSet(d) /\ IsFiniteSet(e)
  BY IfFinite
<1>5. IsFiniteSet(b)
  <2>1. IsFiniteSet(b1) /\ IsFiniteSet(b2) /\ IsFiniteSet(b3)
    BY SegmentsReport, TextReport, IndirectsReport
  <2> HIDE DEF b1, b2, b3
  <2> QED
    BY <2>1, FiniteUnions
<1> HIDE DEF S, U, a, b, d, e
<1>6. IsFiniteSet(a \cup b \cup d)
  BY <1>4, <1>5, FiniteUnions
<1>7. IsFiniteSet(a \cup b \cup d \cup e \cup U)
  BY <1>3, <1>4, <1>6, FiniteUnions
<1> QED
  BY <1>1, <1>7, FiniteUnions

---------------------------------------------------------------------------
(* The verdict of the preflight *)

\* A configuration that validates has only sound functions in its scope.
LEMMA ConfigSound ==
  ASSUME NEW c \in Configs, NEW p, NEW scope, scope.kind \in {"function", "segment"},
         ~has_errors(validate_config(c, p, scope))
  PROVE  \A i \in DOMAIN Selected(c, scope) : Sound(Selected(c, scope)[i])
<1> DEFINE S == Selected(c, scope)
           V == validate_config(c, p, scope)
<1>1. \A d \in V : d.severity # "error"
  BY DEF has_errors
<1>2. \A what, at : Err(what, at) \notin V
  BY <1>1 DEF Err
<1>3. ~(scope.kind = "function" /\ S = <<>>)
  BY <1>2 DEF validate_config
<1>4. ~(scope.kind = "segment" /\ code_seg_lookup_by_name(c, scope.name) = NotFound)
  BY <1>2, <1>3 DEF validate_config
<1>5. S \in Seq(Funcs)
  BY SelectedSound
<1>6. ASSUME NEW i \in DOMAIN S
      PROVE  Sound(S[i])
  <2> DEFINE W == validate_function(c, p, S[i], scope.kind = "function")
             U == UNION {validate_function(c, p, S[j], scope.kind = "function") : j \in DOMAIN S}
  <2>1. W \subseteq U
    BY <1>6
  <2>2. U \subseteq V
    BY <1>3, <1>4 DEF validate_config
  <2>3. Passes(W)
    <3> HIDE DEF W, U, V
    <3> QED BY <1>1, <2>1, <2>2 DEF Passes
  <2>4. S[i] \in Funcs
    BY <1>5, <1>6
  <2> HIDE DEF S
  <2> QED
    BY <2>3, <2>4, ValidationSound
<1> QED
  BY <1>6

---------------------------------------------------------------------------
(* infer_specs *)

\* The names of specs: a range is called "range", which STRING has, but no
\* prover here knows that of a literal.
SpecNames == STRING \cup {"range"}
Specs == [name : SpecNames, seg : Nat, start : Nat, regions : Seq(Regions)]
LEMMA FromFunc ==
  ASSUME NEW f \in Funcs
  PROVE  from_func(f) \in Specs /\ from_func(f).seg = f.seg /\ from_func(f).name = f.name
<1>1. f.name \in STRING /\ f.seg \in Nat /\ f.start \in Nat
  BY DEF Funcs
<1>2. effective_regions(f) \in Seq(Regions)
  BY EffectiveTyped
<1> QED
  BY <1>1, <1>2 DEF from_func, Specs, SpecNames

Inference(fs) == FoldLeft(InferTurn, [specs |-> <<>>, failed |-> <<>>], fs)
Inferences == [specs : Seq(Specs), failed : Seq(Funcs)]

LEMMA InferTurns ==
  ASSUME NEW fs \in Seq(Funcs)
  PROVE  \E h \in [0 .. Len(fs) -> Inferences] :
           /\ h[0] = [specs |-> <<>>, failed |-> <<>>] /\ h[Len(fs)] = Inference(fs)
           /\ \A i \in 1 .. Len(fs) : h[i - 1] \in Inferences /\ h[i] = InferTurn(h[i - 1], fs[i])
<1> DEFINE n == Len(fs)
           V == Inferences
           g == [i \in 1 .. n |-> [v \in V |-> InferTurn(v, fs[i])]]
           Eq(it) == it = [s \in SUBSET DOMAIN fs |->
                            IF s = {} THEN [specs |-> <<>>, failed |-> <<>>]
                            ELSE InferTurn(it[s \ {Max(s)}], fs[Max(s)])]
           it == CHOOSE it : Eq(it)
<1>1. n \in Nat /\ DOMAIN fs = 1 .. n /\ \A i \in 1 .. n : fs[i] \in Funcs
  OBVIOUS
<1>2. Inference(fs) = it[1 .. n]
  BY <1>1 DEF Inference, FoldLeft, MapThenFoldSet
<1>3. \A v \in V, f \in Funcs : InferTurn(v, f) \in V
  <2> SUFFICES ASSUME NEW v \in V, NEW f \in Funcs PROVE InferTurn(v, f) \in V
    OBVIOUS
  <2>3. /\ V = [specs : Seq(Specs), failed : Seq(Funcs)]
        /\ v.specs \in Seq(Specs) /\ v.failed \in Seq(Funcs)
    BY DEF Inferences
  <2>4. Append(v.specs, from_func(f)) \in Seq(Specs)
    BY <2>3, FromFunc
  <2>5. Append(v.failed, f) \in Seq(Funcs)
    BY <2>3
  <2> HIDE DEF g
  <2>1. [v EXCEPT !.specs = Append(@, from_func(f))] \in V
    BY <2>3, <2>4 DEF Inferences
  <2>2. [v EXCEPT !.failed = Append(@, f)] \in V
    BY <2>3, <2>5 DEF Inferences
  <2> HIDE DEF V
  <2> QED
    BY <2>1, <2>2 DEF InferTurn
<1>4. [specs |-> <<>>, failed |-> <<>>] \in V
  BY DEF Inferences
<1> HIDE DEF V
<1>5. g \in Turns(n, V)
  BY <1>1, <1>3 DEF Turns
<1>6. \A i \in 1 .. n : \A v \in V : g[i][v] = InferTurn(v, fs[i])
  OBVIOUS
<1> HIDE DEF g, n
<1>7. \A s \in SUBSET (1 .. n) : s # {} => Max(s) \in 1 .. n /\ s \ {Max(s)} \in SUBSET (1 .. n)
  BY <1>1, LargestIndex
<1>8. Eq(it)
  <2>1. PICK f : f \in FoldsOf(n, [specs |-> <<>>, failed |-> <<>>], g, V)
    BY <1>1, <1>4, <1>5, FoldExists
  <2>2. Eq(f)
    BY <1>1, <1>6, <1>7, <2>1 DEF FoldsOf
  <2> HIDE DEF Eq
  <2> QED BY <2>2
<1> HIDE DEF it
<1>9. PICK h \in RunsOf(n, [specs |-> <<>>, failed |-> <<>>], g, V) : h[n] = it[1 .. n]
  <2>1. it[{}] = [specs |-> <<>>, failed |-> <<>>]
    BY <1>1, <1>8
  <2>2. \A s \in SUBSET (1 .. n) : s # {} /\ it[s \ {Max(s)}] \in V =>
           it[s] = g[Max(s)][it[s \ {Max(s)}]]
    BY <1>1, <1>6, <1>7, <1>8
  <2> HIDE DEF Eq
  <2>3. Unrolls(it, n, [specs |-> <<>>, failed |-> <<>>], g, V)
    BY <2>1, <2>2 DEF Unrolls
  <2> QED
    BY <1>1, <1>4, <1>5, <2>3, FoldTurns
<1>10. ASSUME NEW i \in 1 .. n
       PROVE  h[i - 1] \in V /\ h[i] = InferTurn(h[i - 1], fs[i])
  <2>1. h[i - 1] \in V /\ h[i] = g[i][h[i - 1]]
    BY <1>1, <1>9 DEF RunsOf
  <2>2. \A v \in V : g[i][v] = InferTurn(v, fs[i])
    BY <1>6
  <2> QED
    BY <2>1, <2>2
<1> QED
  BY <1>2, <1>9, <1>10 DEF RunsOf, n, V

\* Every function becomes a spec or a failure, and without failures the specs
\* are those of the functions in order.
LEMMA InferSound ==
  ASSUME NEW fs \in Seq(Funcs)
  PROVE  /\ Inference(fs) \in Inferences
         /\ Len(Inference(fs).specs) + Len(Inference(fs).failed) = Len(fs)
         /\ \A k \in 1 .. Len(Inference(fs).specs) :
              \E i \in 1 .. Len(fs) : Inference(fs).specs[k] = from_func(fs[i])
         /\ \A k \in 1 .. Len(Inference(fs).failed) :
              \E i \in 1 .. Len(fs) : Inference(fs).failed[k] = fs[i]
         /\ (\A i \in 1 .. Len(fs) : infer_spec(fs[i]).ok) =>
              /\ Len(Inference(fs).specs) = Len(fs) /\ Len(Inference(fs).failed) = 0
              /\ \A i \in 1 .. Len(fs) : Inference(fs).specs[i] = from_func(fs[i])
<1> DEFINE n == Len(fs)
<1>1. n \in Nat /\ \A i \in 1 .. n : fs[i] \in Funcs
  OBVIOUS
<1>2. PICK h \in [0 .. n -> Inferences] :
        /\ h[0] = [specs |-> <<>>, failed |-> <<>>] /\ h[n] = Inference(fs)
        /\ \A i \in 1 .. n : h[i - 1] \in Inferences /\ h[i] = InferTurn(h[i - 1], fs[i])
  BY InferTurns
<1> HIDE DEF n
<1> DEFINE Good(i) ==
             LET s == h[i].specs e == h[i].failed
             IN /\ Len(s) + Len(e) = i
                /\ \A k \in 1 .. Len(s) : \E j \in 1 .. n : s[k] = from_func(fs[j])
                /\ \A k \in 1 .. Len(e) : \E j \in 1 .. n : e[k] = fs[j]
                /\ (\A j \in 1 .. n : infer_spec(fs[j]).ok) =>
                     Len(s) = i /\ Len(e) = 0 /\ \A j \in 1 .. i : s[j] = from_func(fs[j])
           T == {i \in 0 .. n : Good(i)}
<1>3. 0 \in T
  <2>1. Len(h[0].specs) = 0 /\ Len(h[0].failed) = 0
    BY <1>2
  <2> QED
    BY <1>1, <2>1
<1>4. ASSUME NEW i \in 1 .. n, i - 1 \in T
      PROVE  i \in T
  <2> DEFINE s == h[i - 1].specs
             e == h[i - 1].failed
             l == Len(s)
             m == Len(e)
             f == fs[i]
  <2>1. /\ f \in Funcs /\ s \in Seq(Specs) /\ e \in Seq(Funcs) /\ i \in 0 .. n /\ i - 1 \in 0 .. n
        /\ h[i] = InferTurn(h[i - 1], f) /\ h[i - 1] = [specs |-> s, failed |-> e]
        /\ l \in Nat /\ m \in Nat
    <3>1. h[i - 1] \in Inferences /\ h[i] = InferTurn(h[i - 1], f) /\ f \in Funcs
          /\ i \in 0 .. n /\ i - 1 \in 0 .. n
      BY <1>1, <1>2
    <3>2. h[i - 1] = [specs |-> s, failed |-> e] /\ s \in Seq(Specs) /\ e \in Seq(Funcs)
      BY <3>1 DEF Inferences
    <3>3. l \in Nat /\ m \in Nat
      <4> HIDE DEF s, e
      <4> QED BY <3>2
    <3> HIDE DEF s, e, l, m
    <3> QED
      BY <3>1, <3>2, <3>3
  <2>2. /\ l + m = i - 1
        /\ \A k \in 1 .. l : \E j \in 1 .. n : s[k] = from_func(fs[j])
        /\ \A k \in 1 .. m : \E j \in 1 .. n : e[k] = fs[j]
        /\ (\A j \in 1 .. n : infer_spec(fs[j]).ok) =>
             l = i - 1 /\ m = 0 /\ \A j \in 1 .. i - 1 : s[j] = from_func(fs[j])
    BY <1>4
  <2> HIDE DEF s, e
  <2>3. CASE infer_spec(f).ok
    <3> DEFINE t == Append(s, from_func(f))
    <3>1. h[i].specs = t /\ h[i].failed = e
      BY <2>1, <2>3 DEF InferTurn
    <3>2. from_func(f) \in Specs
      BY <2>1, FromFunc
    <3>3. Len(t) = l + 1 /\ t[l + 1] = from_func(f) /\ \A k \in 1 .. l : t[k] = s[k]
      BY <2>1, <3>2
    <3> HIDE DEF t, l, m
    <3>4. \A k \in 1 .. l + 1 : k \in 1 .. l \/ k = l + 1
      BY <2>1
    <3>5. \A k \in 1 .. l + 1 : \E j \in 1 .. n : t[k] = from_func(fs[j])
      <4> SUFFICES ASSUME NEW k \in 1 .. l + 1 PROVE \E j \in 1 .. n : t[k] = from_func(fs[j])
        OBVIOUS
      <4>1. CASE k \in 1 .. l
        BY <2>2, <3>3, <4>1
      <4>2. CASE k = l + 1
        BY <3>3, <4>2
      <4> QED
        BY <3>4, <4>1, <4>2
    <3>6. (\A j \in 1 .. n : infer_spec(fs[j]).ok) =>
            l + 1 = i /\ m = 0 /\ \A j \in 1 .. i : t[j] = from_func(fs[j])
      <4> SUFFICES ASSUME \A j \in 1 .. n : infer_spec(fs[j]).ok
                   PROVE  l + 1 = i /\ m = 0 /\ \A j \in 1 .. i : t[j] = from_func(fs[j])
        OBVIOUS
      <4>1. l = i - 1 /\ m = 0 /\ \A j \in 1 .. i - 1 : s[j] = from_func(fs[j])
        BY <2>2
      <4>2. \A j \in 1 .. i : j \in 1 .. i - 1 \/ j = i
        OBVIOUS
      <4> QED
        BY <3>3, <4>1, <4>2
    <3>7. l + 1 + m = i
      BY <2>1, <2>2
    <3>8. Len(e) = m /\ Len(t) = l + 1
      BY <3>3 DEF m
    <3>9. Good(i)
      BY <2>2, <3>1, <3>5, <3>6, <3>7, <3>8
    <3> QED
      BY <2>1, <3>9
  <2>4. CASE ~infer_spec(f).ok
    <3> DEFINE t == Append(e, f)
    <3>1. h[i].specs = s /\ h[i].failed = t
      BY <2>1, <2>4 DEF InferTurn
    <3>3. Len(t) = m + 1 /\ t[m + 1] = f /\ \A k \in 1 .. m : t[k] = e[k]
      BY <2>1
    <3> HIDE DEF t, l, m
    <3>4. \A k \in 1 .. m + 1 : k \in 1 .. m \/ k = m + 1
      BY <2>1
    <3>5. \A k \in 1 .. m + 1 : \E j \in 1 .. n : t[k] = fs[j]
      <4> SUFFICES ASSUME NEW k \in 1 .. m + 1 PROVE \E j \in 1 .. n : t[k] = fs[j]
        OBVIOUS
      <4>1. CASE k \in 1 .. m
        BY <2>2, <3>3, <4>1
      <4>2. CASE k = m + 1
        BY <3>3, <4>2
      <4> QED
        BY <3>4, <4>1, <4>2
    <3>6. ~\A j \in 1 .. n : infer_spec(fs[j]).ok
      BY <2>4
    <3>7. l + (m + 1) = i
      BY <2>1, <2>2
    <3>8. Len(s) = l /\ Len(t) = m + 1
      BY <3>3 DEF l
    <3>9. Good(i)
      BY <2>2, <3>1, <3>5, <3>6, <3>7, <3>8
    <3> QED
      BY <2>1, <3>9
  <2> QED
    BY <2>3, <2>4
<1>5. \A i \in 0 .. n : i \in T
  <2> HIDE DEF T
  <2> QED BY <1>1, <1>3, <1>4, CountUp
<1>6. n \in 0 .. n
  BY <1>1
<1>7. Good(n) /\ h[n] \in Inferences
  BY <1>2, <1>5, <1>6
<1> HIDE DEF T
<1> QED
  BY <1>2, <1>7 DEF n

---------------------------------------------------------------------------
(* The ledger *)

Rows == [configured : Nat, attempted : Nat, translated : Nat, failed : Nat,
         causes : [Causes -> Nat], blockers : [Causes -> Nat]]
Counters == {"configured", "attempted", "translated", "failed"}

\* A row adds up, and so does its breakdown by cause.
Adds(row) == row.attempted = row.translated + row.failed /\ row.failed = SumFunction(row.causes)

LEMMA RowTyped ==
  /\ \A row \in Rows : \A field \in Counters : row[field] \in Nat
  /\ \A row \in Rows : /\ row.configured \in Nat /\ row.attempted \in Nat /\ row.translated \in Nat
                       /\ row.failed \in Nat /\ row.causes \in [Causes -> Nat]
                       /\ row.blockers \in [Causes -> Nat]
  BY DEF Rows, Counters

LEMMA CausesFinite == IsFiniteSet(Causes)
<1>1. Causes = {"DECODE_ERROR"} \cup {"CALL_TARGET_IN_DATA"} \cup {"CODEGEN_FAILURE"}
               \cup {"CONFIG_ERROR"} \cup {"INTERNAL_PANIC"}
  BY DEF Causes
<1>2. IsFiniteSet({"DECODE_ERROR"} \cup {"CALL_TARGET_IN_DATA"} \cup {"CODEGEN_FAILURE"})
  BY FiniteUnions
<1>3. IsFiniteSet({"DECODE_ERROR"} \cup {"CALL_TARGET_IN_DATA"} \cup {"CODEGEN_FAILURE"}
                  \cup {"CONFIG_ERROR"})
  BY <1>2, FiniteUnions
<1>4. IsFiniteSet({"DECODE_ERROR"} \cup {"CALL_TARGET_IN_DATA"} \cup {"CODEGEN_FAILURE"}
                  \cup {"CONFIG_ERROR"} \cup {"INTERNAL_PANIC"})
  BY <1>3, FiniteUnions
<1> QED
  BY <1>1, <1>4

LEMMA TotalTyped ==
  ASSUME NEW G, IsFiniteSet(G), NEW l \in [G -> Rows], NEW field \in Counters
  PROVE  /\ Total(field, l) \in Nat
         /\ Total(field, l) = 0 <=> \A x \in G : l[x][field] = 0
<1> DEFINE g == [x \in G |-> l[x][field]]
<1>1. g \in [G -> Nat] /\ \A x \in G : g[x] = l[x][field]
  BY RowTyped
<1>2. Total(field, l) = SumFunction(g)
  BY DEF Total
<1> HIDE DEF g
<1>3. SumFunction(g) \in Nat /\ (SumFunction(g) = 0 <=> \A x \in G : g[x] = 0)
  BY <1>1, SumOfNaturals
<1> QED
  BY <1>1, <1>2, <1>3

\* What d more in one row does to a column.
LEMMA TotalMore ==
  ASSUME NEW G, IsFiniteSet(G), NEW l \in [G -> Rows], NEW m \in [G -> Rows],
         NEW field \in Counters, NEW seg \in G, NEW d \in Nat,
         \A x \in G : m[x][field] = IF x = seg THEN l[x][field] + d ELSE l[x][field]
  PROVE  Total(field, m) = Total(field, l) + d
<1> DEFINE g == [x \in G |-> l[x][field]]
           h == [x \in G |-> m[x][field]]
<1>1. /\ g \in [G -> Int] /\ h \in [G -> Int]
      /\ \A x \in G : h[x] = IF x = seg THEN g[x] + d ELSE g[x]
  BY RowTyped
<1>2. Total(field, l) = SumFunction(g) /\ Total(field, m) = SumFunction(h)
  BY DEF Total
<1> HIDE DEF g, h
<1>4. d \in Int
  OBVIOUS
<1>3. SumFunction(h) = SumFunction(g) + d
  <2>1. g \in [G -> Int] /\ h \in [G -> Int]
    BY <1>1
  <2>2. \A x \in G : h[x] = IF x = seg THEN g[x] + d ELSE g[x]
    BY <1>1
  <2> QED
    BY ONLY IsFiniteSet(G), <1>4, <2>1, <2>2, seg \in G, SumUpdate, SMTT(60)
<1> QED
  BY <1>2, <1>3

\* Columns that are equal row by row.
LEMMA TotalEqual ==
  ASSUME NEW G, NEW l \in [G -> Rows], NEW m \in [G -> Rows], NEW a, NEW b,
         \A x \in G : l[x][a] = m[x][b]
  PROVE  Total(a, l) = Total(b, m)
<1>1. [x \in DOMAIN l |-> l[x][a]] = [x \in DOMAIN m |-> m[x][b]]
  OBVIOUS
<1> QED
  BY <1>1 DEF Total

LEMMA TotalSplits ==
  ASSUME NEW G, IsFiniteSet(G), NEW l \in [G -> Rows], \A x \in G : Adds(l[x])
  PROVE  Total("attempted", l) = Total("translated", l) + Total("failed", l)
<1> DEFINE f == [x \in G |-> l[x]["translated"]]
           g == [x \in G |-> l[x]["failed"]]
           h == [x \in G |-> l[x]["attempted"]]
<1>1. f \in [G -> Int] /\ g \in [G -> Int] /\ h \in [G -> Int]
  BY RowTyped
<1>2. \A x \in G : h[x] = f[x] + g[x]
  BY DEF Adds
<1>3. Total("translated", l) = SumFunction(f) /\ Total("failed", l) = SumFunction(g)
      /\ Total("attempted", l) = SumFunction(h)
  BY DEF Total
<1> HIDE DEF f, g, h
<1>4. SumFunction(h) = SumFunction(f) + SumFunction(g)
  BY <1>1, <1>2, SumAdds
<1> QED
  BY <1>3, <1>4

\* A success and a failure in one row.
Succeeds(row) == [row EXCEPT !.attempted = @ + 1, !.translated = @ + 1]
Fails(row, cause) ==
  [row EXCEPT !.attempted = @ + 1, !.failed = @ + 1, !.causes[cause] = @ + 1,
              !.blockers[cause] = @ + IF is_blocker(cause) THEN 1 ELSE 0]

LEMMA RowSucceeds ==
  ASSUME NEW row \in Rows
  PROVE  /\ Succeeds(row) \in Rows /\ (Adds(row) => Adds(Succeeds(row)))
         /\ Succeeds(row).attempted = row.attempted + 1 /\ Succeeds(row).configured = row.configured
         /\ Succeeds(row).failed = row.failed
<1> DEFINE C == [Causes -> Nat]
           r == Succeeds(row)
<1>1. /\ row.causes \in C /\ row.blockers \in C
      /\ row.attempted \in Nat /\ row.translated \in Nat /\ row.failed \in Nat /\ row.configured \in Nat
  BY RowTyped
<1>2. Rows = [configured : Nat, attempted : Nat, translated : Nat, failed : Nat, causes : C, blockers : C]
  BY DEF Rows
<1> HIDE DEF C
<1>3. r = [configured |-> row.configured, attempted |-> row.attempted + 1,
           translated |-> row.translated + 1, failed |-> row.failed,
           causes |-> row.causes, blockers |-> row.blockers]
  <2>1. r = [row EXCEPT !.attempted = @ + 1, !.translated = @ + 1]
    BY DEF Succeeds
  <2> HIDE DEF r
  <2> QED
    BY <1>2, <2>1
<1> HIDE DEF r
<1>4. r \in Rows
  BY <1>1, <1>2, <1>3
<1>5. /\ r.attempted = row.attempted + 1 /\ r.translated = row.translated + 1
      /\ r.configured = row.configured /\ r.failed = row.failed /\ r.causes = row.causes
  BY <1>3
<1>6. Adds(row) => Adds(r)
  BY <1>1, <1>5 DEF Adds
<1> QED
  BY <1>4, <1>5, <1>6 DEF r

LEMMA RowFails ==
  ASSUME NEW row \in Rows, NEW cause \in Causes
  PROVE  /\ Fails(row, cause) \in Rows /\ (Adds(row) => Adds(Fails(row, cause)))
         /\ Fails(row, cause).attempted = row.attempted + 1
         /\ Fails(row, cause).configured = row.configured
         /\ Fails(row, cause).failed = row.failed + 1
<1> DEFINE C == [Causes -> Nat]
           g == row.causes
           h == [g EXCEPT ![cause] = @ + 1]
           b == [row.blockers EXCEPT ![cause] = @ + IF is_blocker(cause) THEN 1 ELSE 0]
           r == Fails(row, cause)
<1>1. /\ g \in C /\ row.blockers \in C
      /\ row.attempted \in Nat /\ row.translated \in Nat /\ row.failed \in Nat /\ row.configured \in Nat
  BY RowTyped
<1>2. h \in C /\ \A x \in Causes : h[x] = IF x = cause THEN g[x] + 1 ELSE g[x]
  BY <1>1
<1>3. b \in C
  BY <1>1
<1>9. g \in [Causes -> Int] /\ h \in [Causes -> Int]
  BY <1>1, <1>2
<1>10. Rows = [configured : Nat, attempted : Nat, translated : Nat, failed : Nat, causes : C, blockers : C]
  BY DEF Rows
<1> HIDE DEF C
<1>4. r = [configured |-> row.configured, attempted |-> row.attempted + 1,
           translated |-> row.translated, failed |-> row.failed + 1, causes |-> h, blockers |-> b]
  <2>1. r = [row EXCEPT !.attempted = @ + 1, !.failed = @ + 1, !.causes = h, !.blockers = b]
    BY <1>10 DEF Fails
  <2> HIDE DEF h, b, r, g
  <2> QED
    BY <1>10, <2>1
<1> HIDE DEF h, b, r, g
<1>5. /\ r.attempted = row.attempted + 1 /\ r.failed = row.failed + 1 /\ r.causes = h
      /\ r.translated = row.translated /\ r.configured = row.configured
  BY <1>4
<1>6. r \in Rows
  BY <1>1, <1>2, <1>3, <1>4, <1>10
<1>7. SumFunction(h) = SumFunction(g) + 1
  <2>1. \A x \in Causes : h[x] = IF x = cause THEN g[x] + 1 ELSE g[x]
    BY <1>2
  <2> QED
    BY <1>9, <2>1, CausesFinite, SumUpdate
<1>8. Adds(row) => Adds(r)
  BY <1>1, <1>5, <1>7 DEF Adds, g
<1> QED
  BY <1>5, <1>6, <1>8 DEF r

\* A ledger of the segments G whose rows add up.
Ledgers(G) == {l \in [G -> Rows] : \A x \in G : Adds(l[x])}

LEMMA RowReplaced ==
  ASSUME NEW G, IsFiniteSet(G), NEW l \in Ledgers(G), NEW seg \in G, NEW row \in Rows, Adds(row),
         row.attempted = l[seg].attempted + 1, row.configured = l[seg].configured,
         NEW d \in Nat, row.failed = l[seg].failed + d,
         NEW m \in [G -> Rows], \A x \in G : m[x] = IF x = seg THEN row ELSE l[x]
  PROVE  /\ m \in Ledgers(G)
         /\ Total("attempted", m) = Total("attempted", l) + 1
         /\ Total("configured", m) = Total("configured", l)
         /\ Total("failed", m) = Total("failed", l) + d
<1>1. l \in [G -> Rows] /\ \A x \in G : Adds(l[x])
  BY DEF Ledgers
<1>2. m \in [G -> Rows] /\ \A x \in G : m[x] = IF x = seg THEN row ELSE l[x]
  OBVIOUS
<1>3. m \in Ledgers(G)
  BY <1>1, <1>2 DEF Ledgers
<1>4. "attempted" \in Counters /\ "failed" \in Counters
  BY DEF Counters
<1>5. Total("attempted", m) = Total("attempted", l) + 1
  <2>1. \A x \in G : m[x]["attempted"] = IF x = seg THEN l[x]["attempted"] + 1 ELSE l[x]["attempted"]
    BY <1>2
  <2>2. 1 \in Nat
    OBVIOUS
  <2> QED
    BY ONLY IsFiniteSet(G), seg \in G, <1>1, <1>2, <1>4, <2>1, <2>2, TotalMore
<1>6. Total("failed", m) = Total("failed", l) + d
  <2>1. \A x \in G : m[x]["failed"] = IF x = seg THEN l[x]["failed"] + d ELSE l[x]["failed"]
    BY <1>2
  <2> QED
    BY ONLY IsFiniteSet(G), seg \in G, d \in Nat, <1>1, <1>2, <1>4, <2>1, TotalMore
<1>7. Total("configured", m) = Total("configured", l)
  <2>1. \A x \in G : m[x]["configured"] = l[x]["configured"]
    BY <1>2
  <2> QED
    BY ONLY <1>1, <1>2, <2>1, TotalEqual
<1> QED
  BY <1>3, <1>5, <1>6, <1>7

\* record_translated and record_failure after record_attempt (report.rs).
LEMMA Succeeded ==
  ASSUME NEW G, IsFiniteSet(G), NEW l \in Ledgers(G), NEW seg \in G,
         NEW m, m = translated(attempt(l, seg), seg)
  PROVE  /\ m \in Ledgers(G)
         /\ Total("attempted", m) = Total("attempted", l) + 1
         /\ Total("configured", m) = Total("configured", l)
         /\ Total("failed", m) = Total("failed", l)
         /\ \A x \in G : /\ m[x].configured = l[x].configured
                         /\ m[x].attempted = l[x].attempted + IF x = seg THEN 1 ELSE 0
<1>1. l \in [G -> Rows] /\ Adds(l[seg])
  BY DEF Ledgers
<1> DEFINE row == Succeeds(l[seg])
<1>2. m = [l EXCEPT ![seg] = row]
  BY <1>1 DEF translated, attempt, Succeeds
<1>3. /\ row \in Rows /\ Adds(row) /\ row.attempted = l[seg].attempted + 1
      /\ row.configured = l[seg].configured /\ row.failed = l[seg].failed
  BY <1>1, RowSucceeds
<1> HIDE DEF row
<1>9. m \in [G -> Rows] /\ \A x \in G : m[x] = IF x = seg THEN row ELSE l[x]
  BY <1>1, <1>2, <1>3
<1>4. l[seg].failed \in Nat /\ \A x \in G : l[x].attempted \in Nat
  BY <1>1, RowTyped
<1>5. row.failed = l[seg].failed + 0 /\ 0 \in Nat
  BY <1>3, <1>4
<1>6. /\ m \in Ledgers(G)
      /\ Total("attempted", m) = Total("attempted", l) + 1
      /\ Total("configured", m) = Total("configured", l)
      /\ Total("failed", m) = Total("failed", l) + 0
  BY ONLY IsFiniteSet(G), l \in Ledgers(G), seg \in G, <1>3, <1>5, <1>9, RowReplaced
<1>7. Total("failed", l) \in Nat
  BY <1>1, TotalTyped DEF Counters
<1>8. \A x \in G : /\ m[x].configured = l[x].configured
                  /\ m[x].attempted = l[x].attempted + IF x = seg THEN 1 ELSE 0
  BY <1>1, <1>2, <1>3, <1>4
<1> QED
  BY <1>6, <1>7, <1>8

LEMMA Failed ==
  ASSUME NEW G, IsFiniteSet(G), NEW l \in Ledgers(G), NEW seg \in G, NEW cause \in Causes,
         NEW m, m = failure(attempt(l, seg), seg, cause)
  PROVE  /\ m \in Ledgers(G)
         /\ Total("attempted", m) = Total("attempted", l) + 1
         /\ Total("configured", m) = Total("configured", l)
         /\ Total("failed", m) = Total("failed", l) + 1
         /\ \A x \in G : /\ m[x].configured = l[x].configured
                         /\ m[x].attempted = l[x].attempted + IF x = seg THEN 1 ELSE 0
<1>1. l \in [G -> Rows] /\ Adds(l[seg]) /\ l[seg] \in Rows
  BY DEF Ledgers
<1> DEFINE row == Fails(l[seg], cause)
<1>2. m = [l EXCEPT ![seg] = row]
  <2>1. l[seg] \in [configured : Nat, attempted : Nat, translated : Nat, failed : Nat,
                    causes : [Causes -> Nat], blockers : [Causes -> Nat]]
    BY <1>1 DEF Rows
  <2> QED
    BY <1>1, <2>1 DEF failure, attempt, Fails
<1>3. /\ row \in Rows /\ Adds(row) /\ row.attempted = l[seg].attempted + 1
      /\ row.configured = l[seg].configured /\ row.failed = l[seg].failed + 1
  BY <1>1, RowFails
<1> HIDE DEF row
<1>9. m \in [G -> Rows] /\ \A x \in G : m[x] = IF x = seg THEN row ELSE l[x]
  BY <1>1, <1>2, <1>3
<1>4. \A x \in G : l[x].attempted \in Nat
  BY <1>1, RowTyped
<1>5. 1 \in Nat
  OBVIOUS
<1>6. /\ m \in Ledgers(G)
      /\ Total("attempted", m) = Total("attempted", l) + 1
      /\ Total("configured", m) = Total("configured", l)
      /\ Total("failed", m) = Total("failed", l) + 1
  BY ONLY IsFiniteSet(G), l \in Ledgers(G), seg \in G, <1>3, <1>5, <1>9, RowReplaced
<1>8. \A x \in G : /\ m[x].configured = l[x].configured
                  /\ m[x].attempted = l[x].attempted + IF x = seg THEN 1 ELSE 0
  BY <1>1, <1>2, <1>3, <1>4
<1> QED
  BY <1>6, <1>8

\* infer_spec names a segment of the function or of one of its regions.
LEMMA InferSeg ==
  ASSUME NEW f \in Funcs, NEW G, f.seg \in G, \A i \in 1 .. Len(f.regions) : f.regions[i].seg \in G
  PROVE  infer_spec(f).seg \in G
<1> DEFINE regions == effective_regions(f)
           bad == SelectInSeq(regions, LAMBDA r : ~contains_region(r))
           P == {r \in Regions : r.seg \in G}
<1>1. infer_spec(f) = IF from_func_panics(f) THEN [ok |-> FALSE, seg |-> f.seg]
                      ELSE IF bad # 0 THEN [ok |-> FALSE, seg |-> regions[bad].seg]
                      ELSE [ok |-> TRUE, seg |-> f.seg]
  BY DEF infer_spec
<1>2. /\ regions \in Seq(Regions) /\ f.regions \in Seq(Regions) /\ f.seg \in Nat /\ f.start \in Nat
      /\ f.regions = <<>> => regions = IF f.end # NoEnd THEN <<Region(f.seg, f.start, f.seg, f.end)>> ELSE <<>>
      /\ f.end # NoEnd => f.end \in Nat
  BY EffectiveTyped
<1>3. bad # 0 => bad \in 1 .. Len(regions)
  <2> DEFINE I == {i \in 1 .. Len(regions) : ~contains_region(regions[i])}
  <2>1. bad = IF I # {} THEN Min(I) ELSE 0
    BY DEF SelectInSeq
  <2>2. I \in SUBSET (1 .. Len(regions)) /\ Len(regions) \in Nat
    <3> HIDE DEF regions
    <3> QED BY <1>2
  <2> HIDE DEF I, regions, bad
  <2>3. I # {} => Min(I) \in 1 .. Len(regions)
    BY <2>2, LeastIndex
  <2> QED
    BY <2>1, <2>3
<1>4. \A k \in 1 .. Len(regions) : regions[k].seg \in G
  <2>1. CASE f.regions = <<>>
    <3>1. CASE f.end # NoEnd
      <4>1. regions = <<Region(f.seg, f.start, f.seg, f.end)>>
        BY <1>2, <2>1, <3>1
      <4>2. Region(f.seg, f.start, f.seg, f.end).seg = f.seg
        BY DEF Region
      <4> HIDE DEF regions
      <4> QED
        BY <4>1, <4>2
    <3>2. CASE f.end = NoEnd
      <4>1. regions = <<>>
        BY <1>2, <2>1, <3>2
      <4> HIDE DEF regions
      <4> QED
        BY <4>1
    <3> QED
      BY <3>1, <3>2
  <2>2. CASE f.regions # <<>>
    <3>1. \A i \in 1 .. Len(f.regions) : f.regions[i] \in P
      BY <1>2
    <3>2. ASSUME NEW m \in P, NEW r \in P, m.seg = r.seg, r.start <= m.end, r.end > m.end
          PROVE  Region(r.seg, m.start, r.endseg, r.end) \in P
      <4>1. /\ m.start \in Nat /\ r.seg \in Nat /\ r.endseg \in Nat /\ r.end \in Nat /\ r.seg \in G
        BY RegionsTyped
      <4>2. Region(r.seg, m.start, r.endseg, r.end) \in Regions
            /\ Region(r.seg, m.start, r.endseg, r.end).seg = r.seg
        BY <4>1 DEF Region, Regions
      <4> QED
        BY <4>1, <4>2
    <3>3. P \subseteq Regions
      OBVIOUS
    <3> HIDE DEF P
    <3>4. \A k \in 1 .. Len(regions) : regions[k] \in P
      BY <1>2, <2>2, <3>1, <3>2, <3>3, EffectiveIn
    <3> QED
      BY <3>4 DEF P
  <2> QED
    BY <2>1, <2>2
<1> HIDE DEF regions, bad
<1>5. \A x, y : [ok |-> x, seg |-> y].seg = y
  OBVIOUS
<1>6. CASE from_func_panics(f)
  BY <1>1, <1>5, <1>6
<1>7. CASE ~from_func_panics(f) /\ bad # 0
  <2>1. infer_spec(f).seg = regions[bad].seg
    BY <1>1, <1>5, <1>7
  <2> QED
    BY <1>3, <1>4, <1>7, <2>1
<1>8. CASE ~from_func_panics(f) /\ bad = 0
  BY <1>1, <1>5, <1>8
<1> QED
  BY <1>6, <1>7, <1>8

\* The failures infer_specs books, one after the other.
Placeable(G) == {f \in Funcs : infer_spec(f).seg \in G}
Bookings(l, fs) == FoldLeft(Booked, l, fs)

LEMMA BookedOnce ==
  ASSUME NEW G, IsFiniteSet(G), NEW l \in Ledgers(G), NEW f \in Placeable(G)
  PROVE  /\ Booked(l, f) \in Ledgers(G)
         /\ Total("attempted", Booked(l, f)) = Total("attempted", l) + 1
         /\ Total("configured", Booked(l, f)) = Total("configured", l)
<1> DEFINE seg == infer_spec(f).seg
           m == failure(attempt(l, seg), seg, "CONFIG_ERROR")
<1>1. Booked(l, f) = m
  BY DEF Booked
<1>2. seg \in G /\ "CONFIG_ERROR" \in Causes
  BY DEF Placeable, Causes
<1>3. /\ m \in Ledgers(G)
      /\ Total("attempted", m) = Total("attempted", l) + 1
      /\ Total("configured", m) = Total("configured", l)
  <2> HIDE DEF seg
  <2> QED BY <1>2, Failed
<1> HIDE DEF m
<1> QED
  BY <1>1, <1>3

LEMMA BookedTurns ==
  ASSUME NEW G, IsFiniteSet(G), NEW l \in Ledgers(G), NEW fs \in Seq(Placeable(G))
  PROVE  \E h \in [0 .. Len(fs) -> Ledgers(G)] :
           /\ h[0] = l /\ h[Len(fs)] = Bookings(l, fs)
           /\ \A i \in 1 .. Len(fs) : h[i - 1] \in Ledgers(G) /\ h[i] = Booked(h[i - 1], fs[i])
<1> DEFINE n == Len(fs)
           V == Ledgers(G)
           g == [i \in 1 .. n |-> [v \in V |-> Booked(v, fs[i])]]
           Eq(it) == it = [s \in SUBSET DOMAIN fs |->
                            IF s = {} THEN l
                            ELSE Booked(it[s \ {Max(s)}], fs[Max(s)])]
           it == CHOOSE it : Eq(it)
<1>1. n \in Nat /\ DOMAIN fs = 1 .. n /\ \A i \in 1 .. n : fs[i] \in Placeable(G)
  OBVIOUS
<1>2. Bookings(l, fs) = it[1 .. n]
  BY <1>1 DEF Bookings, FoldLeft, MapThenFoldSet
<1>3. \A v \in V, f \in Placeable(G) : Booked(v, f) \in V
  BY BookedOnce
<1>4. l \in V
  OBVIOUS
<1> HIDE DEF V
<1>5. g \in Turns(n, V)
  BY <1>1, <1>3 DEF Turns
<1>6. \A i \in 1 .. n : \A v \in V : g[i][v] = Booked(v, fs[i])
  OBVIOUS
<1> HIDE DEF g, n
<1>7. \A s \in SUBSET (1 .. n) : s # {} => Max(s) \in 1 .. n /\ s \ {Max(s)} \in SUBSET (1 .. n)
  BY <1>1, LargestIndex
<1>8. Eq(it)
  <2>1. PICK f : f \in FoldsOf(n, l, g, V)
    BY <1>1, <1>4, <1>5, FoldExists
  <2>2. Eq(f)
    BY <1>1, <1>6, <1>7, <2>1 DEF FoldsOf
  <2> HIDE DEF Eq
  <2> QED BY <2>2
<1> HIDE DEF it
<1>9. PICK h \in RunsOf(n, l, g, V) : h[n] = it[1 .. n]
  <2>1. it[{}] = l
    BY <1>1, <1>8
  <2>2. \A s \in SUBSET (1 .. n) : s # {} /\ it[s \ {Max(s)}] \in V =>
           it[s] = g[Max(s)][it[s \ {Max(s)}]]
    BY <1>1, <1>6, <1>7, <1>8
  <2> HIDE DEF Eq
  <2>3. Unrolls(it, n, l, g, V)
    BY <2>1, <2>2 DEF Unrolls
  <2> QED
    BY <1>1, <1>4, <1>5, <2>3, FoldTurns
<1>10. ASSUME NEW i \in 1 .. n
       PROVE  h[i - 1] \in V /\ h[i] = Booked(h[i - 1], fs[i])
  <2>1. h[i - 1] \in V /\ h[i] = g[i][h[i - 1]]
    BY <1>1, <1>9 DEF RunsOf
  <2>2. \A v \in V : g[i][v] = Booked(v, fs[i])
    BY <1>6
  <2> QED
    BY <2>1, <2>2
<1> QED
  BY <1>2, <1>9, <1>10 DEF RunsOf, n, V

LEMMA BookedSound ==
  ASSUME NEW G, IsFiniteSet(G), NEW l \in Ledgers(G), NEW fs \in Seq(Placeable(G))
  PROVE  /\ Bookings(l, fs) \in Ledgers(G)
         /\ Total("attempted", Bookings(l, fs)) = Total("attempted", l) + Len(fs)
         /\ Total("configured", Bookings(l, fs)) = Total("configured", l)
         /\ Len(fs) = 0 => Bookings(l, fs) = l
<1> DEFINE n == Len(fs)
<1>1. n \in Nat /\ \A i \in 1 .. n : fs[i] \in Placeable(G)
  OBVIOUS
<1>2. PICK h \in [0 .. n -> Ledgers(G)] :
        /\ h[0] = l /\ h[n] = Bookings(l, fs)
        /\ \A i \in 1 .. n : h[i - 1] \in Ledgers(G) /\ h[i] = Booked(h[i - 1], fs[i])
  BY BookedTurns
<1> HIDE DEF n
<1>3. Total("attempted", l) \in Nat
  <2>1. l \in [G -> Rows] /\ "attempted" \in Counters
    BY DEF Ledgers, Counters
  <2> QED
    BY <2>1, TotalTyped
<1> DEFINE T == {i \in 0 .. n : /\ Total("attempted", h[i]) = Total("attempted", l) + i
                               /\ Total("configured", h[i]) = Total("configured", l)}
<1>4. 0 \in T
  BY <1>1, <1>2, <1>3
<1>5. ASSUME NEW i \in 1 .. n, i - 1 \in T
      PROVE  i \in T
  <2> DEFINE v == h[i - 1]
  <2>1. v \in Ledgers(G) /\ h[i] = Booked(v, fs[i]) /\ fs[i] \in Placeable(G)
    BY <1>1, <1>2
  <2>2. Total("attempted", v) = Total("attempted", l) + (i - 1) /\ Total("configured", v) = Total("configured", l)
    BY <1>5
  <2> HIDE DEF v
  <2>3. /\ Total("attempted", h[i]) = Total("attempted", v) + 1
        /\ Total("configured", h[i]) = Total("configured", v)
    BY <2>1, BookedOnce
  <2> QED
    BY <1>1, <1>3, <2>2, <2>3
<1>6. \A i \in 0 .. n : i \in T
  <2> HIDE DEF T
  <2> QED BY <1>1, <1>4, <1>5, CountUp
<1>7. n \in 0 .. n
  BY <1>1
<1>8. n \in T /\ h[n] \in Ledgers(G)
  BY <1>2, <1>6, <1>7
<1> QED
  BY <1>2, <1>8 DEF n

---------------------------------------------------------------------------
(* The inductive invariant of a run *)

LEMMA SegmentsSound ==
  ASSUME cfg \in Configs
  PROVE  /\ IsFiniteSet(Segments) /\ Code \in Segments
         /\ \A i \in 1 .. Len(cfg.funcs) :
              /\ cfg.funcs[i].seg \in Segments
              /\ infer_spec(cfg.funcs[i]).seg \in Segments
<1> DEFINE fs == cfg.funcs
           Inner == [i \in DOMAIN fs |-> {r.seg : r \in ToSet(fs[i].regions)}]
           U == UNION {Inner[i] : i \in DOMAIN fs}
           Own_segs == {fs[i].seg : i \in DOMAIN fs}
<1>1. fs \in Seq(Funcs) /\ DOMAIN fs = 1 .. Len(fs)
  BY ConfigTyped
<1>2. Segments = {Code} \cup Own_segs \cup U
  <2>1. U = UNION {{r.seg : r \in ToSet(fs[i].regions)} : i \in DOMAIN fs}
    OBVIOUS
  <2> HIDE DEF U
  <2> QED
    BY <2>1 DEF Segments
<1>3. IsFiniteSet(DOMAIN fs)
  <2> HIDE DEF fs
  <2> QED BY <1>1, IndicesFinite
<1>4. IsFiniteSet(Own_segs)
  <2> DEFINE F == [i \in DOMAIN fs |-> fs[i].seg]
             W == {F[i] : i \in DOMAIN fs}
  <2>1. Own_segs = W
    <3> HIDE DEF fs
    <3> QED OBVIOUS
  <2>2. IsFiniteSet(W)
    <3> HIDE DEF fs, F
    <3> QED BY <1>3, ImageFinite
  <2> QED
    BY <2>1, <2>2
<1>5. ASSUME NEW i \in DOMAIN fs
      PROVE  /\ fs[i] \in Funcs /\ fs[i].regions \in Seq(Regions) /\ IsFiniteSet(Inner[i])
             /\ \A k \in 1 .. Len(fs[i].regions) : fs[i].regions[k].seg \in Inner[i]
  <2> DEFINE rs == fs[i].regions
  <2>1. fs[i] \in Funcs
    <3> HIDE DEF fs
    <3> QED BY <1>1, <1>5
  <2>2. rs \in Seq(Regions)
    BY <2>1 DEF Funcs
  <2> DEFINE X == ToSet(rs)
             F == [r \in X |-> r.seg]
             W == {F[r] : r \in X}
  <2>3. Inner[i] = W
    BY <1>5
  <2> HIDE DEF rs, Inner
  <2>4. IsFiniteSet(X)
    BY <2>2, ElementsFinite
  <2>5. \A k \in 1 .. Len(rs) : rs[k] \in X
    BY <2>2 DEF ToSet
  <2> HIDE DEF X
  <2>6. \A k \in 1 .. Len(rs) : rs[k].seg \in W
    BY <2>5
  <2> HIDE DEF F
  <2>7. IsFiniteSet(W)
    BY <2>4, ImageFinite
  <2> QED
    BY <2>1, <2>2, <2>3, <2>6, <2>7 DEF rs
<1> HIDE DEF Inner, fs
<1>6. IsFiniteSet(U)
  BY <1>3, <1>5, UnionFinite
<1>7. IsFiniteSet(Segments)
  <2>1. IsFiniteSet({Code} \cup Own_segs)
    <3> HIDE DEF Own_segs
    <3> QED BY <1>4, FiniteUnions
  <2> HIDE DEF U, Own_segs
  <2> QED
    BY <1>2, <1>6, <2>1, FiniteUnions
<1>8. ASSUME NEW i \in 1 .. Len(fs)
      PROVE  fs[i].seg \in Segments /\ infer_spec(fs[i]).seg \in Segments
  <2>1. i \in DOMAIN fs
    BY <1>1
  <2>2. fs[i].seg \in Segments
    <3>1. fs[i].seg \in Own_segs
      BY <2>1
    <3> HIDE DEF Own_segs, U
    <3> QED BY <1>2, <3>1
  <2>3. \A k \in 1 .. Len(fs[i].regions) : fs[i].regions[k].seg \in Segments
    <3>1. Inner[i] \subseteq U
      BY <2>1
    <3> HIDE DEF U, Own_segs
    <3> QED
      BY <1>2, <1>5, <2>1, <3>1
  <2>4. fs[i] \in Funcs
    BY <1>5, <2>1
  <2> QED
    BY <2>2, <2>3, <2>4, InferSeg
<1> QED
  BY <1>2, <1>7, <1>8 DEF fs

Args == [flags : SUBSET STRING, select : Selections]
Phases == {"arguments", "configure", "select", "infer", "decompile", "summary", "done"}
TypeOK ==
  /\ cfg \in Configs /\ image \in Images /\ args \in Args /\ pc \in Phases
  /\ ledger \in Ledgers(Segments)
  /\ globals \in Nat /\ failures \in Nat /\ preflight_failed \in BOOLEAN

Ranged == args.select.kind = "range"
Picked == Selected(cfg, args.select)
Names == IF Ranged THEN <<"range">> ELSE [i \in DOMAIN Picked |-> Picked[i].name]

\* What the verdict of the preflight is worth: without a failure every
\* function selected is sound, and a run that needs that does not go on.
Prechecked ==
  /\ Batchwise
  /\ ~preflight_failed /\ args.select.kind \in {"function", "segment"} =>
       \A i \in DOMAIN Picked : Sound(Picked[i])
  /\ preflight_failed => Has("infer_abi") \/ report_mode
  /\ report_mode => (preflight_failed <=> globals # 0)

\* Nothing is booked yet.
Fresh == /\ failures = 0 /\ all_code = <<>>
         /\ \A seg \in Segments : ledger[seg].attempted = 0 /\ ledger[seg].failed = 0

\* The specs to decompile lie in segments of the ledger.
Booking == todo \in Seq({s \in Specs : s.seg \in Segments})

\* What was attempted and what is left is what was configured, and what
\* failed is what the exit code will tell.
Balanced ==
  report_mode => /\ Total("configured", ledger) = Len(Names)
                 /\ Total("attempted", ledger) + Len(todo) = Len(Names)
                 /\ ~preflight_failed => Total("failed", ledger) = failures

\* What is in the text and what is left are the functions asked for.
TextInOrder ==
  Has("emit_code") /\ ~Has("emit_dis") /\ ~Has("emit_ast") /\ ~preflight_failed /\ failures = 0 =>
    /\ Len(all_code) + Len(todo) = Len(Names)
    /\ \A i \in 1 .. Len(all_code) : all_code[i] = Names[i]
    /\ \A i \in 1 .. Len(todo) : todo[i].name = Names[Len(all_code) + i]

\* The functions of segment seg among the first k.
OfSegment(seg, k) == Cardinality({i \in 1 .. k : cfg.funcs[i].seg = seg})
Reached(k) ==
  /\ Len(todo) = Len(cfg.funcs) - k /\ \A i \in 1 .. Len(todo) : todo[i] = cfg.funcs[k + i]
  /\ \A seg \in Segments : /\ ledger[seg].configured = OfSegment(seg, Len(cfg.funcs))
                           /\ ledger[seg].attempted = OfSegment(seg, k)
Summed == /\ Has("analyze") /\ ~Conflict
          /\ \E k \in 0 .. Len(cfg.funcs) : Reached(k)

IInv ==
  /\ TypeOK
  /\ pc # "done" => rc = None /\ report_file = Unwritten
  /\ pc \in {"arguments", "configure"} => Fresh /\ \A seg \in Segments : ledger[seg].configured = 0
  /\ pc = "configure" => Prechecked
  /\ pc = "select" => /\ Prechecked /\ Fresh
                      /\ report_mode /\ SelectionExists => Total("configured", ledger) = Len(Names)
  /\ pc = "infer" => Batchwise /\ Has("infer_abi")
  /\ pc = "decompile" => /\ Prechecked /\ ~Has("infer_abi") /\ SelectionExists
                         /\ Booking /\ Balanced /\ TextInOrder /\ all_code \in Seq(SpecNames)
  /\ pc = "summary" => Summed /\ todo \in Seq(Funcs)
  /\ pc = "done" => LedgerBalances /\ ExitHonest

LEMMA Carried ==
  ASSUME UNCHANGED input
  PROVE  /\ cfg' = cfg /\ image' = image /\ args' = args
         /\ Segments' = Segments /\ Conflict' = Conflict /\ Batchwise' = Batchwise
         /\ (report_mode <=> report_mode') /\ \A flag : Has(flag)' <=> Has(flag)
         /\ Ranged' = Ranged /\ Picked' = Picked /\ Names' = Names
         /\ SelectionExists' = SelectionExists /\ Inferred' = Inferred
<1>1. cfg' = cfg /\ image' = image /\ args' = args
  BY DEF input
<1>2. \A flag : Has(flag)' <=> Has(flag)
  BY <1>1 DEF Has
<1>3. (report_mode <=> report_mode') /\ Conflict' = Conflict
  BY <1>1 DEF report_mode, Conflict, Has, has_emit_flags
<1>4. Batchwise' = Batchwise
  BY <1>1, <1>3 DEF Batchwise, Has
<1>5. Segments' = Segments /\ Picked' = Picked /\ Ranged' = Ranged
  BY <1>1 DEF Segments, Picked, Ranged
<1>6. Names' = Names
  BY <1>5 DEF Names
<1>7. SelectionExists' = SelectionExists
  BY <1>1 DEF SelectionExists, RangeOK
<1>8. Inferred' = Inferred
  BY <1>1 DEF Inferred
<1> QED
  BY <1>1, <1>2, <1>3, <1>4, <1>5, <1>6, <1>7, <1>8

LEMMA EmptyRow == EmptySegment \in Rows /\ Adds(EmptySegment)
<1> DEFINE z == [x \in Causes |-> 0]
<1>1. z \in [Causes -> Nat] /\ \A x \in Causes : z[x] = 0
  OBVIOUS
<1>2. EmptySegment = [configured |-> 0, attempted |-> 0, translated |-> 0, failed |-> 0,
                      causes |-> z, blockers |-> z]
  BY DEF EmptySegment
<1> HIDE DEF z
<1>3. SumFunction(z) = 0
  BY <1>1, CausesFinite, SumOfNaturals
<1>4. EmptySegment \in Rows
  BY <1>1, <1>2 DEF Rows
<1> QED
  BY <1>2, <1>3, <1>4 DEF Adds

\* Any number configured is as good as none.
LEMMA ConfiguredRow ==
  ASSUME NEW row \in Rows, Adds(row), NEW n \in Nat
  PROVE  LET r == [row EXCEPT !.configured = n]
         IN r \in Rows /\ Adds(r) /\ r.configured = n /\ r.attempted = row.attempted /\ r.failed = row.failed
  BY DEF Rows, Adds

LEMMA InitSound == Init => IInv
<1> SUFFICES ASSUME Init PROVE IInv
  OBVIOUS
<1> USE DEF Init
<1>1. cfg \in Configs /\ image \in Images /\ args \in Args
  <2>1. PICK s \in Scenarios : cfg \in s.cfgs /\ image \in s.images /\ args \in s.args
    OBVIOUS
  <2> QED
    BY <2>1, ScenarioAssumption DEF Args
<1>2. \A seg \in Segments : /\ ledger[seg] = EmptySegment
                            /\ ledger[seg].configured = 0 /\ ledger[seg].attempted = 0 /\ ledger[seg].failed = 0
  BY DEF EmptySegment
<1>3. ledger \in Ledgers(Segments)
  BY <1>2, EmptyRow DEF Ledgers
<1>4. TypeOK
  BY <1>1, <1>3 DEF TypeOK, Phases
<1>5. Fresh
  BY <1>2 DEF Fresh
<1> QED
  BY <1>2, <1>4, <1>5 DEF IInv

\* What the exit code says where no report was written.
LEMMA StopsHonest ==
  ASSUME report_file' = Unwritten, rc' \in Int,
         rc' = 0 => ~Batchwise' \/ Has("infer_abi")',
         rc' = Aborted => Has("infer_abi")'
  PROVE  ExitHonest'
<1>1. ~report_file'.written
  BY DEF Unwritten
<1>2. SuccessIsComplete'
  BY DEF SuccessIsComplete
<1>3. VerdictReachesExit'
  BY <1>1 DEF VerdictReachesExit
<1>4. NeverAborts'
  BY DEF NeverAborts
<1> QED
  BY <1>2, <1>3, <1>4 DEF ExitHonest

LEMMA StopsBalanced ==
  ASSUME report_file' = Unwritten, rc' = 0 => ~Has("analyze")'
  PROVE  LedgerBalances'
<1>1. ~report_file'.written
  BY DEF Unwritten
<1> QED
  BY <1>1 DEF LedgerBalances

LEMMA StopSound ==
  ASSUME IInv, pc # "done", NEW code \in Int, Stop(code),
         code = 0 => ~Has("analyze") /\ (~Batchwise \/ Has("infer_abi")),
         code = Aborted => Has("infer_abi")
  PROVE  IInv'
<1>1. /\ pc' = "done" /\ rc' = code /\ report_file' = Unwritten
      /\ ledger' = ledger /\ globals' = globals /\ failures' = failures
      /\ preflight_failed' = preflight_failed
  BY DEF Stop, IInv
<1>2. /\ cfg' = cfg /\ image' = image /\ args' = args /\ Segments' = Segments
      /\ Batchwise' = Batchwise /\ \A flag : Has(flag)' <=> Has(flag)
  BY Carried DEF Stop
<1>3. TypeOK'
  BY <1>1, <1>2 DEF IInv, TypeOK, Phases
<1>4. ExitHonest'
  BY <1>1, <1>2, StopsHonest
<1>5. LedgerBalances'
  BY <1>1, <1>2, StopsBalanced
<1> QED
  BY <1>1, <1>3, <1>4, <1>5 DEF IInv

LEMMA RefuseSound ==
  ASSUME IInv, Refuse
  PROVE  IInv'
<1>1. pc # "done" /\ Stop(1) /\ 1 \in Int /\ 1 # 0 /\ 1 # Aborted
  BY DEF Refuse, Aborted
<1> QED
  BY <1>1, StopSound

LEMMA ValidateSound ==
  ASSUME IInv, Validate
  PROVE  IInv'
<1> DEFINE code == IF should_fail(validate_config(cfg, image, validation_scope), Has("strict"))
                   THEN 1 ELSE 0
<1>1. pc # "done" /\ Stop(code) /\ ~Conflict /\ Has("validate_config")
  BY DEF Validate
<1>2. code \in Int /\ code # Aborted
  BY DEF Aborted
<1>3. ~Has("analyze") /\ ~Batchwise
  BY <1>1 DEF Conflict, Batchwise
<1> HIDE DEF code
<1> QED
  BY <1>1, <1>2, <1>3, StopSound

LEMMA CheckFirstSound ==
  ASSUME IInv, CheckFirst
  PROVE  IInv'
<1> DEFINE named == args.select.kind \in {"function", "segment"}
           report == IF named THEN validate_config(cfg, image, validation_scope) ELSE {}
           fails == should_fail(report, Has("strict"))
           S == {d \in report : d.severity = "error" \/ Has("strict")}
           goesOn == ~fails \/ Has("infer_abi") \/ report_mode
<1>1. /\ pc = "arguments" /\ Batchwise /\ UNCHANGED input
      /\ todo' = todo /\ ledger' = ledger /\ failures' = failures /\ all_code' = all_code
      /\ code_file' = code_file /\ report_file' = report_file
  BY DEF CheckFirst
<1>2. /\ preflight_failed' = fails
      /\ globals' = IF fails /\ report_mode THEN Cardinality(S) ELSE 0
      /\ pc' = IF goesOn THEN "configure" ELSE "done"
      /\ rc' = IF goesOn THEN None ELSE 1
  BY DEF CheckFirst, Preflighted, Verdict
<1>3. /\ TypeOK /\ Fresh /\ report_file = Unwritten /\ \A seg \in Segments : ledger[seg].configured = 0
  BY <1>1 DEF IInv
<1>4. named => validation_scope = args.select
  BY DEF validation_scope
<1>5. IsFiniteSet(report)
  <2>1. cfg \in Configs
    BY <1>3 DEF TypeOK
  <2>2. IsFiniteSet(validate_config(cfg, image, validation_scope))
    BY <2>1, ReportFinite
  <2> QED
    BY <2>2, FiniteUnions
<1>6. IsFiniteSet(S) /\ Cardinality(S) \in Nat
  <2>1. S \subseteq report
    OBVIOUS
  <2> HIDE DEF S, report
  <2> QED
    BY <1>5, <2>1, FS_Subset, FS_CardinalityType
<1>7. fails => Cardinality(S) # 0
  <2> SUFFICES ASSUME fails PROVE S # {}
    <3> HIDE DEF S, fails
    <3> QED BY <1>6, FS_EmptySet
  <2> QED
    BY DEF should_fail, has_errors
<1>8. named /\ ~fails => \A i \in DOMAIN Picked : Sound(Picked[i])
  <2> SUFFICES ASSUME named, ~fails PROVE \A i \in DOMAIN Picked : Sound(Picked[i])
    OBVIOUS
  <2>1. report = validate_config(cfg, image, args.select)
    BY <1>4
  <2>2. ~has_errors(validate_config(cfg, image, args.select))
    BY <2>1 DEF should_fail
  <2>3. cfg \in Configs
    BY <1>3 DEF TypeOK
  <2> QED
    BY <2>2, <2>3, ConfigSound DEF Picked
<1>9. fails \in BOOLEAN
  BY DEF should_fail, has_errors
<1> HIDE DEF S, fails, report
<1>10. /\ cfg' = cfg /\ image' = image /\ args' = args /\ Segments' = Segments
       /\ Batchwise' = Batchwise /\ Picked' = Picked /\ (report_mode' <=> report_mode)
       /\ \A flag : Has(flag)' <=> Has(flag)
  BY <1>1, Carried
<1>11. globals' \in Nat /\ (fails /\ report_mode => globals' # 0) /\ (~fails => globals' = 0)
  BY <1>2, <1>6, <1>7
<1>12. TypeOK'
  <2>1. pc' \in Phases
    BY <1>2 DEF Phases
  <2> QED
    BY <1>1, <1>2, <1>3, <1>9, <1>10, <1>11, <2>1 DEF TypeOK
<1>13. CASE goesOn
  <2>1. pc' = "configure" /\ rc' = None
    BY <1>2, <1>13
  <2>2. Prechecked'
    <3>1. preflight_failed' = fails
      BY <1>2
    <3>2. ~preflight_failed' /\ named => \A i \in DOMAIN Picked : Sound(Picked[i])
      BY <1>8, <3>1
    <3>3. preflight_failed' => Has("infer_abi") \/ report_mode
      BY <1>13, <3>1
    <3>4. report_mode => (preflight_failed' <=> globals' # 0)
      BY <1>11, <3>1
    <3>5. named' <=> named
      BY <1>10
    <3> HIDE DEF named
    <3> QED
      BY <1>1, <1>10, <3>2, <3>3, <3>4, <3>5 DEF Prechecked, named
  <2>3. Fresh' /\ \A seg \in Segments' : ledger'[seg].configured = 0
    BY <1>1, <1>3, <1>10 DEF Fresh
  <2> QED
    BY <1>1, <1>3, <1>12, <2>1, <2>2, <2>3 DEF IInv
<1>14. CASE ~goesOn
  <2>1. pc' = "done" /\ rc' = 1 /\ report_file' = Unwritten
    BY <1>1, <1>2, <1>3, <1>14
  <2>2. ExitHonest' /\ LedgerBalances'
    BY <2>1, StopsHonest, StopsBalanced DEF Aborted
  <2> QED
    BY <1>12, <2>1, <2>2 DEF IInv
<1> QED
  BY <1>13, <1>14

LEMMA BeginSummarySound ==
  ASSUME IInv, BeginSummary
  PROVE  IInv'
<1>1. /\ pc = "arguments" /\ pc' = "summary" /\ ~Conflict /\ Has("analyze") /\ UNCHANGED input
      /\ ledger' = [seg \in Segments |->
                      [EmptySegment EXCEPT !.configured = Len(func_lookup_by_seg(cfg, seg))]]
      /\ todo' = cfg.funcs /\ globals' = globals /\ failures' = failures /\ all_code' = all_code
      /\ preflight_failed' = preflight_failed /\ rc' = rc /\ report_file' = report_file
  BY DEF BeginSummary
<1>2. TypeOK /\ report_file = Unwritten /\ rc = None
  BY <1>1 DEF IInv
<1>3. /\ cfg' = cfg /\ image' = image /\ args' = args /\ Segments' = Segments
      /\ Conflict' = Conflict /\ \A flag : Has(flag)' <=> Has(flag)
  BY <1>1, Carried
<1>4. cfg \in Configs
  BY <1>2 DEF TypeOK
<1>5. cfg.funcs \in Seq(Funcs) /\ Len(cfg.funcs) \in Nat
  BY <1>4, ConfigTyped
<1>6. ASSUME NEW seg \in Segments
      PROVE  /\ ledger'[seg] \in Rows /\ Adds(ledger'[seg])
             /\ ledger'[seg].configured = OfSegment(seg, Len(cfg.funcs))
             /\ ledger'[seg].attempted = 0
  <2> DEFINE n == Len(func_lookup_by_seg(cfg, seg))
             r == [EmptySegment EXCEPT !.configured = n]
  <2>1. ledger'[seg] = r
    BY <1>1
  <2>2. n \in Nat
    <3> DEFINE K == func_lookup_by_seg(cfg, seg)
    <3>1. K \in Seq(Funcs)
      BY <1>4, FuncsOfSeg
    <3> HIDE DEF K
    <3>2. Len(K) \in Nat
      BY <3>1
    <3> QED
      BY <3>2 DEF K
  <2>3. n = OfSegment(seg, Len(cfg.funcs))
    BY <1>4, FuncsInSeg DEF OfSegment
  <2> HIDE DEF n
  <2>4. r \in Rows /\ Adds(r) /\ r.configured = n /\ r.attempted = EmptySegment.attempted
    BY <2>2, EmptyRow, ConfiguredRow
  <2>5. EmptySegment.attempted = 0
    BY DEF EmptySegment
  <2> HIDE DEF r
  <2> QED
    BY <2>1, <2>3, <2>4, <2>5
<1>7. ledger' \in Ledgers(Segments)
  <2>1. ledger' = [seg \in Segments |-> ledger'[seg]]
    BY <1>1
  <2> QED
    BY <1>6, <2>1 DEF Ledgers
<1>8. TypeOK'
  <2>1. pc' \in Phases
    BY <1>1 DEF Phases
  <2> QED
    BY <1>1, <1>2, <1>3, <1>7, <2>1 DEF TypeOK
<1>9. \A seg : OfSegment(seg, 0) = 0
  <2> SUFFICES ASSUME NEW seg PROVE OfSegment(seg, 0) = 0
    OBVIOUS
  <2>1. {i \in 1 .. 0 : cfg.funcs[i].seg = seg} = {}
    OBVIOUS
  <2> QED
    BY <2>1, FS_EmptySet DEF OfSegment
<1>10. Summed'
  <2> DEFINE n == Len(cfg.funcs)
  <2>1. 0 \in 0 .. n /\ Len(todo') = n - 0 /\ \A i \in 1 .. Len(todo') : todo'[i] = cfg.funcs[0 + i]
    BY <1>1, <1>5
  <2>2. \A seg \in Segments : ledger'[seg].configured = OfSegment(seg, n)
                              /\ ledger'[seg].attempted = OfSegment(seg, 0)
    BY <1>6, <1>9
  <2>3. \A seg, k : OfSegment(seg, k)' = OfSegment(seg, k)
    BY <1>3 DEF OfSegment
  <2>4. Reached(0)'
    BY <1>3, <2>1, <2>2, <2>3 DEF Reached
  <2> QED
    BY <1>1, <1>3, <2>1, <2>4 DEF Summed
<1> QED
  BY <1>1, <1>2, <1>5, <1>8, <1>10 DEF IInv

\* configure_report_segments books one number, in one segment.
LEMMA Configured ==
  ASSUME NEW G, IsFiniteSet(G), NEW l \in Ledgers(G), \A x \in G : l[x].configured = 0,
         NEW seg, NEW n \in Nat, seg \in G \/ n = 0, NEW m, m = set_configured(l, seg, n)
  PROVE  /\ m \in Ledgers(G) /\ Total("configured", m) = n
         /\ \A x \in G : m[x].attempted = l[x].attempted /\ m[x].failed = l[x].failed
<1>1. l \in [G -> Rows] /\ \A x \in G : l[x] \in Rows /\ Adds(l[x])
  BY DEF Ledgers
<1>2. "configured" \in Counters
  BY DEF Counters
<1>3. Total("configured", l) = 0
  <2>1. \A x \in G : l[x]["configured"] = 0
    OBVIOUS
  <2> QED
    BY <1>1, <1>2, <2>1, TotalTyped
<1>4. CASE seg \notin G
  <2>1. m = l /\ n = 0
    BY <1>1, <1>4 DEF set_configured
  <2> QED
    BY <1>3, <2>1
<1>5. CASE seg \in G
  <2> DEFINE row == [l[seg] EXCEPT !.configured = n]
  <2>1. /\ row \in Rows /\ Adds(row) /\ row.configured = n
        /\ row.attempted = l[seg].attempted /\ row.failed = l[seg].failed
    BY <1>1, <1>5, ConfiguredRow
  <2>2. m = [l EXCEPT ![seg] = row]
    BY <1>1, <1>5 DEF set_configured
  <2> HIDE DEF row
  <2>3. m \in [G -> Rows] /\ \A x \in G : m[x] = IF x = seg THEN row ELSE l[x]
    BY <1>1, <2>1, <2>2
  <2>4. m \in Ledgers(G)
    BY <1>1, <2>1, <2>3 DEF Ledgers
  <2>5. Total("configured", m) = Total("configured", l) + n
    <3>1. \A x \in G : m[x]["configured"] = IF x = seg THEN l[x]["configured"] + n ELSE l[x]["configured"]
      BY <2>1, <2>3
    <3> QED
      BY ONLY IsFiniteSet(G), <1>1, <1>2, <1>5, <2>3, <3>1, n \in Nat, TotalMore
  <2> QED
    BY <1>3, <2>1, <2>3, <2>4, <2>5
<1> QED
  BY <1>4, <1>5

LEMMA PickedSound ==
  ASSUME cfg \in Configs
  PROVE  /\ Picked \in Seq(Funcs) /\ Len(Picked) \in Nat /\ DOMAIN Picked = 1 .. Len(Picked)
         /\ \A k \in 1 .. Len(Picked) : \E i \in 1 .. Len(cfg.funcs) : Picked[k] = cfg.funcs[i]
         /\ ~Ranged => /\ Names = [i \in 1 .. Len(Picked) |-> Picked[i].name]
                       /\ Len(Names) = Len(Picked)
         /\ Ranged => Names = <<"range">> /\ Len(Names) = 1
<1>1. /\ Picked \in Seq(Funcs)
      /\ \A k \in 1 .. Len(Picked) : \E i \in 1 .. Len(cfg.funcs) : Picked[k] = cfg.funcs[i]
  BY SelectedSound DEF Picked
<1>2. Len(Picked) \in Nat /\ DOMAIN Picked = 1 .. Len(Picked)
  BY <1>1
<1>3. ~Ranged => Names = [i \in 1 .. Len(Picked) |-> Picked[i].name]
  BY <1>2 DEF Names
<1>4. ~Ranged => Len(Names) = Len(Picked)
  BY <1>2, <1>3
<1>5. Ranged => Names = <<"range">> /\ Len(Names) = 1
  BY DEF Names
<1> QED
  BY <1>1, <1>2, <1>3, <1>4, <1>5

LEMMA ConfigureSound ==
  ASSUME IInv, Configure
  PROVE  IInv'
<1> DEFINE sel == args.select
           f == func_lookup_by_name(cfg, sel.name)
           s == code_seg_lookup_by_name(cfg, sel.name)
           seg == IF sel.kind = "function" THEN f.seg ELSE s.seg
<1>1. /\ pc = "configure" /\ pc' = "select" /\ UNCHANGED input
      /\ todo' = todo /\ globals' = globals /\ failures' = failures /\ all_code' = all_code
      /\ preflight_failed' = preflight_failed /\ rc' = rc /\ report_file' = report_file
  BY DEF Configure
<1>2. ledger' = IF ~report_mode THEN ledger
                ELSE IF sel.kind = "range"
                THEN IF sel.start = None THEN ledger ELSE set_configured(ledger, Code, 1)
                ELSE IF sel.kind = "none" \/ (sel.kind = "function" /\ f = NotFound)
                                          \/ (sel.kind = "segment" /\ s = NotFound)
                THEN ledger ELSE set_configured(ledger, seg, Len(Picked))
  BY DEF Configure, Picked
<1>3. /\ TypeOK /\ Fresh /\ Prechecked /\ report_file = Unwritten /\ rc = None
      /\ \A x \in Segments : ledger[x].configured = 0
  BY <1>1 DEF IInv
<1>4. /\ cfg \in Configs /\ ledger \in Ledgers(Segments) /\ sel \in Selections
  BY <1>3 DEF TypeOK, Args
<1>5. /\ IsFiniteSet(Segments) /\ Code \in Segments
      /\ \A i \in 1 .. Len(cfg.funcs) : cfg.funcs[i].seg \in Segments
  BY <1>4, SegmentsSound
<1>6. /\ Picked \in Seq(Funcs) /\ Len(Picked) \in Nat
      /\ \A k \in 1 .. Len(Picked) : \E i \in 1 .. Len(cfg.funcs) : Picked[k] = cfg.funcs[i]
      /\ ~Ranged => Len(Names) = Len(Picked)
      /\ Ranged => Len(Names) = 1
  BY <1>4, PickedSound
<1>7. sel.kind \in {"function", "segment", "none", "both", "range"} /\ sel.kind # "both"
  BY <1>3, <1>4 DEF Selections, Prechecked, Batchwise
<1>8. sel.kind = "function" /\ f # NotFound => seg \in Segments
  BY <1>4, <1>5, FuncByName
<1>9. sel.kind = "segment" /\ s # NotFound => seg \in Segments \/ Len(Picked) = 0
  <2> SUFFICES ASSUME sel.kind = "segment", s # NotFound, Len(Picked) # 0
               PROVE  seg \in Segments
    OBVIOUS
  <2>1. Picked = func_lookup_by_seg(cfg, s.seg) /\ seg = s.seg
    BY DEF Picked, Selected
  <2>2. 1 \in 1 .. Len(Picked)
    BY <1>6
  <2>3. Picked[1].seg = seg
    BY <1>4, <2>1, <2>2, FuncsOfSeg
  <2> QED
    BY <1>5, <1>6, <2>2, <2>3
<1>10. \/ ledger' = ledger /\ ~(report_mode /\ SelectionExists)
       \/ ledger' = set_configured(ledger, Code, 1) /\ Ranged
       \/ /\ ledger' = set_configured(ledger, seg, Len(Picked)) /\ ~Ranged
          /\ seg \in Segments \/ Len(Picked) = 0
  <2>1. CASE ~report_mode
    BY <1>2, <2>1
  <2>2. CASE report_mode /\ sel.kind = "range"
    BY <1>2, <2>2 DEF Ranged, SelectionExists, RangeOK
  <2>3. CASE report_mode /\ sel.kind = "none"
    BY <1>2, <2>3 DEF SelectionExists
  <2>4. CASE report_mode /\ sel.kind = "function"
    <3>1. CASE f = NotFound
      BY <1>2, <2>4, <3>1 DEF SelectionExists
    <3>2. CASE f # NotFound
      BY <1>2, <1>8, <2>4, <3>2 DEF Ranged
    <3> QED
      BY <3>1, <3>2
  <2>5. CASE report_mode /\ sel.kind = "segment"
    <3>1. CASE s = NotFound
      BY <1>2, <2>5, <3>1 DEF SelectionExists
    <3>2. CASE s # NotFound
      BY <1>2, <1>9, <2>5, <3>2 DEF Ranged
    <3> QED
      BY <3>1, <3>2
  <2> QED
    BY <1>7, <2>1, <2>2, <2>3, <2>4, <2>5
<1> HIDE DEF seg, f, s, sel
<1>11. /\ ledger' \in Ledgers(Segments)
       /\ \A x \in Segments : ledger'[x].attempted = ledger[x].attempted /\ ledger'[x].failed = ledger[x].failed
       /\ report_mode /\ SelectionExists => Total("configured", ledger') = Len(Names)
  <2>1. CASE ledger' = ledger /\ ~(report_mode /\ SelectionExists)
    BY <1>4, <2>1
  <2>2. CASE ledger' = set_configured(ledger, Code, 1) /\ Ranged
    <3>1. 1 \in Nat
      OBVIOUS
    <3> QED
      BY <1>3, <1>4, <1>5, <1>6, <2>2, <3>1, Configured
  <2>3. CASE /\ ledger' = set_configured(ledger, seg, Len(Picked)) /\ ~Ranged
             /\ seg \in Segments \/ Len(Picked) = 0
    BY <1>3, <1>4, <1>5, <1>6, <2>3, Configured
  <2> QED
    BY <1>10, <2>1, <2>2, <2>3
<1>12. /\ cfg' = cfg /\ image' = image /\ args' = args /\ Segments' = Segments /\ Names' = Names
       /\ Batchwise' = Batchwise /\ Picked' = Picked /\ (report_mode' <=> report_mode)
       /\ SelectionExists' = SelectionExists /\ \A flag : Has(flag)' <=> Has(flag)
  BY <1>1, Carried
<1>13. TypeOK'
  <2>1. pc' \in Phases
    BY <1>1 DEF Phases
  <2> QED
    BY <1>1, <1>3, <1>11, <1>12, <2>1 DEF TypeOK
<1>14. Prechecked'
  BY <1>1, <1>3, <1>12 DEF Prechecked
<1>15. Fresh'
  BY <1>1, <1>3, <1>11, <1>12 DEF Fresh
<1>16. report_mode' /\ SelectionExists' => Total("configured", ledger)' = Len(Names)'
  BY <1>11, <1>12 DEF Total
<1> QED
  BY <1>1, <1>3, <1>13, <1>14, <1>15, <1>16 DEF IInv

\* What write_report leaves, if it leaves anything.
LEMMA ReportWritten ==
  ASSUME NEW l, NEW g, WriteReport(l, g)
  PROVE  /\ report_file'.written => /\ report_mode /\ report_file'.ledger = l
                                    /\ report_file'.globals = g
         /\ report_file' = Unwritten <=> ~report_file'.written
  BY DEF WriteReport, Unwritten

LEMMA SelectionFailsSound ==
  ASSUME IInv, SelectionFails
  PROVE  IInv'
<1>1. /\ pc = "select" /\ ~SelectionExists /\ pc' = "done" /\ rc' = 1 /\ UNCHANGED input
      /\ globals' = IF report_mode THEN globals + 1 ELSE globals
      /\ WriteReport(ledger, globals')
      /\ todo' = todo /\ ledger' = ledger /\ failures' = failures /\ all_code' = all_code
      /\ preflight_failed' = preflight_failed
  BY DEF SelectionFails
<1>2. TypeOK /\ globals \in Nat
  BY <1>1 DEF IInv, TypeOK
<1>3. /\ cfg' = cfg /\ image' = image /\ args' = args /\ Segments' = Segments
      /\ SelectionExists' = SelectionExists /\ \A flag : Has(flag)' <=> Has(flag)
  BY <1>1, Carried
<1>4. globals' \in Nat /\ (report_mode => globals' # 0)
  BY <1>1, <1>2
<1>5. TypeOK'
  <2>1. pc' \in Phases
    BY <1>1 DEF Phases
  <2> QED
    BY <1>1, <1>2, <1>3, <1>4, <2>1 DEF TypeOK
<1>6. report_file'.written => report_file'.globals # 0
  BY <1>1, <1>4, ReportWritten
<1>7. ExitHonest'
  BY <1>1, <1>6 DEF ExitHonest, SuccessIsComplete, VerdictReachesExit, NeverAborts, Aborted
<1>8. LedgerBalances'
  BY <1>1, <1>3 DEF LedgerBalances
<1> QED
  BY <1>1, <1>5, <1>7, <1>8 DEF IInv

\* The spec of an address range.
LEMMA FromRange ==
  ASSUME cfg \in Configs, args \in Args, Ranged, SelectionExists
  PROVE  LET s == from_start_and_end(args.select.start, args.select.end)
         IN s \in Specs /\ s.seg = Code /\ s.name = "range"
<1> DEFINE sel == args.select
           r == Region(Code, sel.start, Code, sel.end)
<1>1. sel \in Selections /\ sel.kind = "range" /\ sel.start # None /\ sel.end # None
  BY DEF Args, Ranged, SelectionExists, RangeOK
<1>2. sel.start \in Nat /\ sel.end \in Nat
  BY <1>1 DEF Selections
<1>3. r \in Regions /\ Code \in Nat
  BY <1>2, ImageAssumption DEF Region, Regions
<1>4. <<r>> \in Seq(Regions)
  BY <1>3
<1>5. from_start_and_end(sel.start, sel.end) = [name |-> "range", seg |-> Code, start |-> sel.start, regions |-> <<r>>]
  BY DEF from_start_and_end
<1> HIDE DEF r, sel
<1>6. [name |-> "range", seg |-> Code, start |-> sel.start, regions |-> <<r>>] \in Specs
  <2>1. "range" \in SpecNames
    BY DEF SpecNames
  <2> QED
    BY <1>2, <1>3, <1>4, <2>1 DEF Specs
<1> QED
  BY <1>5, <1>6 DEF sel

LEMMA SeqWithin ==
  ASSUME NEW S, NEW T, NEW s \in Seq(S), \A k \in 1 .. Len(s) : s[k] \in T
  PROVE  s \in Seq(T)
<1>1. Len(s) \in Nat /\ s = [k \in 1 .. Len(s) |-> s[k]]
  OBVIOUS
<1> QED
  BY <1>1

\* What infer_specs makes of a selection that exists.
LEMMA InferredSound ==
  ASSUME cfg \in Configs, args \in Args, SelectionExists
  PROVE  /\ Inferred.specs \in Seq({s \in Specs : s.seg \in Segments})
         /\ Inferred.failed \in Seq(Placeable(Segments))
         /\ Len(Inferred.specs) + Len(Inferred.failed) = Len(Names)
         /\ Ranged \/ (\A i \in DOMAIN Picked : Sound(Picked[i])) =>
              /\ Len(Inferred.failed) = 0 /\ Len(Inferred.specs) = Len(Names)
              /\ \A i \in 1 .. Len(Names) : Inferred.specs[i].name = Names[i]
<1> DEFINE P == {s \in Specs : s.seg \in Segments}
           n == Len(Names)
           sel == args.select
<1>1. /\ Picked \in Seq(Funcs) /\ Len(Picked) \in Nat /\ DOMAIN Picked = 1 .. Len(Picked)
      /\ \A k \in 1 .. Len(Picked) : \E i \in 1 .. Len(cfg.funcs) : Picked[k] = cfg.funcs[i]
      /\ ~Ranged => /\ Names = [i \in 1 .. Len(Picked) |-> Picked[i].name]
                    /\ Len(Names) = Len(Picked)
      /\ Ranged => Names = <<"range">> /\ Len(Names) = 1
  BY PickedSound
<1>2. /\ Code \in Segments
      /\ \A i \in 1 .. Len(cfg.funcs) : /\ cfg.funcs[i].seg \in Segments
                                       /\ infer_spec(cfg.funcs[i]).seg \in Segments
  BY SegmentsSound
<1>3. CASE Ranged
  <2> DEFINE s == from_start_and_end(sel.start, sel.end)
  <2>1. s \in P /\ s.name = "range"
    BY <1>2, <1>3, FromRange
  <2>2. Inferred.specs = <<s>> /\ Inferred.failed = <<>>
    BY <1>3 DEF Inferred, Ranged
  <2> HIDE DEF s, P
  <2>3. Inferred.specs \in Seq(P) /\ Len(Inferred.specs) = 1 /\ Inferred.specs[1] = s
    BY <2>1, <2>2
  <2>4. Inferred.failed \in Seq(Placeable(Segments)) /\ Len(Inferred.failed) = 0
    BY <2>2
  <2>5. \A i \in 1 .. 1 : Inferred.specs[i].name = Names[i]
    BY <1>1, <1>3, <2>1, <2>3
  <2> QED
    BY <1>1, <1>3, <2>3, <2>4, <2>5 DEF P
<1>4. CASE ~Ranged
  <2> DEFINE I == Inference(Picked)
             specs == I.specs
             bad == I.failed
  <2>1. Inferred = I
    BY <1>4 DEF Inferred, Inference, Ranged, Picked
  <2>2. /\ I \in Inferences
        /\ Len(specs) + Len(bad) = Len(Picked)
        /\ \A k \in 1 .. Len(specs) : \E i \in 1 .. Len(Picked) : specs[k] = from_func(Picked[i])
        /\ \A k \in 1 .. Len(bad) : \E i \in 1 .. Len(Picked) : bad[k] = Picked[i]
        /\ (\A i \in 1 .. Len(Picked) : infer_spec(Picked[i]).ok) =>
             /\ Len(specs) = Len(Picked) /\ Len(bad) = 0
             /\ \A i \in 1 .. Len(Picked) : specs[i] = from_func(Picked[i])
    BY <1>1, InferSound
  <2>3. specs \in Seq(Specs) /\ bad \in Seq(Funcs)
    BY <2>2 DEF Inferences
  <2> HIDE DEF I
  <2>4. \A i \in 1 .. Len(Picked) : /\ Picked[i] \in Funcs /\ Picked[i].seg \in Segments
                                   /\ infer_spec(Picked[i]).seg \in Segments
    BY <1>1, <1>2
  <2>5. \A i \in 1 .. Len(Picked) : /\ from_func(Picked[i]).seg \in Segments
                                   /\ from_func(Picked[i]).name = Picked[i].name
                                   /\ Picked[i] \in Placeable(Segments)
    BY <2>4, FromFunc DEF Placeable
  <2>6. ASSUME NEW k \in 1 .. Len(specs)
        PROVE  specs[k] \in P
    <3>1. PICK i \in 1 .. Len(Picked) : specs[k] = from_func(Picked[i])
      BY <2>2
    <3>2. from_func(Picked[i]).seg \in Segments
      BY <2>5
    <3>3. specs[k] \in Specs
      BY <2>3
    <3> HIDE DEF specs
    <3> QED
      BY <3>1, <3>2, <3>3
  <2>7. \A k \in 1 .. Len(bad) : bad[k] \in Placeable(Segments)
    BY <2>2, <2>5
  <2>8. specs \in Seq(P) /\ bad \in Seq(Placeable(Segments))
    <3> HIDE DEF P, specs, bad
    <3> QED BY <2>3, <2>6, <2>7, SeqWithin
  <2>9. (\A i \in DOMAIN Picked : Sound(Picked[i])) =>
          /\ Len(bad) = 0 /\ Len(specs) = Len(Picked)
          /\ \A i \in 1 .. Len(Picked) : specs[i].name = Names[i]
    BY <1>1, <1>4, <2>2, <2>5 DEF Sound
  <2> HIDE DEF specs, bad
  <2> HIDE DEF P
  <2>10. Inferred.specs = specs /\ Inferred.failed = bad
    BY <2>1 DEF specs, bad
  <2> QED
    BY <1>1, <1>4, <2>2, <2>8, <2>9, <2>10 DEF P
<1> QED
  BY <1>3, <1>4

\* A selection without a complaint of the preflight has only sound functions.
LEMMA PickedAreSound ==
  ASSUME Prechecked, SelectionExists, ~preflight_failed
  PROVE  Ranged \/ \A i \in DOMAIN Picked : Sound(Picked[i])
BY DEF Prechecked, SelectionExists, Ranged

\* Before anything is booked, nothing is.
LEMMA FreshTotals ==
  ASSUME TypeOK, Fresh
  PROVE  Total("attempted", ledger) = 0 /\ Total("failed", ledger) = 0
<1>1. ledger \in [Segments -> Rows] /\ IsFiniteSet(Segments)
  BY SegmentsSound DEF TypeOK, Ledgers
<1>2. \A x \in Segments : ledger[x]["attempted"] = 0 /\ ledger[x]["failed"] = 0
  BY DEF Fresh
<1>3. "attempted" \in Counters /\ "failed" \in Counters
  BY DEF Counters
<1> QED
  BY <1>1, <1>2, <1>3, TotalTyped

LEMMA SelectSound ==
  ASSUME IInv, Select
  PROVE  IInv'
<1>1. /\ pc = "select" /\ SelectionExists /\ (Has("infer_abi") \/ report_mode) /\ UNCHANGED input
      /\ todo' = Inferred.specs
      /\ ledger' = IF report_mode THEN Bookings(ledger, Inferred.failed) ELSE ledger
      /\ pc' = IF Has("infer_abi") THEN "infer" ELSE "decompile"
      /\ globals' = globals /\ failures' = failures /\ all_code' = all_code
      /\ preflight_failed' = preflight_failed /\ rc' = rc /\ report_file' = report_file
  BY DEF Select, Bookings
<1>2. /\ TypeOK /\ Prechecked /\ Fresh /\ rc = None /\ report_file = Unwritten
      /\ report_mode => Total("configured", ledger) = Len(Names)
  BY <1>1 DEF IInv
<1>3. /\ cfg' = cfg /\ image' = image /\ args' = args /\ Segments' = Segments /\ Names' = Names
      /\ Batchwise' = Batchwise /\ Picked' = Picked /\ (report_mode' <=> report_mode)
      /\ SelectionExists' = SelectionExists /\ \A flag : Has(flag)' <=> Has(flag)
  BY <1>1, Carried
<1>4. cfg \in Configs /\ args \in Args /\ ledger \in Ledgers(Segments) /\ IsFiniteSet(Segments)
  BY <1>2, SegmentsSound DEF TypeOK
<1> DEFINE specs == Inferred.specs
           bad == Inferred.failed
           n == Len(Names)
<1>5. /\ specs \in Seq({s \in Specs : s.seg \in Segments})
      /\ bad \in Seq(Placeable(Segments))
      /\ Len(specs) + Len(bad) = n
      /\ Ranged \/ (\A i \in DOMAIN Picked : Sound(Picked[i])) =>
           /\ Len(bad) = 0 /\ Len(specs) = n
           /\ \A i \in 1 .. n : specs[i].name = Names[i]
  BY <1>1, <1>4, InferredSound
<1>6. todo' = specs /\ (report_mode => ledger' = Bookings(ledger, bad)) /\ (~report_mode => ledger' = ledger)
  BY <1>1
<1>7. Total("attempted", ledger) = 0 /\ Total("failed", ledger) = 0
  BY <1>2, FreshTotals
<1>8. ~preflight_failed => /\ Len(bad) = 0 /\ Len(specs) = n
                           /\ \A i \in 1 .. n : specs[i].name = Names[i]
  BY <1>1, <1>2, <1>5, PickedAreSound
<1> HIDE DEF specs, bad
<1>9. /\ ledger' \in Ledgers(Segments)
      /\ report_mode => /\ Total("attempted", ledger') = 0 + Len(bad)
                        /\ Total("configured", ledger') = n
                        /\ Len(bad) = 0 => ledger' = ledger
  BY <1>2, <1>4, <1>5, <1>6, <1>7, BookedSound
<1>10. Len(specs) \in Nat /\ Len(bad) \in Nat
  BY <1>5
<1>11. TypeOK'
  <2>1. pc' \in Phases
    BY <1>1 DEF Phases
  <2> QED
    BY <1>1, <1>2, <1>3, <1>9, <2>1 DEF TypeOK
<1>12. CASE Has("infer_abi")
  <2>1. pc' = "infer" /\ Batchwise' /\ Has("infer_abi")'
    BY <1>1, <1>2, <1>3, <1>12 DEF Prechecked
  <2> QED
    BY <1>1, <1>2, <1>11, <2>1 DEF IInv
<1>13. CASE ~Has("infer_abi")
  <2>1. pc' = "decompile" /\ report_mode
    BY <1>1, <1>13
  <2>2. Prechecked'
    BY <1>1, <1>2, <1>3 DEF Prechecked
  <2>3. Booking'
    BY <1>3, <1>5, <1>6 DEF Booking
  <2>4. failures = 0 /\ all_code = <<>>
    BY <1>2 DEF Fresh
  <2>5. /\ Total("configured", ledger)' = n /\ Total("attempted", ledger)' + Len(specs) = n
        /\ ~preflight_failed => Total("failed", ledger)' = 0
    <3>1. \A field : Total(field, ledger)' = Total(field, ledger')
      BY DEF Total
    <3> QED
      BY <1>5, <1>7, <1>8, <1>9, <1>10, <2>1, <3>1
  <2>6. Balanced'
    BY <1>1, <1>3, <1>6, <2>4, <2>5 DEF Balanced
  <2>7. TextInOrder'
    <3>1. ~preflight_failed => /\ 0 + Len(specs) = n
                               /\ \A i \in 1 .. Len(specs) : specs[i].name = Names[0 + i]
      BY <1>8, <1>10
    <3>2. Len(all_code') = 0
      BY <1>1, <2>4
    <3> QED
      BY <1>1, <1>3, <1>6, <3>1, <3>2 DEF TextInOrder
  <2>8. all_code' \in Seq(SpecNames)
    BY <1>1, <2>4
  <2> QED
    BY <1>1, <1>2, <1>3, <1>11, <1>13, <2>1, <2>2, <2>3, <2>6, <2>7, <2>8 DEF IInv
<1> QED
  BY <1>12, <1>13

LEMMA SelectCodeSound ==
  ASSUME IInv, SelectCode
  PROVE  IInv'
<1> DEFINE panics == args.select.kind # "range" /\ \E i \in DOMAIN Picked : from_func_panics(Picked[i])
           P == {s \in Specs : s.seg \in Segments}
           range == from_start_and_end(args.select.start, args.select.end)
           n == Len(Names)
<1>1. /\ pc = "select" /\ SelectionExists /\ ~Has("infer_abi") /\ ~report_mode /\ UNCHANGED input
      /\ todo' = IF args.select.kind = "range" THEN <<range>>
                 ELSE [i \in DOMAIN Picked |-> from_func(Picked[i])]
      /\ pc' = IF panics THEN "done" ELSE "decompile"
      /\ rc' = IF panics THEN Aborted ELSE None
      /\ ledger' = ledger /\ globals' = globals /\ failures' = failures /\ all_code' = all_code
      /\ preflight_failed' = preflight_failed /\ report_file' = report_file
  BY DEF SelectCode, Picked
<1>2. /\ TypeOK /\ Prechecked /\ Fresh /\ rc = None /\ report_file = Unwritten
  BY <1>1 DEF IInv
<1>3. /\ cfg' = cfg /\ image' = image /\ args' = args /\ Segments' = Segments /\ Names' = Names
      /\ Batchwise' = Batchwise /\ Picked' = Picked /\ (report_mode' <=> report_mode)
      /\ SelectionExists' = SelectionExists /\ \A flag : Has(flag)' <=> Has(flag)
  BY <1>1, Carried
<1>4. cfg \in Configs /\ args \in Args
  BY <1>2 DEF TypeOK
<1>5. ~preflight_failed
  BY <1>1, <1>2 DEF Prechecked
<1>6. Ranged \/ \A i \in DOMAIN Picked : Sound(Picked[i])
  BY <1>1, <1>2, <1>5, PickedAreSound
<1>7. ~panics
  BY <1>6 DEF Sound, Ranged
<1>8. pc' = "decompile" /\ rc' = None
  BY <1>1, <1>7
<1>9. todo' \in Seq(P) /\ Len(todo') = n /\ \A i \in 1 .. n : todo'[i].name = Names[i]
  <2>1. CASE Ranged
    <3>1. todo' = <<range>> /\ Names = <<"range">> /\ Code \in Segments
      BY <1>1, <1>4, <2>1, PickedSound, SegmentsSound DEF Ranged
    <3>2. range \in P /\ range.name = "range"
      BY <1>1, <1>4, <2>1, <3>1, FromRange
    <3> HIDE DEF range, P
    <3> QED
      BY <3>1, <3>2
  <2>2. CASE ~Ranged
    <3>1. /\ Picked \in Seq(Funcs) /\ Len(Picked) \in Nat /\ DOMAIN Picked = 1 .. Len(Picked)
          /\ \A k \in 1 .. Len(Picked) : \E i \in 1 .. Len(cfg.funcs) : Picked[k] = cfg.funcs[i]
          /\ Names = [i \in 1 .. Len(Picked) |-> Picked[i].name] /\ n = Len(Picked)
      BY <1>4, <2>2, PickedSound
    <3>2. todo' = [i \in 1 .. Len(Picked) |-> from_func(Picked[i])]
      BY <1>1, <2>2, <3>1 DEF Ranged
    <3>5. \A i \in 1 .. Len(cfg.funcs) : cfg.funcs[i].seg \in Segments
      BY <1>4, SegmentsSound
    <3>6. \A k \in 1 .. Len(Picked) : Picked[k].seg \in Segments
      BY <3>1, <3>5
    <3>3. \A k \in 1 .. Len(Picked) : Picked[k] \in Funcs /\ Picked[k].seg \in Segments
      BY <3>1, <3>6
    <3>4. \A k \in 1 .. Len(Picked) : from_func(Picked[k]) \in P /\ from_func(Picked[k]).name = Names[k]
      BY <3>1, <3>3, FromFunc
    <3> HIDE DEF P, n
    <3> QED
      BY <3>1, <3>2, <3>4
  <2> QED
    BY <2>1, <2>2
<1>10. TypeOK'
  BY <1>1, <1>2, <1>3, <1>8 DEF TypeOK, Phases
<1>11. Prechecked'
  BY <1>1, <1>2, <1>3 DEF Prechecked
<1>12. Booking'
  BY <1>3, <1>9 DEF Booking
<1>13. Balanced'
  BY <1>1, <1>3 DEF Balanced
<1>14. all_code' = <<>> /\ Len(all_code') = 0 /\ all_code' \in Seq(SpecNames)
  BY <1>1, <1>2 DEF Fresh
<1> HIDE DEF P
<1>15. TextInOrder'
  <2>1. n \in Nat /\ 0 + Len(todo') = n /\ \A i \in 1 .. Len(todo') : todo'[i].name = Names[0 + i]
    BY <1>9
  <2> QED
    BY <1>1, <1>3, <1>14, <2>1 DEF TextInOrder
<1> QED
  BY <1>1, <1>2, <1>3, <1>8, <1>10, <1>11, <1>12, <1>13, <1>14, <1>15 DEF IInv

\* A function that does not decode fails for a reason the report knows.
LEMMA DecodeCauses ==
  ASSUME NEW c, NEW p, NEW s, ~decode_regions(c, p, s).ok
  PROVE  decode_regions(c, p, s).cause \in Causes
<1>1. /\ ~Failure("DECODE_ERROR").ok /\ Failure("DECODE_ERROR").cause \in Causes
      /\ ~Failure("CALL_TARGET_IN_DATA").ok /\ Failure("CALL_TARGET_IN_DATA").cause \in Causes
  BY DEF Failure, Causes
<1>2. ASSUME NEW chunks, NEW decoded, ~Joined(c, p, chunks, decoded).ok
      PROVE  Joined(c, p, chunks, decoded).cause \in Causes
  <2> DEFINE all == FoldLeft(LAMBDA x, d : x \o d.at, <<>>, decoded)
             bad(i) == decoded[i].failed # None
             intoData(i) == /\ decoded[i].at # <<>> /\ data_region_containing(c, chunks[i][2])
                            /\ has_fallthrough(p[Last(decoded[i].at)])
             first == SelectInSeq([i \in DOMAIN chunks |-> bad(i) \/ intoData(i)], LAMBDA x : x)
             hits == \E i \in DOMAIN all : direct_target(p[all[i]]) # None
                                          /\ data_region_containing(c, direct_target(p[all[i]]))
  <2>1. Joined(c, p, chunks, decoded) =
          IF first # 0
          THEN Failure(IF bad(first) THEN "DECODE_ERROR" ELSE "CALL_TARGET_IN_DATA")
          ELSE IF hits THEN Failure("CALL_TARGET_IN_DATA") ELSE [ok |-> TRUE, at |-> all]
    BY DEF Joined, FoldLeft, MapThenFoldSet, SelectInSeq
  <2> HIDE DEF first, hits, bad, all
  <2>2. [ok |-> TRUE, at |-> all].ok
    OBVIOUS
  <2> QED
    BY <1>1, <1>2, <2>1, <2>2
<1> DEFINE code == code_regions(c.text, s.regions)
           chunks == Chunks(s, code)
           J == Joined(c, p, chunks, [i \in DOMAIN chunks |-> Linear(p, chunks[i][1], chunks[i][2])])
<1>3. decode_regions(c, p, s) =
        IF data_region_containing(c, s.start) THEN Failure("CALL_TARGET_IN_DATA")
        ELSE IF ~\E i \in DOMAIN code : RegionContains(code[i], s.seg, s.start)
        THEN Failure("DECODE_ERROR") ELSE J
  BY DEF decode_regions, decode_code
<1>4. ~J.ok => J.cause \in Causes
  BY <1>2
<1> HIDE DEF J, code
<1> QED
  BY <1>1, <1>3, <1>4

\* What decompile_spec reports: a success, or a failure with a cause; text
\* only with a success, and with every success if --emit-code alone is asked.
LEMMA OutcomeSound ==
  ASSUME NEW s, NEW later
  PROVE  LET out == decompile_spec(s, later)
         IN /\ out.kind # "ok" => out.cause \in Causes
            /\ out.emits \in BOOLEAN /\ (out.emits => out.kind = "ok")
            /\ Has("emit_code") /\ ~Has("emit_dis") /\ ~Has("emit_ast") /\ out.kind = "ok" => out.emits
<1> DEFINE d == decode_regions(cfg, image, s)
           ok(emits) == [kind |-> "ok", cause |-> "", emits |-> emits]
           error(cause) == [kind |-> "error", cause |-> cause, emits |-> FALSE]
           panic == [kind |-> "panic", cause |-> "INTERNAL_PANIC", emits |-> FALSE]
           panics == CallModePanics(cfg, image, d.at)
           out == decompile_spec(s, later)
<1>1. out = IF ~d.ok THEN error(d.cause)
            ELSE IF later = "panic" THEN panic
            ELSE IF Has("emit_dis") /\ ~report_mode THEN ok(FALSE)
            ELSE IF panics THEN panic
            ELSE IF later = "ast_error" THEN error("CODEGEN_FAILURE")
            ELSE IF Has("emit_ast") THEN ok(FALSE)
            ELSE IF ~Has("emit_code") THEN ok(FALSE)
            ELSE IF later = "gen_error" THEN error("CODEGEN_FAILURE")
            ELSE ok(TRUE)
  BY DEF decompile_spec, decompile_decoded
<1>2. ~d.ok => d.cause \in Causes
  BY DecodeCauses
<1>3. "CODEGEN_FAILURE" \in Causes /\ "INTERNAL_PANIC" \in Causes
  BY DEF Causes
<1> HIDE DEF d, out, panics
<1>4. \A e : ok(e).kind = "ok" /\ ok(e).emits = e
  OBVIOUS
<1>5. \A x : error(x).kind # "ok" /\ error(x).cause = x /\ error(x).emits = FALSE
  OBVIOUS
<1>6. panic.kind # "ok" /\ panic.cause = "INTERNAL_PANIC" /\ panic.emits = FALSE
  OBVIOUS
<1> HIDE DEF ok, error, panic
<1>7. /\ out.kind # "ok" => out.cause \in Causes
      /\ out.emits \in BOOLEAN /\ (out.emits => out.kind = "ok")
      /\ Has("emit_code") /\ ~Has("emit_dis") /\ ~Has("emit_ast") /\ out.kind = "ok" => out.emits
  BY <1>1, <1>2, <1>3, <1>4, <1>5, <1>6
<1> QED
  BY <1>7 DEF out

\* One more function, a success or a failure, where there is a ledger.
LEMMA DecompileBooks ==
  ASSUME TypeOK, NEW s \in Specs, s.seg \in Segments, NEW out, out.kind # "ok" => out.cause \in Causes,
         NEW m, m = LET l == attempt(ledger, s.seg)
                    IN IF out.kind = "ok" THEN translated(l, s.seg) ELSE failure(l, s.seg, out.cause)
  PROVE  /\ m \in Ledgers(Segments)
         /\ Total("attempted", m) = Total("attempted", ledger) + 1
         /\ Total("configured", m) = Total("configured", ledger)
         /\ Total("failed", m) = Total("failed", ledger) + IF out.kind = "ok" THEN 0 ELSE 1
<1>1. ledger \in Ledgers(Segments) /\ IsFiniteSet(Segments)
  BY SegmentsSound DEF TypeOK
<1>2. Total("failed", ledger) \in Nat
  BY <1>1, TotalTyped DEF Ledgers, Counters
<1>3. CASE out.kind = "ok"
  <2>1. m = translated(attempt(ledger, s.seg), s.seg)
    BY <1>3
  <2> QED
    BY <1>1, <1>2, <1>3, <2>1, Succeeded
<1>4. CASE out.kind # "ok"
  <2>1. m = failure(attempt(ledger, s.seg), s.seg, out.cause)
    BY <1>4
  <2> QED
    BY <1>1, <1>2, <1>4, <2>1, Failed
<1> QED
  BY <1>3, <1>4

LEMMA DecompileSound ==
  ASSUME IInv, NEW later, Decompile(later)
  PROVE  IInv'
<1> DEFINE s == Head(todo)
           out == decompile_spec(s, later)
           l == attempt(ledger, s.seg)
           m == IF out.kind = "ok" THEN translated(l, s.seg) ELSE failure(l, s.seg, out.cause)
           P == {x \in Specs : x.seg \in Segments}
<1>1. /\ pc = "decompile" /\ todo # <<>> /\ UNCHANGED input /\ pc' = pc
      /\ failures' = failures + (IF out.kind = "ok" THEN 0 ELSE 1)
      /\ all_code' = IF out.emits THEN Append(all_code, s.name) ELSE all_code
      /\ ledger' = IF ~report_mode THEN ledger ELSE m
      /\ todo' = Tail(todo)
      /\ globals' = globals /\ preflight_failed' = preflight_failed /\ rc' = rc
      /\ report_file' = report_file
  BY DEF Decompile
<1>2. /\ TypeOK /\ Prechecked /\ ~Has("infer_abi") /\ SelectionExists /\ Booking /\ Balanced
      /\ TextInOrder /\ all_code \in Seq(SpecNames) /\ rc = None /\ report_file = Unwritten
  BY <1>1 DEF IInv
<1>3. /\ cfg' = cfg /\ image' = image /\ args' = args /\ Segments' = Segments /\ Names' = Names
      /\ Batchwise' = Batchwise /\ Picked' = Picked /\ (report_mode' <=> report_mode)
      /\ SelectionExists' = SelectionExists /\ \A flag : Has(flag)' <=> Has(flag)
  BY <1>1, Carried
<1>4. todo \in Seq(P)
  BY <1>2 DEF Booking
<1>5. s \in P /\ s = todo[1] /\ todo' \in Seq(P) /\ Len(todo) \in Nat /\ Len(todo) >= 1
      /\ Len(todo') = Len(todo) - 1 /\ \A i \in 1 .. Len(todo') : todo'[i] = todo[i + 1]
  <2> HIDE DEF P
  <2> QED BY <1>1, <1>4
<1>6. s \in Specs /\ s.seg \in Segments /\ s.name \in SpecNames
  BY <1>5 DEF Specs
<1>7. /\ out.kind # "ok" => out.cause \in Causes
      /\ out.emits \in BOOLEAN /\ (out.emits => out.kind = "ok")
      /\ Has("emit_code") /\ ~Has("emit_dis") /\ ~Has("emit_ast") /\ out.kind = "ok" => out.emits
  <2> HIDE DEF s
  <2> QED BY OutcomeSound
<1> HIDE DEF out, P
<1>8. /\ m \in Ledgers(Segments)
      /\ Total("attempted", m) = Total("attempted", ledger) + 1
      /\ Total("configured", m) = Total("configured", ledger)
      /\ Total("failed", m) = Total("failed", ledger) + IF out.kind = "ok" THEN 0 ELSE 1
  <2> HIDE DEF s
  <2> QED BY <1>2, <1>6, <1>7, DecompileBooks
<1> HIDE DEF m
<1>9. failures \in Nat /\ failures' \in Nat /\ (failures' = 0 => failures = 0 /\ out.kind = "ok")
  BY <1>1, <1>2 DEF TypeOK
<1>10. TypeOK'
  BY <1>1, <1>2, <1>3, <1>8, <1>9 DEF TypeOK
<1>11. Prechecked'
  BY <1>1, <1>2, <1>3 DEF Prechecked
<1>12. Booking'
  BY <1>3, <1>5 DEF Booking, P
<1>13. Balanced'
  <2> SUFFICES ASSUME report_mode
               PROVE  /\ Total("configured", ledger)' = Len(Names)
                      /\ Total("attempted", ledger)' + Len(todo') = Len(Names)
                      /\ ~preflight_failed => Total("failed", ledger)' = failures'
    BY <1>1, <1>3 DEF Balanced
  <2>1. \A field : Total(field, ledger)' = Total(field, m)
    BY <1>1 DEF Total
  <2>2. Total("attempted", ledger) \in Nat /\ Total("failed", ledger) \in Nat
    BY <1>2, SegmentsSound, TotalTyped DEF TypeOK, Ledgers, Counters
  <2>3. /\ Total("configured", ledger) = Len(Names)
        /\ Total("attempted", ledger) + Len(todo) = Len(Names)
        /\ ~preflight_failed => Total("failed", ledger) = failures
    BY <1>2 DEF Balanced
  <2> QED
    BY <1>1, <1>5, <1>8, <1>9, <2>1, <2>2, <2>3
<1>14. TextInOrder'
  <2> SUFFICES ASSUME Has("emit_code"), ~Has("emit_dis"), ~Has("emit_ast"), ~preflight_failed, failures' = 0
               PROVE  /\ Len(all_code') + Len(todo') = Len(Names)
                      /\ \A i \in 1 .. Len(all_code') : all_code'[i] = Names[i]
                      /\ \A i \in 1 .. Len(todo') : todo'[i].name = Names[Len(all_code') + i]
    BY <1>1, <1>3 DEF TextInOrder
  <2>1. out.emits /\ failures = 0
    BY <1>7, <1>9
  <2>2. all_code' = Append(all_code, s.name)
    BY <1>1, <2>1
  <2>3. /\ Len(all_code) + Len(todo) = Len(Names)
        /\ \A i \in 1 .. Len(all_code) : all_code[i] = Names[i]
        /\ \A i \in 1 .. Len(todo) : todo[i].name = Names[Len(all_code) + i]
    BY <1>2, <2>1 DEF TextInOrder
  <2>4. s.name = Names[Len(all_code) + 1]
    BY <1>5, <2>3
  <2> HIDE DEF s
  <2>5. /\ Len(all_code) \in Nat /\ Len(all_code') = Len(all_code) + 1
        /\ \A i \in 1 .. Len(all_code) : all_code'[i] = all_code[i]
        /\ all_code'[Len(all_code) + 1] = s.name
    BY <1>2, <1>6, <2>2
  <2>6. \A i \in 1 .. Len(all_code') : all_code'[i] = Names[i]
    BY <2>3, <2>4, <2>5
  <2>7. \A i \in 1 .. Len(todo') : todo'[i].name = Names[Len(all_code') + i]
    <3> TAKE i \in 1 .. Len(todo')
    <3>1. i + 1 \in 1 .. Len(todo) /\ todo'[i] = todo[i + 1]
      BY <1>5
    <3>2. Len(all_code) + (i + 1) = Len(all_code') + i
      BY <1>5, <2>5
    <3> QED
      BY <2>3, <3>1, <3>2
  <2>8. Len(all_code') + Len(todo') = Len(Names)
    <3>1. /\ Len(todo) \in Nat /\ Len(todo') = Len(todo) - 1
          /\ Len(all_code) \in Nat /\ Len(all_code') = Len(all_code) + 1
      BY <1>5, <2>5
    <3>2. Len(all_code) + Len(todo) = Len(Names)
      BY <2>3
    <3> QED
      BY ONLY <3>1, <3>2
  <2> QED
    BY <2>6, <2>7, <2>8
<1>15. all_code' \in Seq(SpecNames)
  BY <1>1, <1>2, <1>6
<1> QED
  BY <1>1, <1>2, <1>3, <1>10, <1>11, <1>12, <1>13, <1>14, <1>15 DEF IInv

LEMMA OfSegmentStep ==
  ASSUME NEW k \in Nat, NEW seg
  PROVE  /\ OfSegment(seg, k) \in Nat
         /\ OfSegment(seg, k + 1) = OfSegment(seg, k) + IF cfg.funcs[k + 1].seg = seg THEN 1 ELSE 0
<1> DEFINE S(n) == {i \in 1 .. n : cfg.funcs[i].seg = seg}
<1>1. IsFiniteSet(S(k)) /\ Cardinality(S(k)) \in Nat
  <2>1. IsFiniteSet(1 .. k) /\ S(k) \subseteq 1 .. k
    BY FS_Interval
  <2> HIDE DEF S
  <2> QED
    BY <2>1, FS_Subset, FS_CardinalityType
<1>2. S(k + 1) = IF cfg.funcs[k + 1].seg = seg THEN S(k) \cup {k + 1} ELSE S(k)
  OBVIOUS
<1>3. k + 1 \notin S(k)
  OBVIOUS
<1>4. OfSegment(seg, k) = Cardinality(S(k)) /\ OfSegment(seg, k + 1) = Cardinality(S(k + 1))
  BY DEF OfSegment
<1> HIDE DEF S
<1>5. Cardinality(S(k) \cup {k + 1}) = Cardinality(S(k)) + 1
  BY <1>1, <1>3, FS_AddElement
<1> QED
  BY <1>1, <1>2, <1>4, <1>5

\* summarize_function books one attempt, in the function's own segment.
LEMMA SummarizeBooks ==
  ASSUME NEW G, IsFiniteSet(G), NEW l \in Ledgers(G), NEW seg \in G, NEW m,
         \/ m = translated(attempt(l, seg), seg)
         \/ \E cause \in Causes : m = failure(attempt(l, seg), seg, cause)
  PROVE  /\ m \in Ledgers(G)
         /\ \A x \in G : /\ m[x].configured = l[x].configured
                         /\ m[x].attempted = l[x].attempted + IF x = seg THEN 1 ELSE 0
<1>1. CASE m = translated(attempt(l, seg), seg)
  BY <1>1, Succeeded
<1>2. ASSUME NEW cause \in Causes, m = failure(attempt(l, seg), seg, cause)
      PROVE  /\ m \in Ledgers(G)
             /\ \A x \in G : /\ m[x].configured = l[x].configured
                             /\ m[x].attempted = l[x].attempted + IF x = seg THEN 1 ELSE 0
  BY <1>2, Failed
<1> QED
  BY <1>1, <1>2

LEMMA SummarizeSound ==
  ASSUME IInv, NEW later, Summarize(later)
  PROVE  IInv'
<1> DEFINE f == Head(todo)
           decoded == decode_regions(cfg, image, from_func(f))
           l == attempt(ledger, f.seg)
           n == Len(cfg.funcs)
           panics == CallModePanics(cfg, image, decoded.at) \/ later = "panic"
<1>1. /\ pc = "summary" /\ todo # <<>> /\ UNCHANGED input /\ pc' = pc
      /\ ledger' = IF ~infer_spec(f).ok THEN failure(l, f.seg, "CONFIG_ERROR")
                   ELSE IF ~decoded.ok THEN failure(l, f.seg, decoded.cause)
                   ELSE IF panics THEN failure(l, f.seg, "INTERNAL_PANIC")
                   ELSE IF later = "ast_error" THEN failure(l, f.seg, "CODEGEN_FAILURE")
                   ELSE translated(l, f.seg)
      /\ todo' = Tail(todo)
      /\ globals' = globals /\ failures' = failures /\ all_code' = all_code
      /\ preflight_failed' = preflight_failed /\ rc' = rc /\ report_file' = report_file
  BY DEF Summarize
<1>2. TypeOK /\ Summed /\ todo \in Seq(Funcs) /\ rc = None /\ report_file = Unwritten
  BY <1>1 DEF IInv
<1>3. /\ cfg' = cfg /\ image' = image /\ args' = args /\ Segments' = Segments
      /\ Conflict' = Conflict /\ \A flag : Has(flag)' <=> Has(flag)
  BY <1>1, Carried
<1>4. /\ cfg \in Configs /\ ledger \in Ledgers(Segments) /\ IsFiniteSet(Segments)
      /\ \A i \in 1 .. n : cfg.funcs[i].seg \in Segments
  BY <1>2, SegmentsSound DEF TypeOK
<1>5. n \in Nat
  BY <1>4, ConfigTyped
<1>6. PICK k \in 0 .. n :
        /\ Len(todo) = n - k /\ \A i \in 1 .. Len(todo) : todo[i] = cfg.funcs[k + i]
        /\ \A seg \in Segments : /\ ledger[seg].configured = OfSegment(seg, n)
                                 /\ ledger[seg].attempted = OfSegment(seg, k)
  BY <1>2 DEF Summed, Reached
<1>7. /\ f = todo[1] /\ todo' \in Seq(Funcs) /\ Len(todo) \in Nat /\ Len(todo) >= 1
      /\ Len(todo') = Len(todo) - 1 /\ \A i \in 1 .. Len(todo') : todo'[i] = todo[i + 1]
  BY <1>1, <1>2
<1>8. k + 1 \in 1 .. n /\ f = cfg.funcs[k + 1]
  <2> HIDE DEF f, n
  <2> QED BY <1>5, <1>6, <1>7
<1>9. f.seg \in Segments
  BY <1>4, <1>8
<1>10. ~decoded.ok => decoded.cause \in Causes
  BY DecodeCauses
<1> HIDE DEF f, decoded, panics
<1>11. \/ ledger' = translated(attempt(ledger, f.seg), f.seg)
       \/ \E cause \in Causes : ledger' = failure(attempt(ledger, f.seg), f.seg, cause)
  <2>1. "CONFIG_ERROR" \in Causes /\ "INTERNAL_PANIC" \in Causes /\ "CODEGEN_FAILURE" \in Causes
    BY DEF Causes
  <2> HIDE DEF l
  <2>2. \/ ledger' = translated(l, f.seg)
        \/ \E cause \in Causes : ledger' = failure(l, f.seg, cause)
    BY <1>1, <1>10, <2>1
  <2> QED
    BY <2>2 DEF l
<1>12. /\ ledger' \in Ledgers(Segments)
       /\ \A x \in Segments : /\ ledger'[x].configured = ledger[x].configured
                              /\ ledger'[x].attempted = ledger[x].attempted + IF x = f.seg THEN 1 ELSE 0
  BY <1>4, <1>9, <1>11, SummarizeBooks
<1>13. TypeOK'
  BY <1>1, <1>2, <1>3, <1>12 DEF TypeOK
<1>14. \A x \in Segments : /\ ledger'[x].configured = OfSegment(x, n)
                           /\ ledger'[x].attempted = OfSegment(x, k + 1)
  <2> TAKE x \in Segments
  <2>1. OfSegment(x, k + 1) = OfSegment(x, k) + IF f.seg = x THEN 1 ELSE 0
    BY <1>8, OfSegmentStep
  <2> QED
    BY <1>6, <1>12, <2>1
<1>15. /\ k + 1 \in 0 .. n /\ Len(todo') = n - (k + 1)
       /\ \A i \in 1 .. Len(todo') : todo'[i] = cfg.funcs[(k + 1) + i]
  <2>1. k + 1 \in 0 .. n /\ Len(todo') = n - (k + 1)
    BY <1>5, <1>6, <1>7, <1>8
  <2>2. \A i \in 1 .. Len(todo') : todo'[i] = cfg.funcs[(k + 1) + i]
    <3> TAKE i \in 1 .. Len(todo')
    <3>1. i + 1 \in 1 .. Len(todo) /\ todo'[i] = todo[i + 1] /\ k + (i + 1) = (k + 1) + i
      BY <1>7
    <3> QED
      BY <1>6, <3>1
  <2> QED
    BY <2>1, <2>2
<1>16. Summed'
  <2>1. \A seg, j : OfSegment(seg, j)' = OfSegment(seg, j)
    BY <1>3 DEF OfSegment
  <2>2. Reached(k + 1)'
    BY <1>3, <1>14, <1>15, <2>1 DEF Reached
  <2> QED
    BY <1>2, <1>3, <1>15, <2>2 DEF Summed
<1> QED
  BY <1>1, <1>2, <1>7, <1>13, <1>16 DEF IInv

LEMMA SummaryDoneSound ==
  ASSUME IInv, SummaryDone
  PROVE  IInv'
<1>1. /\ pc = "summary" /\ todo = <<>> /\ Stop(0)
  BY DEF SummaryDone
<1>2. /\ TypeOK /\ Summed /\ report_file = Unwritten
  BY <1>1 DEF IInv
<1>3. /\ UNCHANGED input /\ pc' = "done" /\ rc' = 0 /\ report_file' = Unwritten
      /\ ledger' = ledger /\ globals' = globals /\ failures' = failures
      /\ preflight_failed' = preflight_failed
  BY <1>1, <1>2 DEF Stop
<1>4. /\ cfg' = cfg /\ image' = image /\ args' = args /\ Segments' = Segments
      /\ Batchwise' = Batchwise /\ \A flag : Has(flag)' <=> Has(flag)
  BY <1>3, Carried
<1>5. TypeOK'
  BY <1>2, <1>3, <1>4 DEF TypeOK, Phases
<1>6. ~Batchwise
  BY <1>2 DEF Summed, Batchwise
<1>7. ExitHonest'
  BY <1>3, <1>4, <1>6, StopsHonest DEF Aborted
<1>8. ledger \in [Segments -> Rows] /\ \A x \in Segments : Adds(ledger[x])
  BY <1>2 DEF TypeOK, Ledgers
<1>9. \A x \in Segments : ledger[x].attempted = ledger[x].configured
  <2>1. Len(cfg.funcs) \in Nat /\ Len(todo) = 0
    BY <1>1, <1>2, ConfigTyped DEF TypeOK
  <2>2. PICK k \in 0 .. Len(cfg.funcs) : Reached(k)
    BY <1>2 DEF Summed
  <2>3. k = Len(cfg.funcs)
    BY <2>1, <2>2 DEF Reached
  <2> QED
    BY <2>2, <2>3 DEF Reached
<1>10. Total("attempted", ledger) = Total("configured", ledger)
  <2>1. \A x \in Segments : ledger[x]["attempted"] = ledger[x]["configured"]
    BY <1>9
  <2> QED
    BY ONLY <1>8, <2>1, TotalEqual
<1>11. LedgerBalances'
  <2>1. ~report_file'.written
    BY <1>3 DEF Unwritten
  <2>2. Total("attempted", ledger)' = Total("configured", ledger)'
    BY <1>3, <1>10 DEF Total
  <2>3. \A seg \in Segments : /\ ledger'[seg].attempted = ledger'[seg].translated + ledger'[seg].failed
                              /\ ledger'[seg].failed = SumFunction(ledger'[seg].causes)
                              /\ ledger'[seg].attempted = ledger'[seg].configured
    BY <1>3, <1>8, <1>9 DEF Adds
  <2> QED
    BY <1>3, <1>4, <1>10, <2>1, <2>3 DEF LedgerBalances, Total
<1> QED
  BY <1>3, <1>5, <1>7, <1>11 DEF IInv

LEMMA InferStepSound ==
  ASSUME IInv, NEW later, Infer(later)
  PROVE  IInv'
<1> DEFINE decoded(s) == decode_regions(cfg, image, s)
           panics == later = "panic" \/ \E i \in DOMAIN todo :
                       decoded(todo[i]).ok /\ CallModePanics(cfg, image, decoded(todo[i]).at)
           bad == Inferred.failed # <<>> \/ \E i \in DOMAIN todo : ~decoded(todo[i]).ok
           code == IF panics /\ todo # <<>> THEN Aborted
                   ELSE IF preflight_failed \/ bad THEN 1 ELSE 0
<1>1. pc = "infer" /\ Stop(code)
  BY DEF Infer
<1>2. Batchwise /\ Has("infer_abi") /\ pc # "done"
  BY <1>1 DEF IInv
<1>3. ~Has("analyze")
  BY <1>2 DEF Batchwise
<1>4. code \in Int
  <2> HIDE DEF panics, bad
  <2> QED BY DEF Aborted
<1> HIDE DEF code
<1> QED
  BY <1>1, <1>2, <1>3, <1>4, StopSound

\* The end of a run that decompiled: the state that decides the exit code.
LEMMA FinishHonest ==
  ASSUME IInv, Finish
  PROVE  ExitHonest'
<1> DEFINE bad == failures # 0 \/ (report_mode /\ report_file' = Unwritten) \/ preflight_failed
           n == Len(Names)
           names == IF args.select.kind = "range" THEN <<"range">>
                    ELSE [i \in DOMAIN Selected(cfg, args.select) |-> Selected(cfg, args.select)[i].name]
<1>1. /\ pc = "decompile" /\ todo = <<>> /\ WriteReport(ledger, globals) /\ UNCHANGED input
      /\ UNCHANGED <<failures, preflight_failed>>
      /\ \/ /\ rc' = IF bad THEN 1 ELSE 0
            /\ code_file' = IF ~bad /\ Has("emit_code") THEN all_code ELSE Absent
         \/ ~bad /\ rc' = Aborted /\ code_file' = Lost
  BY DEF Finish
<1>2. /\ TypeOK /\ Prechecked /\ Balanced /\ TextInOrder /\ all_code \in Seq(SpecNames)
  BY <1>1 DEF IInv
<1>3. /\ cfg' = cfg /\ image' = image /\ args' = args /\ Segments' = Segments
      /\ (report_mode' <=> report_mode) /\ \A flag : Has(flag)' <=> Has(flag)
  BY <1>1, Carried
<1>4. /\ ledger \in [Segments -> Rows] /\ IsFiniteSet(Segments) /\ \A x \in Segments : Adds(ledger[x])
      /\ cfg \in Configs /\ failures \in Nat
  BY <1>2, SegmentsSound DEF TypeOK, Ledgers
<1>5. "attempted" \in Counters /\ "translated" \in Counters /\ "failed" \in Counters
  BY DEF Counters
<1>6. /\ Total("attempted", ledger) \in Nat /\ Total("translated", ledger) \in Nat
      /\ Total("failed", ledger) \in Nat
      /\ Total("failed", ledger) = 0 <=> \A x \in Segments : ledger[x]["failed"] = 0
      /\ Total("attempted", ledger) = Total("translated", ledger) + Total("failed", ledger)
  BY <1>4, <1>5, TotalTyped, TotalSplits
<1>7. /\ report_file'.written => /\ report_mode /\ report_file'.ledger = ledger
                                 /\ report_file'.globals = globals
      /\ report_file' = Unwritten <=> ~report_file'.written
  BY <1>1, ReportWritten
<1>8. names = Names
  BY DEF Names, Ranged, Picked
<1>9. Len(todo) = 0
  BY <1>1
<1>10. n \in Nat
  <2>1. /\ Len(Picked) \in Nat
        /\ ~Ranged => n = Len(Picked)
        /\ Ranged => n = 1
    BY <1>4, PickedSound
  <2> QED
    BY <2>1
<1> HIDE DEF n, names
<1>11. report_mode => Total("attempted", ledger) = n /\ (~preflight_failed => Total("failed", ledger) = failures)
  BY <1>2, <1>6, <1>9, <1>10 DEF Balanced, n
<1>12. Has("emit_code") /\ ~Has("emit_dis") /\ ~Has("emit_ast") /\ ~preflight_failed /\ failures = 0 =>
         all_code = Names
  <2> SUFFICES ASSUME Has("emit_code"), ~Has("emit_dis"), ~Has("emit_ast"), ~preflight_failed, failures = 0
               PROVE  all_code = Names
    OBVIOUS
  <2>1. Len(all_code) + 0 = n /\ \A i \in 1 .. Len(all_code) : all_code[i] = Names[i]
    BY <1>2, <1>9 DEF TextInOrder, n
  <2>2. Len(all_code) \in Nat /\ all_code = [i \in 1 .. Len(all_code) |-> all_code[i]]
    BY <1>2
  <2>3. Len(all_code) = n
    BY <2>1, <2>2
  <2>4. Names = [i \in 1 .. n |-> Names[i]]
    <3>1. /\ Len(Picked) \in Nat
          /\ ~Ranged => /\ Names = [i \in 1 .. Len(Picked) |-> Picked[i].name]
                        /\ Len(Names) = Len(Picked)
          /\ Ranged => Names = <<"range">> /\ Len(Names) = 1
      BY <1>4, PickedSound
    <3> QED
      BY <3>1 DEF n
  <2> QED
    BY <2>1, <2>2, <2>3, <2>4
<1>13. SuccessIsComplete'
  <2> SUFFICES ASSUME rc' = 0
               PROVE  /\ Has("emit_code") /\ ~Has("emit_dis") /\ ~Has("emit_ast") => code_file' = names
                      /\ report_mode => /\ report_file'.written
                                        /\ Len(names) = Total("translated", report_file'.ledger)
    <3>1. (\E x \in {names} : /\ Has("emit_code") /\ ~Has("emit_dis") /\ ~Has("emit_ast") => code_file' = x
                              /\ report_mode => /\ report_file'.written
                                                /\ Len(x) = Total("translated", report_file'.ledger))
          <=> /\ Has("emit_code") /\ ~Has("emit_dis") /\ ~Has("emit_ast") => code_file' = names
              /\ report_mode => /\ report_file'.written
                                /\ Len(names) = Total("translated", report_file'.ledger)
      OBVIOUS
    <3> QED
      BY <1>3 DEF SuccessIsComplete, names, Total
  <2>1. ~bad /\ (Has("emit_code") => code_file' = all_code)
    BY <1>1 DEF Aborted
  <2>2. failures = 0 /\ ~preflight_failed /\ (report_mode => report_file'.written)
    BY <1>7, <2>1
  <2>3. Has("emit_code") => code_file' = all_code
    BY <2>1
  <2>4. report_mode => report_file'.ledger = ledger /\ n = Total("translated", ledger)
    BY <1>6, <1>7, <1>10, <1>11, <2>2
  <2> QED
    BY <1>8, <1>12, <2>2, <2>3, <2>4 DEF n
<1>14. VerdictReachesExit'
  <2> SUFFICES ASSUME report_file'.written, code_file' # Lost
               PROVE  rc' = 0 <=> /\ report_file'.globals = 0
                                  /\ \A seg \in Segments : report_file'.ledger[seg].failed = 0
    BY <1>3 DEF VerdictReachesExit
  <2>1. report_mode /\ report_file'.ledger = ledger /\ report_file'.globals = globals
        /\ report_file' # Unwritten
    BY <1>7
  <2>2. preflight_failed <=> globals # 0
    BY <1>2, <2>1 DEF Prechecked
  <2>3. (\A seg \in Segments : ledger[seg].failed = 0) <=> Total("failed", ledger) = 0
    BY <1>6
  <2>4. rc' = 0 <=> failures = 0 /\ ~preflight_failed
    BY <1>1, <2>1
  <2> QED
    BY <1>11, <2>1, <2>2, <2>3, <2>4
<1>15. NeverAborts'
  BY <1>1, <1>7 DEF NeverAborts, Aborted, bad
<1> QED
  BY <1>13, <1>14, <1>15 DEF ExitHonest

LEMMA FinishSound ==
  ASSUME IInv, Finish
  PROVE  IInv'
<1>1. /\ pc = "decompile" /\ todo = <<>> /\ WriteReport(ledger, globals) /\ UNCHANGED input
      /\ pc' = "done" /\ ledger' = ledger /\ globals' = globals /\ failures' = failures
      /\ preflight_failed' = preflight_failed
  BY DEF Finish
<1>2. /\ TypeOK /\ Prechecked /\ Balanced
  BY <1>1 DEF IInv
<1>3. /\ cfg' = cfg /\ image' = image /\ args' = args /\ Segments' = Segments
      /\ \A flag : Has(flag)' <=> Has(flag)
  BY <1>1, Carried
<1>4. TypeOK'
  BY <1>1, <1>2, <1>3 DEF TypeOK, Phases
<1>5. report_file'.written => report_mode /\ report_file'.ledger = ledger
  BY <1>1, ReportWritten
<1>6. \A x \in Segments : Adds(ledger[x])
  BY <1>2 DEF TypeOK, Ledgers
<1>7. report_mode => Total("attempted", ledger) = Total("configured", ledger)
  <2>1. Total("attempted", ledger) \in Nat
    BY <1>2, SegmentsSound, TotalTyped DEF TypeOK, Ledgers, Counters
  <2>2. Len(todo) = 0
    BY <1>1
  <2> QED
    BY <1>2, <2>1, <2>2 DEF Balanced
<1>8. ~Has("analyze")
  BY <1>2 DEF Prechecked, Batchwise
<1>9. LedgerBalances'
  <2> SUFFICES ASSUME report_file'.written
               PROVE  /\ \A seg \in Segments :
                           /\ ledger[seg].attempted = ledger[seg].translated + ledger[seg].failed
                           /\ ledger[seg].failed = SumFunction(ledger[seg].causes)
                      /\ Total("attempted", ledger) = Total("configured", ledger)
    BY <1>3, <1>5, <1>8 DEF LedgerBalances, Total
  <2> QED
    BY <1>5, <1>6, <1>7 DEF Adds
<1> QED
  BY <1>1, <1>4, <1>9, FinishHonest DEF IInv

\* Nothing that IInv speaks of changes where no variable does.
LEMMA StopsHere ==
  ASSUME IInv, UNCHANGED vars
  PROVE  IInv'
<1>1. /\ UNCHANGED input /\ pc' = pc /\ todo' = todo /\ ledger' = ledger /\ globals' = globals
      /\ failures' = failures /\ all_code' = all_code /\ preflight_failed' = preflight_failed
      /\ rc' = rc /\ code_file' = code_file /\ report_file' = report_file
  BY DEF vars, input
<1>2. /\ cfg' = cfg /\ image' = image /\ args' = args
      /\ Segments' = Segments /\ Conflict' = Conflict /\ Batchwise' = Batchwise
      /\ (report_mode <=> report_mode') /\ \A flag : Has(flag)' <=> Has(flag)
      /\ Ranged' = Ranged /\ Picked' = Picked /\ Names' = Names
      /\ SelectionExists' = SelectionExists
  BY <1>1, Carried
<1>3. (TypeOK' <=> TypeOK) /\ (Fresh' <=> Fresh) /\ (Prechecked' <=> Prechecked)
  BY <1>1, <1>2 DEF TypeOK, Fresh, Prechecked
<1>4. (Booking' <=> Booking) /\ (Balanced' <=> Balanced) /\ (TextInOrder' <=> TextInOrder)
  BY <1>1, <1>2 DEF Booking, Balanced, TextInOrder, Total
<1>5. Summed' <=> Summed
  <2>1. \A seg, k : OfSegment(seg, k)' = OfSegment(seg, k)
    BY <1>2 DEF OfSegment
  <2>2. \A k : Reached(k)' <=> Reached(k)
    BY <1>1, <1>2, <2>1 DEF Reached
  <2> QED
    BY <1>2, <2>2 DEF Summed
<1>6. LedgerBalances' <=> LedgerBalances
  BY <1>1, <1>2 DEF LedgerBalances, Total
<1>7. ExitHonest' <=> ExitHonest
  <2>1. VerdictReachesExit' <=> VerdictReachesExit
    BY <1>1, <1>2 DEF VerdictReachesExit
  <2>2. SuccessIsComplete' <=> SuccessIsComplete
    BY <1>1, <1>2 DEF SuccessIsComplete, Total
  <2>3. NeverAborts' <=> NeverAborts
    BY <1>1, <1>2 DEF NeverAborts
  <2> QED
    BY <2>1, <2>2, <2>3 DEF ExitHonest
<1>8. Total("configured", ledger)' = Total("configured", ledger)
  BY <1>1 DEF Total
<1> QED
  BY <1>1, <1>2, <1>3, <1>4, <1>5, <1>6, <1>7, <1>8 DEF IInv

LEMMA NextSound == IInv /\ [Next]_vars => IInv'
<1> SUFFICES ASSUME IInv, [Next]_vars PROVE IInv'
  OBVIOUS
<1>1. CASE Refuse
  BY <1>1, RefuseSound
<1>2. CASE Validate
  BY <1>2, ValidateSound
<1>3. CASE BeginSummary
  BY <1>3, BeginSummarySound
<1>4. CASE CheckFirst
  BY <1>4, CheckFirstSound
<1>5. CASE Configure
  BY <1>5, ConfigureSound
<1>6. CASE SelectionFails
  BY <1>6, SelectionFailsSound
<1>7. CASE Select
  BY <1>7, SelectSound
<1>8. CASE SelectCode
  BY <1>8, SelectCodeSound
<1>9. ASSUME NEW later \in Later_phases, Decompile(later)
      PROVE  IInv'
  BY <1>9, DecompileSound
<1>10. ASSUME NEW later \in Later_phases, Summarize(later)
       PROVE  IInv'
  BY <1>10, SummarizeSound
<1>11. ASSUME NEW later \in Later_phases, Infer(later)
       PROVE  IInv'
  BY <1>11, InferStepSound
<1>12. CASE SummaryDone
  BY <1>12, SummaryDoneSound
<1>13. CASE Finish
  BY <1>13, FinishSound
<1>14. CASE UNCHANGED vars
  BY <1>14, StopsHere
<1> QED
  BY <1>1, <1>2, <1>3, <1>4, <1>5, <1>6, <1>7, <1>8, <1>9, <1>10, <1>11, <1>12, <1>13, <1>14 DEF Next

LEMMA IInvHolds == Spec => []IInv
<1>1. Init => IInv
  BY InitSound
<1>2. IInv /\ [Next]_vars => IInv'
  BY NextSound
<1> QED
  BY <1>1, <1>2, PTL DEF Spec

\* The report adds up (report.rs TranslationLedger): in every segment what was
\* attempted was translated or failed with a cause, and over the selection
\* nothing configured was skipped or counted twice, for every configuration,
\* image and command line.
THEOREM LedgerAlwaysBalances == Spec => []LedgerBalances
<1>1. IInv => LedgerBalances
  <2> SUFFICES ASSUME IInv, pc # "done" PROVE LedgerBalances
    BY DEF IInv
  <2>1. rc = None /\ ~report_file.written
    BY DEF IInv, Unwritten
  <2> QED
    BY <2>1 DEF LedgerBalances, None
<1> QED
  BY <1>1, IInvHolds, PTL

\* The exit code of run (app.rs) can be relied upon: 0 means that everything
\* asked for is in the file and the report has nothing to complain of, and no
\* panic takes the process down unless an ABI inference does, or a code file
\* that cannot be written.
THEOREM ExitAlwaysHonest == Spec => []ExitHonest
<1>1. IInv => ExitHonest
  <2> SUFFICES ASSUME IInv, pc # "done" PROVE ExitHonest
    BY DEF IInv
  <2>1. rc = None /\ ~report_file.written /\ None # 0 /\ None # Aborted
    BY DEF IInv, Unwritten, None, Aborted
  <2> QED
    BY <2>1 DEF ExitHonest, SuccessIsComplete, VerdictReachesExit, NeverAborts
<1> QED
  BY <1>1, IInvHolds, PTL

---------------------------------------------------------------------------
(* The code of a function that validation passes *)

LEMMA TextDeclared ==
  ASSUME NEW c \in Configs
  PROVE  Declared(c.text)
<1>1. c.text \in Seq(TextRegions)
  BY ConfigTyped
<1>2. Len(c.text) \in Nat /\ DOMAIN c.text = 1 .. Len(c.text)
      /\ \A i \in 1 .. Len(c.text) : c.text[i] \in TextRegions
  BY <1>1
<1>3. \A t \in TextRegions : Located(t)
  BY DEF TextRegions, Located
<1> QED
  BY <1>2, <1>3 DEF Declared

LEMMA EffectiveApart ==
  ASSUME NEW f \in Funcs
  PROVE  RegionsApart(effective_regions(f))
<1>1. CASE f.regions # <<>>
  BY <1>1, EffectiveTyped, EffectiveRegionsExact
<1>2. CASE f.regions = <<>>
  <2>1. effective_regions(f) = IF f.end # NoEnd THEN <<Region(f.seg, f.start, f.seg, f.end)>> ELSE <<>>
    BY <1>2, EffectiveTyped
  <2>2. Len(effective_regions(f)) \in {0, 1}
    BY <2>1
  <2>3. \A n \in {0, 1} : \A k, l \in 1 .. n : ~(k < l)
    OBVIOUS
  <2> QED
    BY <2>2, <2>3 DEF RegionsApart
<1> QED
  BY <1>1, <1>2

LEMMA IfEmpty == \A cond \in BOOLEAN : \A d : If(cond, d) = {} => ~cond
  BY DEF If

\* The start is an address of the function, and not declared data.
LEMMA StartOwned ==
  ASSUME NEW c, NEW f \in Funcs, NEW p, NEW local, Passes(validate_function(c, p, f, local))
  PROVE  /\ f.seg = Code /\ f.start \in Nat
         /\ ~data_region_containing(c, f.start)
         /\ Own(effective_regions(f), f.seg, f.start)
<1> DEFINE regions == effective_regions(f)
<1>1. /\ Outer(f).off # NoEnd /\ ~(Outer(f).off <= f.start)
      /\ RangeErrors(c, f) = {}
  BY GetsToCode
<1>2. /\ regions \in Seq(Regions)
      /\ f.regions # <<>> => regions # <<>>
      /\ f.regions = <<>> => regions = IF f.end # NoEnd THEN <<Region(f.seg, f.start, f.seg, f.end)>> ELSE <<>>
      /\ f.regions \in Seq(Regions) /\ f.seg \in Nat /\ f.start \in Nat /\ (f.end # NoEnd => f.end \in Nat)
  BY EffectiveTyped
<1>3. f.seg = Code
  <2>1. regions # <<>> /\ \A k \in 1 .. Len(regions) : contains_region(regions[k]) /\ regions[k].seg = f.seg
    BY ValidationSound
  <2>2. 1 \in 1 .. Len(regions)
    BY <1>2, <2>1
  <2> QED
    BY <2>1, <2>2 DEF contains_region
<1>4. ~data_region_containing(c, f.start)
  <2>1. data_errors(c, f) = {}
    BY <1>1 DEF RangeErrors
  <2> DEFINE U == {Err("region is data", regions[i].start) :
                     i \in {i \in DOMAIN regions : code_regions(c.text, <<regions[i]>>) = <<>>}}
             cond == f.seg = Code /\ data_region_containing(c, f.start)
             d == Err("start in data", f.start)
  <2>2. data_errors(c, f) = U \cup If(cond, d)
    BY DEF data_errors
  <2>3. cond \in BOOLEAN
    OBVIOUS
  <2> HIDE DEF U, cond, d
  <2>4. ~cond
    BY <2>1, <2>2, <2>3, IfEmpty
  <2> QED
    BY <1>3, <2>4 DEF cond
<1>5. Own(regions, f.seg, f.start)
  <2>1. CASE f.regions = <<>>
    <3>1. f.end # NoEnd /\ f.start < f.end
      BY <1>1, <1>2, <2>1 DEF Outer
    <3>2. regions = <<Region(f.seg, f.start, f.seg, f.end)>>
      BY <1>2, <2>1, <3>1
    <3>3. Len(regions) = 1 /\ regions[1].seg = f.seg /\ regions[1].start = f.start /\ regions[1].end = f.end
      BY <3>2 DEF Region
    <3> HIDE DEF regions
    <3> QED
      BY <1>2, <3>1, <3>3 DEF Own, HasUpTo
  <2>2. CASE f.regions # <<>>
    <3> DEFINE sorted == Sort(f.regions)
    <3>1. region_errors(f, code_segment_for_function(f)) = {}
      BY <1>1, <2>2 DEF RangeErrors
    <3> DEFINE seg == code_segment_for_function(f)
               U == UNION {RegionErrors(f, seg, sorted, j) : j \in DOMAIN sorted}
               cond == \E j \in DOMAIN sorted : RegionContains(sorted[j], f.seg, f.start)
               d == Err("start outside regions", f.start)
    <3>2. region_errors(f, seg) = U \cup If(~cond, d)
      <4> HIDE DEF seg
      <4> QED
        BY DEF region_errors, RegionErrors
    <3>3. cond
      <4> HIDE DEF U, cond, d
      <4>1. d \notin If(~cond, d)
        BY <3>1, <3>2
      <4> QED
        BY <4>1 DEF If
    <3>4. /\ sorted \in Seq(Regions) /\ Len(sorted) = Len(f.regions)
          /\ \A k \in 1 .. Len(f.regions) : \E i \in 1 .. Len(f.regions) : sorted[k] = f.regions[i]
      BY <1>2, SortSound
    <3> HIDE DEF sorted
    <3>5. PICK j \in 1 .. Len(f.regions) : RegionContains(sorted[j], f.seg, f.start)
      BY <3>3, <3>4
    <3>6. PICK i \in 1 .. Len(f.regions) : sorted[j] = f.regions[i]
      BY <3>4
    <3>7. Own(f.regions, f.seg, f.start)
      BY <3>5, <3>6 DEF RegionContains, Own, HasUpTo
    <3> HIDE DEF regions
    <3> QED
      BY <1>2, <2>2, <3>7, EffectiveRegionsExact DEF regions
  <2> QED
    BY <2>1, <2>2
<1> QED
  BY <1>2, <1>3, <1>4, <1>5

LEMMA CodeShape ==
  ASSUME NEW c \in Configs, NEW f \in Funcs, NEW p, NEW local,
         Passes(validate_function(c, p, f, local))
  PROVE  LET code == code_regions(c.text, effective_regions(f))
         IN /\ code \in Seq(Regions) /\ Separate(code)
            /\ \A k \in 1 .. Len(code) : code[k].seg = Code /\ code[k].end <= ImageLen
            /\ \E k \in 1 .. Len(code) : RegionContains(code[k], f.seg, f.start)
<1> DEFINE regions == effective_regions(f)
           code == code_regions(c.text, regions)
<1>1. /\ f.seg = Code /\ f.start \in Nat
      /\ ~data_region_containing(c, f.start)
      /\ Own(regions, f.seg, f.start)
  BY StartOwned
<1>2. regions \in Seq(Regions) /\ RegionsApart(regions) /\ Declared(c.text)
  BY EffectiveTyped, EffectiveApart, TextDeclared
<1>3. \A k \in 1 .. Len(regions) : regions[k].seg = Code /\ regions[k].end <= ImageLen
  BY ValidationSound DEF contains_region
<1>4. \A k \in 1 .. Len(regions) : regions[k].end \in Nat
  BY <1>2, RegionSeq
<1> HIDE DEF regions
<1>5. /\ code \in Seq(Regions)
      /\ \A seg, a \in Nat : Own(code, seg, a) <=> Own(regions, seg, a) /\ ~IsText(c.text, seg, a)
  BY <1>2, CodeRegionsExact
<1>6. Separate(code)
  BY <1>2, CodeRegionsSeparate
<1> HIDE DEF code
<1>7. ASSUME NEW k \in 1 .. Len(code)
      PROVE  code[k].seg = Code /\ code[k].end <= ImageLen
  <2> DEFINE seg == code[k].seg
             b == code[k].end
  <2>1. seg \in Nat /\ code[k].start \in Nat /\ b \in Nat
    BY <1>5, RegionSeq
  <2>2. code[k].start < b
    BY <1>6 DEF Separate
  <2>3. b - 1 \in Nat /\ code[k].start <= b - 1 /\ b - 1 < b
    BY <2>1, <2>2
  <2>4. Own(code, seg, b - 1)
    BY <2>3 DEF Own, HasUpTo
  <2>5. Own(regions, seg, b - 1)
    BY <1>5, <2>1, <2>3, <2>4
  <2> HIDE DEF seg, b
  <2>6. PICK l \in 1 .. Len(regions) : regions[l].seg = seg /\ b - 1 < regions[l].end
    BY <2>5 DEF Own, HasUpTo
  <2>7. seg = Code /\ regions[l].end <= ImageLen /\ regions[l].end \in Nat
    BY <1>3, <1>4, <2>6
  <2>8. b <= ImageLen
    BY <2>1, <2>6, <2>7, ImageAssumption
  <2> QED
    BY <2>7, <2>8 DEF seg, b
<1>8. Own(code, f.seg, f.start)
  <2>1. ~IsText(c.text, f.seg, f.start)
    <3>1. DOMAIN c.text = 1 .. Len(c.text)
      BY <1>2 DEF Declared
    <3> QED
      BY <1>1, <3>1 DEF IsText, data_region_containing, RegionContains
  <2>2. f.seg \in Nat
    BY <1>1, ImageAssumption
  <2> QED
    BY <1>1, <1>5, <2>1, <2>2
<1>9. \E k \in 1 .. Len(code) : RegionContains(code[k], f.seg, f.start)
  BY <1>8 DEF Own, HasUpTo, RegionContains
<1> QED
  BY <1>5, <1>6, <1>7, <1>9 DEF code, regions

\* What validate_code (validate.rs) has seen of every piece of code: it
\* decodes, does not run into data and does not branch into data.
LEMMA CodeChecked ==
  ASSUME NEW c \in Configs, NEW f \in Funcs, NEW p, NEW local,
         Passes(validate_function(c, p, f, local)),
         NEW k \in 1 .. Len(code_regions(c.text, effective_regions(f)))
  PROVE  LET code == code_regions(c.text, effective_regions(f))
             d == Linear(p, code[k].start, code[k].end)
         IN /\ d.failed = None
            /\ data_region_containing(c, code[k].end) /\ d.at # <<>> => ~has_fallthrough(p[Last(d.at)])
            /\ \A a \in ToSet(d.at) : direct_target(p[a]) # None =>
                 ~data_region_containing(c, direct_target(p[a]))
<1> DEFINE code == code_regions(c.text, effective_regions(f))
           V == validate_function(c, p, f, local)
           W == validate_code(c, p, f, code)
           d == Linear(p, code[k].start, code[k].end)
<1>1. W \subseteq V
  BY GetsToCode
<1>2. \A what, at : Err(what, at) \notin W
  <2>1. \A what, at : Err(what, at) \notin V
    BY ErrFails
  <2> HIDE DEF V, W
  <2> QED
    BY <1>1, <2>1
<1>3. /\ code \in Seq(Regions) /\ Separate(code)
      /\ \A i \in 1 .. Len(code) : code[i].seg = Code /\ code[i].end <= ImageLen
  BY CodeShape
<1>4. OneSegment(code)
  BY EffectiveTyped, TextDeclared, CodeRegionsExact
<1> HIDE DEF V, code
<1>5. k \in 1 .. Len(code) /\ DOMAIN code = 1 .. Len(code)
  BY <1>3 DEF code
<1> DEFINE X == validate_analysis(c, p, f, build_with_regions(p, f.start, Outer(f).off,
                  IF f.regions = <<>> /\ ~has_data_in_regions(c, effective_regions(f)) THEN <<>> ELSE code,
                  code_segment_for_function(f).end))
           B == validate_branch_targets(c, p, code)
           bad == \E i \in DOMAIN code : first_undecodable_addr(p, code[i]) # None
           falls == first_data_fallthrough(c, p, code)
           s1 == "undecodable"
           s2 == "falls into data"
           e1 == Err(s1, f.start)
           e2 == Err(s2, f.start)
<1>6. W = IF bad THEN {e1} ELSE IF falls THEN {e2} ELSE B \cup X
  BY DEF validate_code
<1>7. e1 \notin W /\ e2 \notin W
  <2> HIDE DEF W, s1, s2
  <2> QED BY <1>2
<1> HIDE DEF W, X, B, bad, falls, e1, e2
<1>8. ~bad /\ ~falls /\ \A what, at : Err(what, at) \notin B
  BY <1>2, <1>6, <1>7
<1>9. d.failed = None
  <2>1. first_undecodable_addr(p, code[k]) = None
    BY <1>5, <1>8 DEF bad
  <2>2. code[k].seg = code[k].endseg /\ ~(code[k].end <= code[k].start)
    <3>1. code[k].start \in Nat /\ code[k].end \in Nat
      BY <1>3, <1>5, RegionSeq
    <3> QED
      BY <1>3, <1>4, <1>5, <3>1 DEF OneSegment, Separate
  <2> QED
    BY <2>1, <2>2 DEF first_undecodable_addr
<1>10. data_region_containing(c, code[k].end) /\ d.at # <<>> => ~has_fallthrough(p[Last(d.at)])
  BY <1>5, <1>8, <1>9 DEF falls, first_data_fallthrough
<1>11. ASSUME NEW a \in ToSet(d.at), direct_target(p[a]) # None,
              data_region_containing(c, direct_target(p[a]))
       PROVE  FALSE
  <2> DEFINE in_range(x) == \E i \in DOMAIN code : RegionContains(code[i], Code, x)
             one(x) ==
               IF direct_target(p[x]) = None THEN {}
               ELSE IF data_region_containing(c, direct_target(p[x])) THEN {Err("target in data", x)}
               ELSE If(branch_target(p[x]) # None /\ ~in_range(branch_target(p[x])),
                       Warn("branch leaves", x))
             A == UNION {ToSet(Linear(p, code[i].start, code[i].end).at) : i \in DOMAIN code}
             s3 == "target in data"
             e == Err(s3, a)
  <2>1. B = UNION {one(x) : x \in A}
    BY DEF B, validate_branch_targets
  <2>2. a \in A
    BY <1>5
  <2>3. one(a) = {e}
    BY <1>11
  <2>4. e \notin B
    <3> HIDE DEF one, A, s3
    <3> QED BY <1>8
  <2> HIDE DEF one, A, e
  <2> QED
    BY <2>1, <2>2, <2>3, <2>4
<1> QED
  BY <1>9, <1>10, <1>11 DEF code

---------------------------------------------------------------------------
(* The linear decode *)

LEMMA ImageTyped ==
  ASSUME NEW p \in Images, NEW a \in 0 .. ImageLen - 1
  PROVE  p[a].len \in Nat /\ p[a].len > 0
<1>1. p[a] \in [kind : STRING, len : Nat \ {0}, to : Int]
  BY DEF Images
<1> QED
  BY <1>1

\* One turn that does not fail: the address is inside an instruction, or the
\* next one is there and ends in time.
LEMMA DecodeTurn ==
  ASSUME NEW p \in Images, NEW end \in Int, NEW v \in Decoded(p), NEW a \in 0 .. ImageLen - 1,
         v.failed = None
  PROVE  LET w == Decode(p, end, v, a)
         IN /\ a # v.next => w = v
            /\ a = v.next /\ (p[a].kind = "bad" \/ ~(a + p[a].len <= end)) => w.failed # None
            /\ a = v.next /\ p[a].kind # "bad" /\ a + p[a].len <= end =>
                 w.at = Append(v.at, a) /\ w.next = a + p[a].len /\ w.failed = None
<1> DEFINE w == Decode(p, end, v, a)
           J == Int \cup {b + p[b].len : b \in Int}
           bad == p[a].kind = "bad"
<1>1. p[a].len \in Nat /\ a \in Int /\ a # None
  BY ImageTyped, ImageAssumption DEF None
<1>2. v \in [at : Seq(Int), next : J, failed : Int]
  BY DEF Decoded
<1>3. w = IF v.failed # None \/ a # v.next THEN v
          ELSE IF bad \/ a + p[a].len > end THEN [v EXCEPT !.failed = a]
          ELSE [v EXCEPT !.at = Append(@, a), !.next = a + p[a].len]
  BY DEF Decode
<1> HIDE DEF J, w, bad
<1>4. [v EXCEPT !.failed = a].failed = a
  BY <1>2
<1> DEFINE x == [v EXCEPT !.at = Append(@, a), !.next = a + p[a].len]
<1>5. x.at = Append(v.at, a) /\ x.next = a + p[a].len /\ x.failed = v.failed
  BY <1>2
<1>10. w = IF v.failed # None \/ a # v.next THEN v
           ELSE IF bad \/ a + p[a].len > end THEN [v EXCEPT !.failed = a] ELSE x
  BY <1>3
<1> HIDE DEF x
<1>6. a + p[a].len > end <=> ~(a + p[a].len <= end)
  BY <1>1
<1>7. a # v.next => w = v
  BY <1>3
<1>8. a = v.next /\ (bad \/ ~(a + p[a].len <= end)) => w.failed # None
  BY <1>1, <1>3, <1>4, <1>6
<1>9. a = v.next /\ ~bad /\ a + p[a].len <= end =>
        w.at = Append(v.at, a) /\ w.next = a + p[a].len /\ w.failed = None
  BY <1>5, <1>6, <1>10
<1> QED
  BY <1>7, <1>8, <1>9 DEF w, bad

\* The turns of a decode, by address.
Walked(p, start, end, h) ==
  /\ h \in [0 .. end - start -> Decoded(p)]
  /\ h[0] = [at |-> <<>>, next |-> start, failed |-> None]
  /\ h[end - start] = Linear(p, start, end)
  /\ \A i \in 1 .. end - start : h[i] = Decode(p, end, h[i - 1], start + i - 1)

LEMMA LinearRuns ==
  ASSUME NEW p, NEW start \in Int, NEW end \in Int, start <= end
  PROVE  \E h : Walked(p, start, end, h)
<1> DEFINE s == Addrs(start, end)
           n == end - start
<1>1. n \in Nat /\ s = [i \in 1 .. n |-> start + i - 1]
  BY DEF Addrs
<1> HIDE DEF n
<1>2. \A i \in 1 .. n : start + i - 1 \in Int
  BY <1>1
<1>3. Len(s) = n /\ \A i \in 1 .. n : s[i] = start + i - 1
  BY <1>1, <1>2
<1>4. PICK h : RunOf(p, start, end, s, h)
  BY LinearTurns
<1> HIDE DEF s
<1>5. /\ h \in [0 .. n -> Decoded(p)]
      /\ h[0] = [at |-> <<>>, next |-> start, failed |-> None] /\ h[n] = Linear(p, start, end)
      /\ \A i \in 1 .. n : h[i] = Decode(p, end, h[i - 1], start + i - 1)
  BY <1>3, <1>4 DEF RunOf
<1> QED
  BY <1>5 DEF Walked, n

LEMMA DecodeFailed ==
  ASSUME NEW p, NEW end, NEW v, NEW a, v.failed # None
  PROVE  Decode(p, end, v, a) = v
  BY DEF Decode

\* A decode that does not fail has failed at no turn.
LEMMA NeverFailed ==
  ASSUME NEW p, NEW start \in Int, NEW end \in Int, start <= end,
         NEW h, Walked(p, start, end, h), Linear(p, start, end).failed = None
  PROVE  \A i \in 0 .. end - start : h[i].failed = None
<1> DEFINE n == end - start
<1>0. /\ n \in Nat /\ h \in [0 .. n -> Decoded(p)] /\ h[n].failed = None
      /\ \A i \in 1 .. n : h[i] = Decode(p, end, h[i - 1], start + i - 1)
  BY DEF Walked
<1> HIDE DEF n
<1> DEFINE T == {k \in 0 .. n : h[n - k].failed = None}
<1>1. 0 \in T
  BY <1>0
<1>2. ASSUME NEW k \in 1 .. n, k - 1 \in T
      PROVE  k \in T
  <2> DEFINE i == n - k + 1
  <2>1. i \in 1 .. n /\ n - (k - 1) = i /\ n - k = i - 1 /\ k \in 0 .. n
    BY <1>0
  <2> HIDE DEF i
  <2>2. h[i].failed = None /\ h[i] = Decode(p, end, h[i - 1], start + i - 1)
    BY <1>0, <1>2, <2>1
  <2> DEFINE v == h[i - 1]
             a == start + i - 1
  <2>3. v.failed # None => Decode(p, end, v, a) = v
    <3> HIDE DEF v, a
    <3> QED BY DecodeFailed
  <2>4. v.failed = None
    <3> HIDE DEF v
    <3> QED BY <2>2, <2>3 DEF v
  <2> QED
    BY <2>1, <2>4
<1>3. \A k \in 0 .. n : k \in T
  <2> HIDE DEF T
  <2> QED BY <1>0, <1>1, <1>2, CountUp
<1>4. \A i \in 0 .. n : n - i \in 0 .. n /\ n - (n - i) = i
  BY <1>0
<1> QED
  BY <1>3, <1>4 DEF n

\* The instruction at a has the byte x.
In(p, a, x) == a <= x /\ x < a + p[a].len

\* The instructions at the addresses have the bytes of B, each of them once.
TiledBy(p, at, B) ==
  /\ at \in Seq(Int) /\ \A i \in 1 .. Len(at) : at[i] \in B
  /\ \A i \in 1 .. Len(at) : \A x \in Int : In(p, at[i], x) => x \in B
  /\ \A x \in B : \E i \in 1 .. Len(at) : In(p, at[i], x)
  /\ \A i, j \in 1 .. Len(at) : i # j => \A x \in Int : ~(In(p, at[i], x) /\ In(p, at[j], x))

LEMMA TilesJoined ==
  ASSUME NEW p, NEW a, NEW b, NEW A \in SUBSET Int, NEW B \in SUBSET Int,
         TiledBy(p, a, A), TiledBy(p, b, B), A \cap B = {}
  PROVE  TiledBy(p, a \o b, A \cup B)
<1> DEFINE n == Len(a)
           m == Len(b)
           c == a \o b
<1>1. a \in Seq(Int) /\ b \in Seq(Int)
  BY DEF TiledBy
<1>2. n \in Nat /\ m \in Nat /\ c \in Seq(Int) /\ Len(c) = n + m
  BY <1>1
<1>3. \A i \in 1 .. n : c[i] = a[i]
  BY <1>1
<1>4. \A i \in 1 .. m : c[n + i] = b[i]
  BY <1>1
<1> HIDE DEF n, m, c
<1>5. ASSUME NEW i \in 1 .. n + m
      PROVE  (i \in 1 .. n /\ c[i] = a[i]) \/ (i - n \in 1 .. m /\ c[i] = b[i - n])
  <2>1. i \in 1 .. n \/ (i - n \in 1 .. m /\ i = n + (i - n))
    BY <1>2
  <2> QED
    BY <1>3, <1>4, <2>1
<1>6. \A i \in 1 .. n : \A x \in Int : In(p, a[i], x) => x \in A
  BY DEF TiledBy, n
<1>7. \A i \in 1 .. m : \A x \in Int : In(p, b[i], x) => x \in B
  BY DEF TiledBy, m
<1>8. ASSUME NEW i \in 1 .. n + m, NEW x \in Int, In(p, c[i], x)
      PROVE  x \in A \cup B
  BY <1>5, <1>6, <1>7, <1>8
<1>9. ASSUME NEW x \in A \cup B
      PROVE  \E i \in 1 .. n + m : In(p, c[i], x)
  <2>1. CASE x \in A
    <3>1. PICK i \in 1 .. n : In(p, a[i], x)
      BY <2>1 DEF TiledBy, n
    <3>2. i \in 1 .. n + m
      BY <1>2
    <3> QED
      BY <1>3, <3>1, <3>2
  <2>2. CASE x \in B
    <3>1. PICK i \in 1 .. m : In(p, b[i], x)
      BY <2>2 DEF TiledBy, m
    <3>2. n + i \in 1 .. n + m
      BY <1>2
    <3> QED
      BY <1>4, <3>1, <3>2
  <2> QED
    BY <2>1, <2>2
<1>10. ASSUME NEW i \in 1 .. n + m, NEW j \in 1 .. n + m, i # j, NEW x \in Int,
              In(p, c[i], x), In(p, c[j], x)
       PROVE  FALSE
  <2>1. CASE i \in 1 .. n /\ j \in 1 .. n
    BY <1>3, <1>10, <2>1 DEF TiledBy, n
  <2>2. CASE i \in 1 .. n /\ j - n \in 1 .. m /\ c[j] = b[j - n]
    BY <1>3, <1>6, <1>7, <1>10, <2>2
  <2>3. CASE i - n \in 1 .. m /\ c[i] = b[i - n] /\ j \in 1 .. n
    BY <1>3, <1>6, <1>7, <1>10, <2>3
  <2>4. CASE i - n \in 1 .. m /\ c[i] = b[i - n] /\ j - n \in 1 .. m /\ c[j] = b[j - n]
    <3>1. i - n # j - n
      BY <1>2, <1>10
    <3> QED
      BY <1>10, <2>4, <3>1 DEF TiledBy, m
  <2> QED
    BY <1>5, <2>1, <2>2, <2>3, <2>4
<1>11. \A i, j \in 1 .. n + m : i # j => \A x \in Int : ~(In(p, c[i], x) /\ In(p, c[j], x))
  BY <1>10
<1>12. \A i \in 1 .. n + m : c[i] \in A \cup B
  <2>1. (\A i \in 1 .. n : a[i] \in A) /\ \A i \in 1 .. m : b[i] \in B
    BY DEF TiledBy, n, m
  <2> QED
    BY <1>5, <2>1
<1> QED
  BY <1>2, <1>8, <1>9, <1>11, <1>12 DEF TiledBy, c

LEMMA TileAppended ==
  ASSUME NEW p, NEW at, NEW B \in SUBSET Int, TiledBy(p, at, B), NEW a \in Int,
         In(p, a, a), \A x \in B : ~In(p, a, x)
  PROVE  TiledBy(p, Append(at, a), B \cup {x \in Int : In(p, a, x)})
<1> DEFINE X == {x \in Int : In(p, a, x)}
           s == <<a>>
<1>1. TiledBy(p, s, X)
  <2>1. s \in Seq(Int) /\ Len(s) = 1 /\ s[1] = a
    OBVIOUS
  <2> HIDE DEF s
  <2>2. \A i \in 1 .. Len(s) : i = 1
    BY <2>1
  <2>3. 1 \in 1 .. Len(s)
    BY <2>1
  <2> QED
    BY <2>1, <2>2, <2>3 DEF TiledBy
<1>2. B \cap X = {} /\ X \in SUBSET Int
  OBVIOUS
<1>3. at \o s = Append(at, a)
  BY DEF TiledBy
<1> HIDE DEF X, s
<1>4. TiledBy(p, at \o s, B \cup X)
  BY <1>1, <1>2, TilesJoined
<1> QED
  BY <1>3, <1>4 DEF X

\* What the first i turns of a decode from start that does not fail have done:
\* the instructions found fill the bytes up to the next, and each was the next
\* one when its turn came.
DecodedTo(p, start, end, h, i) ==
  LET v == h[i]
  IN /\ v.failed = None /\ v.next \in Int /\ start + i <= v.next /\ v.next <= end
     /\ TiledBy(p, v.at, start .. v.next - 1)
     /\ i > 0 => Len(v.at) > 0 /\ v.at[1] = start
     /\ \A j \in 1 .. Len(v.at) : /\ v.at[j] \in start .. start + i - 1
                                  /\ h[v.at[j] - start].next = v.at[j]

LEMMA DecodedStep ==
  ASSUME NEW p \in Images, NEW start \in Nat, NEW end \in Nat, end <= ImageLen,
         NEW h, Walked(p, start, end, h), NEW i \in 1 .. end - start,
         h[i].failed = None, DecodedTo(p, start, end, h, i - 1)
  PROVE  DecodedTo(p, start, end, h, i)
<1> DEFINE v == h[i - 1]
           w == h[i]
           a == start + i - 1
<1>1. /\ i - 1 \in 0 .. end - start /\ v \in Decoded(p) /\ w = Decode(p, end, v, a)
      /\ a \in 0 .. ImageLen - 1 /\ a \in Int
  BY ImageAssumption DEF Walked
<1>2. /\ v.failed = None /\ v.next \in Int /\ a <= v.next /\ v.next <= end
      /\ TiledBy(p, v.at, start .. v.next - 1)
      /\ i - 1 > 0 => Len(v.at) > 0 /\ v.at[1] = start
      /\ \A j \in 1 .. Len(v.at) : /\ v.at[j] \in start .. a - 1
                                   /\ h[v.at[j] - start].next = v.at[j]
  <2>1. start + (i - 1) = a /\ start + (i - 1) - 1 = a - 1
    OBVIOUS
  <2> QED
    BY <2>1 DEF DecodedTo
<1>3. i = 1 => v.at = <<>> /\ v.next = start /\ a = start
  BY DEF Walked
<1>4. i - 1 > 0 \/ i = 1
  OBVIOUS
<1>5. \A x \in start .. a - 1 : x \in start .. start + i - 1
  OBVIOUS
<1>6. a \in start .. start + i - 1 /\ a - start = i - 1 /\ a + 1 = start + i
  OBVIOUS
<1>7. i > 0
  OBVIOUS
<1>8. v.at \in Seq(Int) /\ Len(v.at) \in Nat
  BY <1>2 DEF TiledBy
<1> HIDE DEF v, w, a
<1>9. CASE a # v.next
  <2>1. w = v
    BY <1>1, <1>2, <1>9, DecodeTurn
  <2>2. i # 1
    BY <1>3, <1>9
  <2>3. a + 1 <= v.next
    BY <1>1, <1>2, <1>9
  <2>4. \A j \in 1 .. Len(v.at) : v.at[j] \in start .. start + i - 1
    BY <1>2, <1>5
  <2> QED
    BY <1>2, <1>4, <1>6, <2>1, <2>2, <2>3, <2>4 DEF DecodedTo, w
<1>10. CASE a = v.next
  <2> DEFINE l == Len(v.at)
  <2>1. PICK len \in Nat : len = p[a].len /\ len > 0
    BY <1>1, ImageTyped
  <2>2. p[a].kind # "bad" /\ a + p[a].len <= end
    <3>1. w.failed = None
      BY DEF w
    <3> QED
      BY <1>1, <1>2, <1>10, <3>1, DecodeTurn
  <2>9. w.at = Append(v.at, a) /\ w.next = a + p[a].len /\ w.failed = None
    BY <1>1, <1>2, <1>10, <2>2, DecodeTurn
  <2>3. w.at = Append(v.at, a) /\ w.next = a + len /\ w.failed = None
    BY <2>1, <2>9
  <2>10. a + len \in Int /\ start + i <= a + len /\ a + len <= end
    BY <1>1, <1>6, <2>1, <2>2
  <2>4. w.next \in Int /\ start + i <= w.next /\ w.next <= end
    BY <2>3, <2>10
  <2>5. TiledBy(p, w.at, start .. w.next - 1)
    <3> DEFINE B == start .. a - 1
               X == {x \in Int : In(p, a, x)}
    <3>1. TiledBy(p, v.at, B)
      BY <1>2, <1>10
    <3>2. \A x \in B : ~In(p, a, x)
      BY <1>1 DEF In
    <3>3. B \in SUBSET Int /\ In(p, a, a)
      BY <1>1, <2>1 DEF In
    <3>4. X = a .. (a + len) - 1
      BY <1>1, <2>1 DEF In
    <3>5. B \cup X = start .. (a + len) - 1
      <4>1. start <= a
        BY <1>6
      <4> QED
        BY <1>1, <2>1, <3>4, <4>1
    <3> HIDE DEF B, X
    <3>6. TiledBy(p, Append(v.at, a), B \cup X)
      BY <1>1, <3>1, <3>2, <3>3, TileAppended DEF X
    <3>7. TiledBy(p, Append(v.at, a), start .. (a + len) - 1)
      BY <3>5, <3>6
    <3>8. w.at = Append(v.at, a)
      BY <2>3
    <3>9. w.next = a + len
      BY <2>3
    <3> QED
      BY ONLY <3>7, <3>8, <3>9, Zenon
  <2>6. Len(w.at) = l + 1 /\ w.at[l + 1] = a /\ \A j \in 1 .. l : w.at[j] = v.at[j]
    BY <1>1, <1>8, <2>3
  <2>7. Len(w.at) > 0 /\ w.at[1] = start
    <3>1. CASE i = 1
      <4>1. l = 0
        BY <1>3, <3>1
      <4> QED
        BY <1>3, <2>6, <3>1, <4>1
    <3>2. CASE i - 1 > 0
      <4>1. 1 \in 1 .. l
        BY <1>2, <1>8, <3>2
      <4> QED
        BY <1>2, <1>8, <2>6, <3>2, <4>1
    <3> QED
      BY <1>4, <3>1, <3>2
  <2>8. ASSUME NEW j \in 1 .. Len(w.at)
        PROVE  w.at[j] \in start .. start + i - 1 /\ h[w.at[j] - start].next = w.at[j]
    <3>1. j \in 1 .. l \/ j = l + 1
      BY <1>8, <2>6
    <3>2. CASE j \in 1 .. l
      BY <1>2, <1>5, <2>6, <3>2
    <3>3. CASE j = l + 1
      BY <1>6, <1>10, <2>6, <3>3 DEF v
    <3> QED
      BY <3>1, <3>2, <3>3
  <2> QED
    BY <2>3, <2>4, <2>5, <2>7, <2>8 DEF DecodedTo, w
<1> QED
  BY <1>9, <1>10

LEMMA LinearSteps ==
  ASSUME NEW p \in Images, NEW start \in Nat, NEW end \in Nat, start <= end, end <= ImageLen,
         Linear(p, start, end).failed = None
  PROVE  \E h : Walked(p, start, end, h) /\ \A i \in 0 .. end - start : DecodedTo(p, start, end, h, i)
<1> DEFINE n == end - start
<1>1. n \in Nat
  OBVIOUS
<1>2. PICK h : Walked(p, start, end, h)
  <2>1. start \in Int /\ end \in Int
    OBVIOUS
  <2> QED
    BY <2>1, LinearRuns
<1>3. \A i \in 0 .. n : h[i].failed = None
  <2>1. start \in Int /\ end \in Int
    OBVIOUS
  <2> QED
    BY <1>2, <2>1, NeverFailed
<1> DEFINE T == {i \in 0 .. n : DecodedTo(p, start, end, h, i)}
<1>4. 0 \in T
  <2> DEFINE v == h[0]
  <2>1. v.at = <<>> /\ v.next = start /\ v.failed = None
    BY <1>2 DEF Walked
  <2>2. start + 0 = start /\ start .. start - 1 = {}
    OBVIOUS
  <2>3. TiledBy(p, <<>>, {})
    BY DEF TiledBy
  <2>4. start \in Int /\ start + 0 <= start /\ ~(0 > 0) /\ 0 \in 0 .. n
    OBVIOUS
  <2>5. \A j \in 1 .. Len(<<>>) : FALSE
    OBVIOUS
  <2> HIDE DEF v, n
  <2> QED
    BY <2>1, <2>2, <2>3, <2>4, <2>5 DEF DecodedTo, v
<1>5. ASSUME NEW i \in 1 .. n, i - 1 \in T
      PROVE  i \in T
  <2>1. i \in 0 .. n /\ h[i].failed = None
    BY <1>3
  <2> QED
    BY <1>2, <1>5, <2>1, DecodedStep
<1>6. \A i \in 0 .. n : i \in T
  <2> HIDE DEF T, n
  <2> QED BY <1>1, <1>4, <1>5, CountUp
<1> QED
  BY <1>2, <1>6

\* What a decode that does not fail has found: instructions that fill the
\* range, the first of them where it starts.
LEMMA LinearExact ==
  ASSUME NEW p \in Images, NEW start \in Nat, NEW end \in Nat, start <= end, end <= ImageLen,
         Linear(p, start, end).failed = None
  PROVE  /\ TiledBy(p, Linear(p, start, end).at, start .. end - 1)
         /\ start < end => Len(Linear(p, start, end).at) > 0 /\ Linear(p, start, end).at[1] = start
<1> DEFINE n == end - start
           d == Linear(p, start, end)
<1>1. n \in Nat /\ n \in 0 .. n /\ start + n = end /\ (start < end => n > 0)
  OBVIOUS
<1>2. PICK h : Walked(p, start, end, h) /\ \A i \in 0 .. n : DecodedTo(p, start, end, h, i)
  BY LinearSteps
<1>3. h[n] = d
  BY <1>2 DEF Walked
<1>4. DecodedTo(p, start, end, h, n)
  BY <1>1, <1>2
<1> HIDE DEF n, d
<1>5. /\ d.next \in Int /\ end <= d.next /\ d.next <= end
      /\ TiledBy(p, d.at, start .. d.next - 1)
      /\ n > 0 => Len(d.at) > 0 /\ d.at[1] = start
  BY <1>1, <1>3, <1>4 DEF DecodedTo
<1>6. d.next = end
  BY <1>5
<1>7. TiledBy(p, d.at, start .. end - 1)
  BY <1>5, <1>6
<1> QED
  BY <1>1, <1>5, <1>7 DEF d

\* From v to w and from u to x the same instruction is added, or none.
SameAdded(v, w, u, x, a) ==
  /\ x.failed = None /\ x.next = w.next
  /\ \E t \in {<<>>, <<a>>} : w.at = v.at \o t /\ x.at = u.at \o t

\* A turn of two decodes that wait for the same instruction adds the same.
LEMMA TurnsAgree ==
  ASSUME NEW p \in Images, NEW end \in Int, NEW last \in Int,
         NEW v \in Decoded(p), NEW u \in Decoded(p), NEW a \in 0 .. ImageLen - 1,
         v.failed = None, u.failed = None, v.next = u.next,
         Decode(p, end, v, a).failed = None, Decode(p, end, v, a).next <= last
  PROVE  SameAdded(v, Decode(p, end, v, a), u, Decode(p, last, u, a), a)
<1> DEFINE w == Decode(p, end, v, a)
           x == Decode(p, last, u, a)
<1>1. v.at \in Seq(Int) /\ u.at \in Seq(Int) /\ a \in Int
  BY ImageAssumption DEF Decoded
<1>2. CASE a # v.next
  <2>1. w = v /\ x = u
    BY <1>2, DecodeTurn
  <2>2. v.at = v.at \o <<>> /\ u.at = u.at \o <<>>
    BY <1>1
  <2> HIDE DEF w, x
  <2>3. x.failed = None /\ x.next = w.next /\ w.at = v.at \o <<>> /\ x.at = u.at \o <<>>
    BY <2>1, <2>2
  <2> QED
    BY <2>3 DEF w, x, SameAdded
<1>3. CASE a = v.next
  <2>1. p[a].kind # "bad" /\ a + p[a].len <= end
    BY <1>3, DecodeTurn
  <2>2. w.at = Append(v.at, a) /\ w.next = a + p[a].len
    BY <1>3, <2>1, DecodeTurn
  <2>3. a + p[a].len <= last
    BY <2>2
  <2>4. a = u.next
    BY <1>3
  <2>5. x.at = Append(u.at, a) /\ x.next = a + p[a].len /\ x.failed = None
    BY <2>1, <2>3, <2>4, DecodeTurn
  <2>6. Append(v.at, a) = v.at \o <<a>> /\ Append(u.at, a) = u.at \o <<a>>
    BY <1>1, AppendIsConcat
  <2> HIDE DEF w, x
  <2>7. x.failed = None /\ x.next = w.next /\ w.at = v.at \o <<a>> /\ x.at = u.at \o <<a>>
    BY <2>2, <2>5, <2>6
  <2> QED
    BY <2>7 DEF w, x, SameAdded
<1> QED
  BY <1>2, <1>3

LEMMA Chained == \A b, c, d \in Seq(Int) : (b \o c) \o d = b \o (c \o d)
<1>1. \A S : \A b, c, d \in Seq(S) : (b \o c) \o d = b \o (c \o d)
  BY ConcatAssociative, SMT
<1> QED
  BY <1>1

\* What is said of two decodes of turns h and g, the second from turn k of the
\* first.
NotFailed(h, n) == \A i \in 0 .. n : h[i].failed = None
NotPast(h, k, n, last) == \A i \in 0 .. n : h[k + i].next <= last
Continues(h, k, g, n) ==
  \A i \in 0 .. n : /\ g[i].failed = None /\ g[i].next = h[k + i].next
                    /\ h[k + i].at = h[k].at \o g[i].at

\* Two decodes agree from where the second starts, as long as neither fails.
LEMMA RunsAgree ==
  ASSUME NEW p \in Images, NEW start \in Nat, NEW end \in Nat, start <= end, end <= ImageLen,
         NEW h, Walked(p, start, end, h), NotFailed(h, end - start),
         NEW from \in start .. end, NEW last \in from .. end, NEW g, Walked(p, from, last, g),
         h[from - start].next = from, NotPast(h, from - start, last - from, last)
  PROVE  Continues(h, from - start, g, last - from)
<1> DEFINE k == from - start
           n == last - from
           T == {i \in 0 .. n : /\ g[i].failed = None /\ g[i].next = h[k + i].next
                                /\ h[k + i].at = h[k].at \o g[i].at}
<1>1. /\ n \in Nat /\ k \in Nat /\ k + 0 = k /\ k \in 0 .. end - start
      /\ last \in Int /\ end \in Int
      /\ \A i \in 0 .. n : k + i \in 0 .. end - start
      /\ \A i \in 1 .. n : /\ i - 1 \in 0 .. n /\ k + (i - 1) = (k + i) - 1 /\ k + i \in 1 .. end - start
                           /\ (k + i) - 1 \in 0 .. end - start
                           /\ start + (k + i) - 1 = from + i - 1 /\ from + i - 1 \in 0 .. ImageLen - 1
  BY ImageAssumption
<1>2. /\ \A i \in 0 .. end - start : h[i] \in Decoded(p)
      /\ \A i \in 1 .. end - start : h[i] = Decode(p, end, h[i - 1], start + i - 1)
  BY DEF Walked
<1>3. /\ \A i \in 0 .. n : g[i] \in Decoded(p)
      /\ g[0] = [at |-> <<>>, next |-> from, failed |-> None]
      /\ \A i \in 1 .. n : g[i] = Decode(p, last, g[i - 1], from + i - 1)
  BY DEF Walked
<1>7. /\ \A i \in 0 .. end - start : h[i].failed = None
      /\ \A i \in 0 .. n : h[k + i].next <= last
  BY DEF NotFailed, NotPast
<1>4. 0 \in T
  <2>1. h[k].at \in Seq(Int)
    BY <1>1, <1>2 DEF Decoded
  <2>2. h[k].at = h[k].at \o <<>>
    BY <2>1
  <2>3. g[0].at = <<>> /\ g[0].next = from /\ g[0].failed = None
    BY <1>3
  <2>4. 0 \in 0 .. n /\ h[k].next = from
    BY <1>1
  <2> HIDE DEF k, n
  <2>5. h[k + 0] = h[k]
    BY <1>1
  <2> QED
    BY <2>2, <2>3, <2>4, <2>5
<1>5. ASSUME NEW i \in 1 .. n, i - 1 \in T
      PROVE  i \in T
  <2> DEFINE v == h[(k + i) - 1]
             u == g[i - 1]
             w == h[k + i]
             a == from + i - 1
  <2>1. /\ i - 1 \in 0 .. n /\ k + (i - 1) = (k + i) - 1 /\ k + i \in 1 .. end - start
        /\ (k + i) - 1 \in 0 .. end - start /\ k + i \in 0 .. end - start /\ i \in 0 .. n
        /\ start + (k + i) - 1 = from + i - 1 /\ a \in 0 .. ImageLen - 1
    BY <1>1
  <2>2. w.next <= last
    BY <1>7, <2>1
  <2>3. v.failed = None /\ w.failed = None
    BY <1>7, <2>1
  <2> HIDE DEF k, n
  <2>4. w = Decode(p, end, v, a)
    BY <1>2, <2>1
  <2>5. g[i] = Decode(p, last, u, a)
    BY <1>3
  <2>6. u.failed = None /\ v.next = u.next /\ v.at = h[k].at \o u.at
    BY <1>5, <2>1
  <2>7. v \in Decoded(p) /\ u \in Decoded(p) /\ h[k] \in Decoded(p)
    BY <1>1, <1>2, <1>3, <2>1
  <2> HIDE DEF v, u, w, a
  <2>13. \A y \in Decoded(p) : y.at \in Seq(Int)
    BY DEF Decoded
  <2>8. v.at \in Seq(Int) /\ u.at \in Seq(Int) /\ h[k].at \in Seq(Int)
    BY <2>7, <2>13
  <2>16. a \in Int
    BY <2>1, ImageAssumption
  <2>14. u.failed = None /\ v.next = u.next
    BY <2>6
  <2>15. SameAdded(v, Decode(p, end, v, a), u, Decode(p, last, u, a), a)
    <3>1. Decode(p, end, v, a).failed = None /\ Decode(p, end, v, a).next <= last
      BY <2>2, <2>3, <2>4
    <3> QED
      BY <1>1, <2>1, <2>3, <2>7, <2>14, <3>1, TurnsAgree
  <2>9. /\ g[i].failed = None /\ g[i].next = w.next
        /\ \E t \in {<<>>, <<a>>} : w.at = v.at \o t /\ g[i].at = u.at \o t
    BY <2>4, <2>5, <2>15 DEF SameAdded
  <2>10. PICK t \in {<<>>, <<a>>} : w.at = v.at \o t /\ g[i].at = u.at \o t
    BY <2>9
  <2>11. t \in Seq(Int)
    <3>1. <<>> \in Seq(Int) /\ <<a>> \in Seq(Int)
      BY <2>16
    <3> QED
      BY <3>1
  <2>12. w.at = h[k].at \o g[i].at
    <3> DEFINE b == h[k].at
               d == u.at
    <3>1. b \in Seq(Int) /\ d \in Seq(Int)
      BY <2>8
    <3> HIDE DEF b, d
    <3>2. (b \o d) \o t = b \o (d \o t)
      BY <2>11, <3>1, Chained, Zenon
    <3> QED
      BY <2>6, <2>10, <3>2 DEF b, d
  <2> QED
    BY <2>1, <2>9, <2>12 DEF w
<1>6. \A i \in 0 .. n : i \in T
  <2> HIDE DEF T, n
  <2> QED BY <1>1, <1>4, <1>5, CountUp
<1> QED
  BY <1>6 DEF Continues

\* The next address never goes back.
LEMMA NextGrows ==
  ASSUME NEW p \in Images, NEW start \in Nat, NEW end \in Nat, end <= ImageLen,
         NEW h, Walked(p, start, end, h), NEW i \in 1 .. end - start,
         DecodedTo(p, start, end, h, i - 1), DecodedTo(p, start, end, h, i)
  PROVE  h[i - 1].next <= h[i].next
<1> DEFINE v == h[i - 1]
           w == h[i]
           a == start + i - 1
<1>1. /\ v \in Decoded(p) /\ w = Decode(p, end, v, a)
      /\ a \in 0 .. ImageLen - 1 /\ a \in Int /\ end \in Int
  BY ImageAssumption DEF Walked
<1>2. v.failed = None /\ w.failed = None /\ v.next \in Int /\ w.next \in Int
  BY DEF DecodedTo
<1> HIDE DEF v, w, a
<1>3. CASE a # v.next
  <2>1. w = v
    BY <1>1, <1>2, <1>3, DecodeTurn
  <2> QED
    BY <1>2, <2>1 DEF v, w
<1>4. CASE a = v.next
  <2>1. p[a].kind # "bad" /\ a + p[a].len <= end
    BY <1>1, <1>2, <1>4, DecodeTurn
  <2>2. w.next = a + p[a].len
    BY <1>1, <1>2, <1>4, <2>1, DecodeTurn
  <2>3. PICK len \in Nat : len = p[a].len
    BY <1>1, ImageTyped
  <2>4. w.next = a + len /\ v.next = a
    BY <1>4, <2>2, <2>3
  <2>5. a <= a + len
    BY <1>1, <2>3
  <2>6. v.next <= w.next
    BY <2>4, <2>5
  <2> QED
    BY <2>6 DEF v, w
<1> QED
  BY <1>3, <1>4

\* A decode that does not fail is that of the addresses before any of its
\* instructions and that of the addresses from there.
LEMMA SplitDecode ==
  ASSUME NEW p \in Images, NEW start \in Nat, NEW end \in Nat, start <= end, end <= ImageLen,
         Linear(p, start, end).failed = None, NEW m \in ToSet(Linear(p, start, end).at)
  PROVE  /\ m \in start .. end - 1
         /\ Linear(p, start, m).failed = None /\ Linear(p, m, end).failed = None
         /\ Linear(p, start, end).at = Linear(p, start, m).at \o Linear(p, m, end).at
<1> DEFINE n == end - start
           k == m - start
           d == Linear(p, start, end)
           dA == Linear(p, start, m)
           dB == Linear(p, m, end)
<1>1. PICK h : Walked(p, start, end, h) /\ \A i \in 0 .. n : DecodedTo(p, start, end, h, i)
  BY LinearSteps
<1>2. h[n] = d /\ h[0] = [at |-> <<>>, next |-> start, failed |-> None]
  BY <1>1 DEF Walked
<1>3. n \in 0 .. n /\ start \in Int /\ end \in Int /\ n \in Nat /\ start + n = end
  OBVIOUS
<1>4. \A i \in 0 .. n : h[i].failed = None /\ h[i].next \in Int /\ h[i].next <= end
  BY <1>1 DEF DecodedTo
<1>5. m \in start .. end - 1 /\ h[k].next = m
  <2>1. /\ d.at \in Seq(Int)
        /\ \A j \in 1 .. Len(d.at) : /\ d.at[j] \in start .. start + n - 1
                                     /\ h[d.at[j] - start].next = d.at[j]
    <3>1. DecodedTo(p, start, end, h, n)
      BY <1>1, <1>3
    <3> HIDE DEF n, d
    <3> QED
      BY <1>2, <3>1 DEF DecodedTo, TiledBy
  <2>2. m \in ToSet(d.at)
    OBVIOUS
  <2>3. start + n - 1 = end - 1
    OBVIOUS
  <2> HIDE DEF d, n
  <2>4. PICK j \in 1 .. Len(d.at) : m = d.at[j]
    BY <2>1, <2>2 DEF ToSet
  <2> QED
    BY <2>1, <2>3, <2>4
<1>6. k \in 0 .. n /\ m \in Nat /\ m \in Int /\ start <= m /\ m <= end
  BY <1>5
<1>7. \A i \in 0 .. k : h[i].next <= m
  <2> DEFINE T == {i \in 0 .. k : h[k - i].next <= m}
  <2>1. 0 \in T
    <3>1. k - 0 = k /\ 0 \in 0 .. k /\ m <= m
      BY <1>6
    <3> HIDE DEF k
    <3> QED BY <1>5, <3>1
  <2>2. ASSUME NEW i \in 1 .. k, i - 1 \in T
        PROVE  i \in T
    <3> DEFINE j == (k - i) + 1
    <3>1. j \in 1 .. n /\ j - 1 \in 0 .. n /\ j \in 0 .. n /\ j - 1 = k - i /\ k - (i - 1) = j /\ i \in 0 .. k
      BY <1>6
    <3> HIDE DEF j, k
    <3>2. DecodedTo(p, start, end, h, j) /\ DecodedTo(p, start, end, h, j - 1)
      BY <1>1, <3>1
    <3>3. h[j - 1].next <= h[j].next
      BY <1>1, <3>1, <3>2, NextGrows
    <3>4. h[j].next <= m
      BY <2>2, <3>1
    <3>5. h[j - 1].next \in Int /\ h[j].next \in Int
      BY <1>4, <3>1
    <3>6. \A x, y, z \in Int : x <= y /\ y <= z => x <= z
      OBVIOUS
    <3>7. h[j - 1].next <= m
      BY <1>6, <3>3, <3>4, <3>5, <3>6
    <3> QED
      BY <3>1, <3>7
  <2>3. \A i \in 0 .. k : i \in T
    <3> HIDE DEF T
    <3>1. k \in Nat
      BY <1>6
    <3> HIDE DEF k
    <3> QED BY <2>1, <2>2, <3>1, CountUp
  <2>4. \A i \in 0 .. k : k - i \in 0 .. k /\ k - (k - i) = i
    BY <1>6
  <2> HIDE DEF k
  <2> QED
    BY <2>3, <2>4
<1>8. dA.failed = None /\ h[k].at = dA.at
  <2>1. PICK g : Walked(p, start, m, g)
    BY <1>3, <1>6, LinearRuns
  <2>2. start \in start .. end /\ m \in start .. end /\ start - start = 0 /\ m - start = k
    BY <1>6
  <2>3. \A i \in 0 .. k : 0 + i = i
    BY <1>6
  <2>4. h[0].next = start /\ h[0].at = <<>>
    BY <1>2
  <2>5. g[k] = dA /\ k \in 0 .. k /\ g[k] \in Decoded(p)
    BY <1>6, <2>1 DEF Walked
  <2> HIDE DEF k, dA
  <2>6. NotPast(h, start - start, m - start, m)
    BY <1>7, <2>2, <2>3 DEF NotPast
  <2>7. h[start - start].next = start
    BY <2>2, <2>4
  <2>13. NotFailed(h, end - start)
    BY <1>4 DEF NotFailed
  <2>8. Continues(h, start - start, g, m - start)
    BY <1>1, <2>1, <2>2, <2>6, <2>7, <2>13, RunsAgree
  <2>9. g[k].failed = None /\ h[0 + k].at = h[0].at \o g[k].at
    BY <2>2, <2>5, <2>8 DEF Continues
  <2>10. dA.at \in Seq(Int)
    BY <2>5 DEF Decoded
  <2>11. <<>> \o dA.at = dA.at
    BY <2>10
  <2>12. 0 + k = k
    BY <2>3, <2>5
  <2> QED
    BY <2>4, <2>5, <2>9, <2>11, <2>12
<1>9. dB.failed = None /\ h[n].at = h[k].at \o dB.at
  <2>1. PICK g : Walked(p, m, end, g)
    BY <1>3, <1>6, LinearRuns
  <2> DEFINE l == end - m
  <2>2. m \in start .. end /\ end \in m .. end /\ l \in 0 .. l /\ k + l = n /\ k = m - start
    BY <1>6
  <2>3. \A i \in 0 .. l : k + i \in 0 .. n
    BY <1>6
  <2>4. g[l] = dB
    BY <2>1 DEF Walked
  <2> HIDE DEF l, dB, n, k
  <2>5. \A i \in 0 .. l : h[k + i].next <= end
    BY <1>4, <2>3
  <2>6. NotPast(h, m - start, end - m, end)
    BY <2>2, <2>5 DEF l, NotPast
  <2>7. h[m - start].next = m
    BY <1>5, <2>2
  <2>8. NotFailed(h, end - start)
    BY <1>4 DEF n, NotFailed
  <2>9. Continues(h, m - start, g, end - m)
    BY <1>1, <2>1, <2>2, <2>6, <2>7, <2>8, RunsAgree
  <2>10. g[l].failed = None /\ h[k + l].at = h[k].at \o g[l].at
    BY <2>2, <2>9 DEF l, Continues
  <2> QED
    BY <2>2, <2>4, <2>10
<1> HIDE DEF d, dA, dB, n, k
<1>10. d.at = dA.at \o dB.at
  BY <1>2, <1>8, <1>9
<1> QED
  BY <1>5, <1>8, <1>9, <1>10 DEF d, dA, dB

---------------------------------------------------------------------------
(* The chunks together *)

\* All the instructions decoded, as Joined puts them together.
All(decoded) == FoldLeft(LAMBDA x, d : x \o d.at, <<>>, decoded)

Joins(decoded, n, h) ==
  /\ h \in [0 .. n -> Seq(Int)] /\ h[0] = <<>> /\ h[n] = All(decoded)
  /\ \A i \in 1 .. n : h[i] = h[i - 1] \o decoded[i].at

\* The turns in which they are joined.
LEMMA AllTurns ==
  ASSUME NEW n \in Nat, NEW decoded, DOMAIN decoded = 1 .. n,
         \A i \in 1 .. n : decoded[i].at \in Seq(Int)
  PROVE  \E h : Joins(decoded, n, h)
<1> DEFINE V == Seq(Int)
           g == [i \in 1 .. n |-> [v \in V |-> v \o decoded[i].at]]
           Eq(it) == it = [s \in SUBSET DOMAIN decoded |->
                            IF s = {} THEN <<>>
                            ELSE it[s \ {Max(s)}] \o decoded[Max(s)].at]
           it == CHOOSE it : Eq(it)
<1>1. n \in Nat /\ DOMAIN decoded = 1 .. n
  OBVIOUS
<1>2. All(decoded) = it[1 .. n]
  BY <1>1 DEF All, FoldLeft, MapThenFoldSet
<1>3. \A i \in 1 .. n : \A v \in V : v \o decoded[i].at \in V
  OBVIOUS
<1>4. <<>> \in V
  OBVIOUS
<1> HIDE DEF V
<1>5. g \in Turns(n, V)
  BY <1>1, <1>3 DEF Turns
<1>6. \A i \in 1 .. n : \A v \in V : g[i][v] = v \o decoded[i].at
  OBVIOUS
<1> HIDE DEF g
<1>7. \A s \in SUBSET (1 .. n) : s # {} => Max(s) \in 1 .. n /\ s \ {Max(s)} \in SUBSET (1 .. n)
  BY <1>1, LargestIndex
<1>8. Eq(it)
  <2>1. PICK f : f \in FoldsOf(n, <<>>, g, V)
    BY <1>1, <1>4, <1>5, FoldExists
  <2>2. Eq(f)
    BY <1>1, <1>6, <1>7, <2>1 DEF FoldsOf
  <2> HIDE DEF Eq
  <2> QED BY <2>2
<1> HIDE DEF it
<1>9. PICK h \in RunsOf(n, <<>>, g, V) : h[n] = it[1 .. n]
  <2>1. it[{}] = <<>>
    BY <1>1, <1>8
  <2>2. \A s \in SUBSET (1 .. n) : s # {} /\ it[s \ {Max(s)}] \in V =>
           it[s] = g[Max(s)][it[s \ {Max(s)}]]
    BY <1>1, <1>6, <1>7, <1>8
  <2> HIDE DEF Eq
  <2>3. Unrolls(it, n, <<>>, g, V)
    BY <2>1, <2>2 DEF Unrolls
  <2> QED
    BY <1>1, <1>4, <1>5, <2>3, FoldTurns
<1>10. ASSUME NEW i \in 1 .. n
       PROVE  h[i - 1] \in V /\ h[i] = h[i - 1] \o decoded[i].at
  <2>1. h[i - 1] \in V /\ h[i] = g[i][h[i - 1]]
    BY <1>1, <1>9 DEF RunsOf
  <2>2. \A v \in V : g[i][v] = v \o decoded[i].at
    BY <1>6
  <2> QED
    BY <2>1, <2>2
<1>11. h \in [0 .. n -> V] /\ h[0] = <<>>
  BY <1>9 DEF RunsOf
<1> QED
  BY <1>2, <1>9, <1>10, <1>11 DEF Joins, V

\* A range decodes to the end, does not run into data and does not branch into
\* data: what Joined asks of a chunk.
RangeSound(c, p, start, end) ==
  LET d == Linear(p, start, end)
  IN /\ start \in Nat /\ end \in Nat /\ start < end /\ end <= ImageLen
     /\ d.failed = None
     /\ ~(d.at # <<>> /\ data_region_containing(c, end) /\ has_fallthrough(p[Last(d.at)]))
     /\ \A a \in ToSet(d.at) : direct_target(p[a]) # None =>
          ~data_region_containing(c, direct_target(p[a]))
ChunkSound(c, p, chunk) == RangeSound(c, p, chunk[1], chunk[2])

Bytes(chunks, n) == {x \in Int : \E i \in 1 .. n : chunks[i][1] <= x /\ x < chunks[i][2]}
Apart(chunks, n) ==
  \A i, j \in 1 .. n : i # j => chunks[i][2] <= chunks[j][1] \/ chunks[j][2] <= chunks[i][1]

\* The first i chunks are decoded to at.
JoinedTo(p, chunks, decoded, at, i) ==
  /\ TiledBy(p, at, Bytes(chunks, i))
  /\ i > 0 => Len(at) > 0 /\ at[1] = chunks[1][1]
  /\ \A k \in 1 .. Len(at) : \E j \in 1 .. i : at[k] \in ToSet(decoded[j].at)

LEMMA JoinedStep ==
  ASSUME NEW c, NEW p \in Images, NEW n \in Nat, NEW chunks, NEW decoded,
         \A i \in 1 .. n : ChunkSound(c, p, chunks[i]), Apart(chunks, n),
         \A i \in 1 .. n : decoded[i] = Linear(p, chunks[i][1], chunks[i][2]),
         NEW i \in 1 .. n, NEW at, JoinedTo(p, chunks, decoded, at, i - 1)
  PROVE  JoinedTo(p, chunks, decoded, at \o decoded[i].at, i)
<1> DEFINE A == Bytes(chunks, i - 1)
           from == chunks[i][1]
           last == chunks[i][2]
           B == from .. last - 1
           b == decoded[i].at
           w == at \o b
<1>1. /\ from \in Nat /\ last \in Nat /\ from < last /\ last <= ImageLen
      /\ Linear(p, from, last).failed = None
  BY DEF ChunkSound, RangeSound
<1>2. b = Linear(p, from, last).at
  OBVIOUS
<1>3. \A j \in 1 .. n : chunks[j][1] \in Nat /\ chunks[j][2] \in Nat
  BY DEF ChunkSound, RangeSound
<1>4. A \cap B = {}
  <2> SUFFICES ASSUME NEW x \in A, x \in B PROVE FALSE
    OBVIOUS
  <2>1. PICK j \in 1 .. i - 1 : chunks[j][1] <= x /\ x < chunks[j][2]
    BY DEF Bytes
  <2>2. j \in 1 .. n /\ i # j /\ x \in Int
    OBVIOUS
  <2>3. chunks[j][2] <= from \/ last <= chunks[j][1]
    BY <2>2 DEF Apart
  <2>4. chunks[j][1] \in Nat /\ chunks[j][2] \in Nat
    BY <1>3, <2>2
  <2>5. from <= x /\ x < last
    BY <1>1
  <2> HIDE DEF A, B, from, last
  <2> QED
    BY <1>1, <2>1, <2>2, <2>3, <2>4, <2>5
<1>5. A \cup B = Bytes(chunks, i)
  <2>1. ASSUME NEW x \in A
        PROVE  x \in Bytes(chunks, i)
    BY <1>1 DEF Bytes
  <2>2. ASSUME NEW x \in B
        PROVE  x \in Bytes(chunks, i)
    <3>1. x \in Int /\ from <= x /\ x < last /\ i \in 1 .. i
      BY <1>1
    <3> QED
      BY <3>1 DEF Bytes
  <2>3. ASSUME NEW x \in Bytes(chunks, i)
        PROVE  x \in A \cup B
    <3>1. PICK j \in 1 .. i : chunks[j][1] <= x /\ x < chunks[j][2]
      BY DEF Bytes
    <3>2. x \in Int
      BY DEF Bytes
    <3>3. j = i \/ j \in 1 .. i - 1
      OBVIOUS
    <3>4. j = i => x \in B
      BY <1>1, <3>1, <3>2
    <3>5. j \in 1 .. i - 1 => x \in A
      BY <3>1, <3>2 DEF Bytes
    <3> QED
      BY <3>3, <3>4, <3>5
  <2> HIDE DEF A, B
  <2> QED
    BY <2>1, <2>2, <2>3
<1>6. TiledBy(p, b, B) /\ Len(b) > 0 /\ b[1] = from
  <2> HIDE DEF b, from, last
  <2>1. from <= last
    BY <1>1
  <2> QED
    BY <1>1, <1>2, <2>1, LinearExact
<1>7. A \in SUBSET Int /\ B \in SUBSET Int
  BY DEF Bytes
<1>8. TiledBy(p, at, A)
  BY DEF JoinedTo
<1> HIDE DEF A, B, b, from, last, w
<1>9. TiledBy(p, w, Bytes(chunks, i))
  BY <1>4, <1>5, <1>6, <1>7, <1>8, TilesJoined DEF w
<1> DEFINE l == Len(at)
           m == Len(b)
<1>10. at \in Seq(Int) /\ b \in Seq(Int)
  BY <1>6, <1>8 DEF TiledBy
<1>11. /\ l \in Nat /\ m \in Nat /\ Len(w) = l + m
       /\ \A k \in 1 .. l : w[k] = at[k]
       /\ \A k \in 1 .. m : w[l + k] = b[k]
  BY <1>10 DEF w
<1>12. \A k \in 1 .. m : b[k] \in ToSet(b)
  BY <1>10 DEF ToSet
<1> HIDE DEF l, m
<1>13. Len(w) > 0 /\ w[1] = chunks[1][1]
  <2>1. CASE i = 1
    <3>1. ~\E x : x \in A
      BY <2>1 DEF A, Bytes
    <3>2. l = 0
      <4> SUFFICES ASSUME l # 0 PROVE FALSE
        OBVIOUS
      <4>1. 1 \in 1 .. l
        BY <1>11
      <4>2. PICK j \in 1 .. i - 1 : at[1] \in ToSet(decoded[j].at)
        BY <4>1 DEF JoinedTo, l
      <4> QED
        BY <2>1
    <3>3. w[0 + 1] = b[1]
      BY <1>6, <1>11, <3>2 DEF m
    <3> QED
      BY <1>6, <1>11, <2>1, <3>2, <3>3 DEF from, m
  <2>2. CASE i > 1
    <3>1. Len(at) > 0 /\ at[1] = chunks[1][1]
      BY <2>2 DEF JoinedTo
    <3>2. 1 \in 1 .. l
      BY <1>11, <3>1 DEF l
    <3> QED
      BY <1>11, <3>1, <3>2 DEF l
  <2> QED
    BY <2>1, <2>2
<1>14. ASSUME NEW k \in 1 .. Len(w)
       PROVE  \E j \in 1 .. i : w[k] \in ToSet(decoded[j].at)
  <2>1. k \in 1 .. l \/ (k - l \in 1 .. m /\ k = l + (k - l))
    BY <1>11
  <2>2. CASE k \in 1 .. l
    <3>1. PICK j \in 1 .. i - 1 : at[k] \in ToSet(decoded[j].at)
      BY <2>2 DEF JoinedTo, l
    <3>2. j \in 1 .. i
      OBVIOUS
    <3> QED
      BY <1>11, <2>2, <3>1, <3>2
  <2>3. CASE k - l \in 1 .. m /\ k = l + (k - l)
    <3>1. w[k] = b[k - l]
      BY <1>11, <2>3
    <3>2. i \in 1 .. i /\ b[k - l] \in ToSet(b)
      BY <1>12, <2>3
    <3> QED
      BY <3>1, <3>2 DEF b
  <2> QED
    BY <2>1, <2>2, <2>3
<1> QED
  BY <1>9, <1>13, <1>14 DEF JoinedTo, w, b

LEMMA JoinedTiles ==
  ASSUME NEW c, NEW p \in Images, NEW n \in Nat, NEW chunks, NEW decoded, DOMAIN decoded = 1 .. n,
         \A i \in 1 .. n : ChunkSound(c, p, chunks[i]), Apart(chunks, n),
         \A i \in 1 .. n : decoded[i] = Linear(p, chunks[i][1], chunks[i][2])
  PROVE  JoinedTo(p, chunks, decoded, All(decoded), n)
<1>1. \A i \in 1 .. n : decoded[i].at \in Seq(Int)
  <2> SUFFICES ASSUME NEW i \in 1 .. n PROVE decoded[i].at \in Seq(Int)
    OBVIOUS
  <2>1. chunks[i][1] \in Int /\ chunks[i][2] \in Int
    BY DEF ChunkSound, RangeSound
  <2>2. Linear(p, chunks[i][1], chunks[i][2]).at \in Seq(Int)
    BY <2>1, LinearTyped
  <2> QED
    BY <2>2
<1>2. PICK h : Joins(decoded, n, h)
  BY <1>1, AllTurns
<1> DEFINE T == {i \in 0 .. n : JoinedTo(p, chunks, decoded, h[i], i)}
<1>3. 0 \in T
  <2>1. h[0] = <<>> /\ 0 \in 0 .. n
    BY <1>2 DEF Joins
  <2>2. Bytes(chunks, 0) = {}
    BY DEF Bytes
  <2>3. JoinedTo(p, chunks, decoded, <<>>, 0)
    BY <2>2 DEF JoinedTo, TiledBy
  <2> QED
    BY <2>1, <2>3
<1>4. ASSUME NEW i \in 1 .. n, i - 1 \in T
      PROVE  i \in T
  <2>1. h[i] = h[i - 1] \o decoded[i].at
    BY <1>2 DEF Joins
  <2>3. i \in 0 .. n
    OBVIOUS
  <2>2. JoinedTo(p, chunks, decoded, h[i - 1] \o decoded[i].at, i)
    BY <1>4, JoinedStep
  <2> QED
    BY <2>1, <2>2, <2>3
<1>5. \A i \in 0 .. n : i \in T
  <2> HIDE DEF T
  <2> QED BY <1>3, <1>4, CountUp
<1>6. h[n] = All(decoded) /\ n \in 0 .. n
  BY <1>2 DEF Joins
<1> QED
  BY <1>5, <1>6

\* What decode_code makes of the chunks, and that it is well: instructions at
\* start first, with the bytes of B.
JoinedOf(c, p, chunks) ==
  Joined(c, p, chunks, [i \in DOMAIN chunks |-> Linear(p, chunks[i][1], chunks[i][2])])
Decodes(p, J, start, B) == J.ok /\ TiledBy(p, J.at, B) /\ Len(J.at) > 0 /\ J.at[1] = start

\* Sound chunks decode: to instructions that fill their bytes, the first where
\* the first chunk starts.
LEMMA JoinedSound ==
  ASSUME NEW c, NEW p \in Images, NEW n \in Nat \ {0}, NEW chunks, DOMAIN chunks = 1 .. n,
         \A i \in 1 .. n : ChunkSound(c, p, chunks[i]), Apart(chunks, n)
  PROVE  Decodes(p, JoinedOf(c, p, chunks), chunks[1][1], Bytes(chunks, n))
<1> DEFINE decoded == [i \in DOMAIN chunks |-> Linear(p, chunks[i][1], chunks[i][2])]
           J == Joined(c, p, chunks, decoded)
           all == All(decoded)
           bad(i) == decoded[i].failed # None
           intoData(i) == /\ decoded[i].at # <<>> /\ data_region_containing(c, chunks[i][2])
                          /\ has_fallthrough(p[Last(decoded[i].at)])
           stops == [i \in DOMAIN chunks |-> bad(i) \/ intoData(i)]
           first == SelectInSeq(stops, LAMBDA x : x)
           hits == \E i \in DOMAIN all : direct_target(p[all[i]]) # None
                                        /\ data_region_containing(c, direct_target(p[all[i]]))
<1>1. J = IF first # 0
          THEN Failure(IF bad(first) THEN "DECODE_ERROR" ELSE "CALL_TARGET_IN_DATA")
          ELSE IF hits THEN Failure("CALL_TARGET_IN_DATA") ELSE [ok |-> TRUE, at |-> all]
  BY DEF Joined, FoldLeft, MapThenFoldSet, SelectInSeq, All
<1>2. DOMAIN decoded = 1 .. n /\ \A i \in 1 .. n : decoded[i] = Linear(p, chunks[i][1], chunks[i][2])
  OBVIOUS
<1>3. \A i \in 1 .. n : ~bad(i) /\ ~intoData(i)
  BY <1>2 DEF ChunkSound, RangeSound
<1>4. first = 0
  <2> DEFINE I == {i \in 1 .. Len(stops) : stops[i]}
  <2>1. first = IF I # {} THEN Min(I) ELSE 0
    BY DEF SelectInSeq
  <2>2. Len(stops) = n /\ \A i \in 1 .. n : stops[i] = (bad(i) \/ intoData(i))
    <3> HIDE DEF bad, intoData
    <3> QED OBVIOUS
  <2> HIDE DEF stops, bad, intoData
  <2>3. \A i \in 1 .. Len(stops) : ~stops[i]
    BY <1>3, <2>2
  <2>4. I = {}
    BY <2>3
  <2> HIDE DEF first, I
  <2> QED
    BY <2>1, <2>4
<1> HIDE DEF decoded, first, bad, J
<1>5. JoinedTo(p, chunks, decoded, All(decoded), n)
  BY <1>2, JoinedTiles
<1> HIDE DEF all
<1>6. /\ TiledBy(p, all, Bytes(chunks, n)) /\ Len(all) > 0 /\ all[1] = chunks[1][1]
      /\ \A k \in 1 .. Len(all) : \E j \in 1 .. n : all[k] \in ToSet(decoded[j].at)
  BY <1>5 DEF JoinedTo, all
<1>7. ~hits
  <2> SUFFICES ASSUME NEW i \in DOMAIN all, direct_target(p[all[i]]) # None,
                      data_region_containing(c, direct_target(p[all[i]]))
               PROVE  FALSE
    OBVIOUS
  <2>1. i \in 1 .. Len(all)
    BY <1>6 DEF TiledBy
  <2>2. PICK j \in 1 .. n : all[i] \in ToSet(decoded[j].at)
    BY <1>6, <2>1
  <2>3. ChunkSound(c, p, chunks[j])
    OBVIOUS
  <2> QED
    BY <1>2, <2>2, <2>3 DEF ChunkSound, RangeSound
<1> HIDE DEF hits
<1>8. J = [ok |-> TRUE, at |-> all]
  BY <1>1, <1>4, <1>7
<1>9. J.ok /\ J.at = all
  BY <1>8
<1>10. TiledBy(p, J.at, Bytes(chunks, n)) /\ Len(J.at) > 0 /\ J.at[1] = chunks[1][1]
  BY <1>6, <1>9
<1> QED
  BY <1>9, <1>10 DEF J, decoded, JoinedOf, Decodes

\* The piece of code that is chunk i of those behind the pieces of piece e.
Skip(e, i) == IF i < e THEN i ELSE i + 1

\* The chunks of code: M pieces of piece e, which m splits, and the others.
Cut(code, chunks, n, e, m, M) ==
  /\ M \in {1, 2} /\ n = M + (Len(code) - 1) /\ DOMAIN chunks = 1 .. n
  /\ chunks[1][1] = m /\ chunks[1][2] = code[e].end
  /\ M = 1 => ~(code[e].start < m)
  /\ M = 2 => code[e].start < m /\ chunks[2][1] = code[e].start /\ chunks[2][2] = m
  /\ \A i \in 1 .. Len(code) - 1 : /\ chunks[M + i][1] = code[Skip(e, i)].start
                                   /\ chunks[M + i][2] = code[Skip(e, i)].end

\* w is x, then b, then d.
Spells(w, x, b, d) ==
  /\ Len(w) = 1 + Len(b) + Len(d) /\ DOMAIN w = 1 .. Len(w) /\ w[1] = x
  /\ \A i \in 1 .. Len(b) : w[1 + i] = b[i]
  /\ \A i \in 1 .. Len(d) : w[1 + Len(b) + i] = d[i]

LEMMA Threefold ==
  ASSUME NEW S, NEW x \in S, NEW b \in Seq(S), NEW d \in Seq(S)
  PROVE  Spells((<<x>> \o b) \o d, x, b, d)
<1> DEFINE v == <<x>> \o b
           w == v \o d
<1>1. <<x>> \in Seq(S) /\ Len(<<x>>) = 1 /\ <<x>>[1] = x
  OBVIOUS
<1>2. v \in Seq(S) /\ Len(v) = 1 + Len(b) /\ v[1] = x /\ \A i \in 1 .. Len(b) : v[1 + i] = b[i]
  BY <1>1
<1>3. Len(b) \in Nat /\ Len(d) \in Nat
  OBVIOUS
<1> HIDE DEF v
<1>4. /\ w \in Seq(S) /\ Len(w) = Len(v) + Len(d)
      /\ \A i \in 1 .. Len(v) : w[i] = v[i]
      /\ \A i \in 1 .. Len(d) : w[Len(v) + i] = d[i]
  <2>1. v \in Seq(S)
    BY <1>2
  <2>2. w \in Seq(S) /\ Len(w) = Len(v) + Len(d)
    BY <2>1
  <2>3. \A i \in 1 .. Len(v) : w[i] = v[i]
    BY <2>1
  <2>4. \A i \in 1 .. Len(d) : w[Len(v) + i] = d[i]
    BY <2>1
  <2> HIDE DEF w
  <2> QED
    BY <2>2, <2>3, <2>4
<1>5. DOMAIN w = 1 .. Len(w)
  BY <1>4
<1> HIDE DEF w
<1>6. \A i \in 1 .. Len(b) : 1 + i \in 1 .. Len(v)
  BY <1>2, <1>3
<1>7. 1 \in 1 .. Len(v)
  BY <1>2, <1>3
<1>8. \A i \in 1 .. Len(b) : w[1 + i] = b[i]
  BY <1>2, <1>4, <1>6
<1>9. w[1] = x
  BY <1>2, <1>4, <1>7
<1>10. Len(w) = 1 + Len(b) + Len(d) /\ \A i \in 1 .. Len(d) : w[1 + Len(b) + i] = d[i]
  BY <1>2, <1>4
<1> QED
  BY <1>5, <1>8, <1>9, <1>10 DEF w, v, Spells

LEMMA ChunksCut ==
  ASSUME NEW s, s.start \in Nat, NEW code \in Seq(Regions),
         \E k \in 1 .. Len(code) : RegionContains(code[k], s.seg, s.start)
  PROVE  \E e \in 1 .. Len(code) : \E n \in Nat \ {0}, M \in {1, 2} :
           /\ RegionContains(code[e], s.seg, s.start)
           /\ Cut(code, Chunks(s, code), n, e, s.start, M)
<1> DEFINE N == Len(code)
           e == SelectInSeq(code, LAMBDA r : RegionContains(r, s.seg, s.start))
           S == Nat \X Nat
           x == <<s.start, code[e].end>>
           y == <<code[e].start, s.start>>
           b == IF code[e].start < s.start THEN <<y>> ELSE <<>>
           d == [i \in 1 .. N - 1 |-> LET r == code[IF i < e THEN i ELSE i + 1] IN <<r.start, r.end>>]
           w == (<<x>> \o b) \o d
           M == 1 + Len(b)
           n == M + (N - 1)
<1>1. Chunks(s, code) = w
  BY DEF Chunks
<1>2. e \in 1 .. N /\ RegionContains(code[e], s.seg, s.start)
  <2> DEFINE I == {i \in 1 .. Len(code) : RegionContains(code[i], s.seg, s.start)}
  <2>1. e = IF I # {} THEN Min(I) ELSE 0
    BY DEF SelectInSeq
  <2>2. I \in SUBSET (1 .. N) /\ N \in Nat /\ I # {}
    OBVIOUS
  <2> HIDE DEF I, e, N
  <2>3. Min(I) \in I
    BY <2>2, LeastIndex
  <2> QED
    BY <2>1, <2>2, <2>3 DEF I, N
<1> HIDE DEF e
<1>3. N \in Nat /\ N >= 1
  BY <1>2
<1>4. \A k \in 1 .. N : code[k].start \in Nat /\ code[k].end \in Nat
  BY RegionSeq
<1>5. x \in S /\ x[1] = s.start /\ x[2] = code[e].end
  BY <1>2, <1>4
<1>6. y \in S /\ y[1] = code[e].start /\ y[2] = s.start
  BY <1>2, <1>4
<1>7. /\ d \in Seq(S) /\ Len(d) = N - 1
      /\ \A i \in 1 .. N - 1 : d[i][1] = code[Skip(e, i)].start /\ d[i][2] = code[Skip(e, i)].end
  <2>1. \A i \in 1 .. N - 1 : Skip(e, i) \in 1 .. N
    BY <1>2, <1>3 DEF Skip
  <2>2. d = [i \in 1 .. N - 1 |-> <<code[Skip(e, i)].start, code[Skip(e, i)].end>>]
    BY DEF Skip
  <2>3. N - 1 \in Nat
    BY <1>3
  <2> DEFINE u(i) == <<code[Skip(e, i)].start, code[Skip(e, i)].end>>
             l == N - 1
  <2> HIDE DEF d, N
  <2>4. \A i \in 1 .. l : u(i) \in S
    BY <1>4, <2>1
  <2>5. \A i \in 1 .. l : u(i)[1] = code[Skip(e, i)].start /\ u(i)[2] = code[Skip(e, i)].end
    OBVIOUS
  <2>6. l \in Nat /\ d = [i \in 1 .. l |-> u(i)]
    BY <2>2, <2>3
  <2> HIDE DEF l, u, S
  <2>7. d \in Seq(S) /\ Len(d) = l
    BY <2>4, <2>6
  <2>8. \A i \in 1 .. l : d[i] = u(i)
    BY <2>6
  <2> QED
    BY <2>5, <2>7, <2>8 DEF l
<1> HIDE DEF x, y, d, S
<1>8. b \in Seq(S) /\ Len(b) \in {0, 1} /\ (Len(b) = 0 <=> ~(code[e].start < s.start))
      /\ (Len(b) = 1 => b[1] = y)
  BY <1>6
<1> HIDE DEF b
<1>9. /\ Len(w) = 1 + Len(b) + Len(d) /\ DOMAIN w = 1 .. Len(w) /\ w[1] = x
      /\ \A i \in 1 .. Len(b) : w[1 + i] = b[i]
      /\ \A i \in 1 .. Len(d) : w[1 + Len(b) + i] = d[i]
  <2>1. Spells(w, x, b, d)
    BY <1>5, <1>7, <1>8, Threefold
  <2> HIDE DEF w
  <2> QED
    BY <2>1 DEF Spells
<1> HIDE DEF w, N
<1>10. M \in {1, 2} /\ n \in Nat \ {0} /\ DOMAIN w = 1 .. n
  BY <1>3, <1>7, <1>8, <1>9
<1>11. M = 1 => ~(code[e].start < s.start)
  BY <1>8
<1>12. M = 2 => code[e].start < s.start /\ w[2] = y
  <2> SUFFICES ASSUME M = 2 PROVE code[e].start < s.start /\ w[2] = y
    OBVIOUS
  <2>1. Len(b) = 1
    BY <1>8
  <2>2. w[1 + 1] = b[1]
    BY <1>9, <2>1
  <2> QED
    BY <1>8, <2>1, <2>2
<1>13. \A i \in 1 .. N - 1 : w[M + i][1] = code[Skip(e, i)].start /\ w[M + i][2] = code[Skip(e, i)].end
  <2>1. \A i \in 1 .. N - 1 : w[M + i] = d[i]
    BY <1>7, <1>9
  <2> HIDE DEF M
  <2> QED
    BY <1>7, <2>1
<1> HIDE DEF M, n
<1>14. n = M + (N - 1)
  BY DEF n
<1>15. Cut(code, w, n, e, s.start, M)
  BY <1>5, <1>6, <1>9, <1>10, <1>11, <1>12, <1>13, <1>14 DEF Cut, N
<1> QED
  BY <1>1, <1>2, <1>10, <1>15 DEF N

CodeBytes(code) == {x \in Int : \E k \in 1 .. Len(code) : code[k].start <= x /\ x < code[k].end}

\* Chunk i is in piece k of code.
Inside(code, chunks, i, k) ==
  /\ k \in 1 .. Len(code)
  /\ chunks[i][1] \in Nat /\ chunks[i][2] \in Nat
  /\ code[k].start <= chunks[i][1] /\ chunks[i][2] <= code[k].end

LEMMA ChunkInside ==
  ASSUME NEW code \in Seq(Regions), NEW chunks, NEW n \in Nat, NEW e \in 1 .. Len(code),
         NEW m \in Nat, NEW M, Cut(code, chunks, n, e, m, M),
         code[e].start <= m, m < code[e].end, NEW i \in 1 .. n
  PROVE  /\ i <= M => Inside(code, chunks, i, e)
         /\ ~(i <= M) => i - M \in 1 .. Len(code) - 1 /\ Inside(code, chunks, i, Skip(e, i - M))
<1> DEFINE N == Len(code)
<1>1. \A k \in 1 .. N : code[k].start \in Nat /\ code[k].end \in Nat
  BY RegionSeq
<1>2. N \in Nat /\ M \in {1, 2} /\ n = M + (N - 1)
  BY DEF Cut
<1>3. CASE i <= M
  <2>1. i = 1 \/ (i = 2 /\ M = 2)
    BY <1>2, <1>3
  <2>2. CASE i = 1
    <3>1. chunks[i][1] = m /\ chunks[i][2] = code[e].end
      BY <2>2 DEF Cut
    <3>2. code[e].end <= code[e].end
      BY <1>1
    <3>3. Inside(code, chunks, i, e)
      BY <1>1, <3>1, <3>2 DEF Inside
    <3> QED
      BY <1>3, <3>3
  <2>3. CASE i = 2 /\ M = 2
    <3>1. chunks[i][1] = code[e].start /\ chunks[i][2] = m
      BY <2>3 DEF Cut
    <3>2. code[e].start <= code[e].start /\ m <= code[e].end
      BY <1>1
    <3>3. Inside(code, chunks, i, e)
      BY <1>1, <3>1, <3>2 DEF Inside
    <3> QED
      BY <1>3, <3>3
  <2> QED
    BY <1>3, <2>1, <2>2, <2>3
<1>4. CASE ~(i <= M)
  <2> DEFINE l == i - M
  <2>1. l \in 1 .. N - 1 /\ M + l = i
    BY <1>2, <1>4
  <2>2. Skip(e, l) \in 1 .. N
    BY <1>2, <2>1 DEF Skip
  <2> HIDE DEF l
  <2>3. chunks[i][1] = code[Skip(e, l)].start /\ chunks[i][2] = code[Skip(e, l)].end
    BY <2>1 DEF Cut
  <2>4. \A x \in Nat : x <= x
    OBVIOUS
  <2>5. Inside(code, chunks, i, Skip(e, l))
    BY <1>1, <2>2, <2>3, <2>4 DEF Inside
  <2> QED
    BY <1>4, <2>1, <2>5 DEF l
<1> QED
  BY <1>3, <1>4

LEMMA SkipApart ==
  ASSUME NEW e \in Int, NEW k \in Int, NEW l \in Int
  PROVE  Skip(e, k) # e /\ (k # l => Skip(e, k) # Skip(e, l))
  BY DEF Skip

\* The chunks are apart, and have the bytes of the code.
LEMMA ChunksApart ==
  ASSUME NEW code \in Seq(Regions), Separate(code), \A k \in 1 .. Len(code) : code[k].seg = Code,
         NEW chunks, NEW n \in Nat, NEW e \in 1 .. Len(code), NEW m \in Nat, NEW M,
         Cut(code, chunks, n, e, m, M), code[e].start <= m, m < code[e].end
  PROVE  Apart(chunks, n) /\ Bytes(chunks, n) = CodeBytes(code)
<1> DEFINE N == Len(code)
           Own1(i) == IF i <= M THEN e ELSE Skip(e, i - M)
<1>1. \A k \in 1 .. N : code[k].start \in Nat /\ code[k].end \in Nat
  BY RegionSeq
<1>2. N \in Nat /\ M \in {1, 2} /\ n = M + (N - 1) /\ e \in 1 .. N
  BY DEF Cut
<1>3. \A i \in 1 .. n : Inside(code, chunks, i, Own1(i))
  BY ChunkInside
<1>4. \A i \in 1 .. n : ~(i <= M) => i - M \in 1 .. N - 1
  BY <1>2
<1>5. ASSUME NEW i \in 1 .. n, NEW j \in 1 .. n, i # j
      PROVE  chunks[i][2] <= chunks[j][1] \/ chunks[j][2] <= chunks[i][1]
  <2>1. Inside(code, chunks, i, Own1(i)) /\ Inside(code, chunks, j, Own1(j))
    BY <1>3
  <2>2. CASE Own1(i) # Own1(j)
    <3> DEFINE k == Own1(i)
               l == Own1(j)
    <3>1. k \in 1 .. N /\ l \in 1 .. N /\ k # l
      BY <2>1, <2>2 DEF Inside
    <3> HIDE DEF k, l
    <3>2. code[k].end <= code[l].start \/ code[l].end <= code[k].start
      BY <3>1 DEF Separate
    <3>3. /\ chunks[i][1] \in Nat /\ chunks[i][2] \in Nat /\ chunks[j][1] \in Nat /\ chunks[j][2] \in Nat
          /\ code[k].start <= chunks[i][1] /\ chunks[i][2] <= code[k].end
          /\ code[l].start <= chunks[j][1] /\ chunks[j][2] <= code[l].end
      BY <2>1 DEF Inside, k, l
    <3>4. code[k].start \in Nat /\ code[k].end \in Nat /\ code[l].start \in Nat /\ code[l].end \in Nat
      BY <1>1, <3>1
    <3> DEFINE i1 == chunks[i][1]
               i2 == chunks[i][2]
               j1 == chunks[j][1]
               j2 == chunks[j][2]
               ka == code[k].start
               kz == code[k].end
               la == code[l].start
               lz == code[l].end
    <3>5. /\ i1 \in Nat /\ i2 \in Nat /\ j1 \in Nat /\ j2 \in Nat
          /\ ka \in Nat /\ kz \in Nat /\ la \in Nat /\ lz \in Nat
          /\ ka <= i1 /\ i2 <= kz /\ la <= j1 /\ j2 <= lz
      BY <3>3, <3>4
    <3>6. kz <= la \/ lz <= ka
      BY <3>2
    <3> HIDE DEF i1, i2, j1, j2, ka, kz, la, lz
    <3>7. i2 <= j1 \/ j2 <= i1
      BY <3>5, <3>6
    <3> QED
      BY <3>7 DEF i1, i2, j1, j2
  <2>3. CASE Own1(i) = Own1(j)
    <3>1. i <= M /\ j <= M
      <4>1. CASE i <= M /\ ~(j <= M)
        <5>1. Skip(e, j - M) # e
          BY <1>2, SkipApart
        <5> QED
          BY <2>3, <4>1, <5>1
      <4>2. CASE ~(i <= M) /\ j <= M
        <5>1. Skip(e, i - M) # e
          BY <1>2, SkipApart
        <5> QED
          BY <2>3, <4>2, <5>1
      <4>3. CASE ~(i <= M) /\ ~(j <= M)
        <5>1. i - M # j - M
          BY <1>2, <1>5
        <5>2. Skip(e, i - M) # Skip(e, j - M)
          BY <1>2, <5>1, SkipApart
        <5> QED
          BY <2>3, <4>3, <5>2
      <4> QED
        BY <4>1, <4>2, <4>3
    <3>2. (i = 1 /\ j = 2) \/ (i = 2 /\ j = 1)
      <4> HIDE DEF N
      <4>1. i \in Nat /\ j \in Nat /\ i >= 1 /\ j >= 1
        BY <1>2
      <4>2. i <= 2 /\ j <= 2
        BY <1>2, <3>1, <4>1
      <4> QED
        BY <1>5, <4>1, <4>2
    <3>3. M = 2
      BY <1>2, <3>1, <3>2
    <3>4. chunks[1][1] = m /\ chunks[2][2] = m
      BY <3>3 DEF Cut
    <3>5. m <= m
      OBVIOUS
    <3> QED
      BY <3>2, <3>4, <3>5
  <2> QED
    BY <2>2, <2>3
<1>6. ASSUME NEW x \in Bytes(chunks, n)
      PROVE  x \in CodeBytes(code)
  <2>1. PICK i \in 1 .. n : chunks[i][1] <= x /\ x < chunks[i][2]
    BY DEF Bytes
  <2>2. x \in Int
    BY DEF Bytes
  <2> DEFINE k == Own1(i)
  <2>3. Inside(code, chunks, i, k)
    BY <1>3
  <2> HIDE DEF k
  <2>4. /\ k \in 1 .. N /\ chunks[i][1] \in Nat /\ chunks[i][2] \in Nat
        /\ code[k].start <= chunks[i][1] /\ chunks[i][2] <= code[k].end
    BY <2>3 DEF Inside
  <2>5. \A a, b, y, z \in Int : a <= b /\ b <= y /\ y < z => a <= y
    OBVIOUS
  <2>6. code[k].start \in Nat /\ code[k].end \in Nat
    BY <1>1, <2>4
  <2> DEFINE c1 == chunks[i][1]
             c2 == chunks[i][2]
             a == code[k].start
             z == code[k].end
  <2> HIDE DEF c1, c2, a, z
  <2>7. a <= x /\ x < z
    <3>1. c1 \in Nat /\ c2 \in Nat /\ a \in Nat /\ z \in Nat /\ a <= c1 /\ c2 <= z /\ c1 <= x /\ x < c2
      BY <2>1, <2>4, <2>6 DEF c1, c2, a, z
    <3> QED
      BY <2>2, <3>1
  <2> QED
    BY <2>2, <2>4, <2>7 DEF CodeBytes, a, z
<1>7. ASSUME NEW x \in CodeBytes(code)
      PROVE  x \in Bytes(chunks, n)
  <2>1. PICK k \in 1 .. N : code[k].start <= x /\ x < code[k].end
    BY DEF CodeBytes
  <2>2. x \in Int
    BY DEF CodeBytes
  <2>3. CASE k = e
    <3>1. CASE m <= x
      <4>1. chunks[1][1] = m /\ chunks[1][2] = code[e].end /\ 1 \in 1 .. n
        BY <1>2 DEF Cut
      <4> QED
        BY <2>1, <2>2, <2>3, <3>1, <4>1 DEF Bytes
    <3>2. CASE x < m
      <4>1. code[e].start < m
        <5>1. code[e].start \in Nat
          BY <1>1
        <5> DEFINE a == code[e].start
        <5> HIDE DEF a
        <5>2. a \in Nat /\ a <= x
          BY <2>1, <2>3, <5>1 DEF a
        <5>3. a < m
          BY <2>2, <3>2, <5>2
        <5> QED
          BY <5>3 DEF a
      <4>2. M = 2
        BY <1>2, <4>1 DEF Cut
      <4>3. chunks[2][1] = code[e].start /\ chunks[2][2] = m /\ 2 \in 1 .. n
        BY <1>2, <4>2 DEF Cut
      <4> QED
        BY <2>1, <2>2, <2>3, <3>2, <4>3 DEF Bytes
    <3> QED
      BY <2>2, <3>1, <3>2
  <2>4. CASE k # e
    <3> DEFINE i == IF k < e THEN k ELSE k - 1
    <3>1. i \in 1 .. N - 1 /\ Skip(e, i) = k /\ M + i \in 1 .. n
      BY <1>2, <2>4 DEF Skip
    <3> HIDE DEF i
    <3>2. chunks[M + i][1] = code[k].start /\ chunks[M + i][2] = code[k].end
      BY <3>1 DEF Cut
    <3> QED
      BY <2>1, <2>2, <3>1, <3>2 DEF Bytes
  <2> QED
    BY <2>3, <2>4
<1>8. Apart(chunks, n)
  BY <1>5 DEF Apart
<1> QED
  BY <1>6, <1>7, <1>8

LEMMA ConcatEnds ==
  ASSUME NEW a \in Seq(Int), NEW b \in Seq(Int)
  PROVE  /\ \A x \in ToSet(a) : x \in ToSet(a \o b)
         /\ \A x \in ToSet(b) : x \in ToSet(a \o b)
         /\ Len(b) > 0 => a \o b # <<>> /\ Last(a \o b) = Last(b)
<1> DEFINE w == a \o b
           n == Len(a)
           m == Len(b)
<1>1. w \in Seq(Int) /\ Len(w) = n + m /\ n \in Nat /\ m \in Nat
  OBVIOUS
<1>2. \A i \in 1 .. n : w[i] = a[i]
  OBVIOUS
<1>3. \A i \in 1 .. m : w[n + i] = b[i]
  OBVIOUS
<1>4. DOMAIN a = 1 .. n /\ DOMAIN b = 1 .. m
  OBVIOUS
<1> HIDE DEF w, n, m
<1>5. DOMAIN w = 1 .. n + m
  BY <1>1
<1>6. ASSUME NEW x \in ToSet(a) PROVE x \in ToSet(w)
  <2>1. PICK i \in 1 .. n : x = a[i]
    BY <1>4 DEF ToSet
  <2>2. i \in 1 .. n + m
    BY <1>1
  <2> QED
    BY <1>2, <1>5, <2>1, <2>2 DEF ToSet
<1>7. ASSUME NEW x \in ToSet(b) PROVE x \in ToSet(w)
  <2>1. PICK i \in 1 .. m : x = b[i]
    BY <1>4 DEF ToSet
  <2>2. n + i \in 1 .. n + m
    BY <1>1
  <2> QED
    BY <1>3, <1>5, <2>1, <2>2 DEF ToSet
<1>8. ASSUME m > 0 PROVE w # <<>> /\ Last(w) = Last(b)
  <2>1. m \in 1 .. m /\ n + m > 0
    BY <1>1, <1>8
  <2>2. w[n + m] = b[m]
    BY <1>3, <2>1
  <2>3. w # <<>>
    BY <1>1, <2>1
  <2>4. Last(w) = w[n + m] /\ Last(b) = b[m]
    BY <1>1 DEF Last, m
  <2> QED
    BY <2>2, <2>3, <2>4
<1> QED
  BY <1>6, <1>7, <1>8 DEF w, m

\* Both parts of a sound range that an instruction splits are sound, if the
\* first does not run into data.
LEMMA SplitSound ==
  ASSUME NEW c, NEW p \in Images, NEW start, NEW end, RangeSound(c, p, start, end),
         NEW m \in ToSet(Linear(p, start, end).at), ~data_region_containing(c, m)
  PROVE  RangeSound(c, p, m, end) /\ (start < m => RangeSound(c, p, start, m))
<1> DEFINE d == Linear(p, start, end)
           dA == Linear(p, start, m)
           dB == Linear(p, m, end)
<1>1. /\ start \in Nat /\ end \in Nat /\ start < end /\ end <= ImageLen /\ d.failed = None
      /\ ~(d.at # <<>> /\ data_region_containing(c, end) /\ has_fallthrough(p[Last(d.at)]))
      /\ \A a \in ToSet(d.at) : direct_target(p[a]) # None =>
           ~data_region_containing(c, direct_target(p[a]))
  BY DEF RangeSound
<1>2. start <= end
  BY <1>1
<1>3. m \in start .. end - 1 /\ dA.failed = None /\ dB.failed = None /\ d.at = dA.at \o dB.at
  BY <1>1, <1>2, SplitDecode
<1>4. m \in Nat /\ m <= end /\ m < end /\ m <= ImageLen
  BY <1>1, <1>3, ImageAssumption
<1>5. dA.at \in Seq(Int) /\ dB.at \in Seq(Int)
  <2>1. start \in Int /\ m \in Int /\ end \in Int
    BY <1>1, <1>4
  <2> QED
    BY <2>1, LinearTyped
<1>6. Len(dB.at) > 0
  BY <1>1, <1>3, <1>4, LinearExact
<1>7. /\ \A x \in ToSet(dA.at) : x \in ToSet(d.at)
      /\ \A x \in ToSet(dB.at) : x \in ToSet(d.at)
      /\ d.at # <<>> /\ Last(d.at) = Last(dB.at)
  <2> DEFINE a == dA.at
             b == dB.at
  <2>1. a \in Seq(Int) /\ b \in Seq(Int) /\ Len(b) > 0
    BY <1>5, <1>6
  <2> HIDE DEF a, b
  <2>2. /\ \A x \in ToSet(a) : x \in ToSet(a \o b)
        /\ \A x \in ToSet(b) : x \in ToSet(a \o b)
        /\ a \o b # <<>> /\ Last(a \o b) = Last(b)
    BY <2>1, ConcatEnds
  <2>3. d.at = a \o b
    BY <1>3 DEF a, b
  <2> HIDE DEF d
  <2> QED
    BY <2>2, <2>3 DEF a, b
<1> HIDE DEF d, dA, dB
<1>8. RangeSound(c, p, m, end)
  BY <1>1, <1>3, <1>4, <1>7 DEF RangeSound, dB
<1>9. start < m => RangeSound(c, p, start, m)
  BY <1>1, <1>3, <1>4, <1>7 DEF RangeSound, dA
<1> QED
  BY <1>8, <1>9

\* A piece of the code of a function that passes is sound.
LEMMA PieceSound ==
  ASSUME NEW c \in Configs, NEW f \in Funcs, NEW p, NEW local,
         Passes(validate_function(c, p, f, local)), NEW code,
         code = code_regions(c.text, effective_regions(f)), NEW k \in 1 .. Len(code)
  PROVE  RangeSound(c, p, code[k].start, code[k].end)
<1>1. /\ code \in Seq(Regions) /\ Separate(code)
      /\ \A i \in 1 .. Len(code) : code[i].seg = Code /\ code[i].end <= ImageLen
  BY CodeShape
<1>2. code[k].start \in Nat /\ code[k].end \in Nat
  BY <1>1, RegionSeq
<1>3. code[k].start < code[k].end
  BY <1>1 DEF Separate
<1> DEFINE d == Linear(p, code[k].start, code[k].end)
<1>4. /\ d.failed = None
      /\ data_region_containing(c, code[k].end) /\ d.at # <<>> => ~has_fallthrough(p[Last(d.at)])
      /\ \A a \in ToSet(d.at) : direct_target(p[a]) # None =>
           ~data_region_containing(c, direct_target(p[a]))
  BY CodeChecked
<1> HIDE DEF d
<1> QED
  BY <1>1, <1>2, <1>3, <1>4 DEF RangeSound, d

---------------------------------------------------------------------------
(* The preflight *)

\* A function that passes decodes, to instructions that fill its code, its
\* start first.
LEMMA DecodeSound ==
  ASSUME NEW c \in Configs, NEW p \in Images, NEW f \in Funcs, NEW local,
         Passes(validate_function(c, p, f, local)), NEW code,
         code = code_regions(c.text, effective_regions(f)),
         \A k \in 1 .. Len(code) : RegionContains(code[k], f.seg, f.start) =>
           f.start \in ToSet(Linear(p, code[k].start, code[k].end).at)
  PROVE  LET d == decode_regions(c, p, from_func(f))
         IN d.ok /\ TiledBy(p, d.at, CodeBytes(code)) /\ Len(d.at) > 0 /\ d.at[1] = f.start
<1> DEFINE s == from_func(f)
           chunks == Chunks(s, code)
           m == f.start
           J == JoinedOf(c, p, chunks)
           d == decode_regions(c, p, s)
<1>1. s.start = m /\ s.seg = f.seg /\ s.regions = effective_regions(f)
  BY DEF from_func
<1>2. /\ code \in Seq(Regions) /\ Separate(code)
      /\ \A k \in 1 .. Len(code) : code[k].seg = Code /\ code[k].end <= ImageLen
      /\ \E k \in 1 .. Len(code) : RegionContains(code[k], f.seg, m)
  BY CodeShape
<1>3. m \in Nat /\ ~data_region_containing(c, m)
  BY StartOwned
<1>4. \A k \in 1 .. Len(code) : RangeSound(c, p, code[k].start, code[k].end)
  BY PieceSound
<1>5. DOMAIN code = 1 .. Len(code)
  BY <1>2
<1>6. d = J
  <2>1. d = decode_code(c, p, s, code)
    BY <1>1 DEF decode_regions
  <2>2. \E k \in DOMAIN code : RegionContains(code[k], s.seg, s.start)
    BY <1>1, <1>2, <1>5
  <2>3. ~data_region_containing(c, s.start)
    BY <1>1, <1>3
  <2> HIDE DEF s, d
  <2> QED
    BY <2>1, <2>2, <2>3 DEF decode_code, JoinedOf
<1> HIDE DEF s, d
<1>7. PICK e \in 1 .. Len(code) : \E n \in Nat \ {0}, M \in {1, 2} :
        RegionContains(code[e], f.seg, m) /\ Cut(code, chunks, n, e, m, M)
  <2>1. s.start \in Nat /\ \E k \in 1 .. Len(code) : RegionContains(code[k], s.seg, s.start)
    BY <1>1, <1>2, <1>3
  <2>2. \E e \in 1 .. Len(code) : \E n \in Nat \ {0}, M \in {1, 2} :
          RegionContains(code[e], s.seg, s.start) /\ Cut(code, Chunks(s, code), n, e, s.start, M)
    BY <1>2, <2>1, ChunksCut
  <2> QED
    BY <1>1, <2>2
<1> HIDE DEF J, chunks
<1>8. PICK n \in Nat \ {0}, M \in {1, 2} :
        RegionContains(code[e], f.seg, m) /\ Cut(code, chunks, n, e, m, M)
  BY <1>7
<1>9. code[e].start <= m /\ m < code[e].end /\ m \in ToSet(Linear(p, code[e].start, code[e].end).at)
  BY <1>8 DEF RegionContains
<1>10. RangeSound(c, p, m, code[e].end) /\ (code[e].start < m => RangeSound(c, p, code[e].start, m))
  BY <1>3, <1>4, <1>9, SplitSound
<1>11. ASSUME NEW i \in 1 .. n
       PROVE  ChunkSound(c, p, chunks[i])
  <2>1. i = 1 \/ (i = 2 /\ M = 2) \/ (i - M \in 1 .. Len(code) - 1 /\ M + (i - M) = i)
    <3>1. n = M + (Len(code) - 1) /\ Len(code) \in Nat
      BY <1>2, <1>8 DEF Cut
    <3> DEFINE N == Len(code)
    <3> HIDE DEF N
    <3>2. N \in Nat /\ n = M + (N - 1)
      BY <3>1 DEF N
    <3>3. i = 1 \/ (i = 2 /\ M = 2) \/ (i - M \in 1 .. N - 1 /\ M + (i - M) = i)
      BY <3>2
    <3> QED
      BY <3>3 DEF N
  <2>2. CASE i = 1
    <3>1. chunks[1][1] = m /\ chunks[1][2] = code[e].end
      BY <1>8 DEF Cut
    <3> QED
      BY <1>10, <2>2, <3>1 DEF ChunkSound
  <2>3. CASE i = 2 /\ M = 2
    <3>1. code[e].start < m /\ chunks[2][1] = code[e].start /\ chunks[2][2] = m
      BY <1>8, <2>3 DEF Cut
    <3> QED
      BY <1>10, <2>3, <3>1 DEF ChunkSound
  <2>4. CASE i - M \in 1 .. Len(code) - 1 /\ M + (i - M) = i
    <3> DEFINE l == i - M
               k == Skip(e, l)
    <3>1. l \in 1 .. Len(code) - 1 /\ M + l = i
      BY <2>4
    <3>2. k \in 1 .. Len(code)
      BY <1>2, <3>1 DEF Skip
    <3> HIDE DEF l
    <3>3. chunks[i][1] = code[k].start /\ chunks[i][2] = code[k].end
      BY <1>8, <3>1 DEF Cut
    <3> HIDE DEF k
    <3> QED
      BY <1>4, <3>2, <3>3 DEF ChunkSound
  <2> QED
    BY <2>1, <2>2, <2>3, <2>4
<1>12. Apart(chunks, n) /\ Bytes(chunks, n) = CodeBytes(code)
  <2>1. \A k \in 1 .. Len(code) : code[k].seg = Code
    BY <1>2
  <2> QED
    BY <1>2, <1>3, <1>8, <1>9, <2>1, ChunksApart
<1>13. DOMAIN chunks = 1 .. n /\ chunks[1][1] = m
  BY <1>8 DEF Cut
<1>14. Decodes(p, J, chunks[1][1], Bytes(chunks, n))
  <2>1. \A i \in 1 .. n : ChunkSound(c, p, chunks[i])
    BY <1>11
  <2> QED
    BY <1>12, <1>13, <2>1, JoinedSound DEF J
<1>15. d.ok /\ TiledBy(p, d.at, CodeBytes(code)) /\ Len(d.at) > 0 /\ d.at[1] = m
  BY <1>6, <1>12, <1>13, <1>14 DEF Decodes
<1> QED
  BY <1>15 DEF d, s

LEMMA TiledTiles ==
  ASSUME image \in Images, NEW f, NEW code \in Seq(Regions), NEW at,
         \A k \in 1 .. Len(code) : code[k].end <= ImageLen,
         TiledBy(image, at, CodeBytes(code)), at[1] = f.start
  PROVE  Tiles(at, f, code)
<1> DEFINE bytes == UNION {code[i].start .. code[i].end - 1 : i \in DOMAIN code}
           of(i) == at[i] .. at[i] + image[at[i]].len - 1
<1>1. \A k \in 1 .. Len(code) : code[k].start \in Nat /\ code[k].end \in Nat
  BY RegionSeq
<1>2. DOMAIN code = 1 .. Len(code) /\ DOMAIN at = 1 .. Len(at) /\ at \in Seq(Int)
  BY DEF TiledBy
<1>3. bytes = CodeBytes(code)
  <2>1. ASSUME NEW x \in bytes PROVE x \in CodeBytes(code)
    <3>1. PICK i \in 1 .. Len(code) : x \in code[i].start .. code[i].end - 1
      BY <1>2
    <3>2. x \in Int /\ code[i].start <= x /\ x < code[i].end
      BY <1>1, <3>1
    <3> QED
      BY <3>2 DEF CodeBytes
  <2>2. ASSUME NEW x \in CodeBytes(code) PROVE x \in bytes
    <3>1. PICK i \in 1 .. Len(code) : code[i].start <= x /\ x < code[i].end
      BY DEF CodeBytes
    <3>2. x \in Int
      BY DEF CodeBytes
    <3>3. x \in code[i].start .. code[i].end - 1
      BY <1>1, <3>1, <3>2
    <3> QED
      BY <1>2, <3>3
  <2> QED
    BY <2>1, <2>2
<1>4. \A i \in 1 .. Len(at) : at[i] \in Int /\ image[at[i]].len \in Nat
  <2> SUFFICES ASSUME NEW i \in 1 .. Len(at)
               PROVE  at[i] \in Int /\ image[at[i]].len \in Nat
    OBVIOUS
  <2>1. at[i] \in CodeBytes(code)
    BY DEF TiledBy
  <2>2. PICK k \in 1 .. Len(code) : code[k].start <= at[i] /\ at[i] < code[k].end
    BY <2>1 DEF CodeBytes
  <2>3. at[i] \in Int
    BY <2>1 DEF CodeBytes
  <2>4. code[k].start \in Nat /\ code[k].end \in Nat /\ code[k].end <= ImageLen
    BY <1>1
  <2>5. at[i] \in 0 .. ImageLen - 1
    <3> DEFINE a == at[i]
               y == code[k].start
               z == code[k].end
    <3>1. a \in Int /\ y \in Nat /\ z \in Nat /\ z <= ImageLen /\ y <= a /\ a < z
      BY <2>2, <2>3, <2>4
    <3> HIDE DEF a, y, z
    <3>2. a \in 0 .. ImageLen - 1
      BY <3>1, ImageAssumption
    <3> QED
      BY <3>2 DEF a
  <2> QED
    BY <2>3, <2>5, ImageTyped
<1>5. \A i \in 1 .. Len(at) : \A x : x \in of(i) <=> x \in Int /\ In(image, at[i], x)
  <2> SUFFICES ASSUME NEW i \in 1 .. Len(at), NEW x
               PROVE  x \in of(i) <=> x \in Int /\ In(image, at[i], x)
    OBVIOUS
  <2> DEFINE a == at[i]
             l == image[a].len
  <2>1. a \in Int /\ l \in Nat
    BY <1>4
  <2>2. of(i) = a .. (a + (l - 1)) /\ (In(image, a, x) <=> a <= x /\ x < a + l)
    BY DEF In
  <2> HIDE DEF a, l, of
  <2>3. x \in of(i) <=> x \in Int /\ In(image, a, x)
    BY <2>1, <2>2
  <2> QED
    BY <2>3 DEF a
<1> HIDE DEF bytes, of
<1>6. bytes = UNION {of(i) : i \in DOMAIN at}
  <2>1. ASSUME NEW x \in bytes PROVE \E i \in DOMAIN at : x \in of(i)
    <3>1. x \in CodeBytes(code)
      BY <1>3
    <3>2. x \in Int
      BY <3>1 DEF CodeBytes
    <3>3. PICK i \in 1 .. Len(at) : In(image, at[i], x)
      BY <3>1 DEF TiledBy
    <3> QED
      BY <1>2, <1>5, <3>2, <3>3
  <2>2. ASSUME NEW i \in DOMAIN at, NEW x \in of(i) PROVE x \in bytes
    <3>1. i \in 1 .. Len(at) /\ x \in Int /\ In(image, at[i], x)
      BY <1>2, <1>5
    <3>2. x \in CodeBytes(code)
      BY <3>1 DEF TiledBy
    <3> QED
      BY <1>3, <3>2
  <2> QED
    BY <2>1, <2>2
<1>7. \A i, j \in DOMAIN at : i # j => of(i) \cap of(j) = {}
  <2> SUFFICES ASSUME NEW i \in DOMAIN at, NEW j \in DOMAIN at, i # j,
                      NEW x, x \in of(i), x \in of(j)
               PROVE  FALSE
    OBVIOUS
  <2>1. i \in 1 .. Len(at) /\ j \in 1 .. Len(at)
    BY <1>2
  <2>2. x \in Int /\ In(image, at[i], x) /\ In(image, at[j], x)
    BY <1>5, <2>1
  <2> QED
    BY <2>1, <2>2 DEF TiledBy
<1> QED
  BY <1>6, <1>7 DEF Tiles, bytes, of

\* Whatever the configuration says and whatever the image holds, a function
\* that validation passes without an error decodes (validate.rs
\* validate_function, decompile.rs decode_regions): it has an end, its regions
\* lie in the image, and its instructions fill its code without data, each byte
\* in exactly one of them, the entry first.
THEOREM PreflightSoundAlways == Spec => []PreflightSound
<1>1. TypeOK => PreflightSound
  <2> SUFFICES ASSUME TypeOK, NEW i \in DOMAIN cfg.funcs,
                      ~has_errors(validate_function(cfg, image, cfg.funcs[i], TRUE)),
                      Aligned(cfg.funcs[i], code_regions(cfg.text, effective_regions(cfg.funcs[i])))
               PROVE  LET f == cfg.funcs[i]
                          d == decode_regions(cfg, image, from_func(f))
                          code == code_regions(cfg.text, effective_regions(f))
                      IN ~from_func_panics(f) /\ infer_spec(f).ok /\ d.ok /\ Tiles(d.at, f, code)
    BY DEF PreflightSound
  <2> DEFINE f == cfg.funcs[i]
             code == code_regions(cfg.text, effective_regions(f))
             d == decode_regions(cfg, image, from_func(f))
             V == validate_function(cfg, image, f, TRUE)
  <2>1. cfg \in Configs /\ image \in Images
    BY DEF TypeOK
  <2>2. f \in Funcs
    <3>1. cfg.funcs \in Seq(Funcs)
      BY <2>1, ConfigTyped
    <3> QED
      BY <3>1
  <2>3. Passes(V)
    BY DEF Passes, has_errors
  <2> HIDE DEF f
  <2>4. Sound(f)
    BY <2>2, <2>3, ValidationSound
  <2>5. /\ code \in Seq(Regions)
        /\ \A k \in 1 .. Len(code) : code[k].end <= ImageLen
    BY <2>1, <2>2, <2>3, CodeShape
  <2>6. \A k \in 1 .. Len(code) : RegionContains(code[k], f.seg, f.start) =>
           f.start \in ToSet(Linear(image, code[k].start, code[k].end).at)
    <3>1. Aligned(f, code)
      BY DEF f
    <3>2. DOMAIN code = 1 .. Len(code)
      BY <2>5
    <3> HIDE DEF code
    <3> QED
      BY <3>1, <3>2 DEF Aligned
  <2>7. d.ok /\ TiledBy(image, d.at, CodeBytes(code)) /\ d.at[1] = f.start
    BY <2>1, <2>2, <2>3, <2>6, DecodeSound
  <2> HIDE DEF code, d
  <2>8. Tiles(d.at, f, code)
    BY <2>1, <2>5, <2>7, TiledTiles
  <2> QED
    BY <2>4, <2>7, <2>8 DEF Sound, f, code, d
<1>2. IInv => TypeOK
  BY DEF IInv
<1> QED
  BY <1>1, <1>2, IInvHolds, PTL

==============================================================================
