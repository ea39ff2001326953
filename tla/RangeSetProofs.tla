---------------------------- MODULE RangeSetProofs ----------------------------
(***************************************************************************)
(* The range sets of range_set.rs and the region arithmetic of config.rs,  *)
(* for any ranges and any regions: insert adds exactly the new range,      *)
(* gaps_within finds exactly what no range has, effective_regions keeps    *)
(* exactly the addresses of its regions, and code_regions exactly those no *)
(* declared data has.                                                      *)
(*                                                                         *)
(* Each of the last three is a loop, a FoldLeft here.  What a fold returns *)
(* is had from its definition: FoldExists builds the function the fold     *)
(* chooses, by counting up to the length, and FoldTurns gives the values   *)
(* after every turn.  A loop then has a lemma ...Turns that says what one  *)
(* turn does, and the invariant of the loop is counted up from it.         *)
(***************************************************************************)
EXTENDS RegionConfig, FiniteSetTheorems, WellFoundedInduction, TLAPS

---------------------------------------------------------------------------
(* Loops of n turns *)

\* A non-empty set of naturals has a least element.
LEMMA NatMinimum ==
  ASSUME NEW T, T \subseteq Nat, T # {}
  PROVE  \E x \in T : \A y \in T : x <= y
<1>1. \E x \in T : \A y \in T : <<y, x>> \notin OpToRel(<, Nat)
  BY NatLessThanWellFounded, WFMin
<1>2. ASSUME NEW x \in T, NEW y \in T, <<y, x>> \notin OpToRel(<, Nat)
      PROVE  x <= y
  BY <1>2 DEF OpToRel
<1> QED
  BY <1>1, <1>2

\* Induction up to n, for a set of turns instead of a predicate.
LEMMA CountUp ==
  ASSUME NEW n \in Nat, NEW T, 0 \in T,
         \A i \in 1 .. n : i - 1 \in T => i \in T
  PROVE  \A i \in 0 .. n : i \in T
<1> DEFINE Bad == {i \in 0 .. n : i \notin T}
<1> SUFFICES ASSUME Bad # {} PROVE FALSE
  OBVIOUS
<1>1. Bad \subseteq Nat
  OBVIOUS
<1>2. PICK i \in Bad : \A j \in Bad : i <= j
  <2> HIDE DEF Bad
  <2> QED BY <1>1, NatMinimum
<1>3. i \in 1 .. n
  BY <1>2
<1>4. i - 1 \in 0 .. n /\ i - 1 \notin Bad
  BY <1>2, <1>3
<1> QED
  BY <1>2, <1>3, <1>4

\* The largest index of a set of indices.
LEMMA LargestIndex ==
  ASSUME NEW n \in Nat, NEW S \in SUBSET (1 .. n), S # {}
  PROVE  Max(S) \in S /\ \A i \in S : i <= Max(S)
<1> DEFINE U == {u \in 0 .. n : \A i \in S : i <= u}
<1>1. U \subseteq Nat /\ n \in U
  OBVIOUS
<1>2. PICK u \in U : \A v \in U : u <= v
  <2> HIDE DEF U
  <2> QED BY <1>1, NatMinimum
<1>3. u \in S
  <2>1. u # 0
    <3>1. PICK i \in S : i <= u /\ i \in 1 .. n
      BY <1>2
    <3> QED
      BY <3>1, <1>2
  <2>2. u - 1 \in 0 .. n /\ u - 1 \notin U
    BY <1>2, <2>1
  <2>3. PICK i \in S : ~(i <= u - 1)
    BY <2>2
  <2>4. i = u
    BY <2>3, <1>2
  <2> QED
    BY <2>4
<1>4. \E x \in S : \A y \in S : x >= y
  BY <1>2, <1>3
<1>5. Max(S) \in S /\ \A y \in S : Max(S) >= y
  BY <1>4 DEF Max
<1> QED
  BY <1>5

LEMMA LargestOfPrefix ==
  ASSUME NEW n \in Nat, NEW i \in 1 .. n
  PROVE  Max(1 .. i) = i /\ (1 .. i) \ {i} = 1 .. i - 1
<1>2. i \in 1 .. i /\ 1 .. i \in SUBSET (1 .. n)
  OBVIOUS
<1>1. Max(1 .. i) \in 1 .. i /\ \A j \in 1 .. i : j <= Max(1 .. i)
  BY <1>2, LargestIndex
<1> QED
  BY <1>1, <1>2

\* A loop of n turns over values of V: what turn i does to one; the function
\* that MapThenFoldSet takes for it; and the values after 0 .. n turns.
Turns(n, V) == [1 .. n -> [V -> V]]
FoldsOf(n, base, g, V) ==
  {it \in [SUBSET (1 .. n) -> V] : \A s \in SUBSET (1 .. n) :
     it[s] = IF s = {} THEN base ELSE g[Max(s)][it[s \ {Max(s)}]]}
RunsOf(n, base, g, V) ==
  {h \in [0 .. n -> V] : h[0] = base /\ \A i \in 1 .. n : h[i] = g[i][h[i - 1]]}

Unrolls(it, n, base, g, V) ==
  /\ it[{}] = base
  /\ \A s \in SUBSET (1 .. n) :
       s # {} /\ it[s \ {Max(s)}] \in V => it[s] = g[Max(s)][it[s \ {Max(s)}]]

\* Such a function exists, whatever a turn does to a value of V.
LEMMA FoldExists ==
  ASSUME NEW n \in Nat, NEW V, NEW base \in V, NEW g \in Turns(n, V)
  PROVE  FoldsOf(n, base, g, V) # {}
<1> USE DEF Turns
<1> DEFINE F(k) == FoldsOf(k, base, g, V)
           T == {k \in 0 .. n : F(k) # {}}
<1>1. 0 \in T
  <2> DEFINE it == [s \in SUBSET (1 .. 0) |-> base]
  <2>1. \A s \in SUBSET (1 .. 0) : s = {}
    OBVIOUS
  <2>2. it \in F(0)
    BY <2>1 DEF FoldsOf
  <2> HIDE DEF it, F
  <2> QED
    BY <2>2
<1>2. ASSUME NEW k \in 1 .. n, k - 1 \in T
      PROVE  k \in T
  <2>1. PICK old : old \in F(k - 1)
    BY <1>2
  <2>2. /\ old \in [SUBSET (1 .. k - 1) -> V]
        /\ \A s \in SUBSET (1 .. k - 1) :
             old[s] = IF s = {} THEN base ELSE g[Max(s)][old[s \ {Max(s)}]]
    BY <2>1 DEF FoldsOf
  <2> DEFINE it == [s \in SUBSET (1 .. k) |->
                      IF k \in s THEN g[k][old[s \ {k}]] ELSE old[s]]
  <2>3. \A s \in SUBSET (1 .. k) : /\ s \ {k} \in SUBSET (1 .. k - 1)
                                   /\ k \notin s => s \in SUBSET (1 .. k - 1)
    OBVIOUS
  <2>4. it \in [SUBSET (1 .. k) -> V]
    BY <2>2, <2>3
  <2>5. ASSUME NEW s \in SUBSET (1 .. k)
        PROVE  it[s] = IF s = {} THEN base ELSE g[Max(s)][it[s \ {Max(s)}]]
    <3>1. CASE s = {}
      BY <3>1, <2>2
    <3>2. CASE s # {}
      <4>1. Max(s) \in s /\ \A i \in s : i <= Max(s)
        BY <3>2, k \in Nat, LargestIndex
      <4>2. CASE k \in s
        <5>1. Max(s) = k
          <6>1. Max(s) \in 1 .. k /\ k <= Max(s)
            BY <4>1, <4>2
          <6> QED
            BY <6>1
        <5>2. it[s] = g[k][old[s \ {k}]] /\ it[s \ {k}] = old[s \ {k}]
          BY <4>2
        <5> QED
          BY <3>2, <5>1, <5>2
      <4>3. CASE k \notin s
        <5>1. s \in SUBSET (1 .. k - 1) /\ s \ {Max(s)} \in SUBSET (1 .. k - 1)
          BY <2>3, <4>3
        <5>2. it[s] = old[s] /\ it[s \ {Max(s)}] = old[s \ {Max(s)}]
          BY <4>3, <5>1
        <5>3. old[s] = g[Max(s)][old[s \ {Max(s)}]]
          BY <2>2, <3>2, <5>1
        <5> QED
          BY <3>2, <5>2, <5>3
      <4> QED
        BY <4>2, <4>3
    <3> QED
      BY <3>1, <3>2
  <2>6. it \in F(k)
    BY <2>4, <2>5 DEF FoldsOf
  <2> HIDE DEF it, F
  <2> QED
    BY <2>6
<1>3. n \in T
  <2> HIDE DEF T
  <2>1. n \in 0 .. n
    OBVIOUS
  <2>2. \A i \in 1 .. n : i - 1 \in T => i \in T
    BY <1>2
  <2> QED BY <1>1, <2>1, <2>2, CountUp
<1> QED
  BY <1>3

\* The values of a fold on the prefixes 1 .. i are the turns of the loop.
LEMMA FoldTurns ==
  ASSUME NEW n \in Nat, NEW V, NEW base \in V, NEW g \in Turns(n, V),
         NEW it, Unrolls(it, n, base, g, V)
  PROVE  \E h \in RunsOf(n, base, g, V) : h[n] = it[1 .. n]
<1> USE DEF Turns, Unrolls
<1> DEFINE h == [i \in 0 .. n |-> it[1 .. i]]
           T == {i \in 0 .. n : h[i] \in V}
<1>1. h[0] = base
  <2>1. 1 .. 0 = {} /\ 0 \in 0 .. n
    OBVIOUS
  <2> QED
    BY <2>1
<1>2. ASSUME NEW i \in 1 .. n, h[i - 1] \in V
      PROVE  h[i] = g[i][h[i - 1]]
  <2>1. i \in 1 .. i /\ i \in 0 .. n /\ i - 1 \in 0 .. n /\ 1 .. i \in SUBSET (1 .. n)
    OBVIOUS
  <2>2. Max(1 .. i) = i /\ (1 .. i) \ {i} = 1 .. i - 1
    BY LargestOfPrefix
  <2>3. it[1 .. i] = g[i][it[1 .. i - 1]]
    BY <1>2, <2>1, <2>2
  <2> QED
    BY <2>1, <2>3
<1>3. \A i \in 0 .. n : i \in T
  <2>1. 0 \in T
    BY <1>1
  <2>2. ASSUME NEW i \in 1 .. n, i - 1 \in T
        PROVE  i \in T
    <3>1. h[i - 1] \in V /\ i \in 0 .. n
      BY <2>2
    <3>2. h[i] = g[i][h[i - 1]]
      BY <1>2, <3>1
    <3> HIDE DEF h
    <3>3. h[i] \in V
      BY <3>1, <3>2
    <3> QED
      BY <3>1, <3>3
  <2> HIDE DEF T
  <2> QED
    BY <2>1, <2>2, CountUp
<1>4. h \in [0 .. n -> V] /\ h[n] = it[1 .. n]
  BY <1>3
<1>5. h \in RunsOf(n, base, g, V)
  <2>1. \A i \in 1 .. n : h[i] = g[i][h[i - 1]]
    BY <1>2, <1>3
  <2> HIDE DEF h
  <2> QED
    BY <1>1, <1>4, <2>1 DEF RunsOf
<1> HIDE DEF h
<1> QED
  BY <1>4, <1>5

---------------------------------------------------------------------------
(* RangeSet::insert *)

\* partition_point returns the boundary when there is one: the predicate's
\* indices are downward closed.
LEMMA PartitionPoint ==
  ASSUME NEW n \in Nat, NEW T, T \subseteq 1 .. n,
         \A i, j \in 1 .. n : i < j /\ j \in T => i \in T
  PROVE  /\ partition_point(n, T) \in 0 .. n
         /\ \A i \in 1 .. n : i \in T <=> i <= partition_point(n, T)
<1> DEFINE U == {u \in 0 .. n : \A i \in T : i <= u}
<1>1. U \subseteq Nat /\ n \in U
  OBVIOUS
<1> HIDE DEF U
<1>2. PICK u \in U : \A y \in U : u <= y
  BY <1>1, NatMinimum
<1>3. u \in 0 .. n /\ \A i \in T : i <= u
  BY <1>2 DEF U
<1>4. ASSUME NEW i \in 1 .. n, i <= u
      PROVE  i \in T
  <2>1. u - 1 \in 0 .. n /\ u - 1 \notin U
    BY <1>1, <1>2, <1>3, <1>4
  <2>2. PICK j \in T : ~(j <= u - 1)
    BY <2>1 DEF U
  <2>3. j = u
    BY <1>3, <2>2
  <2> QED
    BY <1>4, <2>2, <2>3
<1>5. \A i \in 1 .. n : i \in T <=> i <= u
  BY <1>3, <1>4
<1> QED
  BY <1>3, <1>5 DEF partition_point

\* What WellFormed says, over 1 .. Len(rs).
LEMMA Shape ==
  ASSUME NEW rs, WellFormed(rs)
  PROVE  /\ rs \in Seq(Spans) /\ Len(rs) \in Nat /\ DOMAIN rs = 1 .. Len(rs)
         /\ \A i \in 1 .. Len(rs) :
              /\ rs[i] \in Spans /\ rs[i].start \in Nat /\ rs[i].end \in Nat
              /\ rs[i].start < rs[i].end
         /\ \A i, j \in 1 .. Len(rs) : i < j => rs[i].end < rs[j].start
<1>1. rs \in Seq(Spans)
  BY DEF WellFormed
<1>2. Len(rs) \in Nat /\ DOMAIN rs = 1 .. Len(rs) /\ \A i \in 1 .. Len(rs) : rs[i] \in Spans
  BY <1>1
<1>3. \A r \in Spans : r.start \in Nat /\ r.end \in Nat
  BY DEF Spans
<1> QED
  BY <1>1, <1>2, <1>3 DEF WellFormed

\* What the two binary searches of insert find.
LEMMA Touching ==
  ASSUME NEW rs, WellFormed(rs), NEW s \in Nat, NEW e \in Nat, s < e
  PROVE  /\ FirstTouching(rs, s) \in 0 .. Len(rs)
         /\ LastTouching(rs, e) \in 0 .. Len(rs)
         /\ FirstTouching(rs, s) <= LastTouching(rs, e)
         /\ \A i \in 1 .. Len(rs) : rs[i].end < s <=> i <= FirstTouching(rs, s)
         /\ \A i \in 1 .. Len(rs) : rs[i].start <= e <=> i <= LastTouching(rs, e)
<1> DEFINE n == Len(rs)
           A == {i \in DOMAIN rs : rs[i].end < s}
           B == {i \in DOMAIN rs : rs[i].start <= e}
<1>1. /\ n \in Nat /\ DOMAIN rs = 1 .. n
      /\ \A i \in 1 .. n : rs[i].start \in Nat /\ rs[i].end \in Nat
      /\ \A i \in 1 .. n : rs[i].start < rs[i].end
      /\ \A i, j \in 1 .. n : i < j => rs[i].end < rs[j].start
  BY Shape
<1>2. A \subseteq 1 .. n /\ B \subseteq 1 .. n
  BY <1>1
<1>3. \A i, j \in 1 .. n : i < j /\ j \in A => i \in A
  BY <1>1
<1>4. \A i, j \in 1 .. n : i < j /\ j \in B => i \in B
  BY <1>1
<1>5. /\ FirstTouching(rs, s) \in 0 .. n
      /\ \A i \in 1 .. n : i \in A <=> i <= FirstTouching(rs, s)
  <2> HIDE DEF A
  <2> QED
    BY <1>1, <1>2, <1>3, PartitionPoint DEF FirstTouching, A
<1>6. /\ LastTouching(rs, e) \in 0 .. n
      /\ \A i \in 1 .. n : i \in B <=> i <= LastTouching(rs, e)
  <2> HIDE DEF B
  <2> QED
    BY <1>1, <1>2, <1>4, PartitionPoint DEF LastTouching, B
<1>7. \A i \in 1 .. n : rs[i].end < s <=> i <= FirstTouching(rs, s)
  BY <1>1, <1>5
<1>8. \A i \in 1 .. n : rs[i].start <= e <=> i <= LastTouching(rs, e)
  BY <1>1, <1>6
<1>9. FirstTouching(rs, s) <= LastTouching(rs, e)
  <2>1. CASE FirstTouching(rs, s) = 0
    BY <2>1, <1>6
  <2>2. CASE FirstTouching(rs, s) # 0
    <3>1. FirstTouching(rs, s) \in 1 .. n
      BY <2>2, <1>5, <1>1
    <3>2. rs[FirstTouching(rs, s)].start <= e
      BY <3>1, <1>1, <1>7
    <3> QED
      BY <3>1, <3>2, <1>8
  <2> QED
    BY <2>1, <2>2
<1> QED
  BY <1>5, <1>6, <1>7, <1>8, <1>9

\* Replacing the ranges lo+1 .. hi by one that keeps clear of the others and
\* covers what they covered.
LEMMA SplicedSound ==
  ASSUME NEW rs, WellFormed(rs), NEW s \in Nat, NEW e \in Nat, s < e,
         NEW lo \in 0 .. Len(rs), NEW hi \in 0 .. Len(rs), lo <= hi,
         \A i \in 1 .. Len(rs) : rs[i].end < s <=> i <= lo,
         \A i \in 1 .. Len(rs) : rs[i].start <= e <=> i <= hi,
         NEW x \in Spans,
         x.start = IF lo < hi THEN MinOf(rs[lo + 1].start, s) ELSE s,
         x.end = IF lo < hi THEN MaxOf(rs[hi].end, e) ELSE e
  PROVE  /\ WellFormed(Spliced(rs, lo, hi, x))
         /\ \A p \in Nat : Covers(Spliced(rs, lo, hi, x), p)
                             <=> Covers(rs, p) \/ (s <= p /\ p < e)
<1> DEFINE n == Len(rs)
           new == Spliced(rs, lo, hi, x)
           m == lo + 1 + (n - hi)
<1>1. /\ n \in Nat /\ DOMAIN rs = 1 .. n
      /\ \A i \in 1 .. n : rs[i] \in Spans /\ rs[i].start \in Nat /\ rs[i].end \in Nat
      /\ \A i \in 1 .. n : rs[i].start < rs[i].end
      /\ \A i, j \in 1 .. n : i < j => rs[i].end < rs[j].start
  BY Shape
<1>2. m \in Nat /\ x.start \in Nat /\ x.end \in Nat /\ x.start <= s /\ e <= x.end
  BY <1>1 DEF Spans, MinOf, MaxOf
<1>3. /\ \A i \in 1 .. lo : rs[i].end < x.start
      /\ \A i \in hi + 1 .. n : x.end < rs[i].start
  <2>1. CASE lo < hi
    <3>1. lo + 1 \in 1 .. n /\ hi \in 1 .. n
      BY <2>1, <1>1
    <3>2. (x.start = s \/ x.start = rs[lo + 1].start) /\ (x.end = e \/ x.end = rs[hi].end)
      BY <2>1 DEF MinOf, MaxOf
    <3>3. ASSUME NEW i \in 1 .. lo
          PROVE  rs[i].end < x.start
      <4>1. i \in 1 .. n /\ i < lo + 1 /\ rs[i].end < s
        BY <1>1
      <4> QED
        BY <3>1, <3>2, <4>1, <1>1
    <3>4. ASSUME NEW i \in hi + 1 .. n
          PROVE  x.end < rs[i].start
      <4>1. i \in 1 .. n /\ hi < i /\ e < rs[i].start
        BY <1>1
      <4> QED
        BY <3>1, <3>2, <4>1, <1>1
    <3> QED
      BY <3>3, <3>4
  <2>2. CASE ~(lo < hi)
    BY <2>2, <1>1
  <2> QED
    BY <2>1, <2>2
<1>4. /\ DOMAIN new = 1 .. m
      /\ \A i \in 1 .. lo : new[i] = rs[i]
      /\ new[lo + 1] = x
      /\ \A i \in lo + 2 .. m : i - lo - 1 + hi \in hi + 1 .. n /\ new[i] = rs[i - lo - 1 + hi]
  BY <1>1, <1>2 DEF Spliced
<1>5. \A i \in 1 .. m : i \in 1 .. lo \/ i = lo + 1 \/ i \in lo + 2 .. m
  BY <1>1, <1>2
<1>6. new \in Seq(Spans)
  <2>1. ASSUME NEW i \in 1 .. m
        PROVE  new[i] \in Spans
    <3>1. CASE i \in 1 .. lo
      BY <3>1, <1>1, <1>4
    <3>2. CASE i = lo + 1
      BY <3>2, <1>4
    <3>3. CASE i \in lo + 2 .. m
      <4>1. i - lo - 1 + hi \in 1 .. n /\ new[i] = rs[i - lo - 1 + hi]
        BY <3>3, <1>1, <1>4
      <4> QED
        BY <4>1, <1>1
    <3> QED
      BY <1>5, <3>1, <3>2, <3>3
  <2>2. new = [i \in 1 .. m |-> new[i]]
    BY <1>4 DEF Spliced
  <2> HIDE DEF new, m
  <2> QED
    BY <1>2, <2>1, <2>2
<1> HIDE DEF new, m
<1>7. ASSUME NEW i \in 1 .. m
      PROVE  new[i].start < new[i].end
  <2>1. CASE i \in 1 .. lo
    BY <2>1, <1>1, <1>4
  <2>2. CASE i = lo + 1
    BY <2>2, <1>2, <1>4
  <2>3. CASE i \in lo + 2 .. m
    BY <2>3, <1>1, <1>4
  <2> QED
    BY <1>5, <2>1, <2>2, <2>3
<1>8. ASSUME NEW i \in 1 .. m, NEW j \in 1 .. m, i < j
      PROVE  new[i].end < new[j].start
  <2>1. CASE i \in 1 .. lo /\ j \in 1 .. lo
    BY <2>1, <1>1, <1>4, <1>8
  <2>2. CASE i \in 1 .. lo /\ j = lo + 1
    BY <2>2, <1>3, <1>4
  <2>3. CASE i \in 1 .. lo /\ j \in lo + 2 .. m
    <3>1. /\ i \in 1 .. n /\ new[i] = rs[i]
          /\ j - lo - 1 + hi \in 1 .. n /\ new[j] = rs[j - lo - 1 + hi]
          /\ i < j - lo - 1 + hi
      BY <2>3, <1>1, <1>4
    <3> QED
      BY <3>1, <1>1
  <2>4. CASE i = lo + 1 /\ j \in lo + 2 .. m
    BY <2>4, <1>3, <1>4
  <2>5. CASE i \in lo + 2 .. m /\ j \in lo + 2 .. m
    <3>1. /\ i - lo - 1 + hi \in 1 .. n /\ new[i] = rs[i - lo - 1 + hi]
          /\ j - lo - 1 + hi \in 1 .. n /\ new[j] = rs[j - lo - 1 + hi]
          /\ i - lo - 1 + hi < j - lo - 1 + hi
      BY <2>5, <1>1, <1>4, <1>8
    <3> QED
      BY <3>1, <1>1
  <2> QED
    BY <1>5, <1>8, <2>1, <2>2, <2>3, <2>4, <2>5
<1>9. WellFormed(new)
  BY <1>4, <1>6, <1>7, <1>8 DEF WellFormed
<1>10. ASSUME NEW p \in Nat, Covers(new, p)
       PROVE  Covers(rs, p) \/ (s <= p /\ p < e)
  <2>1. PICK i \in 1 .. m : new[i].start <= p /\ p < new[i].end
    BY <1>10, <1>4 DEF Covers
  <2>2. CASE i \in 1 .. lo
    BY <2>1, <2>2, <1>1, <1>4 DEF Covers
  <2>3. CASE i \in lo + 2 .. m
    <3>1. i - lo - 1 + hi \in 1 .. n /\ new[i] = rs[i - lo - 1 + hi]
      BY <2>3, <1>1, <1>4
    <3> QED
      BY <2>1, <3>1, <1>1 DEF Covers
  <2>4. CASE i = lo + 1
    <3>1. x.start <= p /\ p < x.end
      BY <2>1, <2>4, <1>4
    <3>2. CASE ~(lo < hi)
      BY <3>1, <3>2
    <3>3. CASE lo < hi
      <4>1. CASE p < s
        \* Then x starts where rs[lo + 1] does, which ends at s or later.
        <5>1. lo + 1 \in 1 .. n /\ rs[lo + 1].start <= p /\ p < rs[lo + 1].end
          BY <3>1, <3>3, <4>1, <1>1 DEF MinOf
        <5> QED
          BY <5>1, <1>1 DEF Covers
      <4>2. CASE e <= p
        <5>1. hi \in 1 .. n /\ rs[hi].start <= p /\ p < rs[hi].end
          BY <3>1, <3>3, <4>2, <1>1 DEF MaxOf
        <5> QED
          BY <5>1, <1>1 DEF Covers
      <4> QED
        BY <4>1, <4>2
    <3> QED
      BY <3>2, <3>3
  <2> QED
    BY <1>5, <2>2, <2>3, <2>4
<1>11. ASSUME NEW p \in Nat, s <= p, p < e
       PROVE  Covers(new, p)
  <2>1. lo + 1 \in 1 .. m /\ new[lo + 1].start <= p /\ p < new[lo + 1].end
    BY <1>1, <1>2, <1>4, <1>11 DEF m
  <2> QED
    BY <2>1, <1>4 DEF Covers
<1>12. ASSUME NEW p \in Nat, Covers(rs, p)
       PROVE  Covers(new, p)
  <2>1. PICK i \in 1 .. n : rs[i].start <= p /\ p < rs[i].end
    BY <1>12, <1>1 DEF Covers
  <2>2. CASE i <= lo
    <3>1. i \in 1 .. m /\ new[i] = rs[i]
      BY <2>2, <1>1, <1>4 DEF m
    <3> QED
      BY <3>1, <2>1, <1>4 DEF Covers
  <2>3. CASE i > hi
    <3>1. i - hi + lo + 1 \in lo + 2 .. m /\ i - hi + lo + 1 \in 1 .. m
      BY <2>3, <1>1 DEF m
    <3>2. new[i - hi + lo + 1] = rs[i]
      BY <3>1, <1>1, <1>4
    <3> QED
      BY <3>1, <3>2, <2>1, <1>4 DEF Covers
  <2>4. CASE lo < i /\ i <= hi
    \* A replaced range lies between the start and the end of x.
    <3>1. /\ lo + 1 \in 1 .. n /\ hi \in 1 .. n
          /\ rs[lo + 1].start <= rs[i].start /\ rs[i].end <= rs[hi].end
      <4>1. i = lo + 1 \/ rs[lo + 1].start < rs[i].start
        BY <2>4, <1>1
      <4>2. i = hi \/ rs[i].end < rs[hi].end
        BY <2>4, <1>1
      <4> QED
        BY <2>4, <1>1, <4>1, <4>2
    <3>2. x.start <= p /\ p < x.end
      BY <2>1, <2>4, <3>1, <1>1 DEF MinOf, MaxOf
    <3>3. lo + 1 \in 1 .. m
      BY <1>1 DEF m
    <3> QED
      BY <3>2, <3>3, <1>4 DEF Covers
  <2> QED
    BY <2>2, <2>3, <2>4, <1>1
<1> QED
  BY <1>9, <1>10, <1>11, <1>12 DEF new

\* RangeSet::insert (range_set.rs:13): for any ranges and any new one, the
\* result is well formed and covers exactly what was covered and the new
\* range.
THEOREM InsertSound ==
  ASSUME NEW rs, WellFormed(rs), NEW s \in Nat, NEW e \in Nat
  PROVE  /\ WellFormed(insert(rs, s, e))
         /\ \A p \in Nat : Covers(insert(rs, s, e), p)
                             <=> Covers(rs, p) \/ (s <= p /\ p < e)
<1>1. CASE s >= e
  <2>1. insert(rs, s, e) = rs
    BY <1>1 DEF insert
  <2> QED
    BY <1>1, <2>1
<1>2. CASE s < e
  <2> DEFINE lo == FirstTouching(rs, s)
             hi == LastTouching(rs, e)
             x == IF lo < hi
                  THEN Span(MinOf(rs[lo + 1].start, s), MaxOf(rs[hi].end, e))
                  ELSE Span(s, e)
  <2>1. /\ lo \in 0 .. Len(rs) /\ hi \in 0 .. Len(rs) /\ lo <= hi
        /\ \A i \in 1 .. Len(rs) : rs[i].end < s <=> i <= lo
        /\ \A i \in 1 .. Len(rs) : rs[i].start <= e <=> i <= hi
    BY <1>2, Touching
  <2>2. insert(rs, s, e) = Spliced(rs, lo, hi, x)
    BY <1>2 DEF insert
  <2> HIDE DEF lo, hi
  <2>3. /\ x \in Spans
        /\ x.start = IF lo < hi THEN MinOf(rs[lo + 1].start, s) ELSE s
        /\ x.end = IF lo < hi THEN MaxOf(rs[hi].end, e) ELSE e
    <3>1. Len(rs) \in Nat /\ \A i \in 1 .. Len(rs) : rs[i].start \in Nat /\ rs[i].end \in Nat
      BY Shape
    <3>2. CASE lo < hi
      <4>1. lo + 1 \in 1 .. Len(rs) /\ hi \in 1 .. Len(rs)
        BY <3>1, <3>2, <2>1
      <4> QED
        BY <3>1, <3>2, <4>1 DEF Span, Spans, MinOf, MaxOf
    <3>3. CASE ~(lo < hi)
      BY <3>3 DEF Span, Spans
    <3> QED
      BY <3>2, <3>3
  <2> HIDE DEF x
  <2>4. /\ WellFormed(Spliced(rs, lo, hi, x))
        /\ \A p \in Nat : Covers(Spliced(rs, lo, hi, x), p)
                            <=> Covers(rs, p) \/ (s <= p /\ p < e)
    BY <1>2, <2>1, <2>3, SplicedSound
  <2> QED
    BY <2>2, <2>4
<1> QED
  BY <1>1, <1>2

---------------------------------------------------------------------------
(* RangeSet::gaps_within *)

\* The loop of gaps_within, turn by turn.
GapStates == [cursor : Nat, gaps : Seq(Spans)]

GapLoop(base, rs) == FoldLeft(NextGap, base, rs)

LEMMA NextGapTyped ==
  ASSUME NEW v \in GapStates, NEW r \in Spans
  PROVE  NextGap(v, r) \in GapStates
<1>1. /\ v.cursor \in Nat /\ v.gaps \in Seq(Spans) /\ r.start \in Nat /\ r.end \in Nat
  BY DEF GapStates, Spans
<1>2. Span(v.cursor, r.start) \in Spans /\ MaxOf(v.cursor, r.end) \in Nat
  BY <1>1 DEF Span, Spans, MaxOf
<1>3. Append(v.gaps, Span(v.cursor, r.start)) \in Seq(Spans)
  BY <1>1, <1>2
<1> QED
  BY <1>1, <1>2, <1>3 DEF GapStates, NextGap

LEMMA GapTurns ==
  ASSUME NEW rs \in Seq(Spans), NEW base \in GapStates
  PROVE  \E h \in [0 .. Len(rs) -> GapStates] :
           /\ h[0] = base /\ h[Len(rs)] = GapLoop(base, rs)
           /\ \A i \in 1 .. Len(rs) : h[i] = NextGap(h[i - 1], rs[i])
<1> DEFINE n == Len(rs)
           V == GapStates
           g == [i \in 1 .. n |-> [v \in V |-> NextGap(v, rs[i])]]
           Eq(it) == it = [s \in SUBSET DOMAIN rs |->
                            IF s = {} THEN base
                            ELSE NextGap(it[s \ {Max(s)}], rs[Max(s)])]
           it == CHOOSE it : Eq(it)
<1>1. n \in Nat /\ DOMAIN rs = 1 .. n
  OBVIOUS
<1>2. GapLoop(base, rs) = it[1 .. n]
  BY <1>1 DEF GapLoop, FoldLeft, MapThenFoldSet
<1>3. g \in Turns(n, V)
  BY <1>1, NextGapTyped DEF Turns
<1>4. \A i \in 1 .. n : \A v \in V : g[i][v] = NextGap(v, rs[i])
  OBVIOUS
<1> HIDE DEF g, V, n
<1>5. \A s \in SUBSET (1 .. n) : s # {} => Max(s) \in 1 .. n /\ s \ {Max(s)} \in SUBSET (1 .. n)
  BY <1>1, LargestIndex
<1>6. base \in V
  BY DEF V
<1>7. Eq(it)
  <2>1. PICK f : f \in FoldsOf(n, base, g, V)
    BY <1>1, <1>3, <1>6, FoldExists
  <2>2. Eq(f)
    BY <1>1, <1>4, <1>5, <2>1 DEF FoldsOf
  <2> HIDE DEF Eq
  <2> QED BY <2>2
<1> HIDE DEF it
<1>8. PICK h \in RunsOf(n, base, g, V) : h[n] = it[1 .. n]
  <2>1. it[{}] = base
    BY <1>1, <1>7
  <2>2. \A s \in SUBSET (1 .. n) : s # {} /\ it[s \ {Max(s)}] \in V =>
           it[s] = g[Max(s)][it[s \ {Max(s)}]]
    BY <1>1, <1>4, <1>5, <1>7
  <2>3. Unrolls(it, n, base, g, V)
    BY <2>1, <2>2 DEF Unrolls
  <2> QED
    BY <1>1, <1>3, <1>6, <2>3, FoldTurns
<1>9. \A i \in 1 .. n : h[i - 1] \in V /\ h[i] = NextGap(h[i - 1], rs[i])
  BY <1>1, <1>4, <1>8 DEF RunsOf
<1> QED
  BY <1>2, <1>8, <1>9 DEF RunsOf, n, V

LEMMA EmptySound == WellFormed(<<>>) /\ \A p \in Nat : ~Covers(<<>>, p)
  BY DEF WellFormed, Covers

LEMMA SpansTyped ==
  ASSUME NEW gs \in Seq(Spans)
  PROVE  /\ Len(gs) \in Nat /\ DOMAIN gs = 1 .. Len(gs)
         /\ \A i \in 1 .. Len(gs) : gs[i] \in Spans /\ gs[i].start \in Nat /\ gs[i].end \in Nat
<1>1. \A r \in Spans : r.start \in Nat /\ r.end \in Nat
  BY DEF Spans
<1> QED
  BY <1>1

\* A range behind all the others can be appended.
LEMMA AppendSound ==
  ASSUME NEW rs, WellFormed(rs), NEW s \in Nat, NEW e \in Nat, s < e,
         \A i \in 1 .. Len(rs) : rs[i].end < s
  PROVE  /\ WellFormed(Append(rs, Span(s, e)))
         /\ Len(Append(rs, Span(s, e))) = Len(rs) + 1
         /\ \A i \in 1 .. Len(rs) : Append(rs, Span(s, e))[i] = rs[i]
         /\ Append(rs, Span(s, e))[Len(rs) + 1] = Span(s, e)
         /\ \A p \in Nat : Covers(Append(rs, Span(s, e)), p)
                             <=> Covers(rs, p) \/ (s <= p /\ p < e)
<1> DEFINE x == Span(s, e)
           n == Len(rs)
           new == Append(rs, x)
<1>1. /\ rs \in Seq(Spans) /\ n \in Nat /\ DOMAIN rs = 1 .. n
      /\ \A i \in 1 .. n : rs[i].start \in Nat /\ rs[i].end \in Nat /\ rs[i].start < rs[i].end
      /\ \A i, j \in 1 .. n : i < j => rs[i].end < rs[j].start
  BY Shape
<1>2. x \in Spans /\ x.start = s /\ x.end = e
  BY DEF Span, Spans
<1> HIDE DEF x
<1>3. /\ new \in Seq(Spans) /\ Len(new) = n + 1 /\ DOMAIN new = 1 .. n + 1
      /\ \A i \in 1 .. n : new[i] = rs[i]
      /\ new[n + 1] = x
  BY <1>1, <1>2
<1> HIDE DEF new
<1>4. \A i \in 1 .. n + 1 : i \in 1 .. n \/ i = n + 1
  BY <1>1
<1>5. WellFormed(new)
  <2>1. \A i \in 1 .. n + 1 : new[i].start < new[i].end
    BY <1>1, <1>2, <1>3, <1>4
  <2>2. \A i, j \in 1 .. n + 1 : i < j => new[i].end < new[j].start
    BY <1>1, <1>2, <1>3, <1>4
  <2> QED
    BY <1>3, <2>1, <2>2 DEF WellFormed
<1>6. \A p \in Nat : Covers(new, p) <=> Covers(rs, p) \/ (s <= p /\ p < e)
  <2>1. n + 1 \in 1 .. n + 1 /\ \A i \in 1 .. n : i \in 1 .. n + 1
    BY <1>1
  <2> QED
    BY <1>1, <1>2, <1>3, <1>4, <2>1 DEF Covers
<1> QED
  BY <1>3, <1>5, <1>6 DEF new, x

\* What the two binary searches of gaps_within find.
FirstOverlap(rs, s) == partition_point(Len(rs), {i \in DOMAIN rs : rs[i].end <= s})
LastOverlap(rs, e) == partition_point(Len(rs), {i \in DOMAIN rs : rs[i].start < e})

LEMMA Overlaps ==
  ASSUME NEW rs, WellFormed(rs), NEW s \in Nat, NEW e \in Nat, s < e
  PROVE  /\ FirstOverlap(rs, s) \in 0 .. Len(rs)
         /\ LastOverlap(rs, e) \in 0 .. Len(rs)
         /\ FirstOverlap(rs, s) <= LastOverlap(rs, e)
         /\ \A i \in 1 .. Len(rs) : rs[i].end <= s <=> i <= FirstOverlap(rs, s)
         /\ \A i \in 1 .. Len(rs) : rs[i].start < e <=> i <= LastOverlap(rs, e)
<1> DEFINE n == Len(rs)
           A == {i \in DOMAIN rs : rs[i].end <= s}
           B == {i \in DOMAIN rs : rs[i].start < e}
<1>1. /\ n \in Nat /\ DOMAIN rs = 1 .. n
      /\ \A i \in 1 .. n : rs[i].start \in Nat /\ rs[i].end \in Nat
      /\ \A i \in 1 .. n : rs[i].start < rs[i].end
      /\ \A i, j \in 1 .. n : i < j => rs[i].end < rs[j].start
  BY Shape
<1>2. A \subseteq 1 .. n /\ B \subseteq 1 .. n
  BY <1>1
<1>3. \A i, j \in 1 .. n : i < j /\ j \in A => i \in A
  BY <1>1
<1>4. \A i, j \in 1 .. n : i < j /\ j \in B => i \in B
  BY <1>1
<1>5. /\ FirstOverlap(rs, s) \in 0 .. n
      /\ \A i \in 1 .. n : i \in A <=> i <= FirstOverlap(rs, s)
  <2> HIDE DEF A
  <2> QED
    BY <1>1, <1>2, <1>3, PartitionPoint DEF FirstOverlap, A
<1>6. /\ LastOverlap(rs, e) \in 0 .. n
      /\ \A i \in 1 .. n : i \in B <=> i <= LastOverlap(rs, e)
  <2> HIDE DEF B
  <2> QED
    BY <1>1, <1>2, <1>4, PartitionPoint DEF LastOverlap, B
<1>7. \A i \in 1 .. n : rs[i].end <= s <=> i <= FirstOverlap(rs, s)
  BY <1>1, <1>5
<1>8. \A i \in 1 .. n : rs[i].start < e <=> i <= LastOverlap(rs, e)
  BY <1>1, <1>6
<1>9. FirstOverlap(rs, s) <= LastOverlap(rs, e)
  <2>1. CASE FirstOverlap(rs, s) = 0
    BY <2>1, <1>6
  <2>2. CASE FirstOverlap(rs, s) # 0
    <3>1. FirstOverlap(rs, s) \in 1 .. n
      BY <2>2, <1>5, <1>1
    <3>2. rs[FirstOverlap(rs, s)].start < e
      BY <3>1, <1>1, <1>7
    <3> QED
      BY <3>1, <3>2, <1>8
  <2> QED
    BY <2>1, <2>2
<1> QED
  BY <1>5, <1>6, <1>7, <1>8, <1>9

\* After some turns of the loop of gaps_within: its gaps lie apart, end before
\* the cursor and before e, and are the uncovered addresses from s up to the
\* cursor.
GapsSoFar(v, rs, s, e) ==
  /\ WellFormed(v.gaps)
  /\ \A j \in 1 .. Len(v.gaps) : v.gaps[j].end < v.cursor /\ v.gaps[j].end < e
  /\ \A p \in Nat : Covers(v.gaps, p) <=> s <= p /\ p < v.cursor /\ ~Covers(rs, p)

\* One turn, at range k, the ranges before which end at the cursor or sooner.
LEMMA GapStep ==
  ASSUME NEW rs, WellFormed(rs), NEW s \in Nat, NEW e \in Nat,
         NEW v \in GapStates, GapsSoFar(v, rs, s, e), s <= v.cursor,
         NEW k \in 1 .. Len(rs), rs[k].start < e, v.cursor < rs[k].end,
         \A j \in 1 .. k - 1 : rs[j].end <= v.cursor
  PROVE  /\ GapsSoFar(NextGap(v, rs[k]), rs, s, e)
         /\ NextGap(v, rs[k]).cursor = rs[k].end
<1> DEFINE r == rs[k]
           c == v.cursor
           w == NextGap(v, r)
<1>1. /\ Len(rs) \in Nat /\ DOMAIN rs = 1 .. Len(rs)
      /\ \A i \in 1 .. Len(rs) : rs[i].start \in Nat /\ rs[i].end \in Nat /\ rs[i].start < rs[i].end
      /\ \A i, j \in 1 .. Len(rs) : i < j => rs[i].end < rs[j].start
  BY Shape
<1>2. c \in Nat /\ v.gaps \in Seq(Spans)
  BY DEF GapStates
<1>3. w.cursor = r.end
  BY <1>1, <1>2 DEF NextGap, MaxOf
\* Between the cursor and the range nothing is covered, then the range is.
<1>4. \A p \in Nat : c <= p /\ p < r.start => ~Covers(rs, p)
  <2> SUFFICES ASSUME NEW p \in Nat, c <= p, p < r.start, Covers(rs, p) PROVE FALSE
    OBVIOUS
  <2>1. PICK j \in 1 .. Len(rs) : rs[j].start <= p /\ p < rs[j].end
    BY <1>1 DEF Covers
  <2>2. CASE j < k
    <3>1. rs[j].end <= c
      BY <2>2
    <3> QED
      BY <2>1, <3>1, <1>1, <1>2
  <2>3. CASE j >= k
    <3>1. r.start <= rs[j].start
      BY <2>3, <1>1
    <3> QED
      BY <3>1, <2>1, <1>1
  <2> QED
    BY <2>2, <2>3
<1>5. \A p \in Nat : r.start <= p /\ p < r.end => Covers(rs, p)
  BY <1>1 DEF Covers
<1>6. \A p \in Nat : Covers(v.gaps, p) <=> s <= p /\ p < c /\ ~Covers(rs, p)
  BY DEF GapsSoFar
<1>7. CASE c < r.start
  <2> DEFINE G == Append(v.gaps, Span(c, r.start))
  <2>1. w.gaps = G
    BY <1>7 DEF NextGap
  <2>2. /\ WellFormed(G) /\ Len(G) = Len(v.gaps) + 1
        /\ \A i \in 1 .. Len(v.gaps) : G[i] = v.gaps[i]
        /\ G[Len(v.gaps) + 1] = Span(c, r.start)
        /\ \A p \in Nat : Covers(G, p) <=> Covers(v.gaps, p) \/ (c <= p /\ p < r.start)
    <3>1. WellFormed(v.gaps) /\ \A j \in 1 .. Len(v.gaps) : v.gaps[j].end < c
      BY DEF GapsSoFar
    <3>2. r.start \in Nat
      BY <1>1
    <3> HIDE DEF c, r
    <3> QED
      BY <1>2, <1>7, <3>1, <3>2, AppendSound
  <2> HIDE DEF G
  <2>3. \A j \in 1 .. Len(G) : G[j].end < r.end /\ G[j].end < e
    <3>1. Len(v.gaps) \in Nat /\ \A j \in 1 .. Len(v.gaps) : v.gaps[j].end \in Nat
      BY <1>2, SpansTyped
    <3>2. ASSUME NEW j \in 1 .. Len(G)
          PROVE  G[j].end < r.end /\ G[j].end < e
      <4>1. CASE j = Len(v.gaps) + 1
        <5>1. G[j] = Span(c, r.start) /\ Span(c, r.start).end = r.start
          BY <4>1, <2>2 DEF Span
        <5>2. r.start < r.end /\ r.start < e
          BY <1>1
        <5> QED
          BY <5>1, <5>2
      <4>2. CASE j \in 1 .. Len(v.gaps)
        <5>1. v.gaps[j].end < c /\ v.gaps[j].end < e
          BY <4>2 DEF GapsSoFar
        <5>2. G[j] = v.gaps[j] /\ v.gaps[j].end \in Nat
          BY <4>2, <2>2, <3>1
        <5>3. r.start \in Nat /\ r.end \in Nat /\ r.start < r.end
          BY <1>1
        <5> QED
          BY <5>1, <5>2, <5>3, <1>2, <1>7
      <4> QED
        BY <4>1, <4>2, <2>2, <3>1
    <3> QED
      BY <3>2
  <2>4. \A p \in Nat : Covers(G, p) <=> s <= p /\ p < r.end /\ ~Covers(rs, p)
    BY <2>2, <1>1, <1>2, <1>4, <1>5, <1>6, <1>7
  <2> QED
    BY <1>3, <2>1, <2>2, <2>3, <2>4 DEF GapsSoFar
<1>8. CASE ~(c < r.start)
  <2>1. w.gaps = v.gaps
    BY <1>8 DEF NextGap
  <2>2. \A j \in 1 .. Len(v.gaps) : v.gaps[j].end \in Nat
    BY <1>2, SpansTyped
  <2>3. \A j \in 1 .. Len(v.gaps) : v.gaps[j].end < r.end /\ v.gaps[j].end < e
    BY <2>2, <1>1, <1>2 DEF GapsSoFar
  <2>4. \A p \in Nat : Covers(v.gaps, p) <=> s <= p /\ p < r.end /\ ~Covers(rs, p)
    BY <1>1, <1>2, <1>5, <1>6, <1>8
  <2> QED
    BY <1>3, <2>1, <2>3, <2>4 DEF GapsSoFar
<1> QED
  BY <1>3, <1>7, <1>8

\* RangeSet::gaps_within (range_set.rs:55): for any ranges and any query, the
\* gaps lie apart and are exactly the addresses of the query that no range has.
THEOREM GapsExact ==
  ASSUME NEW rs, WellFormed(rs), NEW s \in Nat, NEW e \in Nat
  PROVE  /\ WellFormed(gaps_within(rs, s, e))
         /\ \A p \in Nat : Covers(gaps_within(rs, s, e), p)
                             <=> s <= p /\ p < e /\ ~Covers(rs, p)
<1>1. CASE s >= e
  <2>1. gaps_within(rs, s, e) = <<>>
    BY <1>1 DEF gaps_within
  <2> QED
    BY <1>1, <2>1, EmptySound
<1>2. CASE s < e
  <2> DEFINE lo == FirstOverlap(rs, s)
             hi == LastOverlap(rs, e)
             sub == SubSeq(rs, lo + 1, hi)
             m == hi - lo
             base == [cursor |-> s, gaps |-> <<>>]
             found == GapLoop(base, sub)
  <2>1. gaps_within(rs, s, e) = IF found.cursor < e THEN Append(found.gaps, Span(found.cursor, e))
                                ELSE found.gaps
    BY <1>2 DEF gaps_within, FirstOverlap, LastOverlap, GapLoop
  <2>2. /\ Len(rs) \in Nat /\ DOMAIN rs = 1 .. Len(rs) /\ rs \in Seq(Spans)
        /\ \A i \in 1 .. Len(rs) : rs[i].start \in Nat /\ rs[i].end \in Nat /\ rs[i].start < rs[i].end
        /\ \A i, j \in 1 .. Len(rs) : i < j => rs[i].end < rs[j].start
    BY Shape
  <2>3. /\ lo \in 0 .. Len(rs) /\ hi \in 0 .. Len(rs) /\ lo <= hi
        /\ \A i \in 1 .. Len(rs) : rs[i].end <= s <=> i <= lo
        /\ \A i \in 1 .. Len(rs) : rs[i].start < e <=> i <= hi
    BY <1>2, Overlaps
  <2> HIDE DEF lo, hi
  <2>4. m \in Nat /\ sub \in Seq(Spans) /\ Len(sub) = m /\ \A i \in 1 .. m : sub[i] = rs[lo + i]
    <3>1. m \in Nat /\ lo + 1 \in 1 .. Len(rs) + 1 /\ hi \in lo .. Len(rs)
      BY <2>2, <2>3
    <3>2. /\ Len(sub) = m /\ DOMAIN sub = 1 .. m
          /\ \A i \in 1 .. m : sub[i] = rs[lo + i]
          /\ sub = [i \in 1 .. m |-> rs[lo + i]]
      BY <2>2, <2>3, <3>1
    <3>3. \A i \in 1 .. m : rs[lo + i] \in Spans
      <4>1. \A i \in 1 .. m : lo + i \in 1 .. Len(rs)
        BY <2>2, <2>3, <3>1
      <4> QED
        BY <4>1, <2>2
    <3>4. sub \in Seq(Spans)
      <4> HIDE DEF sub, m
      <4> QED
        BY <3>1, <3>2, <3>3
    <3> QED
      BY <3>1, <3>2, <3>4
  <2>5. base \in GapStates
    BY DEF GapStates
  <2> HIDE DEF sub
  <2>6. PICK h \in [0 .. m -> GapStates] :
          /\ h[0] = base /\ h[m] = found
          /\ \A i \in 1 .. m : h[i] = NextGap(h[i - 1], sub[i])
    <3> HIDE DEF base, m, found
    <3>1. found = GapLoop(base, sub)
      BY DEF found
    <3> QED
      BY <2>4, <2>5, <3>1, GapTurns
  <2> HIDE DEF found, m
  <2> DEFINE P(i) == /\ GapsSoFar(h[i], rs, s, e)
                     /\ h[i].cursor = IF i = 0 THEN s ELSE rs[lo + i].end
             T == {i \in 0 .. m : P(i)}
  <2>7. \A i \in 1 .. m : /\ lo + i \in 1 .. Len(rs) /\ s < rs[lo + i].end /\ rs[lo + i].start < e
    BY <2>2, <2>3, <2>4 DEF m
  <2>8. 0 \in T
    <3>1. h[0].cursor = s /\ h[0].gaps = <<>>
      BY <2>6
    <3> QED
      BY <3>1, <2>4, EmptySound DEF GapsSoFar
  <2>9. ASSUME NEW i \in 1 .. m, i - 1 \in T
        PROVE  i \in T
    <3>1. i - 1 \in 0 .. m /\ h[i - 1] \in GapStates /\ P(i - 1) /\ i \in 0 .. m /\ i # 0
      BY <2>4, <2>6, <2>9
    <3>2. h[i] = NextGap(h[i - 1], rs[lo + i]) /\ lo + i \in 1 .. Len(rs) /\ rs[lo + i].start < e
      BY <2>4, <2>6, <2>7
    <3>3. /\ s <= h[i - 1].cursor /\ h[i - 1].cursor < rs[lo + i].end
          /\ \A j \in 1 .. lo + i - 1 : rs[j].end <= h[i - 1].cursor
      <4>1. CASE i = 1
        BY <4>1, <3>1, <2>2, <2>3, <2>7
      <4>2. CASE i # 1
        <5>1. i - 1 \in 1 .. m /\ lo + (i - 1) \in 1 .. Len(rs) /\ lo + i \in 1 .. Len(rs)
          BY <4>2, <2>3, <2>4, <2>7
        <5>2. h[i - 1].cursor = rs[lo + (i - 1)].end
          BY <4>2, <3>1
        <5>3. s < rs[lo + (i - 1)].end
          BY <5>1, <2>7
        <5>4. rs[lo + (i - 1)].end < rs[lo + i].start
          BY <5>1, <2>2, <2>3
        <5>5. ASSUME NEW j \in 1 .. lo + i - 1
              PROVE  rs[j].end <= rs[lo + (i - 1)].end
          <6>1. j \in 1 .. Len(rs) /\ (j = lo + (i - 1) \/ j < lo + (i - 1))
            BY <2>2, <2>3, <5>1
          <6> QED
            BY <6>1, <5>1, <2>2
        <5> QED
          BY <5>1, <5>2, <5>3, <5>4, <5>5, <2>2
      <4> QED
        BY <4>1, <4>2
    <3>4. GapsSoFar(h[i], rs, s, e) /\ h[i].cursor = rs[lo + i].end
      <4> DEFINE k == lo + i
                 v == h[i - 1]
      <4>1. GapsSoFar(v, rs, s, e) /\ v \in GapStates /\ k \in 1 .. Len(rs)
        BY <3>1, <3>2
      <4>2. rs[k].start < e /\ s <= v.cursor /\ v.cursor < rs[k].end
            /\ \A j \in 1 .. k - 1 : rs[j].end <= v.cursor
        <5>1. s <= v.cursor /\ v.cursor < rs[k].end
          BY <3>3
        <5>2. ASSUME NEW j \in 1 .. k - 1
              PROVE  rs[j].end <= v.cursor
          <6>1. j \in 1 .. lo + i - 1
            BY <5>2, <2>2, <2>3
          <6> QED
            BY <6>1, <3>3
        <5> QED
          BY <3>2, <5>1, <5>2
      <4> HIDE DEF k, v
      <4>3. GapsSoFar(NextGap(v, rs[k]), rs, s, e) /\ NextGap(v, rs[k]).cursor = rs[k].end
        BY <4>1, <4>2, GapStep
      <4> QED
        BY <3>2, <4>3 DEF k, v
    <3> QED
      BY <3>1, <3>4
  <2>10. P(m)
    <3>1. \A i \in 0 .. m : i \in T
      <4> HIDE DEF T
      <4> QED
        BY <2>4, <2>8, <2>9, CountUp
    <3> QED
      BY <3>1, <2>4
  <2>11. GapsSoFar(found, rs, s, e) /\ found \in GapStates
    BY <2>4, <2>6, <2>10
  <2>12. s <= found.cursor /\ found.cursor \in Nat
         /\ \A j \in 1 .. hi : rs[j].end <= found.cursor
    <3>1. found.cursor = IF m = 0 THEN s ELSE rs[lo + m].end
      BY <2>6, <2>10
    <3>2. m # 0 => m \in 1 .. m
      BY <2>4
    <3>3. lo + m = hi
      BY <2>3 DEF m
    <3>4. CASE m = 0
      BY <3>1, <3>3, <3>4, <2>2, <2>3
    <3>5. CASE m # 0
      <4>1. found.cursor = rs[hi].end /\ hi \in 1 .. Len(rs) /\ s < rs[hi].end
        BY <3>1, <3>2, <3>3, <3>5, <2>7
      <4>2. \A j \in 1 .. hi : rs[j].end <= rs[hi].end
        <5>1. \A j \in 1 .. hi : j \in 1 .. Len(rs) /\ (j = hi \/ j < hi)
          BY <2>2, <4>1
        <5> QED
          BY <5>1, <4>1, <2>2
      <4> QED
        BY <4>1, <4>2, <2>2
    <3> QED
      BY <3>4, <3>5
  <2>13. CASE found.cursor < e
    <3>1. \A p \in Nat : found.cursor <= p /\ p < e => ~Covers(rs, p)
      BY <2>2, <2>3, <2>12 DEF Covers
    <3>2. /\ WellFormed(Append(found.gaps, Span(found.cursor, e)))
          /\ \A p \in Nat : Covers(Append(found.gaps, Span(found.cursor, e)), p)
                              <=> Covers(found.gaps, p) \/ (found.cursor <= p /\ p < e)
      BY <2>11, <2>12, <2>13, AppendSound DEF GapsSoFar
    <3>3. \A p \in Nat : Covers(found.gaps, p) <=> s <= p /\ p < found.cursor /\ ~Covers(rs, p)
      BY <2>11 DEF GapsSoFar
    <3> QED
      BY <2>1, <2>12, <2>13, <3>1, <3>2, <3>3
  <2>14. CASE ~(found.cursor < e)
    <3>1. \A p \in Nat : Covers(found.gaps, p) => p < e
      <4>1. \A j \in 1 .. Len(found.gaps) : found.gaps[j].end \in Nat /\ found.gaps[j].end < e
        BY <2>11, SpansTyped DEF GapsSoFar, GapStates
      <4>2. DOMAIN found.gaps = 1 .. Len(found.gaps)
        BY <2>11 DEF GapStates
      <4> QED
        BY <4>1, <4>2 DEF Covers
    <3>2. \A p \in Nat : Covers(found.gaps, p) <=> s <= p /\ p < found.cursor /\ ~Covers(rs, p)
      BY <2>11 DEF GapsSoFar
    <3> QED
      BY <2>1, <2>11, <2>12, <2>14, <3>1, <3>2 DEF GapsSoFar
  <2> QED
    BY <2>13, <2>14
<1> QED
  BY <1>1, <1>2

---------------------------------------------------------------------------
(* The size of what a query finds *)

\* The sum of gaps_size, turn by turn.
SizeLoop(gs) == FoldLeft(LAMBDA n, g : n + (g.end - g.start), 0, gs)

LEMMA SizeTurns ==
  ASSUME NEW gs \in Seq(Spans)
  PROVE  \E h \in [0 .. Len(gs) -> Int] :
           /\ h[0] = 0 /\ h[Len(gs)] = SizeLoop(gs)
           /\ \A i \in 1 .. Len(gs) : h[i] = h[i - 1] + (gs[i].end - gs[i].start)
<1> DEFINE n == Len(gs)
           V == Int
           g == [i \in 1 .. n |-> [v \in V |-> v + (gs[i].end - gs[i].start)]]
           Eq(it) == it = [s \in SUBSET DOMAIN gs |->
                            IF s = {} THEN 0
                            ELSE it[s \ {Max(s)}] + (gs[Max(s)].end - gs[Max(s)].start)]
           it == CHOOSE it : Eq(it)
<1>1. n \in Nat /\ DOMAIN gs = 1 .. n
  OBVIOUS
<1>2. SizeLoop(gs) = it[1 .. n]
  BY <1>1 DEF SizeLoop, FoldLeft, MapThenFoldSet
<1>3. g \in Turns(n, V)
  BY <1>1, SpansTyped DEF Turns
<1>4. \A i \in 1 .. n : \A v \in V : g[i][v] = v + (gs[i].end - gs[i].start)
  OBVIOUS
<1> HIDE DEF g, V, n
<1>5. \A s \in SUBSET (1 .. n) : s # {} => Max(s) \in 1 .. n /\ s \ {Max(s)} \in SUBSET (1 .. n)
  BY <1>1, LargestIndex
<1>6. 0 \in V
  BY DEF V
<1>7. Eq(it)
  <2>1. PICK f : f \in FoldsOf(n, 0, g, V)
    BY <1>1, <1>3, <1>6, FoldExists
  <2>2. Eq(f)
    BY <1>1, <1>4, <1>5, <2>1 DEF FoldsOf
  <2> HIDE DEF Eq
  <2> QED BY <2>2
<1> HIDE DEF it
<1>8. PICK h \in RunsOf(n, 0, g, V) : h[n] = it[1 .. n]
  <2>1. it[{}] = 0
    BY <1>1, <1>7
  <2>2. \A s \in SUBSET (1 .. n) : s # {} /\ it[s \ {Max(s)}] \in V =>
           it[s] = g[Max(s)][it[s \ {Max(s)}]]
    BY <1>1, <1>4, <1>5, <1>7
  <2> HIDE DEF Eq
  <2>3. Unrolls(it, n, 0, g, V)
    BY <2>1, <2>2 DEF Unrolls
  <2> QED
    BY <1>1, <1>3, <1>6, <2>3, FoldTurns
<1>9. \A i \in 1 .. n : h[i - 1] \in V /\ h[i] = h[i - 1] + (gs[i].end - gs[i].start)
  BY <1>1, <1>4, <1>8 DEF RunsOf
<1> QED
  BY <1>2, <1>8, <1>9 DEF RunsOf, n, V

\* The addresses of the first i ranges.
PointsUpTo(gs, i) == {p \in Nat : \E j \in 1 .. i : gs[j].start <= p /\ p < gs[j].end}

LEMMA SizeExact ==
  ASSUME NEW gs, WellFormed(gs)
  PROVE  /\ IsFiniteSet({p \in Nat : Covers(gs, p)})
         /\ SizeLoop(gs) = Cardinality({p \in Nat : Covers(gs, p)})
<1> DEFINE n == Len(gs)
<1>1. /\ gs \in Seq(Spans) /\ n \in Nat /\ DOMAIN gs = 1 .. n
      /\ \A i \in 1 .. n : gs[i].start \in Nat /\ gs[i].end \in Nat /\ gs[i].start < gs[i].end
      /\ \A i, j \in 1 .. n : i < j => gs[i].end < gs[j].start
  BY Shape
<1>2. PICK h \in [0 .. n -> Int] :
        /\ h[0] = 0 /\ h[n] = SizeLoop(gs)
        /\ \A i \in 1 .. n : h[i] = h[i - 1] + (gs[i].end - gs[i].start)
  BY <1>1, SizeTurns
<1> HIDE DEF n
<1> DEFINE P(i) == IsFiniteSet(PointsUpTo(gs, i)) /\ h[i] = Cardinality(PointsUpTo(gs, i))
           T == {i \in 0 .. n : P(i)}
<1>3. 0 \in T
  <2>1. PointsUpTo(gs, 0) = {}
    BY DEF PointsUpTo
  <2>2. IsFiniteSet(PointsUpTo(gs, 0)) /\ Cardinality(PointsUpTo(gs, 0)) = 0
    BY <2>1, FS_EmptySet
  <2> QED
    BY <1>1, <1>2, <2>2
<1>4. ASSUME NEW i \in 1 .. n, i - 1 \in T
      PROVE  i \in T
  <2> DEFINE old == PointsUpTo(gs, i - 1)
             a == gs[i].start
             b == gs[i].end
             new == a .. b - 1
  <2>1. a \in Nat /\ b \in Nat /\ a < b /\ i - 1 \in 0 .. n /\ i \in 0 .. n
    BY <1>1
  <2>2. IsFiniteSet(old) /\ h[i - 1] = Cardinality(old)
    BY <1>4
  <2>3. IsFiniteSet(new) /\ Cardinality(new) = b - a
    <3>1. b - 1 \in Int /\ a \in Int
      BY <2>1
    <3>2. /\ IsFiniteSet(a .. (b - 1))
          /\ Cardinality(a .. (b - 1)) = IF a > b - 1 THEN 0 ELSE (b - 1) - a + 1
      BY <3>1, FS_Interval
    <3> QED
      BY <2>1, <3>2
  <2>4. old \cap new = {}
    <3> SUFFICES ASSUME NEW p \in old, p \in new PROVE FALSE
      OBVIOUS
    <3>1. PICK j \in 1 .. i - 1 : p < gs[j].end /\ p \in Nat
      BY DEF PointsUpTo
    <3>2. j \in 1 .. n /\ j < i /\ gs[j].end < a /\ gs[j].end \in Nat
      BY <1>1, <3>1
    <3> QED
      BY <2>1, <3>1, <3>2
  <2>5. PointsUpTo(gs, i) = old \cup new
    <3>1. \A j \in 1 .. i : j = i \/ j \in 1 .. i - 1
      OBVIOUS
    <3>2. i \in 1 .. i /\ \A j \in 1 .. i - 1 : j \in 1 .. i
      OBVIOUS
    <3>3. \A p : p \in PointsUpTo(gs, i) <=> p \in old \/ p \in new
      BY <2>1, <3>1, <3>2 DEF PointsUpTo
    <3> HIDE DEF old, new
    <3> QED
      BY <3>3
  <2>6. /\ IsFiniteSet(old \cup new)
        /\ Cardinality(old \cup new) = Cardinality(old) + Cardinality(new) - Cardinality(old \cap new)
    <3> HIDE DEF old, new
    <3> QED
      BY <2>2, <2>3, FS_Union
  <2>7. Cardinality(old \cup new) = Cardinality(old) + (b - a)
    <3>1. Cardinality(old \cap new) = 0
      BY <2>4, FS_EmptySet
    <3>2. Cardinality(old) \in Nat
      BY <2>2, FS_CardinalityType
    <3> HIDE DEF old, new
    <3> QED
      BY <2>1, <2>3, <2>6, <3>1, <3>2
  <2>8. h[i] = h[i - 1] + (b - a)
    BY <1>2
  <2> QED
    BY <2>1, <2>2, <2>5, <2>6, <2>7, <2>8
<1>5. P(n)
  <2>1. \A i \in 0 .. n : i \in T
    <3> HIDE DEF T
    <3> QED BY <1>1, <1>3, <1>4, CountUp
  <2>2. n \in T
    <3> HIDE DEF T
    <3> QED BY <1>1, <2>1
  <2> HIDE DEF P
  <2> QED
    BY <2>2
<1>6. PointsUpTo(gs, n) = {p \in Nat : Covers(gs, p)}
  BY <1>1 DEF PointsUpTo, Covers
<1> QED
  BY <1>2, <1>5, <1>6

\* The bytes of a span that no range has, and those that one has.
UncoveredIn(rs, s, e) == {p \in s .. e - 1 : ~Covers(rs, p)}
CoveredIn(rs, s, e) == {p \in s .. e - 1 : Covers(rs, p)}

LEMMA SpanSplit ==
  ASSUME NEW rs, NEW s \in Nat, NEW e \in Nat
  PROVE  /\ IsFiniteSet(CoveredIn(rs, s, e)) /\ IsFiniteSet(UncoveredIn(rs, s, e))
         /\ Cardinality(CoveredIn(rs, s, e)) \in Nat /\ Cardinality(UncoveredIn(rs, s, e)) \in Nat
         /\ Cardinality(CoveredIn(rs, s, e)) + Cardinality(UncoveredIn(rs, s, e))
              = IF s < e THEN e - s ELSE 0
<1> DEFINE A == CoveredIn(rs, s, e)
           B == UncoveredIn(rs, s, e)
           S == s .. (e - 1)
<1>1. IsFiniteSet(S) /\ Cardinality(S) = IF s < e THEN e - s ELSE 0
  <2>1. /\ IsFiniteSet(s .. (e - 1))
        /\ Cardinality(s .. (e - 1)) = IF s > e - 1 THEN 0 ELSE (e - 1) - s + 1
    BY FS_Interval
  <2> QED
    BY <2>1
<1>2. A \subseteq S /\ B \subseteq S /\ A \cap B = {} /\ A \cup B = S
  BY DEF CoveredIn, UncoveredIn
<1> HIDE DEF A, B, S
<1>3. IsFiniteSet(A) /\ IsFiniteSet(B)
  BY <1>1, <1>2, FS_Subset
<1>4. Cardinality(A) \in Nat /\ Cardinality(B) \in Nat
  BY <1>3, FS_CardinalityType
<1>5. Cardinality(A \cup B) = Cardinality(A) + Cardinality(B) - Cardinality(A \cap B)
  BY <1>3, FS_Union
<1>6. Cardinality(A \cap B) = 0
  BY <1>2, FS_EmptySet
<1>7. Cardinality(A) + Cardinality(B) = Cardinality(S)
  BY <1>2, <1>4, <1>5, <1>6
<1> QED
  BY <1>1, <1>3, <1>4, <1>7 DEF A, B

\* The gaps of a span add up to the bytes no range has.
LEMMA GapsSize ==
  ASSUME NEW rs, WellFormed(rs), NEW s \in Nat, NEW e \in Nat
  PROVE  SizeLoop(gaps_within(rs, s, e)) = Cardinality(UncoveredIn(rs, s, e))
<1> DEFINE gs == gaps_within(rs, s, e)
           P == {p \in Nat : Covers(gs, p)}
<1>1. /\ WellFormed(gs)
      /\ \A p \in Nat : Covers(gs, p) <=> s <= p /\ p < e /\ ~Covers(rs, p)
  BY GapsExact
<1> HIDE DEF gs
<1>2. SizeLoop(gs) = Cardinality(P)
  BY <1>1, SizeExact
<1>3. \A p : p \in P <=> p \in UncoveredIn(rs, s, e)
  BY <1>1 DEF UncoveredIn
<1> HIDE DEF P
<1>4. P = UncoveredIn(rs, s, e)
  BY <1>3
<1> QED
  BY <1>2, <1>4 DEF gs

---------------------------------------------------------------------------
(* Sorting regions *)

LEMMA RegionsTyped ==
  /\ \A r \in Regions : r.seg \in Nat /\ r.start \in Nat /\ r.endseg \in Nat /\ r.end \in Nat
  /\ \A a, b, c, d \in Nat :
       /\ Region(a, b, c, d) \in Regions
       /\ Region(a, b, c, d).seg = a /\ Region(a, b, c, d).start = b
       /\ Region(a, b, c, d).endseg = c /\ Region(a, b, c, d).end = d
  BY DEF Regions, Region

LEMMA RegionSeq ==
  ASSUME NEW rs \in Seq(Regions)
  PROVE  /\ Len(rs) \in Nat /\ DOMAIN rs = 1 .. Len(rs)
         /\ \A i \in 1 .. Len(rs) :
              /\ rs[i] \in Regions /\ rs[i].seg \in Nat /\ rs[i].start \in Nat
              /\ rs[i].endseg \in Nat /\ rs[i].end \in Nat
  BY RegionsTyped

\* Before is a strict order in which any two different regions compare.
LEMMA BeforeOrder ==
  /\ \A a, b \in Regions : Before(a, b) => ~Before(b, a)
  /\ \A a, b, c \in Regions : ~Before(b, a) /\ ~Before(c, b) => ~Before(c, a)
<1>1. ASSUME NEW a \in Regions, NEW b \in Regions, Before(a, b)
      PROVE  ~Before(b, a)
  <2>1. /\ a.seg \in Nat /\ a.start \in Nat /\ a.endseg \in Nat /\ a.end \in Nat
        /\ b.seg \in Nat /\ b.start \in Nat /\ b.endseg \in Nat /\ b.end \in Nat
    BY RegionsTyped
  <2> QED
    BY <1>1, <2>1 DEF Before
<1>2. ASSUME NEW a \in Regions, NEW b \in Regions, NEW c \in Regions,
             ~Before(b, a), ~Before(c, b)
      PROVE  ~Before(c, a)
  <2>1. /\ a.seg \in Nat /\ a.start \in Nat /\ a.endseg \in Nat /\ a.end \in Nat
        /\ b.seg \in Nat /\ b.start \in Nat /\ b.endseg \in Nat /\ b.end \in Nat
        /\ c.seg \in Nat /\ c.start \in Nat /\ c.endseg \in Nat /\ c.end \in Nat
    BY RegionsTyped
  <2> QED
    BY <1>2, <2>1 DEF Before
<1> QED
  BY <1>1, <1>2

\* Two regions in order, as to their segments and starts.
LEMMA InOrder ==
  ASSUME NEW a \in Regions, NEW b \in Regions, ~Before(b, a)
  PROVE  a.seg < b.seg \/ (a.seg = b.seg /\ a.start <= b.start)
<1>1. a.seg \in Nat /\ a.start \in Nat /\ b.seg \in Nat /\ b.start \in Nat
  BY RegionsTyped
<1> QED
  BY <1>1 DEF Before

Ordered(rs) == \A k, l \in 1 .. Len(rs) : k < l => ~Before(rs[l], rs[k])

LEMMA PlacedSound ==
  ASSUME NEW t \in Seq(Regions), Ordered(t), NEW r \in Regions
  PROVE  /\ Placed(t, r) \in Seq(Regions) /\ Len(Placed(t, r)) = Len(t) + 1
         /\ Ordered(Placed(t, r))
         /\ \A k \in 1 .. Len(t) + 1 :
              Placed(t, r)[k] = r \/ \E i \in 1 .. Len(t) : Placed(t, r)[k] = t[i]
         /\ \E k \in 1 .. Len(t) + 1 : Placed(t, r)[k] = r
         /\ \A i \in 1 .. Len(t) : \E k \in 1 .. Len(t) + 1 : Placed(t, r)[k] = t[i]
<1> DEFINE n == Len(t)
           A == {i \in DOMAIN t : ~Before(r, t[i])}
           k == partition_point(n, A)
           new == Placed(t, r)
<1>1. n \in Nat /\ DOMAIN t = 1 .. n /\ \A i \in 1 .. n : t[i] \in Regions
  BY RegionSeq
<1>2. k \in 0 .. n /\ \A i \in 1 .. n : ~Before(r, t[i]) <=> i <= k
  <2>1. \A i, j \in 1 .. n : i < j /\ j \in A => i \in A
    BY <1>1, BeforeOrder DEF Ordered
  <2>2. A \subseteq 1 .. n
    BY <1>1
  <2>3. \A i \in 1 .. n : i \in A <=> ~Before(r, t[i])
    BY <1>1
  <2> HIDE DEF A, n
  <2> QED
    BY <1>1, <2>1, <2>2, <2>3, PartitionPoint
<1>3. new = Spliced(t, k, k, r)
  BY DEF Placed
<1> HIDE DEF k
<1>4. new = [i \in 1 .. n + 1 |-> IF i <= k THEN t[i] ELSE IF i = k + 1 THEN r ELSE t[i - 1]]
  <2>1. k + 1 + (n - k) = n + 1
    BY <1>1, <1>2
  <2>2. \A i \in 1 .. n + 1 : i - k - 1 + k = i - 1
    BY <1>1, <1>2
  <2> QED
    BY <1>3, <2>1, <2>2 DEF Spliced
<1> HIDE DEF new
<1>5. /\ \A i \in 1 .. k : i \in 1 .. n + 1 /\ i \in 1 .. n /\ new[i] = t[i]
      /\ k + 1 \in 1 .. n + 1 /\ new[k + 1] = r
      /\ \A i \in k + 2 .. n + 1 : i - 1 \in 1 .. n /\ new[i] = t[i - 1] /\ i - 1 > k
  BY <1>1, <1>2, <1>4
<1>6. \A i \in 1 .. n + 1 : i \in 1 .. k \/ i = k + 1 \/ i \in k + 2 .. n + 1
  BY <1>1, <1>2
<1>7. new \in Seq(Regions) /\ Len(new) = n + 1
  <2>1. \A i \in 1 .. n + 1 : new[i] \in Regions
    BY <1>1, <1>5, <1>6
  <2>2. n + 1 \in Nat /\ new = [i \in 1 .. n + 1 |-> new[i]]
    BY <1>1, <1>4
  <2> QED
    BY <2>1, <2>2
<1>8. Ordered(new)
  <2> SUFFICES ASSUME NEW i \in 1 .. n + 1, NEW j \in 1 .. n + 1, i < j
               PROVE  ~Before(new[j], new[i])
    BY <1>7 DEF Ordered
  <2>1. CASE i \in 1 .. k /\ j \in 1 .. k
    BY <2>1, <1>5 DEF Ordered
  <2>2. CASE i \in 1 .. k /\ j = k + 1
    BY <2>2, <1>2, <1>5
  <2>3. CASE i \in 1 .. k /\ j \in k + 2 .. n + 1
    <3>1. i < j - 1 /\ j - 1 \in 1 .. n /\ i \in 1 .. n
      BY <2>3, <1>1, <1>2, <1>5
    <3> QED
      BY <2>3, <3>1, <1>5 DEF Ordered
  <2>4. CASE i = k + 1 /\ j \in k + 2 .. n + 1
    <3>1. j - 1 \in 1 .. n /\ Before(r, t[j - 1])
      <4>1. j - 1 \in 1 .. n /\ ~(j - 1 <= k)
        BY <2>4, <1>2, <1>5
      <4> QED
        BY <4>1, <1>2
    <3> QED
      BY <2>4, <3>1, <1>1, <1>5, BeforeOrder
  <2>5. CASE i \in k + 2 .. n + 1 /\ j \in k + 2 .. n + 1
    <3>1. i - 1 < j - 1 /\ i - 1 \in 1 .. n /\ j - 1 \in 1 .. n
      BY <2>5, <1>5
    <3>2. ~Before(t[j - 1], t[i - 1])
      BY <3>1 DEF Ordered
    <3> QED
      BY <2>5, <3>2, <1>5
  <2> QED
    BY <1>2, <1>6, <2>1, <2>2, <2>3, <2>4, <2>5
<1>9. \A i \in 1 .. n + 1 : new[i] = r \/ \E j \in 1 .. n : new[i] = t[j]
  BY <1>5, <1>6
<1>10. ASSUME NEW i \in 1 .. n
       PROVE  \E j \in 1 .. n + 1 : new[j] = t[i]
  <2>1. CASE i <= k
    <3>1. i \in 1 .. k
      BY <2>1, <1>2
    <3> QED
      BY <3>1, <1>5
  <2>2. CASE ~(i <= k)
    <3>1. i + 1 \in k + 2 .. n + 1 /\ i + 1 \in 1 .. n + 1 /\ (i + 1) - 1 = i
      BY <2>2, <1>1, <1>2
    <3> QED
      BY <3>1, <1>5
  <2> QED
    BY <2>1, <2>2
<1> QED
  BY <1>5, <1>7, <1>8, <1>9, <1>10 DEF new

LEMMA SortTurns ==
  ASSUME NEW rs \in Seq(Regions)
  PROVE  \E h \in [0 .. Len(rs) -> {t \in Seq(Regions) : Ordered(t)}] :
           /\ h[0] = <<>> /\ h[Len(rs)] = Sort(rs)
           /\ \A i \in 1 .. Len(rs) : h[i] = Placed(h[i - 1], rs[i])
<1> DEFINE n == Len(rs)
           V == {t \in Seq(Regions) : Ordered(t)}
           g == [i \in 1 .. n |-> [v \in V |-> Placed(v, rs[i])]]
           Eq(it) == it = [s \in SUBSET DOMAIN rs |->
                            IF s = {} THEN <<>>
                            ELSE Placed(it[s \ {Max(s)}], rs[Max(s)])]
           it == CHOOSE it : Eq(it)
<1>1. n \in Nat /\ DOMAIN rs = 1 .. n /\ \A i \in 1 .. n : rs[i] \in Regions
  BY RegionSeq
<1>2. Sort(rs) = it[1 .. n]
  BY <1>1 DEF Sort, FoldLeft, MapThenFoldSet
<1>3. \A v \in V, r \in Regions : Placed(v, r) \in V
  BY PlacedSound
<1> HIDE DEF V
<1>4. g \in Turns(n, V)
  BY <1>1, <1>3 DEF Turns
<1>5. \A i \in 1 .. n : \A v \in V : g[i][v] = Placed(v, rs[i])
  OBVIOUS
<1> HIDE DEF g, n
<1>6. \A s \in SUBSET (1 .. n) : s # {} => Max(s) \in 1 .. n /\ s \ {Max(s)} \in SUBSET (1 .. n)
  BY <1>1, LargestIndex
<1>7. <<>> \in V
  <2>1. <<>> \in Seq(Regions) /\ Len(<<>>) = 0
    OBVIOUS
  <2> QED
    BY <2>1 DEF V, Ordered
<1>8. Eq(it)
  <2>1. PICK f : f \in FoldsOf(n, <<>>, g, V)
    BY <1>1, <1>4, <1>7, FoldExists
  <2>2. Eq(f)
    BY <1>1, <1>5, <1>6, <2>1 DEF FoldsOf
  <2> HIDE DEF Eq
  <2> QED BY <2>2
<1> HIDE DEF it
<1>9. PICK h \in RunsOf(n, <<>>, g, V) : h[n] = it[1 .. n]
  <2>1. it[{}] = <<>>
    BY <1>1, <1>8
  <2>2. \A s \in SUBSET (1 .. n) : s # {} /\ it[s \ {Max(s)}] \in V =>
           it[s] = g[Max(s)][it[s \ {Max(s)}]]
    BY <1>1, <1>5, <1>6, <1>8
  <2> HIDE DEF Eq
  <2>3. Unrolls(it, n, <<>>, g, V)
    BY <2>1, <2>2 DEF Unrolls
  <2> QED
    BY <1>1, <1>4, <1>7, <2>3, FoldTurns
<1>10. \A i \in 1 .. n : h[i - 1] \in V /\ h[i] = Placed(h[i - 1], rs[i])
  BY <1>1, <1>5, <1>9 DEF RunsOf
<1> QED
  BY <1>2, <1>9, <1>10 DEF RunsOf, n, V

\* Sort returns the same regions, in order.
LEMMA SortSound ==
  ASSUME NEW rs \in Seq(Regions)
  PROVE  /\ Sort(rs) \in Seq(Regions) /\ Len(Sort(rs)) = Len(rs) /\ Ordered(Sort(rs))
         /\ \A k \in 1 .. Len(rs) : \E i \in 1 .. Len(rs) : Sort(rs)[k] = rs[i]
         /\ \A i \in 1 .. Len(rs) : \E k \in 1 .. Len(rs) : Sort(rs)[k] = rs[i]
<1> DEFINE n == Len(rs)
           V == {t \in Seq(Regions) : Ordered(t)}
<1>1. n \in Nat /\ \A i \in 1 .. n : rs[i] \in Regions
  BY RegionSeq
<1>2. PICK h \in [0 .. n -> V] : /\ h[0] = <<>> /\ h[n] = Sort(rs)
                                 /\ \A i \in 1 .. n : h[i] = Placed(h[i - 1], rs[i])
  BY SortTurns
<1> HIDE DEF n
<1> DEFINE P(i) == /\ Len(h[i]) = i
                   /\ \A k \in 1 .. i : \E j \in 1 .. i : h[i][k] = rs[j]
                   /\ \A j \in 1 .. i : \E k \in 1 .. i : h[i][k] = rs[j]
           T == {i \in 0 .. n : P(i)}
<1>3. 0 \in T
  BY <1>1, <1>2
<1>4. ASSUME NEW i \in 1 .. n, i - 1 \in T
      PROVE  i \in T
  <2> DEFINE t == h[i - 1]
  <2>1. t \in Seq(Regions) /\ Ordered(t) /\ Len(t) = i - 1 /\ i - 1 \in Nat
    <3>1. i - 1 \in 0 .. n /\ Len(h[i - 1]) = i - 1
      BY <1>4
    <3>2. h[i - 1] \in V
      BY <1>2, <3>1
    <3> QED
      BY <3>1, <3>2
  <2>2. /\ \A k \in 1 .. i - 1 : \E j \in 1 .. i - 1 : t[k] = rs[j]
        /\ \A j \in 1 .. i - 1 : \E k \in 1 .. i - 1 : t[k] = rs[j]
    BY <1>4
  <2>3. h[i] = Placed(t, rs[i]) /\ rs[i] \in Regions
    BY <1>1, <1>2
  <2> HIDE DEF t
  <2>4. /\ Len(h[i]) = Len(t) + 1
        /\ \A k \in 1 .. Len(t) + 1 : h[i][k] = rs[i] \/ \E j \in 1 .. Len(t) : h[i][k] = t[j]
        /\ \E k \in 1 .. Len(t) + 1 : h[i][k] = rs[i]
        /\ \A j \in 1 .. Len(t) : \E k \in 1 .. Len(t) + 1 : h[i][k] = t[j]
    <3>1. /\ Len(Placed(t, rs[i])) = Len(t) + 1
          /\ \A k \in 1 .. Len(t) + 1 :
               \/ Placed(t, rs[i])[k] = rs[i]
               \/ \E j \in 1 .. Len(t) : Placed(t, rs[i])[k] = t[j]
          /\ \E k \in 1 .. Len(t) + 1 : Placed(t, rs[i])[k] = rs[i]
          /\ \A j \in 1 .. Len(t) : \E k \in 1 .. Len(t) + 1 : Placed(t, rs[i])[k] = t[j]
      BY <2>1, <2>3, PlacedSound
    <3> QED
      BY <2>3, <3>1
  <2>5. Len(t) + 1 = i
    BY <2>1
  <2>6. i \in 1 .. i /\ \A j \in 1 .. i - 1 : j \in 1 .. i
    OBVIOUS
  <2>7. \A k \in 1 .. i : \E j \in 1 .. i : h[i][k] = rs[j]
    <3> SUFFICES ASSUME NEW k \in 1 .. i PROVE \E j \in 1 .. i : h[i][k] = rs[j]
      OBVIOUS
    <3>1. h[i][k] = rs[i] \/ \E j \in 1 .. i - 1 : h[i][k] = t[j]
      BY <2>1, <2>4, <2>5
    <3>2. CASE h[i][k] = rs[i]
      BY <3>2, <2>6
    <3>3. ASSUME NEW j \in 1 .. i - 1, h[i][k] = t[j]
          PROVE  \E l \in 1 .. i : h[i][k] = rs[l]
      BY <3>3, <2>2, <2>6
    <3> QED
      BY <3>1, <3>2, <3>3
  <2>8. \A j \in 1 .. i : j = i \/ j \in 1 .. i - 1
    OBVIOUS
  <2>9. \A j \in 1 .. i : \E k \in 1 .. i : h[i][k] = rs[j]
    <3> SUFFICES ASSUME NEW j \in 1 .. i PROVE \E k \in 1 .. i : h[i][k] = rs[j]
      OBVIOUS
    <3>1. CASE j = i
      BY <3>1, <2>4, <2>5
    <3>2. CASE j \in 1 .. i - 1
      <4>1. PICK m \in 1 .. i - 1 : t[m] = rs[j]
        BY <3>2, <2>2
      <4>2. m \in 1 .. Len(t)
        BY <2>1
      <4>3. \E k \in 1 .. i : h[i][k] = t[m]
        BY <4>2, <2>4, <2>5
      <4> QED
        BY <4>1, <4>3
    <3> QED
      BY <2>8, <3>1, <3>2
  <2> QED
    BY <1>1, <2>4, <2>5, <2>7, <2>9
<1>5. P(n)
  <2>1. \A i \in 0 .. n : i \in T
    <3> HIDE DEF T
    <3> QED BY <1>1, <1>3, <1>4, CountUp
  <2>2. n \in T
    <3> HIDE DEF T
    <3> QED BY <1>1, <2>1
  <2> HIDE DEF P
  <2> QED
    BY <2>2
<1>6. h[n] \in V
  BY <1>1, <1>2
<1> QED
  BY <1>2, <1>5, <1>6 DEF n

---------------------------------------------------------------------------
(* Func::effective_regions *)

\* A region of rs has the address; one of the first i does.
HasUpTo(rs, i, seg, p) ==
  \E j \in 1 .. i : rs[j].seg = seg /\ rs[j].start <= p /\ p < rs[j].end
Own(rs, seg, p) == HasUpTo(rs, Len(rs), seg, p)

\* Ascending by segment and, inside one, never touching.
RegionsApart(rs) ==
  \A k, l \in 1 .. Len(rs) : k < l =>
    rs[k].seg < rs[l].seg \/ (rs[k].seg = rs[l].seg /\ rs[k].end < rs[l].start)

\* What the merge loop has made of the first i regions.
MergedSound(m, t, i) ==
  /\ RegionsApart(m)
  /\ i > 0 => m # <<>>
  /\ \A k \in 1 .. Len(m) : \E j \in 1 .. i : t[j].seg = m[k].seg /\ t[j].start = m[k].start
  /\ \A seg, p \in Nat : Own(m, seg, p) <=> HasUpTo(t, i, seg, p)

\* The three outcomes of a turn.
LEMMA MergeOutcomes ==
  ASSUME NEW m \in Seq(Regions), NEW r \in Regions
  PROVE  LET n == Len(m) IN
         \/ /\ n > 0 /\ m[n].seg = r.seg /\ r.start <= m[n].end /\ r.end > m[n].end
            /\ Merge(m, r) \in Seq(Regions) /\ Len(Merge(m, r)) = n
            /\ \A k \in 1 .. n - 1 : Merge(m, r)[k] = m[k]
            /\ Merge(m, r)[n] = Region(r.seg, m[n].start, r.endseg, r.end)
         \/ /\ n > 0 /\ m[n].seg = r.seg /\ r.start <= m[n].end /\ ~(r.end > m[n].end)
            /\ Merge(m, r) = m
         \/ /\ n > 0 => ~(m[n].seg = r.seg /\ r.start <= m[n].end)
            /\ Merge(m, r) \in Seq(Regions) /\ Len(Merge(m, r)) = n + 1
            /\ \A k \in 1 .. n : Merge(m, r)[k] = m[k]
            /\ Merge(m, r)[n + 1] = r
<1> DEFINE n == Len(m)
           x == Region(r.seg, m[n].start, r.endseg, r.end)
<1>1. n \in Nat /\ DOMAIN m = 1 .. n /\ \A i \in 1 .. n : m[i] \in Regions
  BY RegionSeq
<1>2. m # <<>> <=> n > 0
  BY <1>1
<1>3. Last(m) = m[n]
  BY DEF Last
<1>4. CASE n > 0 /\ m[n].seg = r.seg /\ r.start <= m[n].end
  <2>3. n \in 1 .. n /\ m[n] \in Regions
    BY <1>1, <1>4
  <2>1. CASE r.end > m[n].end
    <3>1. x \in Regions
      BY <2>3, RegionsTyped
    <3>2. Merge(m, r) = Append(Front(m), x)
      BY <1>2, <1>3, <1>4, <2>1 DEF Merge
    <3> HIDE DEF x
    <3>3. Front(m) \in Seq(Regions) /\ Len(Front(m)) = n - 1 /\ \A k \in 1 .. n - 1 : Front(m)[k] = m[k]
      BY <1>1, <1>4 DEF Front
    <3>4. /\ Append(Front(m), x) \in Seq(Regions) /\ Len(Append(Front(m), x)) = n
          /\ \A k \in 1 .. n - 1 : Append(Front(m), x)[k] = m[k]
          /\ Append(Front(m), x)[n] = x
      <4> DEFINE front == Front(m)
      <4>1. n - 1 \in Nat /\ (n - 1) + 1 = n /\ Len(front) = n - 1 /\ front \in Seq(Regions)
        BY <1>1, <1>4, <3>3
      <4>2. \A k \in 1 .. n - 1 : front[k] = m[k]
        BY <3>3
      <4> HIDE DEF front, n
      <4>3. /\ Append(front, x) \in Seq(Regions) /\ Len(Append(front, x)) = n
            /\ \A k \in 1 .. n - 1 : Append(front, x)[k] = front[k]
            /\ Append(front, x)[n] = x
        BY <3>1, <4>1
      <4> QED
        BY <4>2, <4>3 DEF front, n
    <3> QED
      BY <1>4, <2>1, <3>2, <3>4 DEF x
  <2>2. CASE ~(r.end > m[n].end)
    <3>1. Merge(m, r) = m
      BY <1>2, <1>3, <1>4, <2>2 DEF Merge
    <3> QED
      BY <1>4, <2>2, <3>1
  <2> QED
    BY <2>1, <2>2
<1>5. CASE ~(n > 0 /\ m[n].seg = r.seg /\ r.start <= m[n].end)
  <2>1. Merge(m, r) = Append(m, r)
    BY <1>2, <1>3, <1>5 DEF Merge
  <2>2. /\ Append(m, r) \in Seq(Regions) /\ Len(Append(m, r)) = n + 1
        /\ \A k \in 1 .. n : Append(m, r)[k] = m[k]
        /\ Append(m, r)[n + 1] = r
    BY <1>1
  <2> QED
    BY <1>5, <2>1, <2>2
<1> QED
  BY <1>4, <1>5

LEMMA MergeStep ==
  ASSUME NEW t \in Seq(Regions), Ordered(t), NEW i \in 1 .. Len(t),
         NEW m \in Seq(Regions), MergedSound(m, t, i - 1)
  PROVE  Merge(m, t[i]) \in Seq(Regions) /\ MergedSound(Merge(m, t[i]), t, i)
<1> DEFINE r == t[i]
           n == Len(m)
           new == Merge(m, r)
<1>1. /\ n \in Nat /\ DOMAIN m = 1 .. n
      /\ \A k \in 1 .. n : m[k] \in Regions /\ m[k].seg \in Nat /\ m[k].start \in Nat /\ m[k].end \in Nat
  BY RegionSeq
<1>2. /\ Len(t) \in Nat /\ \A j \in 1 .. Len(t) : t[j] \in Regions
      /\ r \in Regions /\ r.seg \in Nat /\ r.start \in Nat /\ r.endseg \in Nat /\ r.end \in Nat
  BY RegionSeq
<1>3. i \in 1 .. i /\ \A j \in 1 .. i - 1 : j \in 1 .. i /\ j \in 1 .. Len(t) /\ j < i
  BY <1>2
<1>4. \A j \in 1 .. i : j = i \/ j \in 1 .. i - 1
  OBVIOUS
\* The new region starts no sooner than any merged one.
<1>5. ASSUME NEW k \in 1 .. n
      PROVE  m[k].seg < r.seg \/ (m[k].seg = r.seg /\ m[k].start <= r.start)
  <2>1. PICK j \in 1 .. i - 1 : t[j].seg = m[k].seg /\ t[j].start = m[k].start
    BY DEF MergedSound
  <2>2. ~Before(r, t[j]) /\ t[j] \in Regions
    BY <1>2, <1>3 DEF Ordered
  <2> HIDE DEF r
  <2>3. t[j].seg < r.seg \/ (t[j].seg = r.seg /\ t[j].start <= r.start)
    BY <1>2, <2>2, InOrder
  <2> QED
    BY <2>1, <2>3
<1>6. \A seg, p \in Nat :
        HasUpTo(t, i, seg, p) <=> \/ Own(m, seg, p)
                                  \/ r.seg = seg /\ r.start <= p /\ p < r.end
  BY <1>3, <1>4 DEF MergedSound, HasUpTo
<1>7. /\ RegionsApart(m)
      /\ \A k \in 1 .. n : \E j \in 1 .. i - 1 : t[j].seg = m[k].seg /\ t[j].start = m[k].start
  BY DEF MergedSound
<1>8. i > 0
  OBVIOUS
<1> HIDE DEF r
<1>9. CASE /\ n > 0 /\ m[n].seg = r.seg /\ r.start <= m[n].end /\ r.end > m[n].end
           /\ new \in Seq(Regions) /\ Len(new) = n
           /\ \A k \in 1 .. n - 1 : new[k] = m[k]
           /\ new[n] = Region(r.seg, m[n].start, r.endseg, r.end)
  <2> HIDE DEF new
  <2>1. n \in 1 .. n /\ \A k \in 1 .. n : k = n \/ (k \in 1 .. n - 1 /\ new[k] = m[k])
    <3>1. n \in Nat /\ n > 0 /\ \A k \in 1 .. n - 1 : new[k] = m[k]
      BY <1>1, <1>9
    <3> HIDE DEF n
    <3>2. \A k \in 1 .. n : k = n \/ k \in 1 .. n - 1
      BY <3>1
    <3> QED
      BY <3>1, <3>2
  <2>2. new[n].seg = m[n].seg /\ new[n].start = m[n].start /\ new[n].end = r.end
    <3>1. m[n].start \in Nat
      BY <1>1, <2>1
    <3> QED
      <4>1. /\ new[n] = Region(r.seg, m[n].start, r.endseg, r.end)
            /\ m[n].seg = r.seg
        BY <1>9
      <4> QED
        BY <4>1 DEF Region
  <2>3. m[n].start <= r.start /\ r.seg = m[n].seg
    <3>1. m[n].seg < r.seg \/ (m[n].seg = r.seg /\ m[n].start <= r.start)
      BY <1>5, <2>1
    <3>2. m[n].seg = r.seg
      BY <1>9
    <3> QED
      BY <1>2, <3>1, <3>2
  <2>10. /\ m[n].start \in Nat /\ m[n].end \in Nat
         /\ r.start <= m[n].end /\ r.end > m[n].end
    BY <1>1, <1>9, <2>1
  <2>4. RegionsApart(new)
    <3> SUFFICES ASSUME NEW k \in 1 .. n, NEW l \in 1 .. n, k < l
                 PROVE  new[k].seg < new[l].seg \/ (new[k].seg = new[l].seg /\ new[k].end < new[l].start)
      BY <1>9 DEF RegionsApart
    <3>1. k \in 1 .. n - 1 /\ new[k] = m[k]
      BY <1>1, <1>9
    <3>2. new[l].seg = m[l].seg /\ new[l].start = m[l].start
      BY <2>1, <2>2
    <3>3. m[k].seg < m[l].seg \/ (m[k].seg = m[l].seg /\ m[k].end < m[l].start)
      BY <1>7 DEF RegionsApart
    <3> QED
      BY <3>1, <3>2, <3>3
  <2>5. \A k \in 1 .. n : \E j \in 1 .. i : t[j].seg = new[k].seg /\ t[j].start = new[k].start
    <3> SUFFICES ASSUME NEW k \in 1 .. n
                 PROVE  \E j \in 1 .. i : t[j].seg = new[k].seg /\ t[j].start = new[k].start
      OBVIOUS
    <3>1. new[k].seg = m[k].seg /\ new[k].start = m[k].start
      BY <2>1, <2>2
    <3>2. PICK j \in 1 .. i - 1 : t[j].seg = m[k].seg /\ t[j].start = m[k].start
      BY <1>7
    <3> QED
      BY <1>3, <3>1, <3>2
  <2>6. ASSUME NEW seg \in Nat, NEW p \in Nat
        PROVE  Own(new, seg, p) <=> \/ Own(m, seg, p)
                                    \/ r.seg = seg /\ r.start <= p /\ p < r.end
    <3>1. ASSUME Own(new, seg, p)
          PROVE  Own(m, seg, p) \/ (r.seg = seg /\ r.start <= p /\ p < r.end)
      <4>1. PICK k \in 1 .. n : new[k].seg = seg /\ new[k].start <= p /\ p < new[k].end
        BY <1>9, <3>1 DEF Own, HasUpTo
      <4>2. CASE k = n
        <5>1. m[n].seg = seg /\ m[n].start <= p /\ p < r.end
          BY <4>1, <4>2, <2>2
        <5>2. CASE p < m[n].end
          BY <5>1, <5>2, <2>1 DEF Own, HasUpTo
        <5>3. CASE ~(p < m[n].end)
          <6>1. r.start <= p
            BY <5>3, <1>2, <2>10
          <6> QED
            BY <5>1, <6>1, <2>3
        <5> QED
          BY <5>2, <5>3
      <4>3. CASE k \in 1 .. n - 1
        BY <4>1, <4>3, <1>9 DEF Own, HasUpTo
      <4> QED
        BY <2>1, <4>2, <4>3
    <3>2. ASSUME Own(m, seg, p)
          PROVE  Own(new, seg, p)
      <4>1. PICK k \in 1 .. n : m[k].seg = seg /\ m[k].start <= p /\ p < m[k].end
        BY <3>2 DEF Own, HasUpTo
      <4>2. CASE k = n
        <5>1. new[n].seg = seg /\ new[n].start <= p /\ p < new[n].end
          BY <4>1, <4>2, <1>1, <1>2, <1>9, <2>1, <2>2
        <5> QED
          BY <5>1, <1>9, <2>1 DEF Own, HasUpTo
      <4>3. CASE k \in 1 .. n - 1
        BY <4>1, <4>3, <1>9 DEF Own, HasUpTo
      <4> QED
        BY <2>1, <4>2, <4>3
    <3>3. ASSUME r.seg = seg, r.start <= p, p < r.end
          PROVE  Own(new, seg, p)
      <4>1. new[n].seg = seg /\ new[n].start <= p /\ p < new[n].end
        BY <3>3, <1>2, <2>2, <2>3, <2>10
      <4> QED
        BY <4>1, <1>9, <2>1 DEF Own, HasUpTo
    <3> QED
      BY <3>1, <3>2, <3>3
  <2>7. new # <<>>
    BY <1>1, <1>9
  <2>8. \A seg, p \in Nat : Own(new, seg, p) <=> HasUpTo(t, i, seg, p)
    BY <1>6, <2>6
  <2>9. MergedSound(new, t, i)
    BY <1>9, <2>4, <2>5, <2>7, <2>8 DEF MergedSound
  <2> QED
    BY <1>9, <2>9 DEF new, r
<1>10. CASE /\ n > 0 /\ m[n].seg = r.seg /\ r.start <= m[n].end /\ ~(r.end > m[n].end)
            /\ new = m
  <2> HIDE DEF new
  <2>1. n \in 1 .. n
    BY <1>1, <1>10
  <2>2. ASSUME NEW seg \in Nat, NEW p \in Nat, r.seg = seg, r.start <= p, p < r.end
        PROVE  Own(m, seg, p)
    <3>1. m[n].seg = seg /\ m[n].start <= p /\ p < m[n].end
      <4>1. m[n].start <= r.start
        BY <1>1, <1>2, <1>5, <1>10, <2>1
      <4>2. m[n].start \in Nat /\ m[n].end \in Nat
        BY <1>1, <2>1
      <4> QED
        BY <4>1, <4>2, <1>2, <1>10, <2>2
    <3> QED
      BY <3>1, <2>1 DEF Own, HasUpTo
  <2>3. \A seg, p \in Nat : Own(m, seg, p) <=> HasUpTo(t, i, seg, p)
    BY <1>6, <2>2
  <2>4. \A k \in 1 .. n : \E j \in 1 .. i : t[j].seg = m[k].seg /\ t[j].start = m[k].start
    BY <1>3, <1>7
  <2>5. m # <<>>
    BY <1>1, <1>10
  <2>6. MergedSound(m, t, i)
    BY <1>7, <2>3, <2>4, <2>5 DEF MergedSound
  <2> QED
    BY <1>10, <2>6 DEF new, r
<1>11. CASE /\ n > 0 => ~(m[n].seg = r.seg /\ r.start <= m[n].end)
            /\ new \in Seq(Regions) /\ Len(new) = n + 1
            /\ \A k \in 1 .. n : new[k] = m[k]
            /\ new[n + 1] = r
  <2> HIDE DEF new
  <2>1. /\ n + 1 \in 1 .. n + 1 /\ \A k \in 1 .. n + 1 : k = n + 1 \/ k \in 1 .. n
        /\ \A k \in 1 .. n : k \in 1 .. n + 1
    BY <1>1
  <2>2. ASSUME NEW k \in 1 .. n
        PROVE  m[k].seg < r.seg \/ (m[k].seg = r.seg /\ m[k].end < r.start)
    <3>1. n \in 1 .. n
      BY <1>1
    <3>2. CASE m[n].seg < r.seg
      <4>1. k = n \/ m[k].seg <= m[n].seg
        <5>1. k = n \/ k < n
          <6>1. n \in Nat
            BY <1>1
          <6> HIDE DEF n
          <6> QED
            BY <6>1
        <5>2. k < n => m[k].seg < m[n].seg \/ m[k].seg = m[n].seg
          BY <1>7, <3>1 DEF RegionsApart
        <5>3. m[k].seg \in Nat /\ m[n].seg \in Nat
          BY <3>1, <1>1
        <5> QED
          BY <5>1, <5>2, <5>3
      <4>2. m[k].seg \in Nat /\ m[n].seg \in Nat
        BY <3>1, <1>1
      <4> QED
        BY <4>1, <4>2, <3>2, <1>2
    <3>3. CASE ~(m[n].seg < r.seg)
      <4>1. m[n].seg = r.seg /\ m[n].end < r.start
        <5>1. m[n].seg = r.seg
          BY <3>1, <3>3, <1>5
        <5> QED
          BY <5>1, <3>1, <1>1, <1>2, <1>11
      <4>2. k = n \/ (k < n /\ (m[k].seg < m[n].seg \/ (m[k].seg = m[n].seg /\ m[k].end < m[n].start)))
        <5>1. k = n \/ k < n
          <6>1. n \in Nat
            BY <1>1
          <6> HIDE DEF n
          <6> QED
            BY <6>1
        <5>2. k < n => (m[k].seg < m[n].seg \/ (m[k].seg = m[n].seg /\ m[k].end < m[n].start))
          BY <1>7, <3>1 DEF RegionsApart
        <5> QED
          BY <5>1, <5>2
      <4>3. m[n].start <= r.start
        BY <4>1, <3>1, <1>1, <1>2, <1>5
      <4>4. m[k].end \in Nat /\ m[n].start \in Nat /\ m[k].seg \in Nat
        BY <3>1, <1>1
      <4> QED
        BY <4>1, <4>2, <4>3, <4>4, <1>2
    <3> QED
      BY <3>2, <3>3
  <2>3. RegionsApart(new)
    <3> SUFFICES ASSUME NEW k \in 1 .. n + 1, NEW l \in 1 .. n + 1, k < l
                 PROVE  new[k].seg < new[l].seg \/ (new[k].seg = new[l].seg /\ new[k].end < new[l].start)
      BY <1>11 DEF RegionsApart
    <3>1. k \in 1 .. n /\ new[k] = m[k]
      BY <1>1, <1>11
    <3>2. CASE l = n + 1
      BY <1>11, <2>2, <3>1, <3>2
    <3>3. CASE l \in 1 .. n
      BY <1>7, <1>11, <3>1, <3>3 DEF RegionsApart
    <3> QED
      BY <2>1, <3>2, <3>3
  <2>4. \A k \in 1 .. n + 1 : \E j \in 1 .. i : t[j].seg = new[k].seg /\ t[j].start = new[k].start
    <3> SUFFICES ASSUME NEW k \in 1 .. n + 1
                 PROVE  \E j \in 1 .. i : t[j].seg = new[k].seg /\ t[j].start = new[k].start
      OBVIOUS
    <3>1. CASE k = n + 1
      BY <3>1, <1>3, <1>11 DEF r
    <3>2. CASE k \in 1 .. n
      BY <3>2, <1>3, <1>7, <1>11
    <3> QED
      BY <2>1, <3>1, <3>2
  <2>5. ASSUME NEW seg \in Nat, NEW p \in Nat
        PROVE  Own(new, seg, p) <=> \/ Own(m, seg, p)
                                    \/ r.seg = seg /\ r.start <= p /\ p < r.end
    BY <1>11, <2>1 DEF Own, HasUpTo
  <2>6. \A seg, p \in Nat : Own(new, seg, p) <=> HasUpTo(t, i, seg, p)
    BY <1>6, <2>5
  <2>7. new # <<>>
    BY <1>1, <1>11
  <2>8. MergedSound(new, t, i)
    BY <1>11, <2>3, <2>4, <2>6, <2>7 DEF MergedSound
  <2> QED
    BY <1>11, <2>8 DEF new, r
<1> QED
  <2>1. \/ /\ n > 0 /\ m[n].seg = r.seg /\ r.start <= m[n].end /\ r.end > m[n].end
           /\ new \in Seq(Regions) /\ Len(new) = n
           /\ \A k \in 1 .. n - 1 : new[k] = m[k]
           /\ new[n] = Region(r.seg, m[n].start, r.endseg, r.end)
        \/ /\ n > 0 /\ m[n].seg = r.seg /\ r.start <= m[n].end /\ ~(r.end > m[n].end)
           /\ new = m
        \/ /\ n > 0 => ~(m[n].seg = r.seg /\ r.start <= m[n].end)
           /\ new \in Seq(Regions) /\ Len(new) = n + 1
           /\ \A k \in 1 .. n : new[k] = m[k]
           /\ new[n + 1] = r
    BY <1>2, MergeOutcomes
  <2> HIDE DEF new
  <2> QED
    BY <1>9, <1>10, <1>11, <2>1

MergeLoop(rs) == FoldLeft(Merge, <<>>, rs)

LEMMA MergeTurns ==
  ASSUME NEW rs \in Seq(Regions)
  PROVE  \E h \in [0 .. Len(rs) -> Seq(Regions)] :
           /\ h[0] = <<>> /\ h[Len(rs)] = MergeLoop(rs)
           /\ \A i \in 1 .. Len(rs) : h[i] = Merge(h[i - 1], rs[i])
<1> DEFINE n == Len(rs)
           V == Seq(Regions)
           g == [i \in 1 .. n |-> [v \in V |-> Merge(v, rs[i])]]
           Eq(it) == it = [s \in SUBSET DOMAIN rs |->
                            IF s = {} THEN <<>>
                            ELSE Merge(it[s \ {Max(s)}], rs[Max(s)])]
           it == CHOOSE it : Eq(it)
<1>1. n \in Nat /\ DOMAIN rs = 1 .. n /\ \A i \in 1 .. n : rs[i] \in Regions
  BY RegionSeq
<1>2. MergeLoop(rs) = it[1 .. n]
  BY <1>1 DEF MergeLoop, FoldLeft, MapThenFoldSet
<1>3. \A v \in V, r \in Regions : Merge(v, r) \in V
  BY MergeOutcomes
<1>4. <<>> \in V
  OBVIOUS
<1> HIDE DEF V
<1>5. g \in Turns(n, V)
  BY <1>1, <1>3 DEF Turns
<1>6. \A i \in 1 .. n : \A v \in V : g[i][v] = Merge(v, rs[i])
  OBVIOUS
<1> HIDE DEF g, n
<1>7. \A s \in SUBSET (1 .. n) : s # {} => Max(s) \in 1 .. n /\ s \ {Max(s)} \in SUBSET (1 .. n)
  BY <1>1, LargestIndex
<1>8. Eq(it)
  <2>1. PICK f : f \in FoldsOf(n, <<>>, g, V)
    BY <1>1, <1>4, <1>5, FoldExists
  <2>2. Eq(f)
    BY <1>1, <1>6, <1>7, <2>1 DEF FoldsOf
  <2> HIDE DEF Eq
  <2> QED BY <2>2
<1> HIDE DEF it
<1>9. PICK h \in RunsOf(n, <<>>, g, V) : h[n] = it[1 .. n]
  <2>1. it[{}] = <<>>
    BY <1>1, <1>8
  <2>2. \A s \in SUBSET (1 .. n) : s # {} /\ it[s \ {Max(s)}] \in V =>
           it[s] = g[Max(s)][it[s \ {Max(s)}]]
    BY <1>1, <1>6, <1>7, <1>8
  <2> HIDE DEF Eq
  <2>3. Unrolls(it, n, <<>>, g, V)
    BY <2>1, <2>2 DEF Unrolls
  <2> QED
    BY <1>1, <1>4, <1>5, <2>3, FoldTurns
<1>10. \A i \in 1 .. n : h[i - 1] \in V /\ h[i] = Merge(h[i - 1], rs[i])
  BY <1>1, <1>6, <1>9 DEF RunsOf
<1> QED
  BY <1>2, <1>9, <1>10 DEF RunsOf, n, V

LEMMA MergeLoopSound ==
  ASSUME NEW rs \in Seq(Regions), Ordered(rs)
  PROVE  MergeLoop(rs) \in Seq(Regions) /\ MergedSound(MergeLoop(rs), rs, Len(rs))
<1> DEFINE n == Len(rs)
<1>1. n \in Nat /\ \A i \in 1 .. n : rs[i] \in Regions
  BY RegionSeq
<1>2. PICK h \in [0 .. n -> Seq(Regions)] :
        /\ h[0] = <<>> /\ h[n] = MergeLoop(rs)
        /\ \A i \in 1 .. n : h[i] = Merge(h[i - 1], rs[i])
  BY MergeTurns
<1> DEFINE T == {i \in 0 .. n : MergedSound(h[i], rs, i)}
<1>3. 0 \in T
  <2>1. MergedSound(<<>>, rs, 0)
    BY DEF MergedSound, RegionsApart, Own, HasUpTo
  <2> QED
    BY <1>1, <1>2, <2>1
<1>4. ASSUME NEW i \in 1 .. n, i - 1 \in T
      PROVE  i \in T
  <2> DEFINE m == h[i - 1]
  <2>1. i - 1 \in 0 .. n /\ i \in 0 .. n /\ MergedSound(m, rs, i - 1)
    BY <1>1, <1>4
  <2>2. m \in Seq(Regions) /\ h[i] = Merge(m, rs[i])
    BY <1>2, <2>1
  <2> HIDE DEF m
  <2>3. MergedSound(Merge(m, rs[i]), rs, i)
    BY <2>1, <2>2, MergeStep
  <2> QED
    BY <2>1, <2>2, <2>3
<1>5. \A i \in 0 .. n : i \in T
  <2> HIDE DEF T, n
  <2> QED BY <1>1, <1>3, <1>4, CountUp
<1>6. n \in 0 .. n
  BY <1>1
<1> QED
  BY <1>2, <1>5, <1>6

\* Func::effective_regions (config.rs:126): for any regions of a function, in
\* any order and overlapping in any way, the result is not empty, ascending,
\* never touching, and has the addresses the regions have.
THEOREM EffectiveRegionsExact ==
  ASSUME NEW f, f.regions \in Seq(Regions), f.regions # <<>>
  PROVE  /\ effective_regions(f) \in Seq(Regions) /\ effective_regions(f) # <<>>
         /\ RegionsApart(effective_regions(f))
         /\ \A seg, p \in Nat : Own(effective_regions(f), seg, p) <=> Own(f.regions, seg, p)
<1> DEFINE rs == f.regions
           t == Sort(rs)
<1>1. effective_regions(f) = MergeLoop(t)
  BY DEF effective_regions, MergeLoop
<1> HIDE DEF t, rs
<1>2. rs \in Seq(Regions) /\ rs # <<>>
  BY DEF rs
<1>3. /\ t \in Seq(Regions) /\ Len(t) = Len(rs) /\ Ordered(t)
      /\ \A k \in 1 .. Len(rs) : \E i \in 1 .. Len(rs) : t[k] = rs[i]
      /\ \A i \in 1 .. Len(rs) : \E k \in 1 .. Len(rs) : t[k] = rs[i]
  BY <1>2, SortSound DEF t
<1>4. MergeLoop(t) \in Seq(Regions) /\ MergedSound(MergeLoop(t), t, Len(t))
  BY <1>3, MergeLoopSound
<1>5. Len(t) > 0
  <2>1. Len(rs) \in Nat /\ Len(rs) # 0
    BY <1>2
  <2> QED
    BY <2>1, <1>3
<1>6. \A seg, p \in Nat : HasUpTo(t, Len(t), seg, p) <=> Own(rs, seg, p)
  <2> SUFFICES ASSUME NEW seg \in Nat, NEW p \in Nat
               PROVE  HasUpTo(t, Len(t), seg, p) <=> Own(rs, seg, p)
    OBVIOUS
  <2>1. ASSUME HasUpTo(t, Len(t), seg, p) PROVE Own(rs, seg, p)
    <3>1. PICK k \in 1 .. Len(rs) : t[k].seg = seg /\ t[k].start <= p /\ p < t[k].end
      BY <1>3, <2>1 DEF HasUpTo
    <3>2. PICK i \in 1 .. Len(rs) : t[k] = rs[i]
      BY <1>3
    <3> QED
      BY <3>1, <3>2 DEF Own, HasUpTo
  <2>2. ASSUME Own(rs, seg, p) PROVE HasUpTo(t, Len(t), seg, p)
    <3>1. PICK i \in 1 .. Len(rs) : rs[i].seg = seg /\ rs[i].start <= p /\ p < rs[i].end
      BY <2>2 DEF Own, HasUpTo
    <3>2. PICK k \in 1 .. Len(rs) : t[k] = rs[i]
      BY <1>3
    <3> QED
      BY <1>3, <3>1, <3>2 DEF HasUpTo
  <2> QED
    BY <2>1, <2>2
<1>7. /\ RegionsApart(MergeLoop(t)) /\ MergeLoop(t) # <<>>
      /\ \A seg, p \in Nat : Own(MergeLoop(t), seg, p) <=> Own(rs, seg, p)
  BY <1>4, <1>5, <1>6 DEF MergedSound
<1> QED
  BY <1>1, <1>4, <1>7 DEF rs

---------------------------------------------------------------------------
\* The holes of a region, turn by turn.
HoleTurn(r, holes, t) ==
  IF t.seg # r.seg \/ t.endseg # r.seg THEN holes
  ELSE insert(holes, MaxOf(t.start, r.start), MinOf(t.end, r.end))
RangeSets == {rs \in Seq(Spans) : WellFormed(rs)}

\* Declared data: a vector of entries with a place, whatever else they have.
Located(t) == t.seg \in Nat /\ t.start \in Nat /\ t.endseg \in Nat /\ t.end \in Nat
Declared(text) == /\ Len(text) \in Nat /\ DOMAIN text = 1 .. Len(text)
                  /\ \A i \in 1 .. Len(text) : Located(text[i])

LEMMA RegionsDeclared ==
  ASSUME NEW text \in Seq(Regions)
  PROVE  Declared(text)
  BY RegionSeq DEF Declared, Located

LEMMA HoleTurnSound ==
  ASSUME NEW r \in Regions, NEW t, Located(t), NEW holes \in RangeSets
  PROVE  /\ HoleTurn(r, holes, t) \in RangeSets
         /\ \A p \in Nat : Covers(HoleTurn(r, holes, t), p) <=>
              \/ Covers(holes, p)
              \/ /\ t.seg = r.seg /\ t.endseg = r.seg
                 /\ t.start <= p /\ p < t.end /\ r.start <= p /\ p < r.end
<1>1. /\ r.seg \in Nat /\ r.start \in Nat /\ r.end \in Nat
      /\ t.seg \in Nat /\ t.start \in Nat /\ t.end \in Nat /\ t.endseg \in Nat
  BY RegionsTyped DEF Located
<1>2. WellFormed(holes)
  BY DEF RangeSets
<1> DEFINE s == MaxOf(t.start, r.start)
           e == MinOf(t.end, r.end)
<1>3. /\ s \in Nat /\ e \in Nat
      /\ \A p \in Nat : s <= p /\ p < e <=> t.start <= p /\ p < t.end /\ r.start <= p /\ p < r.end
  BY <1>1 DEF MaxOf, MinOf
<1>4. CASE t.seg # r.seg \/ t.endseg # r.seg
  BY <1>4 DEF HoleTurn
<1>5. CASE ~(t.seg # r.seg \/ t.endseg # r.seg)
  <2>1. HoleTurn(r, holes, t) = insert(holes, s, e)
    BY <1>5 DEF HoleTurn
  <2> HIDE DEF s, e
  <2>2. /\ WellFormed(insert(holes, s, e))
        /\ \A p \in Nat : Covers(insert(holes, s, e), p) <=> Covers(holes, p) \/ (s <= p /\ p < e)
    BY <1>2, <1>3, InsertSound
  <2>3. insert(holes, s, e) \in RangeSets
    BY <2>2 DEF WellFormed, RangeSets
  <2> QED
    BY <1>3, <1>5, <2>1, <2>2, <2>3
<1> QED
  BY <1>4, <1>5

LEMMA HoleTurns ==
  ASSUME NEW text, Declared(text), NEW r \in Regions
  PROVE  \E h \in [0 .. Len(text) -> RangeSets] :
           /\ h[0] = <<>> /\ h[Len(text)] = Holes(text, r)
           /\ \A i \in 1 .. Len(text) : h[i] = HoleTurn(r, h[i - 1], text[i])
<1> DEFINE n == Len(text)
           V == RangeSets
           g == [i \in 1 .. n |-> [v \in V |-> HoleTurn(r, v, text[i])]]
           Eq(it) == it = [s \in SUBSET DOMAIN text |->
                            IF s = {} THEN <<>>
                            ELSE HoleTurn(r, it[s \ {Max(s)}], text[Max(s)])]
           it == CHOOSE it : Eq(it)
<1>1. n \in Nat /\ DOMAIN text = 1 .. n /\ \A i \in 1 .. n : Located(text[i])
  BY DEF Declared
<1>2. Holes(text, r) = it[1 .. n]
  BY <1>1 DEF Holes, HoleTurn, FoldLeft, MapThenFoldSet
<1>3. \A v \in V : \A t : Located(t) => HoleTurn(r, v, t) \in V
  BY HoleTurnSound
<1>4. <<>> \in V
  BY EmptySound DEF RangeSets
<1> HIDE DEF V
<1>5. g \in Turns(n, V)
  BY <1>1, <1>3 DEF Turns
<1>6. \A i \in 1 .. n : \A v \in V : g[i][v] = HoleTurn(r, v, text[i])
  OBVIOUS
<1> HIDE DEF g, n
<1>7. \A s \in SUBSET (1 .. n) : s # {} => Max(s) \in 1 .. n /\ s \ {Max(s)} \in SUBSET (1 .. n)
  BY <1>1, LargestIndex
<1>8. Eq(it)
  <2>1. PICK f : f \in FoldsOf(n, <<>>, g, V)
    BY <1>1, <1>4, <1>5, FoldExists
  <2>2. Eq(f)
    BY <1>1, <1>6, <1>7, <2>1 DEF FoldsOf
  <2> HIDE DEF Eq
  <2> QED BY <2>2
<1> HIDE DEF it
<1>9. PICK h \in RunsOf(n, <<>>, g, V) : h[n] = it[1 .. n]
  <2>1. it[{}] = <<>>
    BY <1>1, <1>8
  <2>2. \A s \in SUBSET (1 .. n) : s # {} /\ it[s \ {Max(s)}] \in V =>
           it[s] = g[Max(s)][it[s \ {Max(s)}]]
    BY <1>1, <1>6, <1>7, <1>8
  <2> HIDE DEF Eq
  <2>3. Unrolls(it, n, <<>>, g, V)
    BY <2>1, <2>2 DEF Unrolls
  <2> QED
    BY <1>1, <1>4, <1>5, <2>3, FoldTurns
<1>10. \A i \in 1 .. n : h[i - 1] \in V /\ h[i] = HoleTurn(r, h[i - 1], text[i])
  BY <1>1, <1>6, <1>9 DEF RunsOf
<1> QED
  BY <1>2, <1>9, <1>10 DEF RunsOf, n, V

\* A declared data region that lies in one segment has the address.
IsText(text, seg, p) ==
  \E i \in 1 .. Len(text) : /\ text[i].seg = seg /\ text[i].endseg = seg
                            /\ text[i].start <= p /\ p < text[i].end

LEMMA HolesExact ==
  ASSUME NEW text, Declared(text), NEW r \in Regions
  PROVE  /\ WellFormed(Holes(text, r))
         /\ \A p \in Nat : Covers(Holes(text, r), p)
                             <=> r.start <= p /\ p < r.end /\ IsText(text, r.seg, p)
<1> DEFINE n == Len(text)
           In(i, p) == /\ text[i].seg = r.seg /\ text[i].endseg = r.seg
                       /\ text[i].start <= p /\ p < text[i].end /\ r.start <= p /\ p < r.end
<1>1. n \in Nat /\ \A i \in 1 .. n : Located(text[i])
  BY DEF Declared
<1>2. PICK h \in [0 .. n -> RangeSets] :
        /\ h[0] = <<>> /\ h[n] = Holes(text, r)
        /\ \A i \in 1 .. n : h[i] = HoleTurn(r, h[i - 1], text[i])
  BY HoleTurns
<1> HIDE DEF n
<1> DEFINE T == {i \in 0 .. n : \A p \in Nat : Covers(h[i], p) <=> \E j \in 1 .. i : In(j, p)}
<1>3. 0 \in T
  BY <1>1, <1>2, EmptySound
<1>4. ASSUME NEW i \in 1 .. n, i - 1 \in T
      PROVE  i \in T
  <2>1. i - 1 \in 0 .. n /\ i \in 0 .. n /\ i \in 1 .. i
    BY <1>1
  <2>2. h[i - 1] \in RangeSets /\ h[i] = HoleTurn(r, h[i - 1], text[i]) /\ Located(text[i])
    BY <1>1, <1>2, <2>1
  <2>3. \A p \in Nat : Covers(h[i - 1], p) <=> \E j \in 1 .. i - 1 : In(j, p)
    BY <1>4
  <2>4. \A p \in Nat : Covers(h[i], p) <=> Covers(h[i - 1], p) \/ In(i, p)
    <3>1. \A p \in Nat : Covers(HoleTurn(r, h[i - 1], text[i]), p) <=> Covers(h[i - 1], p) \/ In(i, p)
      BY <2>2, HoleTurnSound
    <3> QED
      BY <2>2, <3>1
  <2>5. \A j \in 1 .. i : j = i \/ j \in 1 .. i - 1
    OBVIOUS
  <2>6. \A j \in 1 .. i - 1 : j \in 1 .. i
    OBVIOUS
  <2> HIDE DEF In
  <2>7. \A p \in Nat : Covers(h[i], p) <=> \E j \in 1 .. i : In(j, p)
    BY <2>1, <2>3, <2>4, <2>5, <2>6
  <2> QED
    BY <2>1, <2>7
<1>5. \A p \in Nat : Covers(h[n], p) <=> \E j \in 1 .. n : In(j, p)
  <2>1. \A i \in 0 .. n : i \in T
    <3> HIDE DEF T
    <3> QED BY <1>1, <1>3, <1>4, CountUp
  <2>2. n \in 0 .. n
    BY <1>1
  <2> HIDE DEF In
  <2> QED
    BY <2>1, <2>2
<1>6. h[n] \in RangeSets
  BY <1>1, <1>2
<1> QED
  BY <1>2, <1>5, <1>6 DEF RangeSets, IsText, n

\* Every region of a vector ends in the segment it starts in.
OneSegment(rs) == \A i \in 1 .. Len(rs) : rs[i].endseg = rs[i].seg

\* What is left of one region.
LEMMA RunsExact ==
  ASSUME NEW text, Declared(text), NEW r \in Regions
  PROVE  /\ Runs(text, r) \in Seq(Regions)
         /\ OneSegment(Runs(text, r))
         /\ \A seg, p \in Nat : Own(Runs(text, r), seg, p) <=>
              /\ r.seg = seg /\ r.start <= p /\ p < r.end
              /\ ~IsText(text, seg, p)
<1> DEFINE holes == Holes(text, r)
           gaps == gaps_within(holes, r.start, r.end)
           n == Len(gaps)
           new == Runs(text, r)
<1>1. r.seg \in Nat /\ r.start \in Nat /\ r.end \in Nat
  BY RegionsTyped
<1>2. /\ WellFormed(holes)
      /\ \A p \in Nat : Covers(holes, p) <=> r.start <= p /\ p < r.end /\ IsText(text, r.seg, p)
  BY HolesExact
<1>3. new = [i \in DOMAIN gaps |-> Region(r.seg, gaps[i].start, r.seg, gaps[i].end)]
  BY DEF Runs
<1> HIDE DEF holes
<1>4. /\ WellFormed(gaps)
      /\ \A p \in Nat : Covers(gaps, p) <=> r.start <= p /\ p < r.end /\ ~Covers(holes, p)
  BY <1>1, <1>2, GapsExact
<1> HIDE DEF gaps, new
<1>5. /\ n \in Nat /\ DOMAIN gaps = 1 .. n
      /\ \A i \in 1 .. n : gaps[i].start \in Nat /\ gaps[i].end \in Nat
  BY <1>4, Shape
<1> HIDE DEF n
<1>6. ASSUME NEW i \in 1 .. n
      PROVE  /\ new[i] \in Regions /\ new[i].seg = r.seg /\ new[i].endseg = r.seg
             /\ new[i].start = gaps[i].start /\ new[i].end = gaps[i].end
  <2>1. new[i] = Region(r.seg, gaps[i].start, r.seg, gaps[i].end)
    BY <1>3, <1>5
  <2> QED
    BY <1>1, <1>5, <2>1 DEF Region, Regions
<1>7. new \in Seq(Regions) /\ Len(new) = n
  <2>1. new = [i \in 1 .. n |-> new[i]]
    BY <1>3, <1>5
  <2> QED
    BY <1>5, <1>6, <2>1
<1>8. \A seg, p \in Nat : Own(new, seg, p) <=> r.seg = seg /\ Covers(gaps, p)
  BY <1>5, <1>6, <1>7 DEF Own, HasUpTo, Covers
<1>9. OneSegment(new)
  BY <1>6, <1>7 DEF OneSegment
<1>10. \A seg, p \in Nat : Own(new, seg, p) <=>
              /\ r.seg = seg /\ r.start <= p /\ p < r.end
              /\ ~IsText(text, seg, p)
  BY <1>2, <1>4, <1>8
<1> QED
  BY <1>7, <1>9, <1>10 DEF new

\* The loop of code_regions, which appends what is left of each region.
CodeLoop(text, rs) == FoldLeft(LAMBDA code, r : code \o Runs(text, r), <<>>, rs)

LEMMA CodeTurns ==
  ASSUME NEW text, Declared(text), NEW rs \in Seq(Regions)
  PROVE  \E h \in [0 .. Len(rs) -> Seq(Regions)] :
           /\ h[0] = <<>> /\ h[Len(rs)] = CodeLoop(text, rs)
           /\ \A i \in 1 .. Len(rs) : h[i] = h[i - 1] \o Runs(text, rs[i])
<1> DEFINE n == Len(rs)
           V == Seq(Regions)
           g == [i \in 1 .. n |-> [v \in V |-> v \o Runs(text, rs[i])]]
           Eq(it) == it = [s \in SUBSET DOMAIN rs |->
                            IF s = {} THEN <<>>
                            ELSE it[s \ {Max(s)}] \o Runs(text, rs[Max(s)])]
           it == CHOOSE it : Eq(it)
<1>1. n \in Nat /\ DOMAIN rs = 1 .. n /\ \A i \in 1 .. n : rs[i] \in Regions
  BY RegionSeq
<1>2. CodeLoop(text, rs) = it[1 .. n]
  BY <1>1 DEF CodeLoop, FoldLeft, MapThenFoldSet
<1>3. \A v \in V, r \in Regions : v \o Runs(text, r) \in V
  BY RunsExact
<1>4. <<>> \in V
  OBVIOUS
<1> HIDE DEF V
<1>5. g \in Turns(n, V)
  BY <1>1, <1>3 DEF Turns
<1>6. \A i \in 1 .. n : \A v \in V : g[i][v] = v \o Runs(text, rs[i])
  OBVIOUS
<1> HIDE DEF g, n
<1>7. \A s \in SUBSET (1 .. n) : s # {} => Max(s) \in 1 .. n /\ s \ {Max(s)} \in SUBSET (1 .. n)
  BY <1>1, LargestIndex
<1>8. Eq(it)
  <2>1. PICK f : f \in FoldsOf(n, <<>>, g, V)
    BY <1>1, <1>4, <1>5, FoldExists
  <2>2. Eq(f)
    BY <1>1, <1>6, <1>7, <2>1 DEF FoldsOf
  <2> HIDE DEF Eq
  <2> QED BY <2>2
<1> HIDE DEF it
<1>9. PICK h \in RunsOf(n, <<>>, g, V) : h[n] = it[1 .. n]
  <2>1. it[{}] = <<>>
    BY <1>1, <1>8
  <2>2. \A s \in SUBSET (1 .. n) : s # {} /\ it[s \ {Max(s)}] \in V =>
           it[s] = g[Max(s)][it[s \ {Max(s)}]]
    BY <1>1, <1>6, <1>7, <1>8
  <2> HIDE DEF Eq
  <2>3. Unrolls(it, n, <<>>, g, V)
    BY <2>1, <2>2 DEF Unrolls
  <2> QED
    BY <1>1, <1>4, <1>5, <2>3, FoldTurns
<1>10. ASSUME NEW i \in 1 .. n
       PROVE  h[i] = h[i - 1] \o Runs(text, rs[i])
  <2>1. h[i - 1] \in V /\ h[i] = g[i][h[i - 1]]
    BY <1>1, <1>9 DEF RunsOf
  <2>2. \A v \in V : g[i][v] = v \o Runs(text, rs[i])
    BY <1>6
  <2> QED
    BY <2>1, <2>2
<1> QED
  BY <1>2, <1>9, <1>10 DEF RunsOf, n, V

LEMMA Appended ==
  ASSUME NEW a \in Seq(Regions), NEW b \in Seq(Regions)
  PROVE  /\ a \o b \in Seq(Regions)
         /\ OneSegment(a) /\ OneSegment(b) => OneSegment(a \o b)
         /\ \A seg, p \in Nat : Own(a \o b, seg, p) <=> Own(a, seg, p) \/ Own(b, seg, p)
<1> DEFINE n == Len(a)
           m == Len(b)
           c == a \o b
<1>1. n \in Nat /\ m \in Nat /\ c \in Seq(Regions) /\ Len(c) = n + m
  OBVIOUS
<1>2. \A i \in 1 .. n : c[i] = a[i]
  OBVIOUS
<1>3. \A i \in 1 .. m : c[n + i] = b[i]
  OBVIOUS
<1> HIDE DEF n, m, c
<1>4. \A i \in 1 .. n : i \in 1 .. n + m
  BY <1>1
<1>5. \A i \in 1 .. m : n + i \in 1 .. n + m
  BY <1>1
<1>6. \A i \in 1 .. n + m : i \in 1 .. n \/ (i - n \in 1 .. m /\ i = n + (i - n))
  BY <1>1
<1>7. ASSUME NEW i \in 1 .. n + m
      PROVE  (\E j \in 1 .. n : c[i] = a[j]) \/ (\E j \in 1 .. m : c[i] = b[j])
  BY <1>2, <1>3, <1>6
<1>8. OneSegment(a) /\ OneSegment(b) => OneSegment(c)
  BY <1>1, <1>7 DEF OneSegment, n, m
<1>9. \A seg, p \in Nat : Own(c, seg, p) <=> Own(a, seg, p) \/ Own(b, seg, p)
  <2> SUFFICES ASSUME NEW seg \in Nat, NEW p \in Nat
               PROVE  Own(c, seg, p) <=> Own(a, seg, p) \/ Own(b, seg, p)
    OBVIOUS
  <2>1. ASSUME Own(c, seg, p) PROVE Own(a, seg, p) \/ Own(b, seg, p)
    BY <1>1, <1>7, <2>1 DEF Own, HasUpTo, n, m
  <2>2. ASSUME Own(a, seg, p) PROVE Own(c, seg, p)
    BY <1>1, <1>2, <1>4, <2>2 DEF Own, HasUpTo, n
  <2>3. ASSUME Own(b, seg, p) PROVE Own(c, seg, p)
    <3>1. PICK j \in 1 .. m : b[j].seg = seg /\ b[j].start <= p /\ p < b[j].end
      BY <2>3 DEF Own, HasUpTo, m
    <3>2. n + j \in 1 .. Len(c) /\ c[n + j] = b[j]
      BY <1>1, <1>3, <1>5
    <3> QED
      BY <3>1, <3>2 DEF Own, HasUpTo
  <2> QED
    BY <2>1, <2>2, <2>3
<1> QED
  BY <1>1, <1>8, <1>9 DEF c

LEMMA CodeLoopSound ==
  ASSUME NEW text, Declared(text), NEW rs \in Seq(Regions)
  PROVE  /\ CodeLoop(text, rs) \in Seq(Regions)
         /\ OneSegment(CodeLoop(text, rs))
         /\ \A seg, p \in Nat : Own(CodeLoop(text, rs), seg, p)
                                  <=> Own(rs, seg, p) /\ ~IsText(text, seg, p)
<1> DEFINE n == Len(rs)
           Good(c, i) == /\ OneSegment(c)
                         /\ \A seg, p \in Nat : Own(c, seg, p)
                              <=> HasUpTo(rs, i, seg, p) /\ ~IsText(text, seg, p)
<1>1. n \in Nat /\ \A i \in 1 .. n : rs[i] \in Regions
  BY RegionSeq
<1>2. PICK h \in [0 .. n -> Seq(Regions)] :
        /\ h[0] = <<>> /\ h[n] = CodeLoop(text, rs)
        /\ \A i \in 1 .. n : h[i] = h[i - 1] \o Runs(text, rs[i])
  BY CodeTurns
<1> DEFINE T == {i \in 0 .. n : Good(h[i], i)}
<1>3. 0 \in T
  <2>1. Good(<<>>, 0)
    BY DEF OneSegment, Own, HasUpTo
  <2> QED
    BY <1>1, <1>2, <2>1
<1>4. ASSUME NEW i \in 1 .. n, i - 1 \in T
      PROVE  i \in T
  <2> DEFINE c == h[i - 1]
             r == rs[i]
             d == Runs(text, r)
  <2>1. i - 1 \in 0 .. n /\ i \in 0 .. n /\ Good(c, i - 1)
    BY <1>1, <1>4
  <2>2. c \in Seq(Regions) /\ r \in Regions /\ h[i] = c \o d
    BY <1>1, <1>2, <2>1
  <2>3. /\ d \in Seq(Regions) /\ OneSegment(d)
        /\ \A seg, p \in Nat : Own(d, seg, p) <=>
             /\ r.seg = seg /\ r.start <= p /\ p < r.end
             /\ ~IsText(text, seg, p)
    <3> HIDE DEF r
    <3> QED
      BY <2>2, RunsExact
  <2> HIDE DEF c, d
  <2>4. /\ OneSegment(c) /\ OneSegment(d) => OneSegment(c \o d)
        /\ \A seg, p \in Nat : Own(c \o d, seg, p) <=> Own(c, seg, p) \/ Own(d, seg, p)
    BY <2>2, <2>3, Appended
  <2>5. \A seg, p \in Nat : HasUpTo(rs, i, seg, p) <=>
           HasUpTo(rs, i - 1, seg, p) \/ (r.seg = seg /\ r.start <= p /\ p < r.end)
    <3>1. \A j \in 1 .. i : j = i \/ j \in 1 .. i - 1
      OBVIOUS
    <3>2. i \in 1 .. i /\ \A j \in 1 .. i - 1 : j \in 1 .. i
      OBVIOUS
    <3> QED
      BY <3>1, <3>2 DEF HasUpTo
  <2> HIDE DEF r
  <2>6. OneSegment(c \o d)
    BY <2>1, <2>3, <2>4
  <2>7. \A seg, p \in Nat : Own(c \o d, seg, p)
                              <=> HasUpTo(rs, i, seg, p) /\ ~IsText(text, seg, p)
    BY <2>1, <2>3, <2>4, <2>5
  <2> QED
    BY <2>1, <2>2, <2>6, <2>7
<1>5. \A i \in 0 .. n : i \in T
  <2> HIDE DEF T, n
  <2> QED BY <1>1, <1>3, <1>4, CountUp
<1>6. n \in 0 .. n
  BY <1>1
<1>7. Good(h[n], n) /\ h[n] \in Seq(Regions)
  BY <1>2, <1>5, <1>6
<1> HIDE DEF T
<1> QED
  BY <1>2, <1>7 DEF Own

\* code_regions (config.rs:270): for any regions and any declared data, what
\* comes out lies in one segment each and has exactly the addresses of the
\* regions that no declared data has.
THEOREM CodeRegionsExact ==
  ASSUME NEW text, Declared(text), NEW rs \in Seq(Regions)
  PROVE  /\ code_regions(text, rs) \in Seq(Regions)
         /\ OneSegment(code_regions(text, rs))
         /\ \A seg, p \in Nat : Own(code_regions(text, rs), seg, p)
                                  <=> Own(rs, seg, p) /\ ~IsText(text, seg, p)
<1> DEFINE c == CodeLoop(text, rs)
           t == Sort(c)
<1>1. code_regions(text, rs) = t
  BY DEF code_regions, CodeLoop
<1>2. /\ c \in Seq(Regions) /\ OneSegment(c)
      /\ \A seg, p \in Nat : Own(c, seg, p) <=> Own(rs, seg, p) /\ ~IsText(text, seg, p)
  BY CodeLoopSound
<1> HIDE DEF c
<1>3. /\ t \in Seq(Regions) /\ Len(t) = Len(c)
      /\ \A k \in 1 .. Len(c) : \E i \in 1 .. Len(c) : t[k] = c[i]
      /\ \A i \in 1 .. Len(c) : \E k \in 1 .. Len(c) : t[k] = c[i]
  BY <1>2, SortSound
<1> HIDE DEF t
<1>4. OneSegment(t)
  <2> SUFFICES ASSUME NEW i \in 1 .. Len(t) PROVE t[i].endseg = t[i].seg
    BY DEF OneSegment
  <2>1. PICK j \in 1 .. Len(c) : t[i] = c[j]
    BY <1>3
  <2> QED
    BY <2>1, <1>2 DEF OneSegment
<1>5. ASSUME NEW seg \in Nat, NEW p \in Nat
      PROVE  Own(t, seg, p) <=> Own(c, seg, p)
  <2>1. ASSUME Own(t, seg, p) PROVE Own(c, seg, p)
    <3>1. PICK i \in 1 .. Len(t) : t[i].seg = seg /\ t[i].start <= p /\ p < t[i].end
      BY <2>1 DEF Own, HasUpTo
    <3>2. PICK j \in 1 .. Len(c) : t[i] = c[j]
      BY <1>3
    <3> QED
      BY <3>1, <3>2 DEF Own, HasUpTo
  <2>2. ASSUME Own(c, seg, p) PROVE Own(t, seg, p)
    <3>1. PICK i \in 1 .. Len(c) : c[i].seg = seg /\ c[i].start <= p /\ p < c[i].end
      BY <2>2 DEF Own, HasUpTo
    <3>2. PICK j \in 1 .. Len(c) : t[j] = c[i]
      BY <1>3
    <3> QED
      BY <1>3, <3>1, <3>2 DEF Own, HasUpTo
  <2> QED
    BY <2>1, <2>2
<1> QED
  BY <1>1, <1>2, <1>3, <1>4, <1>5

---------------------------------------------------------------------------
(* Code regions are apart *)

\* No region is empty, and no two have an address in common.
Separate(rs) ==
  /\ \A k \in 1 .. Len(rs) : rs[k].start < rs[k].end
  /\ \A k, l \in 1 .. Len(rs) : k # l =>
       rs[k].seg # rs[l].seg \/ rs[k].end <= rs[l].start \/ rs[l].end <= rs[k].start

Within(a, r) == a.seg = r.seg /\ r.start <= a.start /\ a.end <= r.end

\* What is left of one region lies in it, in pieces.
LEMMA RunsSeparate ==
  ASSUME NEW text, Declared(text), NEW r \in Regions
  PROVE  /\ Separate(Runs(text, r))
         /\ \A k \in 1 .. Len(Runs(text, r)) : Within(Runs(text, r)[k], r)
<1> DEFINE holes == Holes(text, r)
           gaps == gaps_within(holes, r.start, r.end)
           n == Len(gaps)
           new == Runs(text, r)
<1>1. r.seg \in Nat /\ r.start \in Nat /\ r.end \in Nat
  BY RegionsTyped
<1>2. WellFormed(holes)
  BY HolesExact
<1>3. new = [i \in DOMAIN gaps |-> Region(r.seg, gaps[i].start, r.seg, gaps[i].end)]
  BY DEF Runs
<1> HIDE DEF holes
<1>4. /\ WellFormed(gaps)
      /\ \A p \in Nat : Covers(gaps, p) => r.start <= p /\ p < r.end
  BY <1>1, <1>2, GapsExact
<1> HIDE DEF gaps, new
<1>5. /\ n \in Nat /\ DOMAIN gaps = 1 .. n
      /\ \A i \in 1 .. n : gaps[i].start \in Nat /\ gaps[i].end \in Nat
  BY <1>4, Shape
<1> HIDE DEF n
<1>6. \A i \in 1 .. n : gaps[i].start < gaps[i].end
  BY <1>4, <1>5 DEF WellFormed
<1>7. \A i, j \in 1 .. n : i < j => gaps[i].end < gaps[j].start
  BY <1>4, <1>5 DEF WellFormed
<1>8. ASSUME NEW i \in 1 .. n
      PROVE  r.start <= gaps[i].start /\ gaps[i].end <= r.end
  <2> DEFINE a == gaps[i].start
             b == gaps[i].end
  <2>1. a \in Nat /\ b \in Nat /\ a < b
    BY <1>5, <1>6
  <2>2. b - 1 \in Nat
    BY <2>1
  <2>3. Covers(gaps, a) /\ Covers(gaps, b - 1)
    <3>1. a <= a /\ a < b /\ a <= b - 1 /\ b - 1 < b
      BY <2>1
    <3> QED
      BY <1>5, <3>1 DEF Covers
  <2>4. r.start <= a /\ b - 1 < r.end
    BY <1>4, <2>1, <2>2, <2>3
  <2> QED
    BY <1>1, <2>1, <2>4
<1>9. ASSUME NEW i \in 1 .. n
      PROVE  new[i].seg = r.seg /\ new[i].start = gaps[i].start /\ new[i].end = gaps[i].end
  <2>1. new[i] = Region(r.seg, gaps[i].start, r.seg, gaps[i].end)
    BY <1>3, <1>5
  <2> QED
    BY <2>1 DEF Region
<1>10. Len(new) = n
  <2>1. new = [i \in 1 .. n |-> new[i]]
    BY <1>3, <1>5
  <2> QED
    BY <1>5, <2>1
<1>11. \A i, j \in 1 .. n : i # j => gaps[i].end <= gaps[j].start \/ gaps[j].end <= gaps[i].start
  <2> SUFFICES ASSUME NEW i \in 1 .. n, NEW j \in 1 .. n, i # j
               PROVE  gaps[i].end <= gaps[j].start \/ gaps[j].end <= gaps[i].start
    OBVIOUS
  <2>1. i < j \/ j < i
    BY <1>5
  <2>2. gaps[i].end < gaps[j].start \/ gaps[j].end < gaps[i].start
    BY <1>7, <2>1
  <2>3. /\ gaps[i].start \in Nat /\ gaps[i].end \in Nat
        /\ gaps[j].start \in Nat /\ gaps[j].end \in Nat
    BY <1>5
  <2> QED
    BY <2>2, <2>3
<1>12. Separate(new)
  BY <1>6, <1>9, <1>10, <1>11 DEF Separate
<1>13. \A k \in 1 .. n : Within(new[k], r)
  BY <1>8, <1>9 DEF Within
<1> QED
  BY <1>10, <1>12, <1>13 DEF new

\* Two vectors whose regions lie in regions that are apart.
LEMMA SeparateJoined ==
  ASSUME NEW a \in Seq(Regions), NEW b \in Seq(Regions), Separate(a), Separate(b),
         \A k \in 1 .. Len(a), l \in 1 .. Len(b) :
           a[k].seg # b[l].seg \/ a[k].end <= b[l].start \/ b[l].end <= a[k].start
  PROVE  Separate(a \o b)
<1> DEFINE n == Len(a)
           m == Len(b)
           c == a \o b
<1>1. n \in Nat /\ m \in Nat /\ c \in Seq(Regions) /\ Len(c) = n + m
  OBVIOUS
<1>2. \A i \in 1 .. n : c[i] = a[i]
  OBVIOUS
<1>3. \A i \in 1 .. m : c[n + i] = b[i]
  OBVIOUS
<1> HIDE DEF n, m, c
<1>4. ASSUME NEW i \in 1 .. n + m
      PROVE  (i \in 1 .. n /\ c[i] = a[i]) \/ (i - n \in 1 .. m /\ c[i] = b[i - n])
  <2>1. i \in 1 .. n \/ (i - n \in 1 .. m /\ i = n + (i - n))
    BY <1>1
  <2> QED
    BY <1>2, <1>3, <2>1
<1>5. \A i \in 1 .. n + m : c[i].start < c[i].end
  BY <1>4 DEF Separate, n, m
<1>6. ASSUME NEW i \in 1 .. n + m, NEW j \in 1 .. n + m, i # j
      PROVE  c[i].seg # c[j].seg \/ c[i].end <= c[j].start \/ c[j].end <= c[i].start
  <2>1. CASE i \in 1 .. n /\ j \in 1 .. n
    BY <1>2, <1>6, <2>1 DEF Separate, n
  <2>2. CASE i \in 1 .. n /\ j - n \in 1 .. m /\ c[j] = b[j - n]
    BY <1>2, <2>2 DEF n, m
  <2>3. CASE i - n \in 1 .. m /\ c[i] = b[i - n] /\ j \in 1 .. n
    BY <1>2, <2>3 DEF n, m
  <2>4. CASE i - n \in 1 .. m /\ c[i] = b[i - n] /\ j - n \in 1 .. m /\ c[j] = b[j - n]
    <3>1. i - n # j - n
      BY <1>1, <1>6
    <3> QED
      BY <2>4, <3>1 DEF Separate, m
  <2> QED
    BY <1>4, <2>1, <2>2, <2>3, <2>4
<1> QED
  BY <1>1, <1>5, <1>6 DEF Separate, c

\* Sorting loses and repeats no region, so what is apart stays apart.
LEMMA SortSeparate ==
  ASSUME NEW rs \in Seq(Regions), Separate(rs)
  PROVE  Separate(Sort(rs))
<1> DEFINE n == Len(rs)
           t == Sort(rs)
           T == {rs[i] : i \in 1 .. n}
           f == [i \in 1 .. n |-> rs[i]]
           g == [k \in 1 .. n |-> t[k]]
<1>1. n \in Nat /\ \A i \in 1 .. n : rs[i] \in Regions /\ rs[i].start \in Nat /\ rs[i].end \in Nat
  BY RegionSeq
<1>2. /\ t \in Seq(Regions) /\ Len(t) = n
      /\ \A k \in 1 .. n : \E i \in 1 .. n : t[k] = rs[i]
      /\ \A i \in 1 .. n : \E k \in 1 .. n : t[k] = rs[i]
  BY SortSound
<1> HIDE DEF t
<1>3. ASSUME NEW i \in 1 .. n, NEW j \in 1 .. n, rs[i] = rs[j]
      PROVE  i = j
  <2> SUFFICES ASSUME i # j PROVE FALSE
    OBVIOUS
  <2>1. rs[i].end <= rs[j].start \/ rs[j].end <= rs[i].start
    BY <1>3 DEF Separate
  <2>2. rs[i].start < rs[i].end
    BY DEF Separate
  <2> QED
    BY <1>1, <1>3, <2>1, <2>2
<1> HIDE DEF n
<1>4. f \in Bijection(1 .. n, T)
  <2>1. f \in [1 .. n -> T]
    OBVIOUS
  <2>2. \A x \in T : \E i \in 1 .. n : f[i] = x
    OBVIOUS
  <2>3. \A i, j \in 1 .. n : f[i] = f[j] => i = j
    BY <1>3
  <2>4. DOMAIN f = 1 .. n
    OBVIOUS
  <2> HIDE DEF f, T
  <2> QED
    BY <2>1, <2>2, <2>3, <2>4 DEF Bijection, Injection, Surjection, IsInjective
<1>5. IsFiniteSet(1 .. n) /\ Cardinality(1 .. n) = Cardinality(T)
  <2>1. IsFiniteSet(1 .. n)
    BY <1>1, FS_Interval
  <2>2. ExistsBijection(1 .. n, T)
    BY <1>4 DEF ExistsBijection
  <2> HIDE DEF T
  <2> QED
    BY <2>1, <2>2, FS_Bijection
<1>6. g \in Surjection(1 .. n, T)
  <2>1. g \in [1 .. n -> T]
    BY <1>2
  <2>2. \A x \in T : \E i \in 1 .. n : g[i] = x
    <3> SUFFICES ASSUME NEW i \in 1 .. n PROVE \E k \in 1 .. n : g[k] = rs[i]
      OBVIOUS
    <3>1. PICK k \in 1 .. n : t[k] = rs[i]
      BY <1>2
    <3>2. g[k] = t[k]
      OBVIOUS
    <3> HIDE DEF g
    <3> QED
      BY <3>1, <3>2
  <2> HIDE DEF g, T
  <2> QED
    BY <2>1, <2>2 DEF Surjection
<1>7. g \in Injection(1 .. n, T)
  <2> HIDE DEF g, T
  <2> QED
    BY <1>5, <1>6, FS_SurjSameCardinalityImpliesInj
<1>8. \A k, l \in 1 .. n : t[k] = t[l] => k = l
  BY <1>7 DEF Injection, IsInjective
<1> HIDE DEF f, g, T
<1>9. ASSUME NEW k \in 1 .. n
      PROVE  t[k].start < t[k].end
  <2>1. PICK i \in 1 .. n : t[k] = rs[i]
    BY <1>2
  <2> QED
    BY <2>1 DEF Separate, n
<1>10. ASSUME NEW k \in 1 .. n, NEW l \in 1 .. n, k # l
       PROVE  t[k].seg # t[l].seg \/ t[k].end <= t[l].start \/ t[l].end <= t[k].start
  <2>1. PICK i \in 1 .. n : t[k] = rs[i]
    BY <1>2
  <2>2. PICK j \in 1 .. n : t[l] = rs[j]
    BY <1>2
  <2>3. i # j
    BY <1>8, <1>10, <2>1, <2>2
  <2> QED
    BY <2>1, <2>2, <2>3 DEF Separate, n
<1> QED
  BY <1>2, <1>9, <1>10 DEF Separate, t

LEMMA NatOrder ==
  /\ \A a, b \in Nat : a < b => a # b
  /\ \A a, b, c, d \in Nat : a <= b /\ b < c /\ c <= d => a <= d
  OBVIOUS

\* code_regions (config.rs:270): where the regions are apart, so is the code
\* in them, and no piece of it is empty.
THEOREM CodeRegionsSeparate ==
  ASSUME NEW text, Declared(text), NEW rs \in Seq(Regions), RegionsApart(rs)
  PROVE  Separate(code_regions(text, rs))
<1> DEFINE n == Len(rs)
           Good(c, i) == /\ Separate(c)
                         /\ \A k \in 1 .. Len(c) : \E j \in 1 .. i : Within(c[k], rs[j])
<1>1. n \in Nat /\ \A i \in 1 .. n : /\ rs[i] \in Regions /\ rs[i].seg \in Nat
                                    /\ rs[i].start \in Nat /\ rs[i].end \in Nat
  BY RegionSeq
<1>2. PICK h \in [0 .. n -> Seq(Regions)] :
        /\ h[0] = <<>> /\ h[n] = CodeLoop(text, rs)
        /\ \A i \in 1 .. n : h[i] = h[i - 1] \o Runs(text, rs[i])
  BY CodeTurns
<1> DEFINE T == {i \in 0 .. n : Good(h[i], i)}
<1>3. 0 \in T
  <2>1. Good(<<>>, 0)
    BY DEF Separate
  <2> QED
    BY <1>1, <1>2, <2>1
<1>4. ASSUME NEW i \in 1 .. n, i - 1 \in T
      PROVE  i \in T
  <2> DEFINE c == h[i - 1]
             r == rs[i]
             d == Runs(text, r)
  <2>1. i - 1 \in 0 .. n /\ i \in 0 .. n /\ Good(c, i - 1)
    BY <1>1, <1>4
  <2>2. c \in Seq(Regions) /\ r \in Regions /\ h[i] = c \o d
    BY <1>1, <1>2, <2>1
  <2>3. d \in Seq(Regions) /\ Separate(d) /\ \A k \in 1 .. Len(d) : Within(d[k], r)
    <3> HIDE DEF r
    <3> QED
      BY <2>2, RunsExact, RunsSeparate
  <2> HIDE DEF c, d
  <2>4. ASSUME NEW k \in 1 .. Len(c), NEW l \in 1 .. Len(d)
        PROVE  c[k].seg # d[l].seg \/ c[k].end <= d[l].start \/ d[l].end <= c[k].start
    <3>1. PICK j \in 1 .. i - 1 : Within(c[k], rs[j])
      BY <2>1
    <3>2. Within(d[l], rs[i])
      BY <2>3
    <3>3. j \in 1 .. n /\ j < i
      BY <1>1
    <3>4. rs[j].seg < rs[i].seg \/ (rs[j].seg = rs[i].seg /\ rs[j].end < rs[i].start)
      BY <3>3 DEF RegionsApart, n
    <3>5. /\ rs[j].seg \in Nat /\ rs[j].end \in Nat /\ rs[i].seg \in Nat /\ rs[i].start \in Nat
      BY <1>1, <3>3
    <3>6. c[k].end \in Nat /\ d[l].start \in Nat
      BY <2>2, <2>3, RegionSeq
    <3>7. CASE rs[j].seg < rs[i].seg
      <4>1. rs[j].seg # rs[i].seg
        BY <3>5, <3>7, NatOrder
      <4> QED
        BY <3>1, <3>2, <4>1 DEF Within
    <3>8. CASE rs[j].end < rs[i].start
      <4>1. c[k].end <= rs[j].end /\ rs[i].start <= d[l].start
        BY <3>1, <3>2 DEF Within
      <4>2. c[k].end <= d[l].start
        BY <3>5, <3>6, <3>8, <4>1, NatOrder
      <4> QED
        BY <4>2
    <3> QED
      BY <3>4, <3>7, <3>8
  <2>5. Separate(c \o d)
    BY <2>1, <2>2, <2>3, <2>4, SeparateJoined
  <2>6. ASSUME NEW k \in 1 .. Len(c \o d)
        PROVE  \E j \in 1 .. i : Within((c \o d)[k], rs[j])
    <3>1. Len(c) \in Nat /\ Len(d) \in Nat /\ Len(c \o d) = Len(c) + Len(d)
      BY <2>2, <2>3
    <3>2. CASE k \in 1 .. Len(c)
      <4>1. (c \o d)[k] = c[k]
        BY <2>2, <2>3, <3>2
      <4>2. PICK j \in 1 .. i - 1 : Within(c[k], rs[j])
        BY <2>1, <3>2
      <4>3. j \in 1 .. i
        OBVIOUS
      <4> QED
        BY <4>1, <4>2, <4>3
    <3>3. CASE k \notin 1 .. Len(c)
      <4>1. k - Len(c) \in 1 .. Len(d)
        BY <3>1, <3>3
      <4>2. (c \o d)[k] = d[k - Len(c)]
        BY <2>2, <2>3, <3>1, <3>3
      <4>3. Within(d[k - Len(c)], r)
        BY <2>3, <4>1
      <4>4. i \in 1 .. i
        OBVIOUS
      <4> QED
        BY <4>2, <4>3, <4>4
    <3> QED
      BY <3>2, <3>3
  <2> QED
    BY <2>1, <2>2, <2>5, <2>6
<1>5. \A i \in 0 .. n : i \in T
  <2> HIDE DEF T, n
  <2> QED BY <1>1, <1>3, <1>4, CountUp
<1>6. Separate(CodeLoop(text, rs))
  <2>1. n \in 0 .. n
    BY <1>1
  <2> QED
    BY <1>2, <1>5, <2>1
<1>7. CodeLoop(text, rs) \in Seq(Regions)
  BY CodeLoopSound
<1>8. code_regions(text, rs) = Sort(CodeLoop(text, rs))
  BY DEF code_regions, CodeLoop, FoldLeft, MapThenFoldSet
<1> QED
  BY <1>6, <1>7, <1>8, SortSeparate

==============================================================================
