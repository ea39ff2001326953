------------------------------- MODULE RangeSet -------------------------------
(***************************************************************************)
(* RangeSet of dis86/src/util/range_set.rs: a set of addresses kept as a   *)
(* vector of half-open ranges, ascending and never touching.               *)
(***************************************************************************)
EXTENDS Integers, Sequences, SequencesExt

Span(s, e) == [start |-> s, end |-> e]
Spans == [start : Nat, end : Nat]

MinOf(a, b) == IF a < b THEN a ELSE b
MaxOf(a, b) == IF a > b THEN a ELSE b

\* slice::partition_point (external): the length of the prefix of 1 .. n on
\* which the predicate, given as the set T of indices that satisfy it, holds.
\* Where T is not a prefix, nothing is said of the result.
partition_point(n, T) ==
  CHOOSE k \in 0 .. n : \A i \in 1 .. n : i \in T <=> i <= k

\* Vec::splice of lo .. hi with the one element x.
Spliced(rs, lo, hi, x) ==
  [i \in 1 .. lo + 1 + (Len(rs) - hi) |->
     IF i <= lo THEN rs[i] ELSE IF i = lo + 1 THEN x ELSE rs[i - lo - 1 + hi]]

\* The ranges that could overlap or touch a new range from s to e.
FirstTouching(rs, s) == partition_point(Len(rs), {i \in DOMAIN rs : rs[i].end < s})
LastTouching(rs, e) == partition_point(Len(rs), {i \in DOMAIN rs : rs[i].start <= e})

\* Mutant: a range that ends where the new one starts is not merged.
insert_apart(rs, s, e) ==
  LET lo == partition_point(Len(rs), {i \in DOMAIN rs : rs[i].end <= s})
      hi == LastTouching(rs, e)
      merged == IF lo < hi
                THEN Span(MinOf(rs[lo + 1].start, s), MaxOf(rs[hi].end, e))
                ELSE Span(s, e)
  IN IF s >= e THEN rs ELSE Spliced(rs, lo, hi, merged)

insert(rs, s, e) ==
  LET lo == FirstTouching(rs, s)
      hi == LastTouching(rs, e)
      merged == IF lo < hi
                THEN Span(MinOf(rs[lo + 1].start, s), MaxOf(rs[hi].end, e))
                ELSE Span(s, e)
  IN IF s >= e THEN rs ELSE Spliced(rs, lo, hi, merged)

\* One turn of the loop of gaps_within.
NextGap(found, r) ==
  [cursor |-> MaxOf(found.cursor, r.end),
   gaps |-> IF found.cursor < r.start
            THEN Append(found.gaps, Span(found.cursor, r.start)) ELSE found.gaps]

gaps_within(rs, s, e) ==
  LET lo == partition_point(Len(rs), {i \in DOMAIN rs : rs[i].end <= s})
      hi == partition_point(Len(rs), {i \in DOMAIN rs : rs[i].start < e})
      found == FoldLeft(NextGap, [cursor |-> s, gaps |-> <<>>], SubSeq(rs, lo + 1, hi))
  IN IF s >= e THEN <<>>
     ELSE IF found.cursor < e THEN Append(found.gaps, Span(found.cursor, e))
     ELSE found.gaps

\* The addresses a vector of ranges stands for.
Covers(rs, p) == \E i \in DOMAIN rs : rs[i].start <= p /\ p < rs[i].end

\* Ascending, non-empty and never touching: what partition_point needs.
WellFormed(rs) ==
  /\ rs \in Seq(Spans)
  /\ \A i \in DOMAIN rs : rs[i].start < rs[i].end
  /\ \A i, j \in DOMAIN rs : i < j => rs[i].end < rs[j].start
=============================================================================
