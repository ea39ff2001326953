------------------------------- MODULE Coverage -------------------------------
(***************************************************************************)
(* The coverage report of dis86 (dis86/src/coverage.rs) with the region    *)
(* arithmetic of config.rs it rests on: how many bytes of a code segment   *)
(* are configured as code, as data, or not at all.  for_span walks the     *)
(* functions, subtracts the declared data from their regions, clips what   *)
(* is left to the span and inserts it into three range sets.               *)
(***************************************************************************)
EXTENDS RegionConfig, FiniteSets

CONSTANTS
  FuncLists,    \* configurations: sequences of functions ...
  TextLists,    \* ... and of declared data regions
  Seg, SegStart, SegEnd   \* the span asked for

---------------------------------------------------------------------------
VARIABLES
  funcs, text,          \* the configuration
  k,                    \* the loop's position in funcs, then in text
  at,                   \* "funcs", "text" or "done"
  todo,                 \* code regions of the function at hand
  code, data, known,    \* the range sets
  report                \* the Coverage returned

vars == <<funcs, text, k, at, todo, code, data, known, report>>

CodeOf(ts, f) == IF f.seg # Seg THEN <<>> ELSE code_regions(ts, effective_regions(f))

\* A function: its entry, its end if known, and its regions, in any order.
Funcs == [seg : Nat, start : Nat, end : Nat \cup {NoEnd}, regions : Seq(Regions)]

\* Segments and offsets are unsigned.
ASSUME SpanAssumption == Seg \in Nat /\ SegStart \in Nat /\ SegEnd \in Nat
ASSUME TextAssumption == \A ts \in TextLists : ts \in Seq(Regions)
ASSUME FuncAssumption == \A fs \in FuncLists : fs \in Seq(Funcs)

NoReport == [code |-> 0, data |-> 0, unknown |-> 0, total |-> 0]

Init ==
  /\ funcs \in FuncLists /\ text \in TextLists
  /\ k = 1 /\ at = "funcs" /\ todo = <<>>
  /\ code = <<>> /\ data = <<>> /\ known = <<>>
  /\ report = NoReport

From(r) == MaxOf(r.start, SegStart)
To(r) == MinOf(r.end, SegEnd)

\* The next function: functions of other segments are skipped.
NextFunc ==
  /\ at = "funcs" /\ todo = <<>>
  /\ IF k \in DOMAIN funcs
     THEN /\ todo' = CodeOf(text, funcs[k])
          /\ k' = k + 1
          /\ UNCHANGED at
     ELSE k' = 1 /\ at' = "text" /\ UNCHANGED todo
  /\ UNCHANGED <<funcs, text, code, data, known, report>>

CountCode ==
  /\ at = "funcs" /\ todo # <<>>
  /\ LET r == Head(todo)
     IN IF r.seg # Seg \/ r.endseg # Seg \/ From(r) >= To(r)
        THEN UNCHANGED <<code, known>>
        ELSE /\ code' = insert(code, From(r), To(r))
             /\ known' = insert(known, From(r), To(r))
  /\ todo' = Tail(todo)
  /\ UNCHANGED <<funcs, text, k, at, data, report>>

CountText ==
  /\ at = "text" /\ k \in DOMAIN text
  /\ LET r == text[k]
     IN IF r.seg # Seg \/ r.endseg # Seg \/ From(r) >= To(r)
        THEN UNCHANGED <<data, known>>
        ELSE /\ data' = insert(data, From(r), To(r))
             /\ known' = insert(known, From(r), To(r))
  /\ k' = k + 1
  /\ UNCHANGED <<funcs, text, at, todo, code, report>>

\* Saturating subtraction.
Minus(a, b) == MaxOf(a - b, 0)

gaps_size(rs, s, e) ==
  LET gaps == gaps_within(rs, s, e)
  IN FoldLeft(LAMBDA n, g : n + (g.end - g.start), 0, gaps)

bytes_in(rs, s, e) == Minus(Minus(e, s), gaps_size(rs, s, e))

Report ==
  /\ at = "text" /\ k \notin DOMAIN text
  /\ report' = [code |-> bytes_in(code, SegStart, SegEnd),
                data |-> bytes_in(data, SegStart, SegEnd),
                unknown |-> gaps_size(known, SegStart, SegEnd),
                total |-> Minus(SegEnd, SegStart)]
  /\ at' = "done"
  /\ UNCHANGED <<funcs, text, k, todo, code, data, known>>

Done == at = "done" /\ UNCHANGED vars

Next == NextFunc \/ CountCode \/ CountText \/ Report \/ Done

Spec == Init /\ [][Next]_vars

---------------------------------------------------------------------------
(* Properties *)

\* The vectors behind the three range sets stay ascending and never touch
\* (what every binary search of range_set.rs relies on), and the union is
\* kept exactly: known has an address iff code or data has it.
RangesSound ==
  /\ WellFormed(code) /\ WellFormed(data) /\ WellFormed(known)
  /\ \A p \in Nat : Covers(known, p) <=> Covers(code, p) \/ Covers(data, p)

SpanPoints == SegStart .. SegEnd - 1

\* RangesSound on the addresses of the span, a statement TLC can evaluate.
RangesAgree ==
  /\ WellFormed(code) /\ WellFormed(data) /\ WellFormed(known)
  /\ \A p \in SpanPoints : Covers(known, p) <=> Covers(code, p) \/ Covers(data, p)

\* Reference: an address is data if a declared region of the segment has it,
\* code if a region of a function of the segment has it and it is not data.
IsData(p) ==
  \E i \in DOMAIN text : /\ text[i].seg = Seg /\ text[i].endseg = Seg
                         /\ text[i].start <= p /\ p < text[i].end
InBody(f, p) ==
  IF f.regions # <<>>
  THEN \E i \in DOMAIN f.regions :
         /\ f.regions[i].seg = Seg
         /\ f.regions[i].start <= p /\ p < f.regions[i].end
  ELSE f.end # NoEnd /\ f.start <= p /\ p < f.end
IsCode(p) ==
  ~IsData(p) /\ \E i \in DOMAIN funcs : funcs[i].seg = Seg /\ InBody(funcs[i], p)

\* The report counts every byte of the span once: as code, as data or as
\* unknown, as the unsorted, unmerged configuration says.
Accounted ==
  at = "done" =>
    /\ report.code = Cardinality({p \in SpanPoints : IsCode(p)})
    /\ report.data = Cardinality({p \in SpanPoints : IsData(p)})
    /\ report.code + report.data + report.unknown = report.total
=============================================================================
