---------------------------- MODULE CoverageProofs ----------------------------
(***************************************************************************)
(* for_span (coverage.rs:31) accounts for every byte of its span, whatever *)
(* the configuration: the three range sets agree at every step, and the    *)
(* report at the end is what the configuration says byte by byte.          *)
(***************************************************************************)
EXTENDS Coverage, RangeSetProofs

---------------------------------------------------------------------------
(* The inductive invariant of the loops *)

\* What the loops walk through: the code left of the function at hand lies in
\* one segment, and nothing of it is left when the functions are done.
LoopOK ==
  /\ funcs \in FuncLists /\ text \in TextLists
  /\ at \in {"funcs", "text", "done"}
  /\ todo \in Seq(Regions) /\ OneSegment(todo)
  /\ at # "funcs" => todo = <<>>
  /\ k \in 1 .. Len(IF at = "funcs" THEN funcs ELSE text) + 1
  /\ at = "done" => k = Len(text) + 1

\* How many functions and how many data regions the loops have taken.
FuncsTaken == IF at = "funcs" THEN k - 1 ELSE Len(funcs)
TextTaken == IF at = "funcs" THEN 0 ELSE k - 1

\* Address p is code of function f.
CodeByte(f, p) == f.seg = Seg /\ InBody(f, p) /\ ~IsData(p)
DataByte(r, p) == r.seg = Seg /\ r.endseg = Seg /\ r.start <= p /\ p < r.end

\* Inside the span, what code has and todo still holds is the code of the
\* functions taken, and data has the data regions taken.
CodeSoFar ==
  \A p \in SpanPoints :
    Covers(code, p) \/ Own(todo, Seg, p)
      <=> \E i \in 1 .. FuncsTaken : CodeByte(funcs[i], p)
DataSoFar ==
  \A p \in SpanPoints :
    Covers(data, p) <=> \E i \in 1 .. TextTaken : DataByte(text[i], p)

Reported ==
  at = "done" =>
    report = [code |-> bytes_in(code, SegStart, SegEnd),
              data |-> bytes_in(data, SegStart, SegEnd),
              unknown |-> gaps_size(known, SegStart, SegEnd),
              total |-> Minus(SegEnd, SegStart)]

SoFar == LoopOK /\ CodeSoFar /\ DataSoFar /\ Reported
LEMMA ClipTyped ==
  ASSUME NEW r \in Regions
  PROVE  From(r) \in Nat /\ To(r) \in Nat
  BY SpanAssumption DEF From, To, Regions, MinOf, MaxOf

\* Inserting one range into known and into code or data keeps known the union
\* of the two.
LEMMA InsertBoth ==
  ASSUME NEW a, NEW b, NEW c, NEW s \in Nat, NEW e \in Nat,
         WellFormed(a), WellFormed(c),
         \A p \in Nat : Covers(c, p) <=> Covers(a, p) \/ Covers(b, p)
  PROVE  /\ WellFormed(insert(a, s, e)) /\ WellFormed(insert(c, s, e))
         /\ \A p \in Nat : Covers(insert(c, s, e), p)
                             <=> Covers(insert(a, s, e), p) \/ Covers(b, p)
<1>1. /\ WellFormed(insert(a, s, e))
      /\ \A p \in Nat : Covers(insert(a, s, e), p) <=> Covers(a, p) \/ (s <= p /\ p < e)
  BY InsertSound
<1>2. /\ WellFormed(insert(c, s, e))
      /\ \A p \in Nat : Covers(insert(c, s, e), p) <=> Covers(c, p) \/ (s <= p /\ p < e)
  BY InsertSound
<1> QED
  BY <1>1, <1>2


LEMMA ListsTyped ==
  ASSUME funcs \in FuncLists, text \in TextLists
  PROVE  /\ funcs \in Seq(Funcs) /\ Len(funcs) \in Nat /\ DOMAIN funcs = 1 .. Len(funcs)
         /\ \A i \in 1 .. Len(funcs) : funcs[i] \in Funcs
         /\ text \in Seq(Regions) /\ Len(text) \in Nat /\ DOMAIN text = 1 .. Len(text)
         /\ \A i \in 1 .. Len(text) : text[i] \in Regions
<1>1. funcs \in Seq(Funcs)
  BY FuncAssumption
<1>2. text \in Seq(Regions)
  BY TextAssumption
<1> QED
  BY <1>1, <1>2

\* The regions the loop walks for a function are its code in the segment.
LEMMA CodeOfExact ==
  ASSUME text \in Seq(Regions), NEW f \in Funcs
  PROVE  /\ CodeOf(text, f) \in Seq(Regions) /\ OneSegment(CodeOf(text, f))
         /\ \A p \in Nat : Own(CodeOf(text, f), Seg, p) <=> CodeByte(f, p)
<1> DEFINE rs == effective_regions(f)
<1>1. /\ f.seg \in Nat /\ f.start \in Nat /\ f.regions \in Seq(Regions)
      /\ f.end # NoEnd => f.end \in Nat
  BY DEF Funcs
<1>2. Seg \in Nat
  BY SpanAssumption
<1>3. CASE f.seg # Seg
  <2>1. CodeOf(text, f) = <<>>
    BY <1>3 DEF CodeOf
  <2>2. <<>> \in Seq(Regions) /\ OneSegment(<<>>) /\ \A p \in Nat : ~Own(<<>>, Seg, p)
    BY DEF OneSegment, Own, HasUpTo
  <2> QED
    BY <1>3, <2>1, <2>2 DEF CodeByte
<1>4. CASE f.seg = Seg
  <2>1. CodeOf(text, f) = code_regions(text, rs)
    BY <1>4 DEF CodeOf
  <2>2. rs \in Seq(Regions) /\ \A p \in Nat : Own(rs, Seg, p) <=> InBody(f, p)
    <3>1. CASE f.regions # <<>>
      <4>1. rs \in Seq(Regions) /\ \A p \in Nat : Own(rs, Seg, p) <=> Own(f.regions, Seg, p)
        BY <1>1, <1>2, <3>1, EffectiveRegionsExact
      <4>2. DOMAIN f.regions = 1 .. Len(f.regions)
        BY <1>1
      <4>3. \A p \in Nat : Own(f.regions, Seg, p) <=> InBody(f, p)
        BY <3>1, <4>2 DEF Own, HasUpTo, InBody
      <4> QED
        BY <4>1, <4>3
    <3>2. CASE f.regions = <<>> /\ f.end # NoEnd
      <4> DEFINE r == Region(f.seg, f.start, f.seg, f.end)
      <4>1. rs = <<r>>
        BY <3>2 DEF effective_regions
      <4>2. r \in Regions /\ r.seg = Seg /\ r.start = f.start /\ r.end = f.end
        BY <1>1, <1>4, <3>2 DEF Region, Regions
      <4> HIDE DEF r, rs
      <4>3. rs \in Seq(Regions) /\ Len(rs) = 1 /\ rs[1] = r
        BY <4>1, <4>2
      <4>4. \A p \in Nat : Own(rs, Seg, p) <=> f.start <= p /\ p < f.end
        BY <4>2, <4>3 DEF Own, HasUpTo
      <4> QED
        BY <3>2, <4>3, <4>4 DEF InBody
    <3>3. CASE f.regions = <<>> /\ f.end = NoEnd
      <4>1. rs = <<>>
        BY <3>3 DEF effective_regions
      <4> QED
        BY <3>3, <4>1 DEF Own, HasUpTo, InBody
    <3> QED
      BY <3>1, <3>2, <3>3
  <2> HIDE DEF rs
  <2>3. /\ code_regions(text, rs) \in Seq(Regions)
        /\ OneSegment(code_regions(text, rs))
        /\ \A p \in Nat : Own(code_regions(text, rs), Seg, p)
                            <=> Own(rs, Seg, p) /\ ~IsText(text, Seg, p)
    BY <1>2, <2>2, CodeRegionsExact, RegionsDeclared
  <2>4. \A p \in Nat : IsText(text, Seg, p) <=> IsData(p)
    <3>1. DOMAIN text = 1 .. Len(text)
      OBVIOUS
    <3> QED
      BY <3>1 DEF IsText, IsData
  <2> QED
    BY <1>4, <2>1, <2>2, <2>3, <2>4 DEF CodeByte
<1> QED
  BY <1>3, <1>4

\* Clipping to the span loses no address of the span.
LEMMA Clipped ==
  ASSUME NEW r \in Regions, NEW p \in SpanPoints
  PROVE  /\ p \in Nat
         /\ From(r) <= p /\ p < To(r) <=> r.start <= p /\ p < r.end
  BY SpanAssumption DEF SpanPoints, From, To, Regions, MinOf, MaxOf

\* What is left of a vector after its first region.
LEMMA Rest ==
  ASSUME NEW rs \in Seq(Regions), rs # <<>>, OneSegment(rs)
  PROVE  /\ Head(rs) \in Regions /\ Head(rs).endseg = Head(rs).seg
         /\ Tail(rs) \in Seq(Regions) /\ OneSegment(Tail(rs))
         /\ \A seg, p \in Nat : Own(rs, seg, p) <=>
              \/ Head(rs).seg = seg /\ Head(rs).start <= p /\ p < Head(rs).end
              \/ Own(Tail(rs), seg, p)
<1> DEFINE n == Len(rs)
           r == Head(rs)
           t == Tail(rs)
<1>1. n \in Nat /\ n >= 1 /\ r = rs[1] /\ t \in Seq(Regions) /\ Len(t) = n - 1
  OBVIOUS
<1>2. \A i \in 1 .. n - 1 : t[i] = rs[i + 1]
  OBVIOUS
<1>3. \A i \in 1 .. n : rs[i] \in Regions /\ rs[i].endseg = rs[i].seg
  BY DEF OneSegment
<1> HIDE DEF n, r, t
<1>4. 1 \in 1 .. n /\ \A i \in 1 .. n - 1 : i + 1 \in 1 .. n
  BY <1>1
<1>5. \A i \in 1 .. n : i = 1 \/ (i - 1 \in 1 .. n - 1 /\ (i - 1) + 1 = i)
  BY <1>1
<1>6. OneSegment(t)
  BY <1>1, <1>2, <1>3, <1>4 DEF OneSegment
<1>7. ASSUME NEW seg \in Nat, NEW p \in Nat
      PROVE  Own(rs, seg, p) <=> (r.seg = seg /\ r.start <= p /\ p < r.end) \/ Own(t, seg, p)
  <2>1. ASSUME Own(rs, seg, p)
        PROVE  (r.seg = seg /\ r.start <= p /\ p < r.end) \/ Own(t, seg, p)
    <3>1. PICK i \in 1 .. n : rs[i].seg = seg /\ rs[i].start <= p /\ p < rs[i].end
      BY <2>1 DEF Own, HasUpTo, n
    <3>2. CASE i = 1
      BY <3>1, <3>2, <1>1
    <3>3. CASE i - 1 \in 1 .. n - 1 /\ (i - 1) + 1 = i
      <4>1. t[i - 1] = rs[i]
        BY <3>3, <1>2
      <4> QED
        BY <3>1, <3>3, <4>1, <1>1 DEF Own, HasUpTo
    <3> QED
      BY <1>5, <3>2, <3>3
  <2>2. ASSUME r.seg = seg, r.start <= p, p < r.end
        PROVE  Own(rs, seg, p)
    BY <2>2, <1>1, <1>4 DEF Own, HasUpTo, n
  <2>3. ASSUME Own(t, seg, p)
        PROVE  Own(rs, seg, p)
    <3>1. PICK i \in 1 .. n - 1 : t[i].seg = seg /\ t[i].start <= p /\ p < t[i].end
      BY <2>3, <1>1 DEF Own, HasUpTo
    <3> QED
      BY <3>1, <1>2, <1>4 DEF Own, HasUpTo, n
  <2> QED
    BY <2>1, <2>2, <2>3
<1> QED
  BY <1>1, <1>3, <1>4, <1>6, <1>7 DEF r, t

LEMMA InitSound ==
  ASSUME Init
  PROVE  SoFar /\ RangesSound
<1>1. funcs \in FuncLists /\ text \in TextLists /\ k = 1 /\ at = "funcs" /\ todo = <<>>
  BY DEF Init
<1>2. code = <<>> /\ data = <<>> /\ known = <<>>
  BY DEF Init
<1>3. LoopOK
  <2>1. Len(funcs) \in Nat
    BY <1>1, ListsTyped
  <2>2. OneSegment(todo) /\ todo \in Seq(Regions)
    BY <1>1 DEF OneSegment
  <2> QED
    BY <1>1, <2>1, <2>2 DEF LoopOK
<1>4. RangesSound
  BY <1>2, EmptySound DEF RangesSound
<1>5. \A p : ~Own(todo, Seg, p) /\ ~Covers(code, p) /\ ~Covers(data, p)
  BY <1>1, <1>2 DEF Own, HasUpTo, Covers
<1>6. FuncsTaken = 0 /\ TextTaken = 0
  BY <1>1 DEF FuncsTaken, TextTaken
<1>7. CodeSoFar /\ DataSoFar
  BY <1>5, <1>6 DEF CodeSoFar, DataSoFar
<1> QED
  BY <1>1, <1>3, <1>4, <1>7 DEF SoFar, Reported

\* The next function's code joins what is left to count.
LEMMA NextFuncKeeps ==
  ASSUME SoFar, RangesSound, NextFunc
  PROVE  SoFar' /\ RangesSound'
<1>1. LoopOK /\ CodeSoFar /\ DataSoFar
  BY DEF SoFar
<1>2. /\ funcs \in Seq(Funcs) /\ Len(funcs) \in Nat /\ DOMAIN funcs = 1 .. Len(funcs)
      /\ \A i \in 1 .. Len(funcs) : funcs[i] \in Funcs
      /\ text \in Seq(Regions) /\ Len(text) \in Nat
  BY <1>1, ListsTyped DEF LoopOK
<1>3. /\ at = "funcs" /\ todo = <<>> /\ k \in 1 .. Len(funcs) + 1
      /\ funcs' = funcs /\ text' = text /\ code' = code /\ data' = data /\ known' = known
  BY <1>1 DEF NextFunc, LoopOK
<1>4. RangesSound'
  BY <1>3 DEF RangesSound
<1>5. \A f, p : CodeByte(f, p)' <=> CodeByte(f, p)
  BY <1>3 DEF CodeByte, InBody, IsData
<1>6. \A p : ~Own(todo, Seg, p)
  BY <1>3 DEF Own, HasUpTo
<1>7. CASE k \in DOMAIN funcs
  <2>1. todo' = CodeOf(text, funcs[k]) /\ k' = k + 1 /\ at' = at /\ k \in 1 .. Len(funcs)
    BY <1>2, <1>7 DEF NextFunc
  <2>2. /\ todo' \in Seq(Regions) /\ OneSegment(todo')
        /\ \A p \in Nat : Own(todo', Seg, p) <=> CodeByte(funcs[k], p)
    BY <1>2, <2>1, CodeOfExact
  <2>3. LoopOK'
    <3>1. k' \in 1 .. Len(funcs) + 1
      BY <1>2, <2>1
    <3>2. OneSegment(todo)'
      BY <2>2 DEF OneSegment
    <3> QED
      BY <1>1, <1>3, <2>1, <2>2, <3>1, <3>2 DEF LoopOK
  <2>4. FuncsTaken = k - 1 /\ FuncsTaken' = k /\ TextTaken' = TextTaken
    BY <1>2, <1>3, <2>1 DEF FuncsTaken, TextTaken
  <2>5. CodeSoFar'
    <3> SUFFICES ASSUME NEW p \in SpanPoints
                 PROVE  Covers(code, p) \/ Own(todo', Seg, p)
                          <=> \E i \in 1 .. k : CodeByte(funcs[i], p)
      BY <1>3, <1>5, <2>4 DEF CodeSoFar, SpanPoints
    <3>1. p \in Nat
      BY SpanAssumption DEF SpanPoints
    <3>2. Covers(code, p) <=> \E i \in 1 .. k - 1 : CodeByte(funcs[i], p)
      BY <1>1, <1>6, <2>4 DEF CodeSoFar
    <3>3. Own(todo', Seg, p) <=> CodeByte(funcs[k], p)
      BY <2>2, <3>1
    <3>4. \A i \in 1 .. k : i = k \/ i \in 1 .. k - 1
      BY <1>3
    <3>5. k \in 1 .. k /\ \A i \in 1 .. k - 1 : i \in 1 .. k
      BY <1>3
    <3> QED
      BY <3>2, <3>3, <3>4, <3>5
  <2>6. DataSoFar'
    BY <1>1, <1>3, <2>4 DEF DataSoFar, DataByte, SpanPoints
  <2>7. Reported'
    BY <1>3, <2>1 DEF Reported
  <2> QED
    BY <1>4, <2>3, <2>5, <2>6, <2>7 DEF SoFar
<1>8. CASE k \notin DOMAIN funcs
  <2>1. k' = 1 /\ at' = "text" /\ todo' = todo /\ k = Len(funcs) + 1
    BY <1>2, <1>3, <1>8 DEF NextFunc
  <2>2. LoopOK'
    <3>1. OneSegment(todo)'
      BY <1>1, <2>1 DEF OneSegment, LoopOK
    <3> QED
      BY <1>1, <1>2, <1>3, <2>1, <3>1 DEF LoopOK
  <2>3. FuncsTaken' = FuncsTaken /\ TextTaken' = 0 /\ TextTaken = 0
    BY <1>2, <1>3, <2>1 DEF FuncsTaken, TextTaken
  <2>4. \A p : Own(todo, Seg, p)' <=> Own(todo, Seg, p)
    BY <2>1 DEF Own, HasUpTo
  <2>5. CodeSoFar'
    BY <1>1, <1>3, <1>5, <2>3, <2>4 DEF CodeSoFar, SpanPoints
  <2>6. DataSoFar'
    BY <1>1, <1>3, <2>3 DEF DataSoFar, DataByte, SpanPoints
  <2>7. Reported'
    BY <2>1 DEF Reported
  <2> QED
    BY <1>4, <2>2, <2>5, <2>6, <2>7 DEF SoFar
<1> QED
  BY <1>7, <1>8

\* A region of the function at hand moves from todo into code.
LEMMA CountCodeKeeps ==
  ASSUME SoFar, RangesSound, CountCode
  PROVE  SoFar' /\ RangesSound'
<1> DEFINE r == Head(todo)
<1>1. LoopOK /\ CodeSoFar /\ DataSoFar
  BY DEF SoFar
<1>2. /\ at = "funcs" /\ todo # <<>> /\ todo \in Seq(Regions) /\ OneSegment(todo)
      /\ todo' = Tail(todo) /\ at' = at /\ k' = k
      /\ funcs' = funcs /\ text' = text /\ data' = data
  BY <1>1 DEF CountCode, LoopOK
<1>3. /\ r \in Regions /\ r.endseg = r.seg
      /\ todo' \in Seq(Regions) /\ OneSegment(todo')
      /\ \A seg, p \in Nat : Own(todo, seg, p) <=>
           (r.seg = seg /\ r.start <= p /\ p < r.end) \/ Own(todo', seg, p)
  BY <1>2, Rest
<1>4. \/ (r.seg # Seg \/ From(r) >= To(r)) /\ code' = code /\ known' = known
      \/ /\ r.seg = Seg /\ code' = insert(code, From(r), To(r))
         /\ known' = insert(known, From(r), To(r))
  BY <1>3 DEF CountCode
<1> HIDE DEF r
<1>5. From(r) \in Nat /\ To(r) \in Nat
  BY <1>3, ClipTyped
<1>6. RangesSound'
  <2>1. WellFormed(code) /\ WellFormed(data) /\ WellFormed(known)
    BY DEF RangesSound
  <2>2. CASE code' = code /\ known' = known
    BY <1>2, <2>2 DEF RangesSound
  <2>3. CASE code' = insert(code, From(r), To(r)) /\ known' = insert(known, From(r), To(r))
    <3>1. \A p \in Nat : Covers(known, p) <=> Covers(code, p) \/ Covers(data, p)
      BY DEF RangesSound
    <3>2. /\ WellFormed(code') /\ WellFormed(known')
          /\ \A p \in Nat : Covers(known', p) <=> Covers(code', p) \/ Covers(data, p)
      BY <1>5, <2>1, <2>3, <3>1, InsertBoth
    <3> QED
      BY <1>2, <2>1, <3>2 DEF RangesSound
  <2> QED
    BY <1>4, <2>2, <2>3
<1>7. LoopOK'
  <2>1. OneSegment(todo)'
    BY <1>3 DEF OneSegment
  <2> QED
    BY <1>1, <1>2, <1>3, <2>1 DEF LoopOK
<1>8. FuncsTaken' = FuncsTaken /\ TextTaken' = TextTaken
  BY <1>2 DEF FuncsTaken, TextTaken
<1>9. \A f, p : CodeByte(f, p)' <=> CodeByte(f, p)
  BY <1>2 DEF CodeByte, InBody, IsData
<1>10. CodeSoFar'
  <2> SUFFICES ASSUME NEW p \in SpanPoints
               PROVE  Covers(code', p) \/ Own(todo', Seg, p)
                        <=> Covers(code, p) \/ Own(todo, Seg, p)
    BY <1>1, <1>2, <1>8, <1>9 DEF CodeSoFar, SpanPoints
  <2>1. p \in Nat /\ Seg \in Nat /\ (From(r) <= p /\ p < To(r) <=> r.start <= p /\ p < r.end)
    BY <1>3, Clipped, SpanAssumption
  <2>2. Covers(code', p) <=> Covers(code, p) \/ (r.seg = Seg /\ From(r) <= p /\ p < To(r))
    <3>1. CASE (r.seg # Seg \/ From(r) >= To(r)) /\ code' = code
      BY <3>1, <1>5, <2>1
    <3>2. CASE r.seg = Seg /\ code' = insert(code, From(r), To(r))
      <4>1. WellFormed(code)
        BY DEF RangesSound
      <4>2. \A q \in Nat : Covers(insert(code, From(r), To(r)), q)
                             <=> Covers(code, q) \/ (From(r) <= q /\ q < To(r))
        BY <4>1, <1>5, InsertSound
      <4> QED
        BY <3>2, <4>2, <2>1
    <3> QED
      BY <1>4, <3>1, <3>2
  <2>3. Own(todo, Seg, p) <=> (r.seg = Seg /\ r.start <= p /\ p < r.end) \/ Own(todo', Seg, p)
    BY <1>3, <2>1
  <2> QED
    BY <2>1, <2>2, <2>3
<1>11. DataSoFar'
  BY <1>1, <1>2, <1>8 DEF DataSoFar, DataByte, SpanPoints
<1>12. Reported'
  BY <1>2 DEF Reported
<1> QED
  BY <1>6, <1>7, <1>10, <1>11, <1>12 DEF SoFar

\* The next declared data region goes into data.
LEMMA CountTextKeeps ==
  ASSUME SoFar, RangesSound, CountText
  PROVE  SoFar' /\ RangesSound'
<1> DEFINE r == text[k]
<1>1. LoopOK /\ CodeSoFar /\ DataSoFar
  BY DEF SoFar
<1>2. /\ text \in Seq(Regions) /\ Len(text) \in Nat /\ DOMAIN text = 1 .. Len(text)
      /\ \A i \in 1 .. Len(text) : text[i] \in Regions
  BY <1>1, ListsTyped DEF LoopOK
<1>3. /\ at = "text" /\ k \in 1 .. Len(text) /\ k' = k + 1 /\ at' = at /\ todo' = todo
      /\ funcs' = funcs /\ text' = text /\ code' = code
  BY <1>2 DEF CountText
<1>4. \/ (r.seg # Seg \/ r.endseg # Seg \/ From(r) >= To(r)) /\ data' = data /\ known' = known
      \/ /\ r.seg = Seg /\ r.endseg = Seg /\ data' = insert(data, From(r), To(r))
         /\ known' = insert(known, From(r), To(r))
  BY DEF CountText
<1>5. r \in Regions
  BY <1>2, <1>3
<1> HIDE DEF r
<1>6. From(r) \in Nat /\ To(r) \in Nat
  BY <1>5, ClipTyped
<1>7. RangesSound'
  <2>1. WellFormed(code) /\ WellFormed(data) /\ WellFormed(known)
    BY DEF RangesSound
  <2>2. CASE data' = data /\ known' = known
    BY <1>3, <2>2 DEF RangesSound
  <2>3. CASE data' = insert(data, From(r), To(r)) /\ known' = insert(known, From(r), To(r))
    <3>1. \A p \in Nat : Covers(known, p) <=> Covers(data, p) \/ Covers(code, p)
      BY DEF RangesSound
    <3>2. /\ WellFormed(data') /\ WellFormed(known')
          /\ \A p \in Nat : Covers(known', p) <=> Covers(data', p) \/ Covers(code, p)
      BY <1>6, <2>1, <2>3, <3>1, InsertBoth
    <3> QED
      BY <1>3, <2>1, <3>2 DEF RangesSound
  <2> QED
    BY <1>4, <2>2, <2>3
<1>8. LoopOK'
  <2>1. k' \in 1 .. Len(text) + 1
    BY <1>2, <1>3
  <2>2. OneSegment(todo)'
    BY <1>1, <1>3 DEF OneSegment, LoopOK
  <2> QED
    BY <1>1, <1>3, <2>1, <2>2 DEF LoopOK
<1>9. FuncsTaken' = FuncsTaken /\ TextTaken = k - 1 /\ TextTaken' = k
  BY <1>2, <1>3 DEF FuncsTaken, TextTaken
<1>10. CodeSoFar'
  <2>1. \A f, p : CodeByte(f, p)' <=> CodeByte(f, p)
    BY <1>3 DEF CodeByte, InBody, IsData
  <2>2. \A p : Own(todo, Seg, p)' <=> Own(todo, Seg, p)
    BY <1>3 DEF Own, HasUpTo
  <2> QED
    BY <1>1, <1>3, <1>9, <2>1, <2>2 DEF CodeSoFar, SpanPoints
<1>11. DataSoFar'
  <2> SUFFICES ASSUME NEW p \in SpanPoints
               PROVE  Covers(data', p) <=> \E i \in 1 .. k : DataByte(text[i], p)
    BY <1>3, <1>9 DEF DataSoFar, DataByte, SpanPoints
  <2>1. p \in Nat /\ (From(r) <= p /\ p < To(r) <=> r.start <= p /\ p < r.end)
    BY <1>5, Clipped
  <2>2. Covers(data', p) <=> Covers(data, p) \/ DataByte(r, p)
    <3>1. CASE (r.seg # Seg \/ r.endseg # Seg \/ From(r) >= To(r)) /\ data' = data
      BY <3>1, <1>6, <2>1 DEF DataByte
    <3>2. CASE r.seg = Seg /\ r.endseg = Seg /\ data' = insert(data, From(r), To(r))
      <4>1. WellFormed(data)
        BY DEF RangesSound
      <4>2. \A q \in Nat : Covers(insert(data, From(r), To(r)), q)
                             <=> Covers(data, q) \/ (From(r) <= q /\ q < To(r))
        BY <4>1, <1>6, InsertSound
      <4> QED
        BY <3>2, <4>2, <2>1 DEF DataByte
    <3> QED
      BY <1>4, <3>1, <3>2
  <2>3. Covers(data, p) <=> \E i \in 1 .. k - 1 : DataByte(text[i], p)
    BY <1>1, <1>9 DEF DataSoFar
  <2>4. \A i \in 1 .. k : i = k \/ i \in 1 .. k - 1
    BY <1>3
  <2>5. k \in 1 .. k /\ \A i \in 1 .. k - 1 : i \in 1 .. k
    BY <1>3
  <2>6. DataByte(r, p) <=> DataByte(text[k], p)
    BY DEF r
  <2> QED
    BY <2>2, <2>3, <2>4, <2>5, <2>6
<1>12. Reported'
  BY <1>3 DEF Reported
<1> QED
  BY <1>7, <1>8, <1>10, <1>11, <1>12 DEF SoFar

LEMMA ReportKeeps ==
  ASSUME SoFar, RangesSound, Report
  PROVE  SoFar' /\ RangesSound'
<1>1. LoopOK /\ CodeSoFar /\ DataSoFar
  BY DEF SoFar
<1>2. Len(text) \in Nat /\ DOMAIN text = 1 .. Len(text)
  BY <1>1, ListsTyped DEF LoopOK
<1>3. /\ at = "text" /\ at' = "done" /\ k \notin DOMAIN text /\ k' = k /\ todo' = todo
      /\ funcs' = funcs /\ text' = text /\ code' = code /\ data' = data /\ known' = known
  BY DEF Report
<1>4. k = Len(text) + 1
  BY <1>1, <1>2, <1>3 DEF LoopOK
<1>5. LoopOK'
  <2>1. OneSegment(todo)'
    BY <1>1, <1>3 DEF OneSegment, LoopOK
  <2> QED
    BY <1>1, <1>3, <1>4, <2>1 DEF LoopOK
<1>6. FuncsTaken' = FuncsTaken /\ TextTaken' = TextTaken
  BY <1>3 DEF FuncsTaken, TextTaken
<1>7. CodeSoFar'
  <2>1. \A f, p : CodeByte(f, p)' <=> CodeByte(f, p)
    BY <1>3 DEF CodeByte, InBody, IsData
  <2>2. \A p : Own(todo, Seg, p)' <=> Own(todo, Seg, p)
    BY <1>3 DEF Own, HasUpTo
  <2> QED
    BY <1>1, <1>3, <1>6, <2>1, <2>2 DEF CodeSoFar, SpanPoints
<1>8. DataSoFar'
  BY <1>1, <1>3, <1>6 DEF DataSoFar, DataByte, SpanPoints
<1>9. Reported'
  BY <1>3 DEF Report, Reported
<1>10. RangesSound'
  BY <1>3 DEF RangesSound
<1> QED
  BY <1>5, <1>7, <1>8, <1>9, <1>10 DEF SoFar

LEMMA StutterKeeps ==
  ASSUME SoFar, RangesSound, UNCHANGED vars
  PROVE  SoFar' /\ RangesSound'
<1>1. /\ k' = k /\ at' = at /\ todo' = todo /\ report' = report
      /\ funcs' = funcs /\ text' = text /\ code' = code /\ data' = data /\ known' = known
  BY DEF vars
<1>2. LoopOK'
  BY <1>1 DEF SoFar, LoopOK, OneSegment
<1>3. FuncsTaken' = FuncsTaken /\ TextTaken' = TextTaken
  BY <1>1 DEF FuncsTaken, TextTaken
<1>4. CodeSoFar'
  <2>1. \A f, p : CodeByte(f, p)' <=> CodeByte(f, p)
    BY <1>1 DEF CodeByte, InBody, IsData
  <2>2. \A p : Own(todo, Seg, p)' <=> Own(todo, Seg, p)
    BY <1>1 DEF Own, HasUpTo
  <2> QED
    BY <1>1, <1>3, <2>1, <2>2 DEF SoFar, CodeSoFar, SpanPoints
<1>5. DataSoFar'
  BY <1>1, <1>3 DEF SoFar, DataSoFar, DataByte, SpanPoints
<1>6. Reported'
  BY <1>1 DEF SoFar, Reported
<1>7. RangesSound'
  BY <1>1 DEF RangesSound
<1> QED
  BY <1>2, <1>4, <1>5, <1>6, <1>7 DEF SoFar

LEMMA StepSound ==
  ASSUME SoFar, RangesSound, [Next]_vars
  PROVE  SoFar' /\ RangesSound'
<1>1. CASE Done
  BY <1>1, StutterKeeps DEF Done
<1> QED
  BY <1>1, NextFuncKeeps, CountCodeKeeps, CountTextKeeps, ReportKeeps, StutterKeeps DEF Next

---------------------------------------------------------------------------
(* What the report says *)

\* bytes_in, which subtracts the gaps from the span, counts what is covered.
LEMMA BytesIn ==
  ASSUME NEW rs, WellFormed(rs), NEW s \in Nat, NEW e \in Nat
  PROVE  /\ gaps_size(rs, s, e) = Cardinality(UncoveredIn(rs, s, e))
         /\ bytes_in(rs, s, e) = Cardinality(CoveredIn(rs, s, e))
<1>1. gaps_size(rs, s, e) = Cardinality(UncoveredIn(rs, s, e))
  <2>1. gaps_size(rs, s, e) = SizeLoop(gaps_within(rs, s, e))
    BY DEF gaps_size, SizeLoop
  <2> QED
    BY <2>1, GapsSize
<1> DEFINE a == Cardinality(CoveredIn(rs, s, e))
           b == Cardinality(UncoveredIn(rs, s, e))
<1>2. a \in Nat /\ b \in Nat /\ a + b = IF s < e THEN e - s ELSE 0
  BY SpanSplit
<1>3. bytes_in(rs, s, e) = Minus(Minus(e, s), b)
  BY <1>1 DEF bytes_in
<1> HIDE DEF a, b
<1>4. Minus(e, s) = a + b
  BY <1>2 DEF Minus, MaxOf
<1>5. Minus(Minus(e, s), b) = a
  BY <1>2, <1>4 DEF Minus, MaxOf
<1> QED
  BY <1>1, <1>3, <1>5 DEF a

\* When the loops are done, code and data have the code and the data bytes of
\* the span.
LEMMA AllTaken ==
  ASSUME SoFar, at = "done"
  PROVE  /\ CoveredIn(code, SegStart, SegEnd) = {p \in SpanPoints : IsCode(p)}
         /\ CoveredIn(data, SegStart, SegEnd) = {p \in SpanPoints : IsData(p)}
<1>1. LoopOK /\ CodeSoFar /\ DataSoFar
  BY DEF SoFar
<1>2. /\ Len(funcs) \in Nat /\ DOMAIN funcs = 1 .. Len(funcs)
      /\ Len(text) \in Nat /\ DOMAIN text = 1 .. Len(text)
  BY <1>1, ListsTyped DEF LoopOK
<1>3. FuncsTaken = Len(funcs) /\ TextTaken = Len(text) /\ todo = <<>>
  BY <1>1, <1>2 DEF LoopOK, FuncsTaken, TextTaken
<1>4. \A p \in SpanPoints : Covers(code, p) <=> IsCode(p)
  <2>1. \A p : ~Own(todo, Seg, p)
    BY <1>3 DEF Own, HasUpTo
  <2>2. \A p \in SpanPoints : Covers(code, p) <=> \E i \in 1 .. Len(funcs) : CodeByte(funcs[i], p)
    BY <1>1, <1>3, <2>1 DEF CodeSoFar
  <2> QED
    BY <1>2, <2>2 DEF CodeByte, IsCode
<1>5. \A p \in SpanPoints : Covers(data, p) <=> IsData(p)
  BY <1>1, <1>2, <1>3 DEF DataSoFar, DataByte, IsData
<1> QED
  BY <1>4, <1>5 DEF CoveredIn, SpanPoints

\* The bytes of code, of data and of neither add up to the span.
LEMMA EveryByteOnce ==
  ASSUME RangesSound, \A p \in SpanPoints : ~(Covers(code, p) /\ Covers(data, p))
  PROVE  Cardinality(CoveredIn(code, SegStart, SegEnd)) + Cardinality(CoveredIn(data, SegStart, SegEnd))
           + Cardinality(UncoveredIn(known, SegStart, SegEnd)) = Minus(SegEnd, SegStart)
<1> DEFINE A == CoveredIn(code, SegStart, SegEnd)
           B == CoveredIn(data, SegStart, SegEnd)
           C == CoveredIn(known, SegStart, SegEnd)
           U == UncoveredIn(known, SegStart, SegEnd)
<1>1. SegStart \in Nat /\ SegEnd \in Nat
  BY SpanAssumption
<1>2. \A p \in SpanPoints : Covers(known, p) <=> Covers(code, p) \/ Covers(data, p)
  BY <1>1 DEF RangesSound, SpanPoints
<1>3. A \cup B = C /\ A \cap B = {}
  BY <1>2 DEF CoveredIn, SpanPoints
<1>4. /\ IsFiniteSet(A) /\ Cardinality(A) \in Nat
      /\ IsFiniteSet(B) /\ Cardinality(B) \in Nat
      /\ Cardinality(C) \in Nat /\ Cardinality(U) \in Nat
      /\ Cardinality(C) + Cardinality(U) = IF SegStart < SegEnd THEN SegEnd - SegStart ELSE 0
  BY <1>1, SpanSplit
<1> HIDE DEF A, B, C, U
<1>5. Cardinality(A \cup B) = Cardinality(A) + Cardinality(B) - Cardinality(A \cap B)
  BY <1>4, FS_Union
<1>6. Cardinality(A \cap B) = 0
  BY <1>3, FS_EmptySet
<1>7. Cardinality(C) = Cardinality(A) + Cardinality(B)
  <2>1. Cardinality(A \cup B) = Cardinality(C)
    BY <1>3, Zenon
  <2> QED
    BY <1>4, <1>5, <1>6, <2>1
<1>8. Minus(SegEnd, SegStart) = IF SegStart < SegEnd THEN SegEnd - SegStart ELSE 0
  BY <1>1 DEF Minus, MaxOf
<1>9. Cardinality(A) + Cardinality(B) + Cardinality(U) = Minus(SegEnd, SegStart)
  BY <1>4, <1>7, <1>8
<1> QED
  BY <1>9 DEF A, B, U

LEMMA ReportSound ==
  ASSUME SoFar, RangesSound
  PROVE  Accounted
<1> SUFFICES ASSUME at = "done"
             PROVE  /\ report.code = Cardinality({p \in SpanPoints : IsCode(p)})
                    /\ report.data = Cardinality({p \in SpanPoints : IsData(p)})
                    /\ report.code + report.data + report.unknown = report.total
  BY DEF Accounted
<1>1. /\ report.code = bytes_in(code, SegStart, SegEnd)
      /\ report.data = bytes_in(data, SegStart, SegEnd)
      /\ report.unknown = gaps_size(known, SegStart, SegEnd)
      /\ report.total = Minus(SegEnd, SegStart)
  BY DEF SoFar, Reported
<1>2. WellFormed(code) /\ WellFormed(data) /\ WellFormed(known)
  BY DEF RangesSound
<1>3. SegStart \in Nat /\ SegEnd \in Nat
  BY SpanAssumption
<1>4. /\ report.code = Cardinality(CoveredIn(code, SegStart, SegEnd))
      /\ report.data = Cardinality(CoveredIn(data, SegStart, SegEnd))
      /\ report.unknown = Cardinality(UncoveredIn(known, SegStart, SegEnd))
  BY <1>1, <1>2, <1>3, BytesIn
<1>5. /\ CoveredIn(code, SegStart, SegEnd) = {p \in SpanPoints : IsCode(p)}
      /\ CoveredIn(data, SegStart, SegEnd) = {p \in SpanPoints : IsData(p)}
  BY AllTaken
<1>6. \A p \in SpanPoints : ~(Covers(code, p) /\ Covers(data, p))
  <2>1. \A p \in SpanPoints : /\ Covers(code, p) <=> IsCode(p)
                              /\ Covers(data, p) <=> IsData(p)
    BY <1>5 DEF CoveredIn, SpanPoints
  <2> QED
    BY <2>1 DEF IsCode
<1> QED
  BY <1>1, <1>4, <1>5, <1>6, EveryByteOnce

---------------------------------------------------------------------------
\* For every configuration and every span, the range sets of for_span stay
\* well formed, and known is exactly code and data together: the unknown
\* bytes of the report are those in neither (coverage.rs:31-61).
THEOREM RangesAlwaysAgree == Spec => []RangesAgree
<1>1. Init => SoFar /\ RangesSound
  BY InitSound
<1>2. SoFar /\ RangesSound /\ [Next]_vars => SoFar' /\ RangesSound'
  BY StepSound
<1>3. RangesSound => RangesAgree
  BY SpanAssumption DEF RangesSound, RangesAgree, SpanPoints
<1> QED
  BY <1>1, <1>2, <1>3, PTL DEF Spec

\* For every configuration, with its regions in any order, overlapping,
\* inverted or across segments, and every span, the report of for_span counts
\* each byte once, as the configuration says of that byte (coverage.rs:31-77).
THEOREM AlwaysAccounted == Spec => []Accounted
<1>1. Init => SoFar /\ RangesSound
  BY InitSound
<1>2. SoFar /\ RangesSound /\ [Next]_vars => SoFar' /\ RangesSound'
  BY StepSound
<1>3. SoFar /\ RangesSound => Accounted
  BY ReportSound
<1> QED
  BY <1>1, <1>2, <1>3, PTL DEF Spec
=============================================================================
