---------------------------- MODULE FuncScanProofs ----------------------------
(***************************************************************************)
(* Proofs about FuncScan: for every configuration, every program and every *)
(* order the two work queues give, the walk of a function reads exactly    *)
(* the code that control reaches, and the report says what it says.        *)
(***************************************************************************)
EXTENDS FuncScan, RangeSetProofs, SequenceTheorems

---------------------------------------------------------------------------
(* The first of a queue, and the first region with an address. *)

\* The least element of a set of naturals.
LEMMA MinFacts ==
  ASSUME NEW T, T \subseteq Nat, T # {}
  PROVE  Min(T) \in T /\ \A y \in T : Min(T) <= y
BY NatMinimum DEF Min

LEMMA RegionFor ==
  ASSUME NEW rs \in Seq(Regions), NEW a
  PROVE  /\ region_for(rs, a) \in 0 .. Len(rs)
         /\ region_for(rs, a) = 0 <=> \A k \in 1 .. Len(rs) : ~InRegion(rs[k], a)
         /\ region_for(rs, a) # 0 => InRegion(rs[region_for(rs, a)], a)
<1> DEFINE I == {i \in 1 .. Len(rs) : InRegion(rs[i], a)}
<1>1. region_for(rs, a) = IF I # {} THEN Min(I) ELSE 0
  BY DEF region_for, SelectInSeq
<1>2. Len(rs) \in Nat /\ I \subseteq Nat /\ 0 \notin I
  OBVIOUS
<1>3. CASE I = {}
  BY <1>1, <1>2, <1>3
<1>4. CASE I # {}
  <2>1. Min(I) \in I
    <3> HIDE DEF I
    <3> QED
      BY <1>2, <1>4, MinFacts
  <2> QED
    BY <1>1, <1>2, <1>4, <2>1
<1> QED
  BY <1>3, <1>4

---------------------------------------------------------------------------
(* Types, and what a configuration says of the function at an address. *)

Queues == [queued : SUBSET Nat, discovered : SUBSET Nat]
CallKinds == SUBSET (Nat \X {"near", "far"})
WalkType ==
  [start : Nat, regions : Seq(Regions), end : Nat \cup {NoEnd}, queue : Queues,
   addr : Nat \cup {NoAddr}, push_cs : BOOLEAN, largest : Nat,
   direct_calls : SUBSET Nat, call_kinds : CallKinds,
   indirect_calls : Nat, return_kind : Returns \cup {"none"},
   ignored : Seq(Returns), seen : SUBSET Nat]

TypeInv ==
  /\ funcs \in FuncLists /\ text \in TextLists
  /\ DOMAIN prog \subseteq Nat /\ \A p \in DOMAIN prog : prog[p] \in Instrs
  /\ outer \in Queues
  /\ fn = NoFn \/ fn \in WalkType

Covered(rs, x) == \E k \in 1 .. Len(rs) : InRegion(rs[k], x)

\* Regions rs hold the code of the function at a.
Fits(rs, a) ==
  /\ rs \in Seq(Regions)
  /\ rs = <<>> <=> Body(a) = {}
  /\ \A k \in 1 .. Len(rs) : rs[k].seg = Seg => rs[k].endseg = Seg
  /\ \A x \in SegStart .. SegEnd : Covered(rs, x) <=> \E r \in Body(a) : InRegion(r, x)
  /\ \A k \in 1 .. Len(rs), x \in SegStart .. SegEnd - 1 :
       InRegion(rs[k], x) /\ Covered(rs, x + 1) => InRegion(rs[k], x + 1)

LEMMA FuncFacts ==
  ASSUME funcs \in FuncLists
  PROVE  /\ Len(funcs) \in Nat /\ DOMAIN funcs = 1 .. Len(funcs)
         /\ \A i \in 1 .. Len(funcs) :
              /\ funcs[i].start \in Nat /\ funcs[i].end \in Nat \cup {NoEnd}
              /\ funcs[i].regions \in Seq(Regions)
<1> DEFINE F == [seg : Nat, start : Nat, end : Nat \cup {NoEnd},
                 entry : Nat \cup {NoAddr}, regions : Seq(Regions)]
<1>1. funcs \in Seq(F)
  BY ConfigAssumption
<1>2. \A f \in F : f.start \in Nat /\ f.end \in Nat \cup {NoEnd} /\ f.regions \in Seq(Regions)
  OBVIOUS
<1> HIDE DEF F
<1> QED
  BY <1>1, <1>2

\* The function with regions that starts at an address is the one looked up.
LEMMA LookedUp ==
  ASSUME funcs \in FuncLists, NEW a
  PROVE  /\ analysis_func_lookup(a) \in 0 .. Len(funcs)
         /\ \A j \in 1 .. Len(funcs) : funcs[j].start = a /\ funcs[j].regions # <<>> =>
              j = analysis_func_lookup(a)
<1> DEFINE byEntry == SelectInSeq(funcs, LAMBDA f : Entry(f) = a)
           byStart == SelectInSeq(funcs, LAMBDA f : f.start = a)
<1>1. Len(funcs) \in Nat /\ DOMAIN funcs = 1 .. Len(funcs)
  BY FuncFacts
<1>2. /\ byEntry \in 0 .. Len(funcs) /\ byStart \in 0 .. Len(funcs)
      /\ byEntry # 0 => Entry(funcs[byEntry]) = a
      /\ byStart # 0 => funcs[byStart].start = a
      /\ byStart = 0 => \A k \in 1 .. Len(funcs) : funcs[k].start # a
  <2> DEFINE I == {i \in 1 .. Len(funcs) : Entry(funcs[i]) = a}
             J == {i \in 1 .. Len(funcs) : funcs[i].start = a}
  <2>1. byEntry = IF I # {} THEN Min(I) ELSE 0
    BY DEF SelectInSeq
  <2>2. byStart = IF J # {} THEN Min(J) ELSE 0
    BY DEF SelectInSeq
  <2>3. I \subseteq Nat /\ J \subseteq Nat /\ 0 \notin I /\ 0 \notin J
    BY <1>1
  <2>4. (I # {} => Min(I) \in I) /\ (J # {} => Min(J) \in J)
    <3> HIDE DEF I, J
    <3> QED
      BY <2>3, MinFacts
  <2> HIDE DEF byEntry, byStart
  <2> QED
    BY <1>1, <2>1, <2>2, <2>3, <2>4
<1>3. analysis_func_lookup(a) = IF byEntry # 0 THEN byEntry ELSE byStart
  BY DEF analysis_func_lookup, SelectInSeq
<1> HIDE DEF byEntry, byStart
<1>4. \A i, j \in 1 .. Len(funcs) :
        funcs[j].regions # <<>> /\ funcs[j].start \in {funcs[i].start, Entry(funcs[i])} => i = j
  BY <1>1, ConfigAssumption
<1> QED
  BY <1>1, <1>2, <1>3, <1>4

\* Inside the segment, being in a region of a vector is being in one that
\* starts there.
LEMMA CoveredHas ==
  ASSUME NEW rs, NEW x \in SegStart .. SegEnd
  PROVE  x \in Nat /\ x # Elsewhere /\ (Covered(rs, x) <=> Own(rs, Seg, x))
<1>1. x \in Nat /\ x # Elsewhere
  BY ScanAssumption
<1> QED
  BY <1>1 DEF Covered, Own, HasUpTo, InRegion

\* A region of a vector that keeps its regions apart ends where the next byte
\* is in none.
LEMMA EndsOpen ==
  ASSUME NEW rs \in Seq(Regions), RegionsApart(rs), NEW x \in SegStart .. SegEnd - 1,
         NEW k \in 1 .. Len(rs), InRegion(rs[k], x), Covered(rs, x + 1)
  PROVE  InRegion(rs[k], x + 1)
<1>1. /\ Len(rs) \in Nat
      /\ \A l \in 1 .. Len(rs) : rs[l].seg \in Nat /\ rs[l].start \in Nat /\ rs[l].end \in Nat
  BY RegionSeq
<1>2. x \in Nat /\ x + 1 # Elsewhere
  BY ScanAssumption
<1>3. PICK l \in 1 .. Len(rs) : InRegion(rs[l], x + 1)
  BY DEF Covered
<1>4. /\ rs[k].seg = Seg /\ rs[k].start <= x /\ x < rs[k].end
      /\ rs[l].seg = Seg /\ rs[l].start <= x + 1 /\ x + 1 < rs[l].end
  BY <1>3 DEF InRegion
<1>5. CASE k < l
  <2>1. rs[k].end < rs[l].start
    BY <1>1, <1>4, <1>5 DEF RegionsApart
  <2> QED
    BY <2>1, <1>1, <1>2, <1>4
<1>6. CASE l < k
  <2>1. rs[l].end < rs[k].start
    BY <1>1, <1>4, <1>6 DEF RegionsApart
  <2> QED
    BY <2>1, <1>1, <1>2, <1>4
<1> QED
  BY <1>1, <1>3, <1>5, <1>6

\* The table of effective regions, for a function of the configuration.
LEMMA TableOf ==
  ASSUME funcs \in FuncLists, NEW i \in DOMAIN funcs
  PROVE  Effective[funcs[i]] = effective_regions(funcs[i])
<1>1. funcs[i] \in Configured
  BY DEF Configured, ToSet
<1> QED
  BY <1>1 DEF Effective

LEMMA RegionsFit ==
  ASSUME funcs \in FuncLists, NEW a
  PROVE  Fits(RegionsAt(a), a) /\ EndAt(a) \in Nat \cup {NoEnd}
<1> DEFINE i == analysis_func_lookup(a)
           rs == RegionsAt(a)
<1>1. /\ Len(funcs) \in Nat /\ DOMAIN funcs = 1 .. Len(funcs)
      /\ \A j \in 1 .. Len(funcs) :
           /\ funcs[j].start \in Nat /\ funcs[j].end \in Nat \cup {NoEnd}
           /\ funcs[j].regions \in Seq(Regions)
  BY FuncFacts
<1>2. /\ i \in 0 .. Len(funcs)
      /\ \A j \in 1 .. Len(funcs) : funcs[j].start = a /\ funcs[j].regions # <<>> => j = i
  BY LookedUp
<1> HIDE DEF i
<1>3. CASE i = 0 \/ funcs[i].start # a \/ funcs[i].regions = <<>>
  <2>1. rs = <<>>
    BY <1>3 DEF RegionsAt, i
  <2>2. Body(a) = {}
    <3>1. \A j \in 1 .. Len(funcs) : funcs[j].start = a => funcs[j].regions = <<>>
      BY <1>1, <1>2, <1>3
    <3>2. ToSet(<<>>) = {}
      BY DEF ToSet
    <3> QED
      BY <1>1, <3>1, <3>2 DEF Body
  <2>3. EndAt(a) = IF i = 0 THEN NoEnd ELSE funcs[i].end
    BY <2>1 DEF EndAt, i
  <2>4. EndAt(a) \in Nat \cup {NoEnd}
    BY <1>1, <1>2, <2>3
  <2>5. Fits(rs, a)
    <3> HIDE DEF rs
    <3> QED
      BY <2>1, <2>2 DEF Fits, Covered
  <2> QED
    BY <2>4, <2>5
<1>4. CASE i # 0 /\ funcs[i].start = a /\ funcs[i].regions # <<>>
  <2>2. i \in 1 .. Len(funcs)
    BY <1>1, <1>2, <1>4
  <2>1. rs = effective_regions(funcs[i]) /\ Effective[funcs[i]] = rs
    BY <1>1, <1>4, <2>2, TableOf DEF RegionsAt, i
  <2>3. \A j \in 1 .. Len(funcs) : funcs[j].start = a /\ j # i => funcs[j].regions = <<>>
    BY <1>2
  <2>4. Body(a) = ToSet(funcs[i].regions)
    <3>1. ToSet(<<>>) = {}
      BY DEF ToSet
    <3>2. \A j \in 1 .. Len(funcs) :
            funcs[j].start = a => ToSet(funcs[j].regions) \in {{}, ToSet(funcs[i].regions)}
      BY <2>3, <3>1
    <3> QED
      BY <1>1, <1>4, <2>2, <3>2 DEF Body
  <2>5. Body(a) # {}
    <3>1. funcs[i].regions \in Seq(Regions) /\ funcs[i].regions # <<>>
      BY <1>1, <1>4, <2>2
    <3>2. 1 \in DOMAIN funcs[i].regions
      BY <3>1
    <3> QED
      BY <2>4, <3>2 DEF ToSet
  <2>6. /\ rs \in Seq(Regions) /\ rs # <<>> /\ RegionsApart(rs)
        /\ \A x \in Nat : Own(rs, Seg, x) <=> Own(funcs[i].regions, Seg, x)
    <3> HIDE DEF rs
    <3> QED
      BY <1>1, <1>4, <2>1, <2>2, EffectiveRegionsExact, ScanAssumption
  <2>8. \A k \in DOMAIN rs : rs[k].seg = Seg => rs[k].endseg = Seg
    <3>1. \A k \in DOMAIN effective_regions(funcs[i]) :
            effective_regions(funcs[i])[k].seg = Seg => effective_regions(funcs[i])[k].endseg = Seg
      <4>1. i \in DOMAIN funcs /\ funcs[i].regions # <<>>
        BY <1>1, <1>4, <2>2
      <4> QED
        BY <4>1, ConfigAssumption
    <3> HIDE DEF rs
    <3> QED
      BY <2>1, <3>1
  <2> HIDE DEF rs
  <2>7. DOMAIN rs = 1 .. Len(rs) /\ Len(rs) \in Nat \ {0} /\ rs # <<>>
    BY <2>6
  <2>9. Fits(rs, a)
    <3>1. ASSUME NEW x \in SegStart .. SegEnd
          PROVE  Covered(rs, x) <=> \E r \in Body(a) : InRegion(r, x)
      <4>1. x \in Nat /\ (Covered(rs, x) <=> Covered(funcs[i].regions, x))
        BY <2>6, CoveredHas
      <4>2. DOMAIN funcs[i].regions = 1 .. Len(funcs[i].regions)
        BY <1>1, <2>2
      <4>3. Covered(funcs[i].regions, x) <=> \E r \in ToSet(funcs[i].regions) : InRegion(r, x)
        BY <4>2 DEF Covered, ToSet
      <4> QED
        BY <2>4, <4>1, <4>3
    <3>2. \A k \in 1 .. Len(rs), x \in SegStart .. SegEnd - 1 :
            InRegion(rs[k], x) /\ Covered(rs, x + 1) => InRegion(rs[k], x + 1)
      BY <2>6, EndsOpen
    <3> QED
      BY <2>5, <2>6, <2>7, <2>8, <3>1, <3>2 DEF Fits
  <2>10. EndAt(a) \in Nat \cup {NoEnd}
    <3>1. EndAt(a) = outer_end(funcs[i])
      BY <1>4, <2>7 DEF EndAt, i, rs
    <3>2. Last(rs) = rs[Len(rs)] /\ rs[Len(rs)] \in Regions
      BY <2>6, <2>7 DEF Last
    <3>3. Last(rs).end \in Nat
      BY <3>2 DEF Regions
    <3>4. outer_end(funcs[i]) =
            IF funcs[i].end # NoEnd THEN funcs[i].end
            ELSE IF rs # <<>> THEN Last(rs).end ELSE NoEnd
      BY <2>1 DEF outer_end
    <3> QED
      BY <1>1, <2>2, <2>7, <3>1, <3>3, <3>4
  <2> QED
    BY <2>9, <2>10 DEF rs
<1> QED
  BY <1>2, <1>3, <1>4 DEF i

---------------------------------------------------------------------------
(* An instruction that is decoded lies in code, and where it leads. *)

LEMMA TextFacts ==
  ASSUME text \in TextLists
  PROVE  /\ Len(text) \in Nat /\ DOMAIN text = 1 .. Len(text)
         /\ \A i \in 1 .. Len(text) :
              /\ text[i] \in Regions /\ text[i].start \in Nat /\ text[i].end \in Nat
              /\ text[i].endseg \in Nat
              /\ text[i].seg = Seg => text[i].endseg >= Seg
<1>1. text \in Seq(Regions)
  BY ConfigAssumption
<1>2. \A r \in Regions : r.start \in Nat /\ r.end \in Nat /\ r.endseg \in Nat
  BY DEF Regions
<1>3. DOMAIN text = 1 .. Len(text)
  BY <1>1
<1>4. \A i \in 1 .. Len(text) : text[i].seg = Seg => text[i].endseg >= Seg
  BY <1>3, ConfigAssumption
<1> QED
  BY <1>1, <1>2, <1>3, <1>4

LEMMA DecodeEnd ==
  ASSUME TypeInv, fn \in WalkType, Fits(fn.regions, fn.start), NEW a \in Nat
  PROVE  /\ decode_end(a) \in Nat /\ decode_end(a) <= SegEnd
         /\ \A t \in DataAfter(a) : decode_end(a) <= t
         /\ region_for(fn.regions, a) # 0 =>
              LET r == fn.regions[region_for(fn.regions, a)]
              IN InRegion(r, a) /\ (decode_end(a) <= r.end \/ SegEnd <= r.end)
<1> DEFINE rs == fn.regions
           k == region_for(rs, a)
           bound == IF k # 0 /\ rs[k].endseg = Seg /\ rs[k].end < SegEnd THEN rs[k].end ELSE SegEnd
           S == {bound} \cup DataAfter(a)
<1>1. rs \in Seq(Regions)
  BY DEF Fits
<1>2. /\ k \in 0 .. Len(rs) /\ Len(rs) \in Nat
      /\ k # 0 => InRegion(rs[k], a)
  BY <1>1, RegionFor
<1>3. k # 0 => /\ rs[k].end \in Nat
               /\ rs[k].seg = Seg /\ rs[k].endseg = Seg
  <2>1. SUFFICES ASSUME k # 0 PROVE rs[k].end \in Nat /\ rs[k].seg = Seg /\ rs[k].endseg = Seg
    OBVIOUS
  <2>2. k \in 1 .. Len(rs) /\ rs[k] \in Regions
    BY <1>1, <1>2, <2>1
  <2>3. rs[k].end \in Nat /\ rs[k].seg = Seg
    BY <1>2, <2>1, <2>2 DEF Regions, InRegion
  <2> QED
    BY <2>2, <2>3 DEF Fits
<1>4. SegEnd \in Nat
  BY ScanAssumption
<1>5. bound \in Nat /\ bound <= SegEnd /\ (k # 0 => bound <= rs[k].end \/ SegEnd <= rs[k].end)
  BY <1>3, <1>4
<1>6. DataAfter(a) \subseteq Nat
  <2>1. \A t \in ToSet(text) : t.start \in Nat
    BY TextFacts DEF TypeInv, ToSet
  <2> QED
    BY <2>1 DEF DataAfter
<1>7. decode_end(a) = Min(S)
  BY DEF decode_end
<1> HIDE DEF bound, k, rs
<1>8. Min(S) \in S /\ \A y \in S : Min(S) <= y
  <2>1. S \subseteq Nat /\ S # {}
    BY <1>5, <1>6
  <2> HIDE DEF S
  <2> QED
    BY <2>1, MinFacts
<1>9. Min(S) \in Nat /\ Min(S) <= bound
  BY <1>5, <1>6, <1>8
<1>10. decode_end(a) \in Nat /\ decode_end(a) <= SegEnd /\ \A t \in DataAfter(a) : decode_end(a) <= t
  <2>1. \A t \in DataAfter(a) : Min(S) <= t
    BY <1>8
  <2>2. Min(S) <= SegEnd
    BY <1>4, <1>5, <1>9
  <2> HIDE DEF S
  <2> QED
    BY <1>7, <1>9, <2>1, <2>2
<1>11. k # 0 => InRegion(rs[k], a) /\ (decode_end(a) <= rs[k].end \/ SegEnd <= rs[k].end)
  BY <1>2, <1>3, <1>5, <1>7, <1>9
<1> QED
  BY <1>10, <1>11 DEF k, rs

\* An address before the end that is set for it, not in data itself.
LEMMA NotInData ==
  ASSUME TypeInv, NEW p \in Nat, NEW b \in Nat, ~InData(p), p <= b, p # Elsewhere,
         \A t \in DataAfter(p) : b < t
  PROVE  ~InData(b)
<1>1. SUFFICES ASSUME InData(b) PROVE FALSE
  OBVIOUS
<1>2. PICK i \in 1 .. Len(text) : InRegion(text[i], b)
  BY <1>1, TextFacts DEF InData, TypeInv
<1>3. /\ text[i].seg = Seg /\ text[i].start <= b /\ b < text[i].end
      /\ text[i].start \in Nat /\ text[i].end \in Nat /\ text[i].endseg \in Nat
      /\ text[i].endseg >= Seg
  BY <1>2, TextFacts DEF InRegion, TypeInv
<1>4. CASE text[i].start <= p
  <2>1. InRegion(text[i], p)
    BY <1>3, <1>4 DEF InRegion
  <2> QED
    BY <1>2, <2>1, TextFacts DEF InData, TypeInv
<1>5. CASE text[i].start > p
  <2>1. text[i] \in ToSet(text)
    BY <1>2, TextFacts DEF ToSet, TypeInv
  <2>2. text[i].endseg > Seg \/ (text[i].endseg = Seg /\ text[i].end > p)
    BY <1>3, ScanAssumption
  <2>3. text[i].start \in DataAfter(p)
    BY <1>3, <1>5, <2>1, <2>2 DEF DataAfter
  <2> QED
    BY <1>3, <2>3
<1> QED
  BY <1>3, <1>4, <1>5

Setup(w) == w.regions = RegionsAt(w.start) /\ w.end = EndAt(w.start)

LEMMA WalkFacts ==
  ASSUME NEW w \in WalkType
  PROVE  /\ w.start \in Nat /\ w.regions \in Seq(Regions) /\ w.end \in Nat \cup {NoEnd}
         /\ w.queue \in Queues /\ w.queue.queued \subseteq Nat /\ w.queue.discovered \subseteq Nat
         /\ w.addr \in Nat \cup {NoAddr} /\ (w.addr # NoAddr => w.addr \in Nat)
         /\ w.push_cs \in BOOLEAN /\ w.largest \in Nat
         /\ w.direct_calls \subseteq Nat /\ w.call_kinds \subseteq Nat \X {"near", "far"}
         /\ w.indirect_calls \in Nat /\ w.return_kind \in Returns \cup {"none"}
         /\ w.ignored \in Seq(Returns) /\ w.seen \subseteq Nat
BY DEF WalkType, Queues, CallKinds

\* The bytes of a decoded instruction are code of the function.
LEMMA InstrFits ==
  ASSUME TypeInv, fn \in WalkType, Setup(fn), AtInstr, fn.addr >= SegStart,
         NEW i \in Decodable
  PROVE  /\ i \in Instrs /\ i.len \in Nat \ {0} /\ i.to \in Nat \cup {NoAddr}
         /\ fn.addr \in Nat /\ ~InData(fn.addr) /\ fn.addr + i.len <= SegEnd
         /\ fn.regions # <<>> =>
              /\ region_for(fn.regions, fn.addr) # 0
              /\ \A b \in fn.addr .. fn.addr + i.len - 1 :
                   InRegion(fn.regions[region_for(fn.regions, fn.addr)], b)
         /\ \A b \in fn.addr .. fn.addr + i.len - 1 : Allowed(fn.start, b)
<1> DEFINE p == fn.addr
           rs == fn.regions
           k == region_for(rs, p)
<1>1. p \in Nat /\ rs \in Seq(Regions) /\ Fits(rs, fn.start)
  BY WalkFacts, RegionsFit DEF AtInstr, Setup, TypeInv
<1>2. i \in Instrs /\ i.len \in Nat \ {0} /\ i.to \in Nat \cup {NoAddr}
  <2>1. i \in Fetched
    BY DEF Decodable
  <2>2. i \in Instrs
    BY <2>1 DEF Fetched, TypeInv
  <2> QED
    BY <2>2, ScanAssumption
<1>3. i.len <= Room
  BY DEF Decodable
<1>4. /\ decode_end(p) \in Nat /\ decode_end(p) <= SegEnd
      /\ \A t \in DataAfter(p) : decode_end(p) <= t
      /\ k # 0 => InRegion(rs[k], p) /\ (decode_end(p) <= rs[k].end \/ SegEnd <= rs[k].end)
  BY <1>1, DecodeEnd
<1>5. ~InData(p) /\ (rs # <<>> => k # 0) /\ p + i.len <= decode_end(p)
  <2>1. Room = IF InData(p) \/ (rs # <<>> /\ k = 0) THEN 0 ELSE decode_end(p) - p
    BY DEF Room
  <2> HIDE DEF p, rs, k
  <2> QED
    BY <1>1, <1>2, <1>3, <1>4, <2>1
<1>6. SegStart \in Nat /\ SegEnd \in Nat /\ SegEnd < Elsewhere /\ Elsewhere \in Nat
  BY ScanAssumption
<1>7. p # Elsewhere /\ p >= SegStart
  BY <1>1, <1>2, <1>4, <1>5, <1>6
<1> HIDE DEF p, rs, k
<1>8. ASSUME NEW b \in p .. p + i.len - 1
      PROVE  /\ b \in Nat /\ p <= b /\ b < SegEnd /\ b >= SegStart /\ b # Elsewhere
             /\ b < decode_end(p)
  BY <1>1, <1>2, <1>4, <1>5, <1>6, <1>7
<1>9. ASSUME NEW b \in p .. p + i.len - 1
      PROVE  ~InData(b)
  <2>1. \A t \in DataAfter(p) : b < t
    <3>1. DataAfter(p) \subseteq Nat
      <4>1. \A t \in ToSet(text) : t.start \in Nat
        BY TextFacts DEF TypeInv, ToSet
      <4> QED
        BY <4>1 DEF DataAfter
    <3> QED
      BY <1>4, <1>8, <3>1
  <2> QED
    BY <1>1, <1>5, <1>7, <1>8, <2>1, NotInData
<1>10. ASSUME NEW b \in p .. p + i.len - 1, rs # <<>>
       PROVE  InRegion(rs[k], b)
  <2>1. k \in 1 .. Len(rs) /\ rs[k] \in Regions
    BY <1>1, <1>5, <1>10, RegionFor DEF k
  <2>2. rs[k].start \in Nat /\ rs[k].end \in Nat
    BY <2>1 DEF Regions
  <2>3. InRegion(rs[k], p)
    BY <1>4, <1>5, <1>10
  <2>4. b < rs[k].end /\ rs[k].start <= b
    BY <1>1, <1>4, <1>5, <1>6, <1>8, <1>10, <2>2, <2>3 DEF InRegion
  <2> QED
    BY <1>8, <2>3, <2>4 DEF InRegion
<1>11. ASSUME NEW b \in p .. p + i.len - 1
       PROVE  Allowed(fn.start, b)
  <2>1. seg_contains(b)
    BY <1>8 DEF seg_contains
  <2>2. ASSUME rs # <<>>
        PROVE  \E r \in Body(fn.start) : InRegion(r, b)
    <3>1. k \in 1 .. Len(rs)
      BY <1>1, <1>5, <2>2, RegionFor DEF k
    <3>2. Covered(rs, b)
      BY <1>10, <2>2, <3>1 DEF Covered
    <3>3. b \in SegStart .. SegEnd
      BY <1>6, <1>8
    <3> QED
      BY <1>1, <3>2, <3>3 DEF Fits
  <2>3. rs = <<>> => Body(fn.start) = {}
    BY <1>1 DEF Fits
  <2> QED
    BY <1>9, <2>1, <2>2, <2>3 DEF Allowed
<1>12. p + i.len <= SegEnd
  BY <1>1, <1>2, <1>4, <1>5, <1>6
<1> QED
  BY <1>1, <1>2, <1>5, <1>10, <1>11, <1>12 DEF p, rs, k

\* The addresses a decoded instruction makes the walk go to.
Onward(i) ==
  IF i.kind \in Straight THEN {t \in {fn.addr + i.len} : Continues(t)}
  ELSE IF Jumps(i) THEN Followed(i) ELSE {}

LEMMA AllowedIs ==
  ASSUME TypeInv, fn \in WalkType, Setup(fn), NEW x \in Int
  PROVE  Allowed(fn.start, x) <=>
           /\ seg_contains(x) /\ ~InData(x)
           /\ fn.regions # <<>> => region_for(fn.regions, x) # 0
<1>1. fn.regions \in Seq(Regions) /\ Fits(fn.regions, fn.start)
  BY WalkFacts, RegionsFit DEF Setup, TypeInv
<1>2. SegStart \in Nat /\ SegEnd \in Nat
  BY ScanAssumption
<1>3. ASSUME seg_contains(x)
      PROVE  (\E r \in Body(fn.start) : InRegion(r, x)) <=> region_for(fn.regions, x) # 0
  <2>1. x \in SegStart .. SegEnd
    BY <1>2, <1>3 DEF seg_contains
  <2>2. (\E r \in Body(fn.start) : InRegion(r, x)) <=> Covered(fn.regions, x)
    BY <1>1, <2>1 DEF Fits
  <2> QED
    BY <1>1, <2>2, RegionFor DEF Covered
<1> QED
  BY <1>1, <1>3 DEF Allowed, Fits

\* In a function with regions a block goes on where the next address is
\* allowed: no region ends where another begins.
LEMMA StraightOn ==
  ASSUME TypeInv, fn \in WalkType, Setup(fn), AtInstr, fn.addr >= SegStart,
         NEW i \in Decodable, Allowed(fn.start, fn.addr + i.len)
  PROVE  Continues(fn.addr + i.len) <=>
           ~(Body(fn.start) = {} /\ EndAt(fn.start) # NoEnd /\ fn.addr + i.len >= EndAt(fn.start))
<1> DEFINE p == fn.addr
           rs == fn.regions
           t == p + i.len
           k == region_for(rs, p)
<1>1. /\ i.len \in Nat \ {0} /\ p \in Nat /\ t <= SegEnd
      /\ rs # <<>> => /\ k # 0
                      /\ \A b \in p .. p + i.len - 1 : InRegion(rs[k], b)
  BY InstrFits
<1>2. rs \in Seq(Regions) /\ Fits(rs, fn.start) /\ fn.end = EndAt(fn.start) /\ fn.end \in Nat \cup {NoEnd}
  BY WalkFacts, RegionsFit DEF Setup, TypeInv
<1>3. SegStart \in Nat /\ SegEnd \in Nat
  BY ScanAssumption
<1>4. t \in Int /\ seg_contains(t) /\ ~InData(t) /\ (rs # <<>> => region_for(rs, t) # 0)
  BY <1>1, AllowedIs
<1>5. CASE rs = <<>>
  <2>1. Body(fn.start) = {}
    BY <1>2, <1>5 DEF Fits
  <2> QED
    BY <1>1, <1>2, <1>4, <1>5, <2>1 DEF Continues
<1>6. CASE rs # <<>>
  <2>1. Body(fn.start) # {}
    BY <1>2, <1>6 DEF Fits
  <2>2. k \in 1 .. Len(rs)
    BY <1>1, <1>2, <1>6, RegionFor
  <2> HIDE DEF k, rs, p
  <2>3. t - 1 \in p .. p + i.len - 1 /\ t - 1 \in SegStart .. SegEnd - 1 /\ (t - 1) + 1 = t
    <3>1. t - 1 >= p /\ p >= SegStart
      BY <1>1 DEF p
    <3> QED
      BY <1>1, <1>3, <3>1
  <2>4. Covered(rs, t)
    BY <1>2, <1>4, <1>6, RegionFor DEF Covered
  <2>5. InRegion(rs[k], t - 1)
    BY <1>1, <1>6, <2>3
  <2>6. InRegion(rs[k], t)
    BY <1>2, <2>2, <2>3, <2>4, <2>5 DEF Fits
  <2> QED
    BY <1>4, <1>6, <2>1, <2>6 DEF Continues, k, rs, p
<1> QED
  BY <1>5, <1>6

LEMMA SuccessorsAre ==
  ASSUME TypeInv, fn \in WalkType, Setup(fn), AtInstr, fn.addr >= SegStart,
         NEW i \in Decodable
  PROVE  /\ Successors(fn.start, fn.addr, i) = {q \in Onward(i) : Allowed(fn.start, q)}
         /\ \A q \in Onward(i) : q \in Nat /\ q >= SegStart
<1> DEFINE p == fn.addr
           t == p + i.len
           cut == Body(fn.start) = {} /\ EndAt(fn.start) # NoEnd /\ t >= EndAt(fn.start)
           after == IF i.kind \in Straight /\ cut THEN {} ELSE {t}
           nexts == IF Jumps(i) THEN {i.to} \cup (IF i.kind = "jcc" THEN after ELSE {})
                    ELSE IF i.kind \in Straight THEN after ELSE {}
<1>1. /\ i.len \in Nat \ {0} /\ p \in Nat /\ t <= SegEnd /\ i.to \in Nat \cup {NoAddr}
      /\ ~InData(p)
  BY InstrFits
<1>2. SegStart \in Nat /\ SegEnd \in Nat
  BY ScanAssumption
<1>3. t \in Nat /\ t >= SegStart
  BY <1>1, <1>2
<1>4. Successors(fn.start, p, i) = {q \in nexts : Allowed(fn.start, q)}
  BY DEF Successors
<1>5. Allowed(fn.start, t) => (Continues(t) <=> ~cut)
  BY StraightOn
<1>6. \A x \in Int : Allowed(fn.start, x) <=>
           /\ seg_contains(x) /\ ~InData(x)
           /\ fn.regions # <<>> => region_for(fn.regions, x) # 0
  BY AllowedIs
<1>7. NoAddr \in Int /\ (seg_contains(i.to) => i.to \in Nat /\ i.to >= SegStart)
  BY <1>1, <1>2 DEF NoAddr, seg_contains
<1> HIDE DEF cut, t, p
<1>8. CASE i.kind \in Straight
  <2>1. ~Jumps(i) /\ i.kind # "jcc"
    BY <1>8 DEF Straight, Jumps
  <2>2. Onward(i) = {q \in {t} : Continues(q)}
    BY <1>8 DEF Onward, t, p
  <2> QED
    BY <1>3, <1>4, <1>5, <1>8, <2>1, <2>2 DEF p
<1>9. CASE Jumps(i)
  <2>1. i.kind \notin Straight
    BY <1>9 DEF Straight, Jumps
  <2>2. Onward(i) = Followed(i)
    BY <1>9, <2>1 DEF Onward
  <2>3. Followed(i) = {q \in {i.to} : TargetFollowed(q)} \cup
          (IF i.kind # "jcc" THEN {} ELSE {q \in {t} : NotTakenFollowed(q)})
    BY DEF Followed, t, p
  <2>4. nexts = {i.to} \cup (IF i.kind = "jcc" THEN {t} ELSE {})
    BY <1>9, <2>1
  <2>5. Allowed(fn.start, t) => NotTakenFollowed(t)
    BY <1>3, <1>6 DEF NotTakenFollowed
  <2>6. TargetFollowed(i.to) <=> Allowed(fn.start, i.to)
    <3>1. i.to \in Int
      BY <1>1, <1>7
    <3> QED
      BY <1>6, <3>1 DEF TargetFollowed
  <2>7. TargetFollowed(i.to) => i.to \in Nat /\ i.to >= SegStart
    BY <1>7 DEF TargetFollowed
  <2>8. Successors(fn.start, p, i) = {q \in Onward(i) : Allowed(fn.start, q)}
    BY <1>4, <2>2, <2>3, <2>4, <2>5, <2>6
  <2>9. \A q \in Onward(i) : q \in Nat /\ q >= SegStart
    BY <1>3, <2>2, <2>3, <2>7
  <2> QED
    BY <2>8, <2>9 DEF p
<1>10. CASE i.kind \notin Straight /\ ~Jumps(i)
  <2>1. Onward(i) = {}
    BY <1>10 DEF Onward
  <2>2. nexts = {}
    BY <1>10
  <2> QED
    BY <1>4, <2>1, <2>2 DEF p
<1> QED
  BY <1>8, <1>9, <1>10

---------------------------------------------------------------------------
(* The walk of a function. *)

Pending(w) == w.queue.queued \cup ({w.addr} \ {NoAddr})
IsCall(i) == i.kind \in {"call", "callf"}
Tag(i, pushed) == <<i.to, IF i.kind = "callf" \/ pushed THEN "far" ELSE "near">>

PendingInv(w) ==
  /\ w.start >= SegStart /\ \A q \in Pending(w) : q >= SegStart
  /\ w.queue.queued \subseteq w.queue.discovered /\ w.start \in w.queue.discovered

SeenInv(w) ==
  /\ w.seen \subseteq DOMAIN prog
  /\ \A p \in w.seen : \A b \in p .. p + prog[p].len - 1 : Allowed(w.start, b)

\* The way into t (right after a push cs, or not) has been walked or will be.
Done(w, t, pushed) ==
  \/ /\ t \in w.seen
     /\ IsCall(prog[t]) => Tag(prog[t], pushed) \in w.call_kinds
  \/ t = w.addr /\ w.push_cs = pushed
  \/ t \in w.queue.queued /\ ~pushed
DoneInv(w) ==
  /\ \A t \in w.queue.discovered : Done(w, t, FALSE)
  /\ \A q \in w.seen : \A t \in Edges(w.start, q) : Done(w, t, prog[q].kind = "push_cs")

\* A set with the start and all that its instructions lead to has all that was
\* met, but for addresses at which the walk is going to fail.
Closed(w, T) == w.start \in T /\ \A p \in T \cap w.seen : Edges(w.start, p) \subseteq T
ReachInv(w) ==
  \A T \in SUBSET (w.seen \cup Pending(w)) : Closed(w, T) =>
    \A q \in w.seen \cup Pending(w) : Allowed(w.start, q) => q \in T

ArrivedInv(w) ==
  /\ w.addr # NoAddr /\ Allowed(w.start, w.addr) => Arrives(w.start, w, w.addr, w.push_cs)
  /\ \A q \in w.queue.queued : Allowed(w.start, q) => Arrives(w.start, w, q, FALSE)

KindsInv(w) ==
  /\ \A c \in w.call_kinds : \E p \in w.seen : \E pushed \in BOOLEAN :
       /\ IsCall(prog[p]) /\ c = Tag(prog[p], pushed)
       /\ prog[p].kind = "callf" \/ Arrives(w.start, w, p, pushed)
  /\ \A p \in w.seen : prog[p].kind = "callf" => Tag(prog[p], TRUE) \in w.call_kinds
CallsInv(w) == w.direct_calls = {prog[p].to : p \in {p \in w.seen : IsCall(prog[p])}}

LargestInv(w) ==
  /\ \A p \in w.seen : p + prog[p].len <= w.largest
  /\ IF w.seen = {} THEN w.largest = w.start /\ Pending(w) \subseteq {w.start}
     ELSE \E p \in w.seen : w.largest = p + prog[p].len

ReturnsInv(w) ==
  /\ {prog[p].kind : p \in {p \in w.seen : prog[p].kind \in Returns}} =
       ({w.return_kind} \cup ToSet(w.ignored)) \ {"none"}
  /\ IsInjective(w.ignored) /\ w.return_kind \notin ToSet(w.ignored)
  /\ w.return_kind = "none" => w.ignored = <<>>

WalkInv(w) ==
  /\ Setup(w) /\ PendingInv(w) /\ SeenInv(w) /\ DoneInv(w) /\ ReachInv(w)
  /\ ArrivedInv(w) /\ KindsInv(w) /\ CallsInv(w) /\ LargestInv(w) /\ ReturnsInv(w)

---------------------------------------------------------------------------
(* A step that reads or only forgets. *)

\* The program is remembered.
Remembered == /\ UNCHANGED <<funcs, text>>
              /\ \A p \in DOMAIN prog : p \in DOMAIN prog' /\ prog'[p] = prog[p]

LEMMA ConfigKept ==
  ASSUME UNCHANGED <<funcs, text>>, NEW a, NEW q
  PROVE  /\ Allowed(a, q)' = Allowed(a, q)
         /\ EndAt(a)' = EndAt(a) /\ Body(a)' = Body(a) /\ RegionsAt(a)' = RegionsAt(a)
<1>1. Body(a)' = Body(a)
  BY DEF Body
<1>2. InData(q)' = InData(q)
  BY DEF InData
<1>3. analysis_func_lookup(a)' = analysis_func_lookup(a)
  BY DEF analysis_func_lookup, SelectInSeq
<1>4. RegionsAt(a)' = RegionsAt(a)
  BY <1>3 DEF RegionsAt
<1>5. EndAt(a)' = EndAt(a)
  BY <1>3, <1>4 DEF EndAt
<1> QED
  BY <1>1, <1>2, <1>4, <1>5 DEF Allowed

LEMMA SuccessorsKept ==
  ASSUME UNCHANGED <<funcs, text>>, NEW a, NEW p, NEW i
  PROVE  Successors(a, p, i)' = Successors(a, p, i)
<1>1. Body(a)' = Body(a) /\ EndAt(a)' = EndAt(a) /\ \A q : Allowed(a, q)' = Allowed(a, q)
  BY ConfigKept
<1> QED
  BY <1>1 DEF Successors

LEMMA EdgesKept ==
  ASSUME Remembered, NEW a, NEW p \in DOMAIN prog
  PROVE  Edges(a, p)' = Edges(a, p)
BY SuccessorsKept DEF Remembered, Edges

LEMMA EdgesNow ==
  ASSUME UNCHANGED <<funcs, text>>, NEW a, NEW p, NEW i, prog'[p] = i
  PROVE  Edges(a, p)' = Successors(a, p, i)
BY SuccessorsKept DEF Edges

---------------------------------------------------------------------------
(* What a decoded instruction does to the walk. *)

Advance(i) ==
  /\ AtInstr /\ i \in Decodable /\ Decoded(i) /\ fn' \in WalkType
  /\ fn'.start = fn.start /\ fn'.regions = fn.regions /\ fn'.end = fn.end
  /\ fn'.seen = fn.seen \cup {fn.addr}
  /\ fn'.largest = MaxOf(fn.largest, fn.addr + i.len)
  /\ fn'.direct_calls = IF IsCall(i) THEN fn.direct_calls \cup {i.to} ELSE fn.direct_calls
  /\ fn'.call_kinds = IF IsCall(i) THEN fn.call_kinds \cup {Tag(i, fn.push_cs)} ELSE fn.call_kinds
  /\ fn'.push_cs = (i.kind = "push_cs")
  /\ fn'.queue = IF Jumps(i) THEN queue_insert(fn.queue, Followed(i)) ELSE fn.queue
  /\ fn'.addr = IF i.kind \in Straight /\ Continues(fn.addr + i.len) THEN fn.addr + i.len ELSE NoAddr

\* What a return adds.
Returned(i) ==
  IF i.kind \notin Returns THEN fn'.return_kind = fn.return_kind /\ fn'.ignored = fn.ignored
  ELSE /\ fn'.return_kind = IF fn.return_kind = "none" THEN i.kind ELSE fn.return_kind
       /\ fn'.ignored = IF fn.return_kind \in {"none", i.kind} \/ i.kind \in ToSet(fn.ignored)
                        THEN fn.ignored ELSE Append(fn.ignored, i.kind)

LEMMA NotedFields ==
  ASSUME fn \in WalkType, fn.addr \in Nat, NEW i \in Instrs
  PROVE  /\ Noted(i) \in WalkType
         /\ Noted(i).start = fn.start /\ Noted(i).regions = fn.regions /\ Noted(i).end = fn.end
         /\ Noted(i).queue = fn.queue /\ Noted(i).addr = fn.addr
         /\ Noted(i).seen = fn.seen \cup {fn.addr}
         /\ Noted(i).largest = MaxOf(fn.largest, fn.addr + i.len)
         /\ Noted(i).direct_calls =
              IF IsCall(i) THEN fn.direct_calls \cup {i.to} ELSE fn.direct_calls
         /\ Noted(i).call_kinds =
              IF IsCall(i) THEN fn.call_kinds \cup {Tag(i, fn.push_cs)} ELSE fn.call_kinds
         /\ Noted(i).push_cs = (i.kind = "push_cs")
         /\ Noted(i).return_kind = fn.return_kind /\ Noted(i).ignored = fn.ignored
<1> DEFINE large == MaxOf(fn.largest, fn.addr + i.len)
           seen == fn.seen \cup {fn.addr}
           direct == IF IsCall(i) THEN fn.direct_calls \cup {i.to} ELSE fn.direct_calls
           kinds == IF IsCall(i) THEN fn.call_kinds \cup {Tag(i, fn.push_cs)} ELSE fn.call_kinds
           indirect == IF i.kind = "call_indirect" THEN fn.indirect_calls + 1 ELSE fn.indirect_calls
           push == i.kind = "push_cs"
<1>1. i.len \in Nat /\ (IsCall(i) => i.to \in Nat)
  BY ScanAssumption DEF IsCall
<1>2. /\ large \in Nat /\ seen \subseteq Nat /\ direct \subseteq Nat
      /\ indirect \in Nat /\ push \in BOOLEAN
  BY <1>1, WalkFacts DEF MaxOf
<1>3. kinds \subseteq Nat \X {"near", "far"}
  BY <1>1, WalkFacts DEF Tag
<1>4. Noted(i) = [fn EXCEPT !.largest = large, !.seen = seen, !.direct_calls = direct,
                            !.call_kinds = kinds, !.indirect_calls = indirect, !.push_cs = push]
  <2>1. (i.kind \notin {"call", "callf"} <=> ~IsCall(i)) /\ (i.kind \in {"call", "callf"} <=> IsCall(i))
    BY DEF IsCall
  <2> QED
    BY <2>1 DEF Noted, Tag
<1> HIDE DEF large, seen, direct, kinds, indirect, push
<1>5. Noted(i) \in WalkType
  <2>1. kinds \in CallKinds
    BY <1>3 DEF CallKinds
  <2> QED
    BY <1>2, <1>4, <2>1 DEF WalkType
<1>6. /\ Noted(i).start = fn.start /\ Noted(i).regions = fn.regions /\ Noted(i).end = fn.end
      /\ Noted(i).queue = fn.queue /\ Noted(i).addr = fn.addr
      /\ Noted(i).seen = seen /\ Noted(i).largest = large
      /\ Noted(i).direct_calls = direct /\ Noted(i).call_kinds = kinds
      /\ Noted(i).push_cs = push
      /\ Noted(i).return_kind = fn.return_kind /\ Noted(i).ignored = fn.ignored
  BY <1>4 DEF WalkType
<1> QED
  BY <1>5, <1>6 DEF large, seen, direct, kinds, push

\* A queue grows by addresses that are new to it.
LEMMA Inserted ==
  ASSUME NEW q \in Queues, NEW S, S \subseteq Nat
  PROVE  /\ queue_insert(q, S) \in Queues
         /\ queue_insert(q, S).queued = q.queued \cup (S \ q.discovered)
         /\ queue_insert(q, S).discovered = q.discovered \cup S
BY DEF queue_insert, Queues

LEMMA StepsAdvance ==
  ASSUME TypeInv, fn \in WalkType, Setup(fn), fn.addr # NoAddr => fn.addr >= SegStart,
         StepFallthrough \/ StepReturn \/ StepJump \/ StepTransfer
  PROVE  \E i \in Decodable : Advance(i) /\ Returned(i)
<1>1. AtInstr /\ fn.addr >= SegStart /\ fn.addr \in Nat
  BY WalkFacts DEF StepFallthrough, StepReturn, StepJump, StepTransfer, AtInstr
<1>2. ASSUME NEW i \in Decodable
      PROVE  /\ i \in Instrs /\ fn.addr + i.len \in Nat
             /\ \A q \in Onward(i) : q \in Nat
             /\ Noted(i) \in WalkType
             /\ Noted(i).queue = fn.queue
             /\ Noted(i).return_kind = fn.return_kind /\ Noted(i).ignored = fn.ignored
  <2>1. i \in Instrs /\ i.len \in Nat
    BY <1>1, InstrFits
  <2>2. \A q \in Onward(i) : q \in Nat
    BY <1>1, SuccessorsAre
  <2>3. /\ Noted(i) \in WalkType /\ Noted(i).queue = fn.queue
        /\ Noted(i).return_kind = fn.return_kind /\ Noted(i).ignored = fn.ignored
    BY <1>1, <2>1, NotedFields
  <2>4. fn.addr + i.len \in Nat
    BY <1>1, <2>1
  <2> QED
    BY <2>1, <2>2, <2>3, <2>4
<1>3. CASE StepFallthrough
  <2>1. PICK i \in Decodable :
          /\ i.kind \in Straight /\ Decoded(i)
          /\ fn' = [Noted(i) EXCEPT
               !.addr = IF Continues(fn.addr + i.len) THEN fn.addr + i.len ELSE NoAddr]
    BY <1>3 DEF StepFallthrough
  <2>2. i.kind \notin Returns /\ ~Jumps(i)
    BY <2>1 DEF Straight, Returns, Jumps
  <2> DEFINE a == IF Continues(fn.addr + i.len) THEN fn.addr + i.len ELSE NoAddr
  <2>3. a \in Nat \cup {NoAddr} /\ fn' = [Noted(i) EXCEPT !.addr = a]
    BY <1>2, <2>1
  <2>4. fn.queue \in Queues /\ fn.return_kind \in Returns \cup {"none"} /\ fn.ignored \in Seq(Returns)
    BY WalkFacts
  <2>5. a = IF i.kind \in Straight /\ Continues(fn.addr + i.len) THEN fn.addr + i.len ELSE NoAddr
    BY <2>1
  <2> HIDE DEF a
  <2>6. /\ fn' \in WalkType /\ fn'.addr = a /\ fn'.queue = fn.queue
        /\ fn'.return_kind = fn.return_kind /\ fn'.ignored = fn.ignored
        /\ fn'.start = Noted(i).start /\ fn'.regions = Noted(i).regions /\ fn'.end = Noted(i).end
        /\ fn'.seen = Noted(i).seen /\ fn'.largest = Noted(i).largest
        /\ fn'.direct_calls = Noted(i).direct_calls
        /\ fn'.call_kinds = Noted(i).call_kinds /\ fn'.push_cs = Noted(i).push_cs
    <3> DEFINE w == Noted(i)
    <3>1. w \in WalkType /\ w.queue = fn.queue /\ w.return_kind = fn.return_kind /\ w.ignored = fn.ignored
      BY <1>2
    <3> HIDE DEF w
    <3> QED
      BY <2>3, <2>4, <3>1 DEF WalkType, w
  <2> QED
    BY <1>1, <1>2, <2>1, <2>2, <2>5, <2>6, NotedFields DEF Advance, Returned
<1>4. CASE StepTransfer
  <2>1. PICK i \in Decodable :
          Transfers(i) /\ Decoded(i) /\ fn' = [Noted(i) EXCEPT !.addr = NoAddr]
    BY <1>4 DEF StepTransfer
  <2>2. i.kind \notin Returns /\ ~Jumps(i) /\ i.kind \notin Straight
    BY <2>1 DEF Straight, Returns, Jumps, Transfers
  <2>3. fn.queue \in Queues /\ fn.return_kind \in Returns \cup {"none"} /\ fn.ignored \in Seq(Returns)
    BY WalkFacts
  <2>4. /\ fn' \in WalkType /\ fn'.addr = NoAddr /\ fn'.queue = fn.queue
        /\ fn'.return_kind = fn.return_kind /\ fn'.ignored = fn.ignored
        /\ fn'.start = Noted(i).start /\ fn'.regions = Noted(i).regions /\ fn'.end = Noted(i).end
        /\ fn'.seen = Noted(i).seen /\ fn'.largest = Noted(i).largest
        /\ fn'.direct_calls = Noted(i).direct_calls
        /\ fn'.call_kinds = Noted(i).call_kinds /\ fn'.push_cs = Noted(i).push_cs
    <3> DEFINE w == Noted(i)
    <3>1. w \in WalkType /\ w.queue = fn.queue /\ w.return_kind = fn.return_kind /\ w.ignored = fn.ignored
      BY <1>2
    <3> HIDE DEF w
    <3> QED
      BY <2>1, <2>3, <3>1 DEF WalkType, w
  <2> QED
    BY <1>1, <1>2, <2>1, <2>2, <2>4, NotedFields DEF Advance, Returned
<1>5. CASE StepJump
  <2>1. PICK i \in Decodable :
          /\ Jumps(i) /\ Decoded(i)
          /\ fn' = [Noted(i) EXCEPT !.addr = NoAddr, !.queue = queue_insert(@, Followed(i))]
    BY <1>5 DEF StepJump
  <2>2. i.kind \notin Returns /\ i.kind \notin Straight
    BY <2>1 DEF Straight, Returns, Jumps
  <2>3. fn.queue \in Queues /\ fn.return_kind \in Returns \cup {"none"} /\ fn.ignored \in Seq(Returns)
    BY WalkFacts
  <2>4. Followed(i) \subseteq Nat
    BY <1>2, <2>1, <2>2 DEF Onward
  <2> DEFINE q == queue_insert(fn.queue, Followed(i))
  <2>5. q \in Queues
    BY <2>3, <2>4, Inserted
  <2>6. fn' = [Noted(i) EXCEPT !.addr = NoAddr, !.queue = q]
    BY <1>2, <2>1
  <2> HIDE DEF q
  <2>7. /\ fn' \in WalkType /\ fn'.addr = NoAddr /\ fn'.queue = q
        /\ fn'.return_kind = fn.return_kind /\ fn'.ignored = fn.ignored
        /\ fn'.start = Noted(i).start /\ fn'.regions = Noted(i).regions /\ fn'.end = Noted(i).end
        /\ fn'.seen = Noted(i).seen /\ fn'.largest = Noted(i).largest
        /\ fn'.direct_calls = Noted(i).direct_calls
        /\ fn'.call_kinds = Noted(i).call_kinds /\ fn'.push_cs = Noted(i).push_cs
    <3> DEFINE w == Noted(i)
    <3>1. w \in WalkType /\ w.queue = fn.queue /\ w.return_kind = fn.return_kind /\ w.ignored = fn.ignored
      BY <1>2
    <3> HIDE DEF w
    <3> QED
      BY <2>3, <2>5, <2>6, <3>1 DEF WalkType, w
  <2> QED
    BY <1>1, <1>2, <2>1, <2>2, <2>7, NotedFields DEF Advance, Returned, q
<1>6. CASE StepReturn
  <2> DEFINE rk(i) == IF fn.return_kind = "none" THEN i.kind ELSE fn.return_kind
             ig(i) == IF fn.return_kind \in {"none", i.kind} \/ i.kind \in ToSet(fn.ignored)
                      THEN fn.ignored ELSE Append(fn.ignored, i.kind)
  <2>1. PICK i \in Decodable :
          /\ i.kind \in Returns /\ Decoded(i)
          /\ fn' = [Noted(i) EXCEPT !.addr = NoAddr, !.return_kind = rk(i), !.ignored = ig(i)]
    BY <1>2, <1>6 DEF StepReturn
  <2>2. ~Jumps(i) /\ i.kind \notin Straight
    BY <2>1 DEF Straight, Returns, Jumps
  <2>3. fn.queue \in Queues /\ fn.return_kind \in Returns \cup {"none"} /\ fn.ignored \in Seq(Returns)
    BY WalkFacts
  <2>4. rk(i) \in Returns \cup {"none"} /\ ig(i) \in Seq(Returns)
    BY <2>1, <2>3
  <2>5. Returned(i) <=> fn'.return_kind = rk(i) /\ fn'.ignored = ig(i)
    BY <2>1 DEF Returned
  <2> HIDE DEF rk, ig
  <2>6. /\ fn' \in WalkType /\ fn'.addr = NoAddr /\ fn'.queue = fn.queue
        /\ fn'.return_kind = rk(i) /\ fn'.ignored = ig(i)
        /\ fn'.start = Noted(i).start /\ fn'.regions = Noted(i).regions /\ fn'.end = Noted(i).end
        /\ fn'.seen = Noted(i).seen /\ fn'.largest = Noted(i).largest
        /\ fn'.direct_calls = Noted(i).direct_calls
        /\ fn'.call_kinds = Noted(i).call_kinds /\ fn'.push_cs = Noted(i).push_cs
    <3> DEFINE w == Noted(i)
    <3>1. w \in WalkType /\ w.queue = fn.queue /\ w.return_kind = fn.return_kind /\ w.ignored = fn.ignored
      BY <1>2
    <3> HIDE DEF w
    <3> QED
      BY <2>1, <2>3, <2>4, <3>1 DEF WalkType, w
  <2> QED
    BY <1>1, <1>2, <2>1, <2>2, <2>5, <2>6, NotedFields DEF Advance
<1> QED
  BY <1>3, <1>4, <1>5, <1>6

LEMMA Remembers ==
  ASSUME TypeInv, NEW i \in Fetched, fn.addr \in Nat, Remember(i), UNCHANGED <<funcs, text>>
  PROVE  /\ Remembered /\ fn.addr \in DOMAIN prog' /\ prog'[fn.addr] = i /\ i \in Instrs
         /\ DOMAIN prog' = DOMAIN prog \cup {fn.addr}
         /\ \A p \in DOMAIN prog' : prog'[p] \in Instrs
<1>1. CASE fn.addr \in DOMAIN prog
  BY <1>1 DEF TypeInv, Remember, Fetched, Remembered
<1>2. CASE fn.addr \notin DOMAIN prog
  <2>1. prog' = Extended(prog, fn.addr, i) /\ i \in Instrs
    BY <1>2 DEF Remember, Fetched
  <2>2. prog' = [p \in DOMAIN prog \cup {fn.addr} |-> IF p = fn.addr THEN i ELSE prog[p]]
    BY <2>1 DEF Extended
  <2> QED
    BY <1>2, <2>1, <2>2 DEF TypeInv, Remembered
<1> QED
  BY <1>1, <1>2

LEMMA AdvanceFacts ==
  ASSUME TypeInv, fn \in WalkType, Setup(fn), PendingInv(fn), NEW i \in Decodable, Advance(i)
  PROVE  /\ Remembered /\ fn.addr \in DOMAIN prog' /\ prog'[fn.addr] = i
         /\ i \in Instrs /\ i.len \in Nat \ {0}
         /\ fn.addr \in Nat /\ fn.addr \in Pending(fn) /\ fn.addr >= SegStart
         /\ TypeInv'
         /\ Allowed(fn.start, fn.addr)
         /\ \A b \in fn.addr .. fn.addr + i.len - 1 : Allowed(fn.start, b)
         /\ \A a, p : a = fn.start /\ p = fn.addr =>
              Edges(a, p)' = {q \in Onward(i) : Allowed(a, q)}
         /\ \A a : \A q \in DOMAIN prog : Edges(a, q)' = Edges(a, q)
         /\ \A q \in Onward(i) : q \in Nat /\ q >= SegStart
<1>1. AtInstr /\ i \in Fetched /\ fn.addr \in Nat /\ fn.addr \in Pending(fn) /\ fn.addr >= SegStart
  <2>1. AtInstr /\ fn.addr # NoAddr /\ fn.addr \in Nat
    BY WalkFacts DEF Advance, AtInstr
  <2>2. fn.addr \in Pending(fn)
    BY <2>1 DEF Pending
  <2> QED
    BY <2>1, <2>2 DEF PendingInv, Decodable
<1>2. UNCHANGED <<funcs, text, outer>> /\ Remember(i) /\ fn' \in WalkType
  BY DEF Advance, Decoded
<1>3. /\ Remembered /\ fn.addr \in DOMAIN prog' /\ prog'[fn.addr] = i /\ i \in Instrs
      /\ DOMAIN prog' = DOMAIN prog \cup {fn.addr}
      /\ \A p \in DOMAIN prog' : prog'[p] \in Instrs
  BY <1>1, <1>2, Remembers
<1>4. TypeInv'
  BY <1>1, <1>2, <1>3 DEF TypeInv
<1>5. /\ i.len \in Nat \ {0}
      /\ \A b \in fn.addr .. fn.addr + i.len - 1 : Allowed(fn.start, b)
  BY <1>1, InstrFits
<1>6. Allowed(fn.start, fn.addr)
  <2>1. fn.addr \in fn.addr .. fn.addr + i.len - 1
    BY <1>1, <1>5
  <2> QED
    BY <1>5, <2>1
<1>7. /\ Successors(fn.start, fn.addr, i) = {q \in Onward(i) : Allowed(fn.start, q)}
      /\ \A q \in Onward(i) : q \in Nat /\ q >= SegStart
  BY <1>1, SuccessorsAre
<1>8. ASSUME NEW a, NEW p, a = fn.start, p = fn.addr
      PROVE  Edges(a, p)' = {q \in Onward(i) : Allowed(a, q)}
  BY <1>2, <1>3, <1>7, <1>8, EdgesNow
<1> QED
  BY <1>1, <1>3, <1>4, <1>5, <1>6, <1>7, <1>8, EdgesKept

\* Where the walk is going to after the step.
LEMMA Queued ==
  ASSUME TypeInv, fn \in WalkType, Setup(fn), PendingInv(fn), NEW i \in Decodable, Advance(i)
  PROVE  /\ fn.queue.queued \subseteq fn'.queue.queued
         /\ fn.queue.discovered \subseteq fn'.queue.discovered
         /\ fn'.queue.queued \subseteq fn'.queue.discovered
         /\ \A t \in fn'.queue.discovered : t \in fn.queue.discovered \/ t \in fn'.queue.queued
         /\ \A t \in fn'.queue.queued :
              t \in fn.queue.queued \/ (t \in Onward(i) /\ i.kind # "push_cs")
         /\ \A t \in Onward(i) :
              \/ t = fn'.addr
              \/ t \in fn'.queue.discovered /\ i.kind # "push_cs"
         /\ fn'.addr # NoAddr => fn'.addr \in Onward(i)
<1>1. fn.queue \in Queues /\ fn.queue.queued \subseteq fn.queue.discovered
  BY WalkFacts DEF PendingInv
<1>2. \A t \in Onward(i) : t \in Nat
  BY AdvanceFacts
<1>3. CASE Jumps(i)
  <2>1. i.kind \notin Straight /\ i.kind # "push_cs"
    BY <1>3 DEF Jumps, Straight
  <2>2. Onward(i) = Followed(i) /\ Followed(i) \subseteq Nat
    BY <1>2, <1>3, <2>1 DEF Onward
  <2>3. fn'.addr = NoAddr /\ fn'.queue = queue_insert(fn.queue, Followed(i))
    BY <1>3, <2>1 DEF Advance
  <2> QED
    BY <1>1, <2>1, <2>2, <2>3, Inserted
<1>4. CASE ~Jumps(i)
  <2>1. fn'.queue = fn.queue
    BY <1>4 DEF Advance
  <2>2. \A t \in Onward(i) : t = fn'.addr
    BY <1>4 DEF Onward, Advance
  <2>3. fn'.addr # NoAddr => fn'.addr \in Onward(i)
    BY DEF Onward, Advance
  <2> QED
    BY <1>1, <2>1, <2>2, <2>3
<1> QED
  BY <1>3, <1>4

LEMMA AdvancePending ==
  ASSUME TypeInv, fn \in WalkType, Setup(fn), PendingInv(fn), NEW i \in Decodable, Advance(i)
  PROVE  PendingInv(fn)' /\ Setup(fn)'
<1>1. /\ fn'.start = fn.start /\ fn'.regions = fn.regions /\ fn'.end = fn.end
      /\ UNCHANGED <<funcs, text>>
  BY DEF Advance, Decoded
<1>2. Setup(fn)'
  <2>1. PICK a : a = fn.start
    OBVIOUS
  <2>2. RegionsAt(a)' = RegionsAt(a) /\ EndAt(a)' = EndAt(a)
    BY <1>1, ConfigKept
  <2> QED
    BY <1>1, <2>1, <2>2 DEF Setup
<1>3. \A q \in Onward(i) : q >= SegStart
  BY AdvanceFacts
<1>4. \A q \in Pending(fn)' : q \in fn.queue.queued \/ q \in Onward(i)
  BY Queued DEF Pending
<1>5. \A q \in Pending(fn)' : q >= SegStart
  BY <1>3, <1>4 DEF PendingInv, Pending
<1> QED
  BY <1>1, <1>2, <1>5, Queued DEF PendingInv

LEMMA AdvanceSeen ==
  ASSUME TypeInv, fn \in WalkType, Setup(fn), PendingInv(fn), SeenInv(fn),
         NEW i \in Decodable, Advance(i)
  PROVE  SeenInv(fn)'
<1>1. /\ fn'.start = fn.start /\ fn'.seen = fn.seen \cup {fn.addr}
      /\ UNCHANGED <<funcs, text>>
  BY DEF Advance, Decoded
<1>2. /\ Remembered /\ fn.addr \in DOMAIN prog' /\ prog'[fn.addr] = i
      /\ \A b \in fn.addr .. fn.addr + i.len - 1 : Allowed(fn.start, b)
  BY AdvanceFacts
<1>3. PICK a : a = fn.start
  OBVIOUS
<1>4. \A b : Allowed(a, b)' = Allowed(a, b)
  BY <1>1, ConfigKept
<1>5. \A q \in fn'.seen : q \in DOMAIN prog' /\ \A b \in q .. q + prog'[q].len - 1 : Allowed(a, b)
  BY <1>1, <1>2, <1>3 DEF SeenInv, Remembered
<1>6. \A q \in fn'.seen : \A b \in q .. q + prog'[q].len - 1 : Allowed(a, b)'
  BY <1>4, <1>5
<1> QED
  BY <1>1, <1>3, <1>5, <1>6 DEF SeenInv

\* What was done stays done, and the way into the decoded instruction is.
LEMMA DoneKept ==
  ASSUME TypeInv, fn \in WalkType, Setup(fn), PendingInv(fn), SeenInv(fn),
         NEW i \in Decodable, Advance(i), NEW t, NEW pushed \in BOOLEAN, Done(fn, t, pushed)
  PROVE  Done(fn, t, pushed)'
<1>1. /\ fn'.seen = fn.seen \cup {fn.addr} /\ fn.seen \subseteq DOMAIN prog
      /\ fn.call_kinds \subseteq fn'.call_kinds
      /\ IsCall(i) => Tag(i, fn.push_cs) \in fn'.call_kinds
  BY DEF Advance, SeenInv
<1>2. Remembered /\ prog'[fn.addr] = i /\ fn.queue.queued \subseteq fn'.queue.queued
  BY AdvanceFacts, Queued
<1>3. CASE t \in fn.seen /\ (IsCall(prog[t]) => Tag(prog[t], pushed) \in fn.call_kinds)
  <2>1. prog'[t] = prog[t]
    BY <1>1, <1>2, <1>3 DEF Remembered
  <2> QED
    BY <1>1, <1>3, <2>1 DEF Done
<1>4. CASE t = fn.addr /\ fn.push_cs = pushed
  BY <1>1, <1>2, <1>4 DEF Done
<1>5. CASE t \in fn.queue.queued /\ ~pushed
  BY <1>2, <1>5 DEF Done
<1> QED
  BY <1>3, <1>4, <1>5 DEF Done

LEMMA AdvanceDone ==
  ASSUME TypeInv, fn \in WalkType, Setup(fn), PendingInv(fn), SeenInv(fn), DoneInv(fn),
         NEW i \in Decodable, Advance(i)
  PROVE  DoneInv(fn)'
<1>1. fn'.start = fn.start /\ fn'.seen = fn.seen \cup {fn.addr} /\ fn'.push_cs = (i.kind = "push_cs")
  BY DEF Advance
<1>2. /\ Remembered /\ prog'[fn.addr] = i
      /\ \A a : \A q \in DOMAIN prog : Edges(a, q)' = Edges(a, q)
      /\ \A a, p : a = fn.start /\ p = fn.addr =>
              Edges(a, p)' = {q \in Onward(i) : Allowed(a, q)}
  BY AdvanceFacts
<1>3. PICK a, p : a = fn.start /\ p = fn.addr
  OBVIOUS
<1>4. \A t \in fn'.queue.discovered : Done(fn, t, FALSE)'
  <2>1. SUFFICES ASSUME NEW t \in fn'.queue.discovered PROVE Done(fn, t, FALSE)'
    OBVIOUS
  <2>2. CASE t \in fn'.queue.queued
    BY <2>2 DEF Done
  <2>3. CASE t \in fn.queue.discovered
    <3>1. Done(fn, t, FALSE)
      BY <2>3 DEF DoneInv
    <3> QED
      BY <3>1, DoneKept
  <2> QED
    BY <2>2, <2>3, Queued
<1>5. ASSUME NEW q \in fn'.seen, NEW t \in Edges(a, q)'
      PROVE  Done(fn, t, prog[q].kind = "push_cs")'
  <2>1. CASE q \in fn.seen
    <3>1. q \in DOMAIN prog
      BY <2>1 DEF SeenInv
    <3>2. t \in Edges(a, q) /\ prog'[q] = prog[q]
      BY <1>2, <1>5, <3>1 DEF Remembered
    <3>3. PICK pushed \in BOOLEAN : pushed = (prog[q].kind = "push_cs")
      OBVIOUS
    <3>4. Done(fn, t, pushed)
      BY <1>3, <2>1, <3>2, <3>3 DEF DoneInv
    <3>5. Done(fn, t, pushed)'
      BY <3>4, DoneKept
    <3> QED
      BY <3>2, <3>3, <3>5
  <2>2. CASE q = p
    <3>1. t \in Onward(i) /\ prog'[q] = i
      BY <1>2, <1>3, <1>5, <2>2
    <3>2. CASE t = fn'.addr
      BY <1>1, <3>1, <3>2 DEF Done
    <3>3. CASE t \in fn'.queue.discovered /\ i.kind # "push_cs"
      BY <1>4, <3>1, <3>3
    <3> QED
      BY <3>1, <3>2, <3>3, Queued
  <2> QED
    BY <1>1, <1>3, <2>1, <2>2
<1> QED
  BY <1>1, <1>3, <1>4, <1>5 DEF DoneInv

LEMMA EdgesAllowed ==
  ASSUME NEW a, NEW q, NEW t \in Edges(a, q)
  PROVE  Allowed(a, t) /\ t # NoAddr
<1>1. Allowed(a, t)
  BY DEF Edges, Successors
<1> QED
  BY <1>1, ScanAssumption DEF Allowed, seg_contains, NoAddr

LEMMA DoneMet ==
  ASSUME NEW w, NEW t, NEW pushed, Done(w, t, pushed), t # NoAddr
  PROVE  t \in w.seen \cup Pending(w)
BY DEF Done, Pending

LEMMA AdvanceReach ==
  ASSUME TypeInv, fn \in WalkType, Setup(fn), PendingInv(fn), SeenInv(fn), DoneInv(fn),
         ReachInv(fn), NEW i \in Decodable, Advance(i)
  PROVE  ReachInv(fn)'
<1> DEFINE R == fn.seen \cup Pending(fn)
<1>1. fn'.start = fn.start /\ fn'.seen = fn.seen \cup {fn.addr} /\ UNCHANGED <<funcs, text>>
  BY DEF Advance, Decoded
<1>2. /\ Remembered /\ prog'[fn.addr] = i
      /\ \A a : \A q \in DOMAIN prog : Edges(a, q)' = Edges(a, q)
      /\ \A a, p : a = fn.start /\ p = fn.addr =>
              Edges(a, p)' = {q \in Onward(i) : Allowed(a, q)}
      /\ Allowed(fn.start, fn.addr) /\ fn.addr \in Pending(fn) /\ fn.addr \in Nat
  BY AdvanceFacts
<1>3. PICK a, p : a = fn.start /\ p = fn.addr
  OBVIOUS
<1>4. fn'.seen \cup Pending(fn)' \subseteq R \cup Onward(i)
  BY <1>1, <1>2, Queued DEF Pending
<1>5. a \in R
  <2>1. Done(fn, a, FALSE)
    BY <1>3 DEF PendingInv, DoneInv
  <2>2. a # NoAddr
    BY <1>3, WalkFacts DEF NoAddr
  <2> QED
    BY <2>1, <2>2, DoneMet
<1>6. \A q \in fn.seen : Edges(a, q) \subseteq R
  <2>1. SUFFICES ASSUME NEW q \in fn.seen, NEW t \in Edges(a, q) PROVE t \in R
    OBVIOUS
  <2>2. Done(fn, t, prog[q].kind = "push_cs")
    BY <1>3, <2>1 DEF DoneInv
  <2> QED
    BY <2>1, <2>2, EdgesAllowed, DoneMet
<1> HIDE DEF R
<1>7. SUFFICES ASSUME NEW T, a \in T,
                      \A q \in T \cap fn'.seen : Edges(a, q)' \subseteq T,
                      NEW q \in fn'.seen \cup Pending(fn)', Allowed(a, q)'
               PROVE  q \in T
  BY <1>1, <1>3 DEF ReachInv, Closed
<1>8. Allowed(a, q)
  BY <1>1, <1>7, ConfigKept
<1> DEFINE S == T \cap R
<1>9. Closed(fn, S)
  <2>1. \A x \in S \cap fn.seen : Edges(a, x) \subseteq T
    BY <1>1, <1>2, <1>7 DEF SeenInv
  <2>2. \A x \in S \cap fn.seen : Edges(a, x) \subseteq S
    BY <1>6, <2>1
  <2> HIDE DEF S
  <2>3. a \in S
    BY <1>5, <1>7 DEF S
  <2> QED
    BY <1>3, <2>2, <2>3 DEF Closed
<1>10. \A x \in R : Allowed(a, x) => x \in S
  <2>1. S \in SUBSET R
    OBVIOUS
  <2> HIDE DEF S
  <2> QED
    BY <1>3, <1>9, <2>1 DEF ReachInv, R
<1>11. p \in T
  BY <1>2, <1>3, <1>10 DEF R
<1>12. Edges(a, p)' \subseteq T
  BY <1>1, <1>3, <1>7, <1>11
<1>13. CASE q \in R
  BY <1>8, <1>10, <1>13
<1>14. CASE q \in Onward(i)
  BY <1>2, <1>3, <1>8, <1>12, <1>14
<1> QED
  BY <1>4, <1>7, <1>13, <1>14

LEMMA ArrivesKept ==
  ASSUME TypeInv, fn \in WalkType, Setup(fn), PendingInv(fn), SeenInv(fn),
         NEW i \in Decodable, Advance(i), NEW a, NEW t, NEW pushed, Arrives(a, fn, t, pushed)
  PROVE  Arrives(a, fn, t, pushed)'
<1>1. fn'.seen = fn.seen \cup {fn.addr}
  BY DEF Advance
<1>2. Remembered /\ \A q \in DOMAIN prog : Edges(a, q)' = Edges(a, q)
  BY AdvanceFacts
<1>3. CASE ~pushed /\ t = a
  BY <1>3 DEF Arrives
<1>4. ASSUME NEW q \in fn.seen, t \in Edges(a, q), (prog[q].kind = "push_cs") = pushed
      PROVE  Arrives(a, fn, t, pushed)'
  <2>1. q \in DOMAIN prog
    BY DEF SeenInv
  <2>2. t \in Edges(a, q)' /\ prog'[q] = prog[q]
    BY <1>2, <1>4, <2>1 DEF Remembered
  <2>3. q \in fn'.seen
    BY <1>1
  <2> QED
    BY <1>4, <2>2, <2>3 DEF Arrives
<1> QED
  BY <1>3, <1>4 DEF Arrives

LEMMA AdvanceArrived ==
  ASSUME TypeInv, fn \in WalkType, Setup(fn), PendingInv(fn), SeenInv(fn), ArrivedInv(fn),
         NEW i \in Decodable, Advance(i)
  PROVE  ArrivedInv(fn)'
<1>1. /\ fn'.start = fn.start /\ fn'.seen = fn.seen \cup {fn.addr}
      /\ fn'.push_cs = (i.kind = "push_cs") /\ UNCHANGED <<funcs, text>>
  BY DEF Advance, Decoded
<1>2. /\ prog'[fn.addr] = i
      /\ \A a, p : a = fn.start /\ p = fn.addr =>
              Edges(a, p)' = {q \in Onward(i) : Allowed(a, q)}
  BY AdvanceFacts
<1>3. PICK a, p : a = fn.start /\ p = fn.addr
  OBVIOUS
<1>4. \A t : Allowed(a, t)' = Allowed(a, t)
  BY <1>1, ConfigKept
<1>5. ASSUME NEW t \in Onward(i), Allowed(a, t)', NEW pushed, pushed = (i.kind = "push_cs")
      PROVE  Arrives(a, fn, t, pushed)'
  <2>1. t \in Edges(a, p)'
    BY <1>2, <1>3, <1>4, <1>5
  <2>2. p \in fn'.seen /\ (prog'[p].kind = "push_cs") = pushed
    BY <1>1, <1>2, <1>3, <1>5
  <2> QED
    BY <2>1, <2>2 DEF Arrives
<1>6. ASSUME NEW t, t = fn'.addr, t # NoAddr, Allowed(a, t)', NEW pushed, pushed = fn'.push_cs
      PROVE  Arrives(a, fn, t, pushed)'
  <2>1. t \in Onward(i)
    BY <1>6, Queued
  <2> QED
    BY <1>1, <1>5, <1>6, <2>1
<1>7. ASSUME NEW t \in fn'.queue.queued, Allowed(a, t)'
      PROVE  Arrives(a, fn, t, FALSE)'
  <2>1. CASE t \in fn.queue.queued
    <3>1. Arrives(a, fn, t, FALSE)
      BY <1>3, <1>4, <1>7, <2>1 DEF ArrivedInv
    <3> QED
      BY <3>1, ArrivesKept
  <2>2. CASE t \in Onward(i) /\ i.kind # "push_cs"
    BY <1>5, <1>7, <2>2
  <2> QED
    BY <2>1, <2>2, Queued
<1>8. ASSUME fn'.addr # NoAddr, Allowed(fn.start, fn.addr)'
      PROVE  Arrives(fn.start, fn, fn.addr, fn.push_cs)'
  <2>1. PICK t, pushed : t = fn'.addr /\ pushed = fn'.push_cs
    OBVIOUS
  <2>2. Allowed(a, t)'
    BY <1>1, <1>3, <1>8, <2>1
  <2>3. Arrives(a, fn, t, pushed)'
    BY <1>6, <1>8, <2>1, <2>2
  <2> QED
    BY <1>1, <1>3, <2>1, <2>3 DEF Arrives
<1> QED
  BY <1>1, <1>3, <1>7, <1>8 DEF ArrivedInv

LEMMA AdvanceKinds ==
  ASSUME TypeInv, fn \in WalkType, Setup(fn), PendingInv(fn), SeenInv(fn), ArrivedInv(fn),
         KindsInv(fn), NEW i \in Decodable, Advance(i)
  PROVE  KindsInv(fn)'
<1>1. /\ fn'.start = fn.start /\ fn'.seen = fn.seen \cup {fn.addr}
      /\ fn'.call_kinds =
           IF IsCall(i) THEN fn.call_kinds \cup {Tag(i, fn.push_cs)} ELSE fn.call_kinds
  BY DEF Advance
<1>2. /\ Remembered /\ prog'[fn.addr] = i /\ Allowed(fn.start, fn.addr) /\ fn.addr \in Nat
  BY AdvanceFacts
<1>3. PICK a, p : a = fn.start /\ p = fn.addr
  OBVIOUS
<1>4. \A q \in fn.seen : prog'[q] = prog[q]
  BY <1>2 DEF SeenInv, Remembered
<1>5. ASSUME NEW c \in fn'.call_kinds
      PROVE  \E q \in fn'.seen : \E pushed \in BOOLEAN :
               /\ IsCall(prog'[q]) /\ c = Tag(prog'[q], pushed)
               /\ prog'[q].kind = "callf" \/ Arrives(a, fn, q, pushed)'
  <2>1. CASE c \in fn.call_kinds
    <3>1. PICK q \in fn.seen, pushed \in BOOLEAN :
            /\ IsCall(prog[q]) /\ c = Tag(prog[q], pushed)
            /\ prog[q].kind = "callf" \/ Arrives(a, fn, q, pushed)
      BY <1>3, <2>1 DEF KindsInv
    <3>2. Arrives(a, fn, q, pushed) => Arrives(a, fn, q, pushed)'
      BY ArrivesKept
    <3>3. q \in fn'.seen /\ prog'[q] = prog[q]
      BY <1>1, <1>4
    <3> QED
      BY <3>1, <3>2, <3>3
  <2>2. CASE IsCall(i) /\ c = Tag(i, fn.push_cs)
    <3>1. PICK pushed \in BOOLEAN : pushed = fn.push_cs
      BY WalkFacts
    <3>2. Arrives(a, fn, p, pushed)
      BY <1>2, <1>3, <3>1 DEF ArrivedInv, NoAddr
    <3>3. Arrives(a, fn, p, pushed)'
      BY <3>2, ArrivesKept
    <3>4. p \in fn'.seen /\ prog'[p] = i
      BY <1>1, <1>2, <1>3
    <3> QED
      BY <2>2, <3>1, <3>3, <3>4
  <2> QED
    BY <1>1, <1>5, <2>1, <2>2
<1>6. ASSUME NEW q \in fn'.seen, prog'[q].kind = "callf"
      PROVE  Tag(prog'[q], TRUE) \in fn'.call_kinds
  <2>1. CASE q \in fn.seen
    BY <1>1, <1>4, <1>6, <2>1 DEF KindsInv
  <2>2. CASE q = fn.addr
    BY <1>1, <1>2, <1>6, <2>2 DEF IsCall, Tag
  <2> QED
    BY <1>1, <2>1, <2>2
<1> QED
  BY <1>1, <1>3, <1>5, <1>6 DEF KindsInv, IsCall, Tag

LEMMA AdvanceCalls ==
  ASSUME TypeInv, fn \in WalkType, Setup(fn), PendingInv(fn), SeenInv(fn), CallsInv(fn),
         NEW i \in Decodable, Advance(i)
  PROVE  CallsInv(fn)'
<1>1. /\ fn'.seen = fn.seen \cup {fn.addr}
      /\ fn'.direct_calls = IF IsCall(i) THEN fn.direct_calls \cup {i.to} ELSE fn.direct_calls
  BY DEF Advance
<1>2. Remembered /\ prog'[fn.addr] = i
  BY AdvanceFacts
<1>3. \A q \in fn.seen : prog'[q] = prog[q]
  BY <1>2 DEF SeenInv, Remembered
<1>4. /\ \A c \in fn.direct_calls : \E q \in fn.seen : IsCall(prog[q]) /\ c = prog[q].to
      /\ \A q \in fn.seen : IsCall(prog[q]) => prog[q].to \in fn.direct_calls
  BY DEF CallsInv
<1>5. \A c \in fn'.direct_calls : \E q \in fn'.seen : IsCall(prog'[q]) /\ c = prog'[q].to
  BY <1>1, <1>2, <1>3, <1>4
<1>6. \A q \in fn'.seen : IsCall(prog'[q]) => prog'[q].to \in fn'.direct_calls
  BY <1>1, <1>2, <1>3, <1>4
<1>7. fn'.direct_calls = {prog'[q].to : q \in {q \in fn'.seen : IsCall(prog'[q])}}
  BY <1>5, <1>6
<1> QED
  BY <1>7 DEF CallsInv, IsCall

LEMMA AdvanceLargest ==
  ASSUME TypeInv, fn \in WalkType, Setup(fn), PendingInv(fn), SeenInv(fn), LargestInv(fn),
         NEW i \in Decodable, Advance(i)
  PROVE  LargestInv(fn)'
<1>1. /\ fn'.seen = fn.seen \cup {fn.addr}
      /\ fn'.largest = MaxOf(fn.largest, fn.addr + i.len)
  BY DEF Advance
<1>2. /\ Remembered /\ prog'[fn.addr] = i /\ fn.addr \in Nat /\ i.len \in Nat \ {0}
      /\ fn.addr \in Pending(fn)
  BY AdvanceFacts
<1>3. \A q \in fn.seen : prog'[q] = prog[q] /\ q \in Nat /\ prog[q].len \in Nat
  <2>1. \A q \in fn.seen : prog'[q] = prog[q] /\ prog[q] \in Instrs
    BY <1>2 DEF SeenInv, Remembered, TypeInv
  <2> QED
    BY <2>1, WalkFacts, ScanAssumption
<1>4. fn.largest \in Nat /\ fn.start \in Nat
  BY WalkFacts
<1>5. \A q \in fn'.seen : q + prog'[q].len <= fn'.largest
  BY <1>1, <1>2, <1>3, <1>4 DEF LargestInv, MaxOf
<1>6. \E q \in fn'.seen : fn'.largest = q + prog'[q].len
  <2>1. CASE fn.seen = {}
    <3>1. fn.addr = fn.start /\ fn.largest = fn.start
      BY <1>2, <2>1 DEF LargestInv
    <3> QED
      BY <1>1, <1>2, <1>4, <3>1 DEF MaxOf
  <2>2. CASE fn.seen # {}
    <3>1. PICK q \in fn.seen : fn.largest = q + prog[q].len
      BY <2>2 DEF LargestInv
    <3> QED
      BY <1>1, <1>2, <1>3, <1>4, <3>1 DEF MaxOf
  <2> QED
    BY <2>1, <2>2
<1>7. fn'.seen # {}
  BY <1>1
<1> QED
  BY <1>5, <1>6, <1>7 DEF LargestInv

LEMMA AdvanceReturns ==
  ASSUME TypeInv, fn \in WalkType, Setup(fn), PendingInv(fn), SeenInv(fn), ReturnsInv(fn),
         NEW i \in Decodable, Advance(i), Returned(i)
  PROVE  ReturnsInv(fn)'
<1> DEFINE kinds == {prog[p].kind : p \in {p \in fn.seen : prog[p].kind \in Returns}}
           kinds2 == {prog'[p].kind : p \in {p \in fn'.seen : prog'[p].kind \in Returns}}
<1>1. fn'.seen = fn.seen \cup {fn.addr}
  BY DEF Advance
<1>2. Remembered /\ prog'[fn.addr] = i
  BY AdvanceFacts
<1>3. \A q \in fn.seen : prog'[q] = prog[q]
  BY <1>2 DEF SeenInv, Remembered
<1>4. kinds2 = kinds \cup ({i.kind} \cap Returns)
  <2>1. \A x : x \in kinds <=> \E p \in fn.seen : prog[p].kind \in Returns /\ x = prog[p].kind
    OBVIOUS
  <2>2. \A x : x \in kinds2 <=> \E p \in fn'.seen : prog'[p].kind \in Returns /\ x = prog'[p].kind
    OBVIOUS
  <2> HIDE DEF kinds, kinds2
  <2>3. \A x : x \in kinds2 <=> x \in kinds \cup ({i.kind} \cap Returns)
    BY <1>1, <1>2, <1>3, <2>1, <2>2
  <2> QED
    BY <2>3
<1>5. fn.ignored \in Seq(Returns) /\ fn.return_kind \in Returns \cup {"none"} /\ "none" \notin Returns
  BY WalkFacts DEF Returns
<1>6. /\ kinds = ({fn.return_kind} \cup ToSet(fn.ignored)) \ {"none"}
      /\ IsInjective(fn.ignored) /\ fn.return_kind \notin ToSet(fn.ignored)
      /\ fn.return_kind = "none" => fn.ignored = <<>>
  BY DEF ReturnsInv
<1>7. ToSet(<<>>) = {} /\ ToSet(fn.ignored) \subseteq Returns
  BY <1>5 DEF ToSet
<1> HIDE DEF kinds, kinds2
<1>8. CASE i.kind \notin Returns
  <2>1. fn'.return_kind = fn.return_kind /\ fn'.ignored = fn.ignored
    BY <1>8 DEF Returned
  <2>2. kinds2 = kinds
    BY <1>4, <1>8
  <2> QED
    BY <1>6, <2>1, <2>2 DEF ReturnsInv, kinds2
<1>9. CASE i.kind \in Returns /\ fn.return_kind = "none"
  <2>1. fn'.return_kind = i.kind /\ fn'.ignored = fn.ignored
    BY <1>9 DEF Returned
  <2>2. kinds2 = {i.kind} /\ ToSet(fn.ignored) = {}
    BY <1>4, <1>6, <1>7, <1>9
  <2>3. i.kind # "none"
    BY <1>5, <1>9
  <2> QED
    BY <1>6, <1>7, <2>1, <2>2, <2>3 DEF ReturnsInv, kinds2
<1>10. CASE /\ i.kind \in Returns /\ fn.return_kind # "none"
            /\ fn.return_kind = i.kind \/ i.kind \in ToSet(fn.ignored)
  <2>1. fn'.return_kind = fn.return_kind /\ fn'.ignored = fn.ignored
    BY <1>10 DEF Returned
  <2>2. kinds2 = kinds
    BY <1>4, <1>5, <1>6, <1>10
  <2> QED
    BY <1>6, <2>1, <2>2 DEF ReturnsInv, kinds2
<1>11. CASE /\ i.kind \in Returns /\ fn.return_kind # "none"
            /\ fn.return_kind # i.kind /\ i.kind \notin ToSet(fn.ignored)
  <2>1. fn'.return_kind = fn.return_kind /\ fn'.ignored = Append(fn.ignored, i.kind)
    BY <1>11 DEF Returned
  <2>2. ToSet(fn'.ignored) = ToSet(fn.ignored) \cup {i.kind}
    BY <1>5, <1>11, <2>1 DEF ToSet
  <2>3. IsInjective(fn'.ignored)
    BY <1>5, <1>6, <1>11, <2>1 DEF ToSet, IsInjective
  <2>4. kinds2 = ({fn.return_kind} \cup ToSet(fn'.ignored)) \ {"none"}
    BY <1>4, <1>5, <1>6, <1>11, <2>2
  <2>5. fn.return_kind \notin ToSet(fn'.ignored)
    BY <1>6, <1>11, <2>2
  <2> QED
    BY <1>11, <2>1, <2>3, <2>4, <2>5 DEF ReturnsInv, kinds2
<1> QED
  BY <1>8, <1>9, <1>10, <1>11

LEMMA AdvanceWalk ==
  ASSUME TypeInv, fn \in WalkType, WalkInv(fn), NEW i \in Decodable, Advance(i), Returned(i)
  PROVE  TypeInv' /\ fn' \in WalkType /\ WalkInv(fn)' /\ Remembered
<1>1. /\ Setup(fn) /\ PendingInv(fn) /\ SeenInv(fn) /\ DoneInv(fn) /\ ReachInv(fn)
      /\ ArrivedInv(fn) /\ KindsInv(fn) /\ CallsInv(fn) /\ LargestInv(fn) /\ ReturnsInv(fn)
  BY DEF WalkInv
<1>2. TypeInv' /\ Remembered /\ PendingInv(fn)' /\ Setup(fn)'
  BY <1>1, AdvanceFacts, AdvancePending
<1>3. SeenInv(fn)' /\ DoneInv(fn)' /\ ReachInv(fn)' /\ ArrivedInv(fn)'
  BY <1>1, AdvanceSeen, AdvanceDone, AdvanceReach, AdvanceArrived
<1>4. KindsInv(fn)' /\ CallsInv(fn)' /\ LargestInv(fn)' /\ ReturnsInv(fn)'
  BY <1>1, AdvanceKinds, AdvanceCalls, AdvanceLargest, AdvanceReturns
<1>5. fn' \in WalkType
  BY DEF Advance
<1> QED
  BY <1>2, <1>3, <1>4, <1>5 DEF WalkInv

---------------------------------------------------------------------------
(* The other steps of a walk, and its start. *)

\* What the first of a queue is, and what is left.
LEMMA Taken ==
  ASSUME NEW q \in Queues, q.queued # {}
  PROVE  /\ First(q) \in q.queued /\ First(q) \in Nat
         /\ queue_pop(q) \in Queues
         /\ queue_pop(q).queued = q.queued \ {First(q)}
         /\ queue_pop(q).discovered = q.discovered
<1>1. q.queued \subseteq Nat /\ q.discovered \subseteq Nat
  BY DEF Queues
<1>2. First(q) \in q.queued
  BY <1>1, MinFacts DEF First
<1> DEFINE f == First(q)
<1> HIDE DEF f
<1>3. queue_pop(q) = [q EXCEPT !.queued = @ \ {f}]
  BY DEF queue_pop, f
<1>4. queue_pop(q) = [q EXCEPT !.queued = q.queued \ {f}]
  BY <1>3 DEF Queues
<1>5. /\ queue_pop(q) \in Queues /\ queue_pop(q).queued = q.queued \ {f}
      /\ queue_pop(q).discovered = q.discovered
  BY <1>1, <1>4 DEF Queues
<1> QED
  BY <1>1, <1>2, <1>5 DEF f

LEMMA PopFacts ==
  ASSUME TypeInv, fn \in WalkType, PopBlock
  PROVE  /\ fn' \in WalkType /\ UNCHANGED <<funcs, text, prog, outer, functions, inData, status>>
         /\ fn.addr = NoAddr /\ fn'.addr \in fn.queue.queued /\ fn'.push_cs = FALSE
         /\ fn'.queue.queued = fn.queue.queued \ {fn'.addr}
         /\ fn'.queue.discovered = fn.queue.discovered
         /\ fn'.start = fn.start /\ fn'.regions = fn.regions /\ fn'.end = fn.end
         /\ fn'.seen = fn.seen /\ fn'.largest = fn.largest
         /\ fn'.direct_calls = fn.direct_calls /\ fn'.call_kinds = fn.call_kinds
         /\ fn'.return_kind = fn.return_kind /\ fn'.ignored = fn.ignored
<1> DEFINE q == queue_pop(fn.queue)
           a == First(fn.queue)
<1>1. fn.queue \in Queues /\ fn.queue.queued # {}
  BY WalkFacts DEF PopBlock
<1>2. /\ a \in fn.queue.queued /\ a \in Nat /\ q \in Queues
      /\ q.queued = fn.queue.queued \ {a} /\ q.discovered = fn.queue.discovered
  BY <1>1, Taken
<1>3. fn' = [fn EXCEPT !.queue = q, !.addr = a, !.push_cs = FALSE]
  BY DEF PopBlock, WalkType
<1> HIDE DEF q, a
<1>4. /\ fn' \in WalkType /\ fn'.addr = a /\ fn'.push_cs = FALSE /\ fn'.queue = q
      /\ fn'.start = fn.start /\ fn'.regions = fn.regions /\ fn'.end = fn.end
      /\ fn'.seen = fn.seen /\ fn'.largest = fn.largest
      /\ fn'.direct_calls = fn.direct_calls /\ fn'.call_kinds = fn.call_kinds
      /\ fn'.return_kind = fn.return_kind /\ fn'.ignored = fn.ignored
  BY <1>2, <1>3 DEF WalkType
<1> QED
  BY <1>2, <1>4 DEF PopBlock

LEMMA PopWalk ==
  ASSUME TypeInv, fn \in WalkType, WalkInv(fn), PopBlock
  PROVE  TypeInv' /\ WalkInv(fn)'
<1>1. /\ fn' \in WalkType /\ UNCHANGED <<funcs, text, prog, outer>>
      /\ fn.addr = NoAddr /\ fn'.addr \in fn.queue.queued /\ fn'.push_cs = FALSE
      /\ fn'.queue.queued = fn.queue.queued \ {fn'.addr}
      /\ fn'.queue.discovered = fn.queue.discovered
      /\ fn'.start = fn.start /\ fn'.regions = fn.regions /\ fn'.end = fn.end
      /\ fn'.seen = fn.seen /\ fn'.largest = fn.largest
      /\ fn'.direct_calls = fn.direct_calls /\ fn'.call_kinds = fn.call_kinds
      /\ fn'.return_kind = fn.return_kind /\ fn'.ignored = fn.ignored
  BY PopFacts
<1>2. /\ Setup(fn) /\ PendingInv(fn) /\ SeenInv(fn) /\ DoneInv(fn) /\ ReachInv(fn)
      /\ ArrivedInv(fn) /\ KindsInv(fn) /\ CallsInv(fn) /\ LargestInv(fn) /\ ReturnsInv(fn)
  BY DEF WalkInv
<1>3. PICK a : a = fn.start
  OBVIOUS
<1>4. /\ \A q : Allowed(a, q)' = Allowed(a, q) /\ Edges(a, q)' = Edges(a, q)
      /\ RegionsAt(a)' = RegionsAt(a) /\ EndAt(a)' = EndAt(a)
  <2>1. \A q : Allowed(a, q)' = Allowed(a, q)
    BY <1>1, ConfigKept
  <2>2. RegionsAt(a)' = RegionsAt(a) /\ EndAt(a)' = EndAt(a)
    BY <1>1, ConfigKept
  <2>3. \A q : Edges(a, q)' = Edges(a, q)
    BY <1>1, SuccessorsKept DEF Edges
  <2> QED
    BY <2>1, <2>2, <2>3
<1>5. Pending(fn)' = Pending(fn)
  <2>1. fn'.addr # NoAddr
    BY <1>1, WalkFacts DEF NoAddr
  <2> QED
    BY <1>1, <2>1 DEF Pending
<1>6. \A t, pushed : Arrives(a, fn, t, pushed)' = Arrives(a, fn, t, pushed)
  BY <1>1, <1>4 DEF Arrives
<1>7. TypeInv'
  BY <1>1 DEF TypeInv
<1>8. Setup(fn)'
  BY <1>1, <1>2, <1>3, <1>4 DEF Setup
<1>9. PendingInv(fn)'
  BY <1>1, <1>2, <1>5 DEF PendingInv
<1>10. SeenInv(fn)'
  BY <1>1, <1>2, <1>3, <1>4 DEF SeenInv
<1>11. \A t : t # NoAddr => \A pushed \in BOOLEAN : Done(fn, t, pushed) => Done(fn, t, pushed)'
  BY <1>1 DEF Done
<1>12. DoneInv(fn)'
  <2>1. \A t \in fn.queue.discovered : t # NoAddr
    BY WalkFacts DEF NoAddr
  <2>2. ASSUME NEW q \in fn.seen, NEW t \in Edges(a, q) PROVE Done(fn, t, prog[q].kind = "push_cs")'
    <3>1. PICK pushed \in BOOLEAN : pushed = (prog[q].kind = "push_cs")
      OBVIOUS
    <3>2. Done(fn, t, pushed)
      BY <1>2, <1>3, <2>2, <3>1 DEF DoneInv
    <3>3. Done(fn, t, pushed)'
      BY <1>11, <2>2, <3>2, EdgesAllowed
    <3> QED
      BY <1>1, <3>1, <3>3
  <2>3. \A t \in fn.queue.discovered : Done(fn, t, FALSE)'
    BY <1>2, <1>11, <2>1 DEF DoneInv
  <2> QED
    BY <1>1, <1>3, <1>4, <2>2, <2>3 DEF DoneInv
<1>13. ReachInv(fn)'
  BY <1>1, <1>2, <1>3, <1>4, <1>5 DEF ReachInv, Closed
<1>14. ArrivedInv(fn)'
  <2>1. \A t \in fn.queue.queued : Allowed(a, t)' => Arrives(a, fn, t, FALSE)'
    BY <1>2, <1>3, <1>4, <1>6 DEF ArrivedInv
  <2>2. PICK t, pushed : t = fn'.addr /\ pushed = fn'.push_cs
    OBVIOUS
  <2>3. Allowed(a, t)' => Arrives(a, fn, t, pushed)'
    BY <1>1, <2>1, <2>2
  <2>4. Allowed(fn.start, fn.addr)' => Arrives(fn.start, fn, fn.addr, fn.push_cs)'
    BY <1>1, <1>3, <2>2, <2>3 DEF Arrives
  <2> QED
    BY <1>1, <1>3, <2>1, <2>4 DEF ArrivedInv
<1>15. KindsInv(fn)'
  BY <1>1, <1>2, <1>3, <1>6 DEF KindsInv, IsCall, Tag
<1>16. CallsInv(fn)'
  BY <1>1, <1>2 DEF CallsInv, IsCall
<1>17. LargestInv(fn)'
  BY <1>1, <1>2, <1>5 DEF LargestInv
<1>18. ReturnsInv(fn)'
  BY <1>1, <1>2 DEF ReturnsInv
<1> QED
  BY <1>7, <1>8, <1>9, <1>10, <1>12, <1>13, <1>14, <1>15, <1>16, <1>17, <1>18 DEF WalkInv

LEMMA BeginWalk ==
  ASSUME TypeInv, Begin
  PROVE  /\ TypeInv' /\ fn' \in WalkType /\ WalkInv(fn)' /\ fn'.start = First(outer)
         /\ UNCHANGED <<funcs, text, prog, functions, inData, status>>
<1> DEFINE a == First(outer)
           q == queue_insert(EmptyQueue, {a})
<1>1. outer \in Queues /\ outer.queued # {}
  BY DEF TypeInv, Begin, Popped
<1>2. a \in Nat /\ queue_pop(outer) \in Queues
  BY <1>1, Taken
<1>3. q \in Queues /\ q.queued = {a} /\ q.discovered = {a}
  BY <1>2 DEF queue_insert, EmptyQueue, Queues
<1>4. /\ outer' = queue_pop(outer) /\ UNCHANGED <<funcs, text, prog, functions, inData, status>>
      /\ a >= SegStart
      /\ fn' = [start |-> a, regions |-> RegionsAt(a), end |-> EndAt(a),
                queue |-> q, addr |-> NoAddr,
                push_cs |-> FALSE, largest |-> a, direct_calls |-> {}, call_kinds |-> {},
                indirect_calls |-> 0, return_kind |-> "none", ignored |-> <<>>,
                seen |-> {}]
  BY DEF Begin
<1>5. RegionsAt(a) \in Seq(Regions) /\ EndAt(a) \in Nat \cup {NoEnd}
  BY RegionsFit DEF TypeInv, Fits
<1> HIDE DEF q
<1>6. PICK b : b = a
  OBVIOUS
<1>7. RegionsAt(b)' = RegionsAt(b) /\ EndAt(b)' = EndAt(b)
  BY <1>4, ConfigKept
<1> HIDE DEF a
<1>8. fn' \in WalkType
  <2>1. <<>> \in Seq(Returns) /\ {} \in CallKinds
    BY DEF CallKinds
  <2> QED
    BY <1>2, <1>3, <1>4, <1>5, <2>1 DEF WalkType
<1>9. TypeInv'
  BY <1>2, <1>4, <1>8 DEF TypeInv
<1>10. /\ fn'.start = a /\ fn'.regions = RegionsAt(a) /\ fn'.end = EndAt(a)
       /\ fn'.queue = q /\ fn'.addr = NoAddr /\ fn'.push_cs = FALSE /\ fn'.largest = a
       /\ fn'.direct_calls = {} /\ fn'.call_kinds = {} /\ fn'.return_kind = "none"
       /\ fn'.ignored = <<>> /\ fn'.seen = {}
  BY <1>4
<1>11. Pending(fn)' = {a}
  BY <1>3, <1>10 DEF Pending
<1>12. Setup(fn)'
  BY <1>6, <1>7, <1>10 DEF Setup
<1>13. PendingInv(fn)'
  BY <1>3, <1>4, <1>10, <1>11 DEF PendingInv
<1>14. SeenInv(fn)' /\ DoneInv(fn)'
  BY <1>3, <1>10 DEF SeenInv, DoneInv, Done
<1>15. ReachInv(fn)' /\ LargestInv(fn)'
  BY <1>10, <1>11 DEF ReachInv, Closed, LargestInv
<1>16. ArrivedInv(fn)'
  <2>1. \A t \in fn'.queue.queued : t = fn'.start
    BY <1>3, <1>10
  <2>2. fn'.addr = NoAddr
    BY <1>10
  <2> QED
    BY <2>1, <2>2 DEF ArrivedInv, Arrives
<1>17. KindsInv(fn)' /\ CallsInv(fn)'
  BY <1>10 DEF KindsInv, CallsInv
<1>18. ReturnsInv(fn)'
  <2>1. ToSet(<<>>) = {} /\ IsInjective(<<>>)
    BY DEF ToSet, IsInjective
  <2> QED
    BY <1>10, <2>1 DEF ReturnsInv
<1>19. WalkInv(fn)'
  BY <1>12, <1>13, <1>14, <1>15, <1>16, <1>17, <1>18 DEF WalkInv
<1> QED
  BY <1>4, <1>8, <1>9, <1>10, <1>19 DEF a

---------------------------------------------------------------------------
(* What is reported of a function stays true of it. *)

Reaches(S, a) ==
  /\ a \in S /\ \A p \in S : Edges(a, p) \subseteq S
  /\ \A T \in SUBSET S : a \in T /\ (\A p \in T : Edges(a, p) \subseteq T) => T = S
Reported(a, d) == d.seen \subseteq DOMAIN prog /\ Reaches(d.seen, a) /\ Exact(a, d)

LEMMA ReportedKept ==
  ASSUME Remembered, NEW a, NEW d, Reported(a, d)
  PROVE  Reported(a, d)'
<1>1. \A p \in d.seen : p \in DOMAIN prog' /\ prog'[p] = prog[p]
  BY DEF Reported, Remembered
<1>2. \A p \in d.seen : Edges(a, p)' = Edges(a, p)
  BY EdgesKept DEF Reported
<1>3. Reaches(d.seen, a)'
  BY <1>2 DEF Reported, Reaches
<1>4. \A p, pushed : Arrives(a, d, p, pushed)' = Arrives(a, d, p, pushed)
  BY <1>1, <1>2 DEF Arrives
<1> DEFINE Ends == {p + prog[p].len : p \in d.seen}
           Targets == {prog[p].to : p \in {p \in d.seen : prog[p].kind \in {"call", "callf"}}}
           FarCalls == {<<prog[p].to, "far">> : p \in {p \in d.seen : prog[p].kind \in {"callf"}}}
           Pushed == {p \in {p \in d.seen : prog[p].kind \in {"call"}} : Arrives(a, d, p, TRUE)}
           Unpushed == {p \in {p \in d.seen : prog[p].kind \in {"call"}} : Arrives(a, d, p, FALSE)}
           Far == {<<prog[p].to, "far">> : p \in Pushed}
           Near == {<<prog[p].to, "near">> : p \in Unpushed}
           Kinds == {prog[p].kind : p \in {p \in d.seen : prog[p].kind \in Returns}}
<1>5. Ends' = Ends /\ Targets' = Targets /\ FarCalls' = FarCalls /\ Kinds' = Kinds
  BY <1>1
<1>6. Pushed' = Pushed /\ Unpushed' = Unpushed
  BY <1>1, <1>4
<1>7. Far' = Far /\ Near' = Near
  BY <1>1, <1>6
<1>8. Exact(a, d) <=>
        /\ d.end_addr_inferred = Max(Ends) /\ d.direct_calls = Targets
        /\ d.call_kinds = FarCalls \cup Far \cup Near
        /\ Kinds = ({d.return_kind} \cup ToSet(d.ignored)) \ {"none"}
        /\ IsInjective(d.ignored) /\ d.return_kind \notin ToSet(d.ignored)
  BY DEF Exact
<1>9. Exact(a, d)' <=>
        /\ d.end_addr_inferred = Max(Ends') /\ d.direct_calls = Targets'
        /\ d.call_kinds = FarCalls' \cup Far' \cup Near'
        /\ Kinds' = ({d.return_kind} \cup ToSet(d.ignored)) \ {"none"}
        /\ IsInjective(d.ignored) /\ d.return_kind \notin ToSet(d.ignored)
  BY DEF Exact
<1> HIDE DEF Ends, Targets, FarCalls, Pushed, Unpushed, Far, Near, Kinds
<1>10. Exact(a, d)'
  BY <1>5, <1>7, <1>8, <1>9 DEF Reported
<1> QED
  BY <1>1, <1>3, <1>10 DEF Reported

\* A set of naturals has one maximum.
LEMMA MaxIs ==
  ASSUME NEW T, T \subseteq Int, NEW m \in T, \A x \in T : x <= m
  PROVE  Max(T) = m
<1>1. \A x \in T : m >= x
  OBVIOUS
<1>2. \A n \in T : (\A x \in T : n >= x) => n = m
  BY <1>1
<1>3. Max(T) \in T /\ \A x \in T : Max(T) >= x
  BY <1>1 DEF Max
<1> QED
  BY <1>2, <1>3

\* A walk that has nowhere left to go has read what control reaches.
LEMMA WalkReaches ==
  ASSUME TypeInv, fn \in WalkType, WalkInv(fn), fn.addr = NoAddr, fn.queue.queued = {}
  PROVE  Reaches(fn.seen, fn.start)
<1>1. /\ SeenInv(fn) /\ DoneInv(fn) /\ ReachInv(fn) /\ PendingInv(fn)
  BY DEF WalkInv
<1>2. PICK a : a = fn.start
  OBVIOUS
<1>3. Pending(fn) = {}
  BY DEF Pending
<1>4. \A t, pushed : t # NoAddr /\ Done(fn, t, pushed) => t \in fn.seen
  BY <1>3, DoneMet
<1>5. a \in fn.seen
  <2>1. Done(fn, a, FALSE)
    BY <1>1, <1>2 DEF DoneInv, PendingInv
  <2>2. a # NoAddr
    BY <1>2, WalkFacts DEF NoAddr
  <2> QED
    BY <1>4, <2>1, <2>2
<1>6. \A q \in fn.seen : Edges(a, q) \subseteq fn.seen
  BY <1>1, <1>2, <1>4, EdgesAllowed DEF DoneInv
<1>7. \A q \in fn.seen : Allowed(a, q)
  <2>1. SUFFICES ASSUME NEW q \in fn.seen PROVE Allowed(a, q)
    OBVIOUS
  <2>2. q \in Nat /\ prog[q].len \in Nat \ {0}
    <3>1. prog[q] \in Instrs
      BY <1>1 DEF SeenInv, TypeInv
    <3> QED
      BY <3>1, WalkFacts, ScanAssumption
  <2>3. q \in q .. q + prog[q].len - 1
    BY <2>2
  <2> QED
    BY <1>1, <1>2, <2>3 DEF SeenInv
<1>8. ASSUME NEW T \in SUBSET fn.seen, a \in T, \A p \in T : Edges(a, p) \subseteq T
      PROVE  T = fn.seen
  <2>1. Closed(fn, T)
    BY <1>2, <1>8 DEF Closed
  <2>2. \A q \in fn.seen : q \in T
    BY <1>1, <1>2, <1>3, <1>7, <1>8, <2>1 DEF ReachInv
  <2> QED
    BY <1>8, <2>2
<1> QED
  BY <1>2, <1>5, <1>6, <1>8 DEF Reaches

\* The near and far calls it has noted are those its instructions make.
LEMMA WalkKinds ==
  ASSUME TypeInv, fn \in WalkType, WalkInv(fn), fn.addr = NoAddr, fn.queue.queued = {},
         NEW c
  PROVE  c \in fn.call_kinds <=>
           \/ \E p \in fn.seen : prog[p].kind = "callf" /\ c = <<prog[p].to, "far">>
           \/ \E p \in fn.seen :
                prog[p].kind = "call" /\ Arrives(fn.start, fn, p, TRUE) /\ c = <<prog[p].to, "far">>
           \/ \E p \in fn.seen :
                prog[p].kind = "call" /\ Arrives(fn.start, fn, p, FALSE) /\ c = <<prog[p].to, "near">>
<1>1. SeenInv(fn) /\ DoneInv(fn) /\ KindsInv(fn) /\ PendingInv(fn)
  BY DEF WalkInv
<1>2. ASSUME NEW p \in fn.seen, NEW pushed \in BOOLEAN, prog[p].kind = "call", Arrives(fn.start, fn, p, pushed)
      PROVE  Tag(prog[p], pushed) \in fn.call_kinds
  <2>1. Done(fn, p, pushed)
    <3>1. CASE ~pushed /\ p = fn.start
      BY <1>1, <3>1 DEF DoneInv, PendingInv
    <3>2. ASSUME NEW q \in fn.seen, p \in Edges(fn.start, q), (prog[q].kind = "push_cs") = pushed
          PROVE  Done(fn, p, pushed)
      BY <1>1, <3>2 DEF DoneInv
    <3> QED
      BY <1>2, <3>1, <3>2 DEF Arrives
  <2>2. p # NoAddr
    BY WalkFacts DEF NoAddr
  <2> QED
    BY <1>2, <2>1, <2>2 DEF Done, IsCall
<1>3. \A i : i.kind = "callf" => \A pushed : Tag(i, pushed) = <<i.to, "far">>
  BY DEF Tag
<1>4. \A i : i.kind = "call" => Tag(i, TRUE) = <<i.to, "far">> /\ Tag(i, FALSE) = <<i.to, "near">>
  BY DEF Tag
<1>5. ASSUME c \in fn.call_kinds
      PROVE  \/ \E p \in fn.seen : prog[p].kind = "callf" /\ c = <<prog[p].to, "far">>
             \/ \E p \in fn.seen :
                  prog[p].kind = "call" /\ Arrives(fn.start, fn, p, TRUE) /\ c = <<prog[p].to, "far">>
             \/ \E p \in fn.seen :
                  prog[p].kind = "call" /\ Arrives(fn.start, fn, p, FALSE) /\ c = <<prog[p].to, "near">>
  <2>1. PICK p \in fn.seen, pushed \in BOOLEAN :
          /\ IsCall(prog[p]) /\ c = Tag(prog[p], pushed)
          /\ prog[p].kind = "callf" \/ Arrives(fn.start, fn, p, pushed)
    BY <1>1, <1>5 DEF KindsInv
  <2>2. CASE prog[p].kind = "callf"
    BY <1>3, <2>1, <2>2
  <2>3. CASE prog[p].kind = "call"
    <3>1. CASE pushed = TRUE
      BY <1>4, <2>1, <2>3, <3>1
    <3>2. CASE pushed = FALSE
      BY <1>4, <2>1, <2>3, <3>2
    <3> QED
      BY <3>1, <3>2
  <2> QED
    BY <2>1, <2>2, <2>3 DEF IsCall
<1>6. \A p \in fn.seen : prog[p].kind = "callf" => <<prog[p].to, "far">> \in fn.call_kinds
  BY <1>1, <1>3 DEF KindsInv
<1>7. \A p \in fn.seen : prog[p].kind = "call" =>
        /\ Arrives(fn.start, fn, p, TRUE) => <<prog[p].to, "far">> \in fn.call_kinds
        /\ Arrives(fn.start, fn, p, FALSE) => <<prog[p].to, "near">> \in fn.call_kinds
  BY <1>2, <1>4
<1> QED
  BY <1>5, <1>6, <1>7

\* The details of such a walk are exact.
LEMMA WalkReported ==
  ASSUME TypeInv, fn \in WalkType, WalkInv(fn), fn.addr = NoAddr, fn.queue.queued = {},
         NEW a, a = fn.start, NEW d, d = Details
  PROVE  Reported(a, d)
<1>1. /\ SeenInv(fn) /\ CallsInv(fn) /\ LargestInv(fn) /\ ReturnsInv(fn)
  BY DEF WalkInv
<1>2. /\ d.end_addr_inferred = fn.largest /\ d.direct_calls = fn.direct_calls
      /\ d.call_kinds = fn.call_kinds /\ d.return_kind = fn.return_kind
      /\ d.ignored = fn.ignored /\ d.seen = fn.seen
  BY DEF Details
<1>3. Reaches(fn.seen, a)
  BY WalkReaches
<1>4. \A p, pushed : Arrives(a, d, p, pushed) = Arrives(a, fn, p, pushed)
  BY <1>2 DEF Arrives
<1> DEFINE Ends == {p + prog[p].len : p \in d.seen}
           Targets == {prog[p].to : p \in {p \in d.seen : prog[p].kind \in {"call", "callf"}}}
           FarCalls == {<<prog[p].to, "far">> : p \in {p \in d.seen : prog[p].kind \in {"callf"}}}
           Pushed == {p \in {p \in d.seen : prog[p].kind \in {"call"}} : Arrives(a, d, p, TRUE)}
           Unpushed == {p \in {p \in d.seen : prog[p].kind \in {"call"}} : Arrives(a, d, p, FALSE)}
           Far == {<<prog[p].to, "far">> : p \in Pushed}
           Near == {<<prog[p].to, "near">> : p \in Unpushed}
           Kinds == {prog[p].kind : p \in {p \in d.seen : prog[p].kind \in Returns}}
<1>5. d.end_addr_inferred = Max(Ends)
  <2>1. \A p \in fn.seen : p + prog[p].len \in Int /\ p + prog[p].len <= fn.largest
    <3>1. \A p \in fn.seen : prog[p] \in Instrs
      BY <1>1 DEF SeenInv, TypeInv
    <3>2. \A p \in fn.seen : prog[p].len \in Nat /\ p \in Nat
      BY <3>1, ScanAssumption, WalkFacts
    <3> QED
      BY <1>1, <3>2 DEF LargestInv
  <2>2. fn.seen # {}
    BY <1>3 DEF Reaches
  <2>3. \E p \in fn.seen : fn.largest = p + prog[p].len
    BY <1>1, <2>2 DEF LargestInv
  <2>4. Ends \subseteq Int /\ fn.largest \in Ends /\ \A x \in Ends : x <= fn.largest
    BY <1>2, <2>1, <2>3
  <2> HIDE DEF Ends
  <2> QED
    BY <1>2, <2>4, MaxIs
<1>6. d.direct_calls = Targets
  BY <1>1, <1>2 DEF CallsInv, IsCall
<1>7. d.call_kinds = FarCalls \cup Far \cup Near
  <2>1. \A c : c \in FarCalls <=>
          \E p \in d.seen : prog[p].kind = "callf" /\ c = <<prog[p].to, "far">>
    OBVIOUS
  <2>2. \A c : c \in Far <=>
          \E p \in d.seen : prog[p].kind = "call" /\ Arrives(a, d, p, TRUE) /\ c = <<prog[p].to, "far">>
    OBVIOUS
  <2>3. \A c : c \in Near <=>
          \E p \in d.seen : prog[p].kind = "call" /\ Arrives(a, d, p, FALSE) /\ c = <<prog[p].to, "near">>
    OBVIOUS
  <2> HIDE DEF FarCalls, Far, Near
  <2>4. ASSUME NEW c
        PROVE  c \in fn.call_kinds <=> c \in FarCalls \cup Far \cup Near
    <3>1. c \in fn.call_kinds <=>
            \/ \E p \in fn.seen : prog[p].kind = "callf" /\ c = <<prog[p].to, "far">>
            \/ \E p \in fn.seen :
                 prog[p].kind = "call" /\ Arrives(a, fn, p, TRUE) /\ c = <<prog[p].to, "far">>
            \/ \E p \in fn.seen :
                 prog[p].kind = "call" /\ Arrives(a, fn, p, FALSE) /\ c = <<prog[p].to, "near">>
      <4>1. c \in fn.call_kinds <=>
              \/ \E p \in fn.seen : prog[p].kind = "callf" /\ c = <<prog[p].to, "far">>
              \/ \E p \in fn.seen :
                   prog[p].kind = "call" /\ Arrives(fn.start, fn, p, TRUE) /\ c = <<prog[p].to, "far">>
              \/ \E p \in fn.seen :
                   prog[p].kind = "call" /\ Arrives(fn.start, fn, p, FALSE) /\ c = <<prog[p].to, "near">>
        BY WalkKinds
      <4> QED
        BY <4>1
    <3>2. \A p : Arrives(a, d, p, TRUE) = Arrives(a, fn, p, TRUE)
                /\ Arrives(a, d, p, FALSE) = Arrives(a, fn, p, FALSE)
      BY <1>4
    <3>3. c \in FarCalls <=> \E p \in fn.seen : prog[p].kind = "callf" /\ c = <<prog[p].to, "far">>
      BY <1>2, <2>1
    <3>4. c \in Far <=> \E p \in fn.seen :
            prog[p].kind = "call" /\ Arrives(a, fn, p, TRUE) /\ c = <<prog[p].to, "far">>
      BY <1>2, <2>2, <3>2
    <3>5. c \in Near <=> \E p \in fn.seen :
            prog[p].kind = "call" /\ Arrives(a, fn, p, FALSE) /\ c = <<prog[p].to, "near">>
      BY <1>2, <2>3, <3>2
    <3> QED
      BY <3>1, <3>3, <3>4, <3>5
  <2> QED
    BY <1>2, <2>4
<1>8. /\ Kinds = ({d.return_kind} \cup ToSet(d.ignored)) \ {"none"}
      /\ IsInjective(d.ignored) /\ d.return_kind \notin ToSet(d.ignored)
  BY <1>1, <1>2 DEF ReturnsInv
<1>9. Exact(a, d)
  BY <1>5, <1>6, <1>7, <1>8 DEF Exact
<1> QED
  BY <1>1, <1>2, <1>3, <1>9 DEF Reported, SeenInv

---------------------------------------------------------------------------
(* The invariant of the scan's walks and results. *)

ResultsInv ==
  \A a, d : a \in DOMAIN functions /\ d = functions[a] => d = Failed \/ (d.ok /\ Reported(a, d))
IInv == TypeInv /\ (fn # NoFn => WalkInv(fn)) /\ ResultsInv

LEMMA WalkKept ==
  ASSUME UNCHANGED <<funcs, text, prog, fn>>, WalkInv(fn)
  PROVE  WalkInv(fn)'
<1>1. PICK a, w : a = fn.start /\ w = fn
  OBVIOUS
<1>2. /\ \A q : Allowed(a, q)' = Allowed(a, q)
      /\ RegionsAt(a)' = RegionsAt(a) /\ EndAt(a)' = EndAt(a)
  BY ConfigKept
<1>3. \A q : Edges(a, q)' = Edges(a, q)
  BY SuccessorsKept DEF Edges
<1>4. \A t, pushed : Arrives(a, w, t, pushed)' = Arrives(a, w, t, pushed)
  BY <1>3 DEF Arrives
<1>5. Pending(fn)' = Pending(fn)
  BY DEF Pending
<1>6. \A t, pushed : Done(w, t, pushed)' = Done(w, t, pushed)
  BY DEF Done
<1>7. Setup(fn)' /\ PendingInv(fn)' /\ SeenInv(fn)'
  BY <1>1, <1>2, <1>5 DEF WalkInv, Setup, PendingInv, SeenInv
<1>8. DoneInv(fn)'
  BY <1>1, <1>3, <1>6 DEF WalkInv, DoneInv, Done
<1>9. ReachInv(fn)'
  BY <1>1, <1>2, <1>3, <1>5 DEF WalkInv, ReachInv, Closed
<1>10. ArrivedInv(fn)' /\ KindsInv(fn)'
  <2>1. \A t, pushed : Arrives(a, fn, t, pushed)' = Arrives(a, fn, t, pushed)
    BY <1>3 DEF Arrives
  <2>2. KindsInv(fn)'
    BY <1>1, <2>1 DEF WalkInv, KindsInv, IsCall, Tag
  <2>3. PICK t, pushed : t = fn.addr /\ pushed = fn.push_cs
    OBVIOUS
  <2>4. Arrives(fn.start, fn, fn.addr, fn.push_cs)' <=> Arrives(fn.start, fn, fn.addr, fn.push_cs)
    BY <1>1, <2>1, <2>3 DEF Arrives
  <2>5. ASSUME NEW q
        PROVE  Arrives(fn.start, fn, q, FALSE)' <=> Arrives(fn.start, fn, q, FALSE)
    <3>1. Arrives(a, fn, q, FALSE)' <=> Arrives(a, fn, q, FALSE)
      BY <2>1
    <3> QED
      BY <1>1, <3>1 DEF Arrives
  <2>6. ArrivedInv(fn)'
    BY <1>1, <1>2, <2>4, <2>5 DEF WalkInv, ArrivedInv
  <2> QED
    BY <2>2, <2>6
<1>11. CallsInv(fn)' /\ LargestInv(fn)' /\ ReturnsInv(fn)'
  BY <1>5 DEF WalkInv, CallsInv, LargestInv, ReturnsInv, IsCall
<1> QED
  BY <1>7, <1>8, <1>9, <1>10, <1>11 DEF WalkInv

LEMMA ResultsKept ==
  ASSUME ResultsInv, Remembered, UNCHANGED functions
  PROVE  ResultsInv'
<1>1. \A a : \A d : Reported(a, d) => Reported(a, d)'
  BY ReportedKept
<1> QED
  BY <1>1 DEF ResultsInv

LEMMA ResultAdded ==
  ASSUME ResultsInv, Remembered, NEW s, NEW r, Result(s, r),
         r = Failed \/ (r.ok /\ Reported(s, r))
  PROVE  ResultsInv'
<1>1. \A a : \A d : Reported(a, d) => Reported(a, d)'
  BY ReportedKept
<1>2. /\ DOMAIN functions' = DOMAIN functions \cup {s}
      /\ \A a \in DOMAIN functions : a # s => functions'[a] = functions[a]
      /\ functions'[s] = r
  BY DEF Result, Extended
<1>3. ASSUME NEW a \in DOMAIN functions', NEW d, d = functions'[a]
      PROVE  d = Failed \/ (d.ok /\ Reported(a, d)')
  <2>1. d = Failed \/ (d.ok /\ Reported(a, d))
    BY <1>2, <1>3 DEF ResultsInv
  <2> QED
    BY <1>1, <2>1
<1> QED
  BY <1>3 DEF ResultsInv

LEMMA NoFnFacts ==
  ASSUME TypeInv
  PROVE  /\ NoFn \notin WalkType /\ (fn # NoFn => fn \in WalkType)
BY WalkFacts DEF TypeInv, NoFn, NoAddr

LEMMA InitInv ==
  ASSUME Init
  PROVE  IInv
<1>1. {funcs[i].start : i \in DOMAIN funcs} \subseteq Nat
  BY FuncFacts DEF Init
<1>2. EmptyQueue \in Queues
  BY DEF EmptyQueue, Queues
<1>3. outer \in Queues
  BY <1>1, <1>2, Inserted DEF Init
<1>4. DOMAIN prog = {} /\ DOMAIN functions = {}
  BY DEF Init
<1> QED
  BY <1>3, <1>4 DEF Init, IInv, TypeInv, ResultsInv

LEMMA Unmoved ==
  ASSUME IInv, UNCHANGED <<funcs, text, prog, functions, fn>>, outer' \in Queues
  PROVE  IInv'
<1>1. Remembered
  BY DEF Remembered
<1>2. ResultsInv'
  BY <1>1, ResultsKept DEF IInv
<1>3. TypeInv' /\ (fn' # NoFn => WalkInv(fn)')
  BY WalkKept DEF IInv, TypeInv
<1> QED
  BY <1>2, <1>3 DEF IInv

LEMMA Refused ==
  ASSUME IInv, NEW a, Result(a, Failed), UNCHANGED <<funcs, text, prog>>, fn' = NoFn, outer' \in Queues
  PROVE  IInv'
<1>1. Remembered
  BY DEF Remembered
<1>2. ResultsInv'
  BY <1>1, ResultAdded DEF IInv
<1> QED
  BY <1>2 DEF IInv, TypeInv

LEMMA FailFacts ==
  ASSUME TypeInv, StepFails
  PROVE  /\ Remembered /\ TypeInv' /\ Result(fn.start, Failed) /\ fn' = NoFn /\ fn \in WalkType
         /\ UNCHANGED <<funcs, text, outer, inData, status>>
<1>1. fn \in WalkType /\ fn.addr \in Nat
  BY NoFnFacts, WalkFacts DEF StepFails, AtInstr, Walking
<1>2. PICK i \in Fetched : Remember(i)
  BY DEF StepFails
<1>3. UNCHANGED <<funcs, text, outer, inData, status>> /\ fn' = NoFn /\ Result(fn.start, Failed)
  BY DEF StepFails
<1>4. Remembered /\ \A p \in DOMAIN prog' : prog'[p] \in Instrs
  BY <1>1, <1>2, <1>3, Remembers
<1>5. DOMAIN prog' \subseteq Nat
  BY <1>1, <1>2, <1>3, Remembers DEF TypeInv
<1> QED
  BY <1>1, <1>3, <1>4, <1>5 DEF TypeInv

LEMMA FinishFacts ==
  ASSUME TypeInv, fn # NoFn => WalkInv(fn), Finish
  PROVE  /\ fn \in WalkType /\ fn' = NoFn
         /\ UNCHANGED <<funcs, text, prog, status>>
         /\ Result(fn.start, Details) /\ Details.ok
         /\ Details.direct_calls = fn.direct_calls
         /\ \A a, d : a = fn.start /\ d = Details => Reported(a, d)
         /\ outer' = queue_insert(outer, {c \in fn.direct_calls : ~InData(c)})
         /\ outer' \in Queues
<1>1. fn \in WalkType /\ WalkInv(fn)
  BY NoFnFacts DEF Finish, Walking
<1>2. outer' = queue_insert(outer, {c \in fn.direct_calls : ~InData(c)})
  BY DEF Finish
<1>3. {c \in fn.direct_calls : ~InData(c)} \subseteq Nat
  BY <1>1, WalkFacts
<1>4. outer' \in Queues
  BY <1>2, <1>3, Inserted DEF TypeInv
<1>5. fn.addr = NoAddr /\ fn.queue.queued = {}
  BY DEF Finish
<1>6. \A a, d : a = fn.start /\ d = Details => Reported(a, d)
  BY <1>1, <1>5, WalkReported
<1>7. Details.ok /\ Details.direct_calls = fn.direct_calls
  BY DEF Details
<1> QED
  BY <1>1, <1>2, <1>4, <1>6, <1>7 DEF Finish

LEMMA StepInv ==
  ASSUME IInv, [Next]_vars
  PROVE  IInv'
<1>1. TypeInv /\ ResultsInv /\ (fn # NoFn => fn \in WalkType /\ WalkInv(fn))
  BY NoFnFacts DEF IInv
<1>2. outer.queued # {} => queue_pop(outer) \in Queues
  BY <1>1, Taken DEF TypeInv
<1>3. CASE NoSegment
  BY <1>2, <1>3, Refused DEF NoSegment, Popped
<1>4. CASE BelowSegment
  BY <1>2, <1>4, Unmoved DEF BelowSegment, Popped
<1>5. CASE Refuse
  BY <1>2, <1>5, Refused DEF Refuse, Popped
<1>6. CASE Begin
  <2>1. /\ TypeInv' /\ WalkInv(fn)' /\ UNCHANGED <<funcs, text, prog, functions>>
    BY <1>1, <1>6, BeginWalk
  <2>2. ResultsInv'
    BY <1>1, <2>1, ResultsKept DEF Remembered
  <2> QED
    BY <2>1, <2>2 DEF IInv
<1>7. CASE PopBlock
  <2>1. fn \in WalkType /\ WalkInv(fn)
    BY <1>1, <1>7 DEF PopBlock, Walking
  <2>2. TypeInv' /\ WalkInv(fn)' /\ UNCHANGED <<funcs, text, prog, functions>>
    BY <1>1, <1>7, <2>1, PopWalk DEF PopBlock
  <2>3. ResultsInv'
    BY <1>1, <2>2, ResultsKept DEF Remembered
  <2> QED
    BY <2>2, <2>3 DEF IInv
<1>8. CASE DecodePanics \/ ScanDone
  BY <1>1, <1>8, Unmoved DEF DecodePanics, ScanDone, TypeInv
<1>9. CASE StepFails
  <2>1. Remembered /\ TypeInv' /\ Result(fn.start, Failed) /\ fn' = NoFn
    BY <1>1, <1>9, FailFacts
  <2>2. ResultsInv'
    BY <1>1, <2>1, ResultAdded
  <2> QED
    BY <2>1, <2>2 DEF IInv
<1>10. CASE StepFallthrough \/ StepReturn \/ StepJump \/ StepTransfer
  <2>1. fn \in WalkType /\ WalkInv(fn)
    BY <1>1, <1>10 DEF StepFallthrough, StepReturn, StepJump, StepTransfer, AtInstr, Walking
  <2>2. Setup(fn) /\ (fn.addr # NoAddr => fn.addr >= SegStart)
    BY <2>1 DEF WalkInv, PendingInv, Pending
  <2>3. PICK i \in Decodable : Advance(i) /\ Returned(i)
    BY <1>1, <1>10, <2>1, <2>2, StepsAdvance
  <2>4. TypeInv' /\ WalkInv(fn)' /\ Remembered /\ UNCHANGED functions
    BY <1>1, <2>1, <2>3, AdvanceWalk DEF Advance, Decoded
  <2>5. ResultsInv'
    BY <1>1, <2>4, ResultsKept
  <2> QED
    BY <2>4, <2>5 DEF IInv
<1>11. CASE Finish
  <2>1. /\ fn' = NoFn /\ UNCHANGED <<funcs, text, prog>> /\ outer' \in Queues
        /\ Result(fn.start, Details) /\ Details.ok
        /\ \A a, d : a = fn.start /\ d = Details => Reported(a, d)
    BY <1>1, <1>11, FinishFacts
  <2>2. Remembered
    BY <2>1 DEF Remembered
  <2>3. ResultsInv'
    BY <1>1, <2>1, <2>2, ResultAdded
  <2> QED
    BY <1>1, <2>1, <2>3 DEF IInv, TypeInv
<1>12. CASE Over \/ UNCHANGED vars
  BY <1>1, <1>12, Unmoved DEF Over, vars, TypeInv
<1> QED
  BY <1>3, <1>4, <1>5, <1>6, <1>7, <1>8, <1>9, <1>10, <1>11, <1>12 DEF Next, Scan

LEMMA InvAlways == Spec => []IInv
<1> QED
  BY InitInv, StepInv, PTL DEF Spec

LEMMA WalkedReported ==
  ASSUME ResultsInv, NEW a \in Walked
  PROVE  Reported(a, functions[a])
BY DEF ResultsInv, Walked, Failed

\* Every byte read as code is code, and a finished walk has read exactly what
\* control reaches from the function's start, for every configuration, every
\* program and every order of the two work queues
\* (build_with_regions_and_data).
THEOREM WalkExactAlways == Spec => []WalkExact
<1>1. IInv => WalkExact
  <2>1. SUFFICES ASSUME IInv PROVE WalkExact
    OBVIOUS
  <2>2. DecodesOnlyCode
    BY <2>1 DEF IInv, WalkInv, SeenInv, DecodesOnlyCode
  <2>3. ASSUME NEW a \in Walked
        PROVE  Least(functions[a].seen, {a}, LAMBDA p : Edges(a, p))
    <3>1. Reaches(functions[a].seen, a)
      BY <2>1, <2>3, WalkedReported DEF IInv, Reported
    <3> QED
      BY <3>1 DEF Reaches, Least
  <2>4. WalkIsReachability
    BY <2>3 DEF WalkIsReachability
  <2> QED
    BY <2>2, <2>4 DEF WalkExact
<1> QED
  BY <1>1, InvAlways, PTL

---------------------------------------------------------------------------
(* The call graph. *)

Roots == {funcs[i].start : i \in DOMAIN funcs}
CodeCalls(a) == {c \in Callees(a) : ~InData(c)}

\* The functions that have been taken from the queue.
TakenOut == DOMAIN functions \cup (IF fn = NoFn THEN {} ELSE {fn.start})

\* Each function is queued, being walked, or done; each set with the
\* configured functions and what they call has all that was discovered.
GraphInv ==
  /\ outer.queued \subseteq outer.discovered /\ Roots \subseteq outer.discovered
  /\ fn # NoFn => fn.start \notin DOMAIN functions
  /\ TakenOut = outer.discovered \ outer.queued
  /\ \A a \in DOMAIN functions : CodeCalls(a) \subseteq outer.discovered
  /\ \A T \in SUBSET outer.discovered :
       Roots \subseteq T /\ (\A a \in T \cap DOMAIN functions : CodeCalls(a) \subseteq T)
       => outer.discovered \subseteq T
  /\ \A x : x \in inData <=>
       \E a \in DOMAIN functions : \E c \in Callees(a) : InData(c) /\ x = <<a, c>>

LEMMA GraphInit ==
  ASSUME Init
  PROVE  GraphInv
<1>1. outer.queued = Roots /\ outer.discovered = Roots
  BY DEF Init, queue_insert, EmptyQueue, Roots
<1>2. DOMAIN functions = {} /\ inData = {} /\ fn = NoFn
  BY DEF Init
<1> QED
  BY <1>1, <1>2 DEF GraphInv, TakenOut

LEMMA DataKept ==
  ASSUME UNCHANGED <<funcs, text>>
  PROVE  Roots' = Roots /\ \A c : InData(c)' = InData(c)
BY DEF Roots, InData

\* Nothing happens to the call graph.
LEMMA GraphKept ==
  ASSUME GraphInv, UNCHANGED <<funcs, text, outer, functions, inData>>,
         TakenOut' = TakenOut, fn' # NoFn => fn # NoFn /\ fn'.start = fn.start
  PROVE  GraphInv'
<1>1. Roots' = Roots /\ \A c : InData(c)' = InData(c)
  BY DataKept
<1>2. \A a : Callees(a)' = Callees(a) /\ CodeCalls(a)' = CodeCalls(a)
  BY <1>1 DEF Callees, CodeCalls
<1> QED
  BY <1>1, <1>2 DEF GraphInv

\* A function that was taken, or is the first of the queue, gets its result.
LEMMA GraphGrows ==
  ASSUME GraphInv, UNCHANGED <<funcs, text>>, fn' = NoFn,
         NEW s \in outer.discovered, s \notin DOMAIN functions,
         TakenOut \cup {s} = DOMAIN functions \cup {s},
         NEW r, Result(s, r), NEW C, C = IF r.ok THEN r.direct_calls ELSE {},
         outer'.queued = (outer.queued \ {s}) \cup ({c \in C : ~InData(c)} \ outer.discovered),
         outer'.discovered = outer.discovered \cup {c \in C : ~InData(c)},
         inData' = inData \cup {<<s, c>> : c \in {c \in C : InData(c)}}
  PROVE  GraphInv'
<1> DEFINE N == {c \in C : ~InData(c)}
           D == outer.discovered
<1>1. Roots' = Roots /\ \A c : InData(c)' = InData(c)
  BY DataKept
<1>2. /\ DOMAIN functions' = DOMAIN functions \cup {s} /\ functions'[s] = r
      /\ \A a \in DOMAIN functions : functions'[a] = functions[a]
  BY DEF Result, Extended
<1>3. \A a \in DOMAIN functions : Callees(a)' = Callees(a) /\ CodeCalls(a)' = CodeCalls(a)
  BY <1>1, <1>2 DEF Callees, CodeCalls
<1>4. Callees(s)' = C /\ CodeCalls(s)' = N
  BY <1>1, <1>2 DEF Callees, CodeCalls
<1>5. outer'.queued = (outer.queued \ {s}) \cup (N \ D) /\ outer'.discovered = D \cup N
  OBVIOUS
<1>6. /\ outer.queued \subseteq D /\ Roots \subseteq D /\ TakenOut = D \ outer.queued
      /\ \A a \in DOMAIN functions : CodeCalls(a) \subseteq D
  BY DEF GraphInv
<1> HIDE DEF N
<1>7. TakenOut' = outer'.discovered \ outer'.queued
  <2>1. TakenOut' = DOMAIN functions \cup {s}
    BY <1>2 DEF TakenOut
  <2> QED
    BY <1>5, <1>6, <2>1
<1>8. \A a \in DOMAIN functions' : CodeCalls(a)' \subseteq outer'.discovered
  BY <1>2, <1>3, <1>4, <1>5, <1>6
<1>9. ASSUME NEW T \in SUBSET (D \cup N), Roots \subseteq T,
             \A a \in T \cap DOMAIN functions' : CodeCalls(a)' \subseteq T
      PROVE  D \cup N \subseteq T
  <2>1. D \subseteq T \cap D
    <3>1. T \cap D \in SUBSET D /\ Roots \subseteq T \cap D
      BY <1>6, <1>9
    <3>2. \A a \in (T \cap D) \cap DOMAIN functions : CodeCalls(a) \subseteq T \cap D
      BY <1>2, <1>3, <1>6, <1>9
    <3> QED
      BY <3>1, <3>2 DEF GraphInv
  <2>2. s \in T
    BY <2>1
  <2>3. N \subseteq T
    BY <1>2, <1>4, <1>9, <2>2
  <2> QED
    BY <2>1, <2>3
<1>10. ASSUME NEW x
       PROVE  x \in inData' <=>
                \E a \in DOMAIN functions' : \E c \in Callees(a)' : InData(c)' /\ x = <<a, c>>
  <2>1. x \in inData' <=> x \in inData \/ \E c \in C : InData(c) /\ x = <<s, c>>
    OBVIOUS
  <2>2. x \in inData <=> \E a \in DOMAIN functions : \E c \in Callees(a) : InData(c) /\ x = <<a, c>>
    BY DEF GraphInv
  <2> QED
    BY <1>1, <1>2, <1>3, <1>4, <2>1, <2>2
<1> QED
  BY <1>1, <1>5, <1>6, <1>7, <1>8, <1>9, <1>10 DEF GraphInv

LEMMA GraphStep ==
  ASSUME IInv, status # "panicked" => GraphInv, [Next]_vars, status' # "panicked"
  PROVE  GraphInv'
<1>1. TypeInv /\ (fn # NoFn => fn \in WalkType /\ WalkInv(fn))
  BY NoFnFacts DEF IInv
<1>2. GraphInv
  BY DEF Next, Scan, NoSegment, BelowSegment, Refuse, Begin, PopBlock, DecodePanics, StepFails,
         StepFallthrough, StepReturn, StepJump, StepTransfer, Finish, ScanDone, Over, vars,
         Popped, Walking, AtInstr
<1>3. outer.queued # {} =>
        /\ First(outer) \in outer.queued
        /\ queue_pop(outer).queued = outer.queued \ {First(outer)}
        /\ queue_pop(outer).discovered = outer.discovered
  BY <1>1, Taken DEF TypeInv
<1>4. ~Failed.ok
  BY DEF Failed
<1>5. CASE NoSegment \/ Refuse
  <2>1. PICK s : s = First(outer)
    OBVIOUS
  <2>2. /\ fn = NoFn /\ fn' = NoFn /\ Result(s, Failed) /\ UNCHANGED <<funcs, text, inData>>
        /\ outer' = queue_pop(outer) /\ outer.queued # {}
    BY <1>5, <2>1 DEF NoSegment, Refuse, Popped
  <2>3. /\ s \in outer.discovered /\ s \notin DOMAIN functions
        /\ TakenOut \cup {s} = DOMAIN functions \cup {s}
    BY <1>2, <1>3, <2>1, <2>2 DEF GraphInv, TakenOut
  <2>4. PICK C : C = IF Failed.ok THEN Failed.direct_calls ELSE {}
    OBVIOUS
  <2>5. C = {}
    BY <1>4, <2>4
  <2>6. outer'.queued = (outer.queued \ {s}) \cup ({c \in C : ~InData(c)} \ outer.discovered)
    BY <1>3, <2>1, <2>2, <2>5
  <2>7. outer'.discovered = outer.discovered \cup {c \in C : ~InData(c)}
    BY <1>3, <2>1, <2>2, <2>5
  <2>8. inData' = inData \cup {<<s, c>> : c \in {c \in C : InData(c)}}
    BY <2>2, <2>5
  <2> QED
    BY <1>2, <2>2, <2>3, <2>4, <2>6, <2>7, <2>8, GraphGrows
<1>6. CASE StepFails
  <2>1. PICK s : s = fn.start
    OBVIOUS
  <2>2. /\ fn # NoFn /\ fn' = NoFn /\ Result(s, Failed) /\ UNCHANGED <<funcs, text, outer, inData>>
    BY <1>1, <1>6, <2>1, FailFacts DEF StepFails, AtInstr, Walking
  <2>3. /\ s \in outer.discovered /\ s \notin outer.queued /\ s \notin DOMAIN functions
        /\ TakenOut \cup {s} = DOMAIN functions \cup {s}
    BY <1>2, <2>1, <2>2 DEF GraphInv, TakenOut
  <2>4. PICK C : C = IF Failed.ok THEN Failed.direct_calls ELSE {}
    OBVIOUS
  <2>5. C = {}
    BY <1>4, <2>4
  <2>6. outer'.queued = (outer.queued \ {s}) \cup ({c \in C : ~InData(c)} \ outer.discovered)
    BY <2>2, <2>3, <2>5
  <2>7. outer'.discovered = outer.discovered \cup {c \in C : ~InData(c)}
    BY <2>2, <2>5
  <2>8. inData' = inData \cup {<<s, c>> : c \in {c \in C : InData(c)}}
    BY <2>2, <2>5
  <2> QED
    BY <1>2, <2>2, <2>3, <2>4, <2>6, <2>7, <2>8, GraphGrows
<1>7. CASE Finish
  <2>1. PICK s, r, C : s = fn.start /\ r = Details /\ C = IF r.ok THEN r.direct_calls ELSE {}
    OBVIOUS
  <2>2. /\ fn \in WalkType /\ fn # NoFn /\ fn' = NoFn /\ Result(s, r) /\ UNCHANGED <<funcs, text>>
        /\ outer' = queue_insert(outer, {c \in fn.direct_calls : ~InData(c)})
        /\ C = fn.direct_calls
    BY <1>1, <1>7, <2>1, FinishFacts DEF Finish, Walking
  <2>3. /\ s \in outer.discovered /\ s \notin outer.queued /\ s \notin DOMAIN functions
        /\ TakenOut \cup {s} = DOMAIN functions \cup {s}
    BY <1>2, <2>1, <2>2 DEF GraphInv, TakenOut
  <2>4. {c \in C : ~InData(c)} \subseteq Nat
    BY <2>2, WalkFacts
  <2>5. /\ outer'.queued = outer.queued \cup ({c \in C : ~InData(c)} \ outer.discovered)
        /\ outer'.discovered = outer.discovered \cup {c \in C : ~InData(c)}
    BY <1>1, <2>2, <2>4, Inserted DEF TypeInv
  <2>6. outer'.queued = (outer.queued \ {s}) \cup ({c \in C : ~InData(c)} \ outer.discovered)
    BY <2>3, <2>5
  <2>7. inData' = inData \cup {<<s, c>> : c \in {c \in C : InData(c)}}
    BY <1>7, <2>1, <2>2 DEF Finish
  <2> QED
    BY <1>2, <2>1, <2>2, <2>3, <2>5, <2>6, <2>7, GraphGrows
<1>8. CASE Begin
  <2>1. /\ fn = NoFn /\ outer' = queue_pop(outer) /\ outer.queued # {}
        /\ UNCHANGED <<funcs, text, functions, inData>> /\ fn' # NoFn /\ fn'.start = First(outer)
    <3>1. fn' \in WalkType /\ fn'.start = First(outer)
      BY <1>1, <1>8, BeginWalk
    <3>2. fn' # NoFn
      BY <3>1, NoFnFacts, <1>1
    <3> QED
      BY <1>8, <3>1, <3>2 DEF Begin, Popped
  <2>2. TakenOut = DOMAIN functions /\ TakenOut' = DOMAIN functions \cup {First(outer)}
    BY <2>1 DEF TakenOut
  <2>3. Roots' = Roots /\ \A c : InData(c)' = InData(c)
    BY <2>1, DataKept
  <2>4. \A a : Callees(a)' = Callees(a) /\ CodeCalls(a)' = CodeCalls(a)
    BY <2>1, <2>3 DEF Callees, CodeCalls
  <2>5. /\ outer'.queued = outer.queued \ {First(outer)} /\ outer'.discovered = outer.discovered
        /\ First(outer) \in outer.queued
    BY <1>3, <2>1
  <2>6. First(outer) \notin DOMAIN functions
    BY <1>2, <2>2, <2>5 DEF GraphInv
  <2>7. TakenOut' = outer'.discovered \ outer'.queued
    BY <1>2, <2>2, <2>5 DEF GraphInv
  <2> QED
    BY <1>2, <2>1, <2>3, <2>4, <2>5, <2>6, <2>7 DEF GraphInv
<1>9. CASE PopBlock
  <2>1. fn # NoFn /\ fn \in WalkType
    BY <1>1, <1>9 DEF PopBlock, Walking
  <2>2. /\ fn' \in WalkType /\ fn'.start = fn.start
        /\ UNCHANGED <<funcs, text, outer, functions, inData>>
    BY <1>1, <1>9, <2>1, PopFacts
  <2>3. fn' # NoFn
    BY <1>1, <2>2, NoFnFacts
  <2>4. TakenOut' = TakenOut
    BY <2>1, <2>2, <2>3 DEF TakenOut
  <2> QED
    BY <1>2, <2>1, <2>2, <2>4, GraphKept
<1>10. CASE StepFallthrough \/ StepReturn \/ StepJump \/ StepTransfer
  <2>1. fn # NoFn /\ fn \in WalkType /\ WalkInv(fn)
    BY <1>1, <1>10 DEF StepFallthrough, StepReturn, StepJump, StepTransfer, AtInstr, Walking
  <2>2. Setup(fn) /\ (fn.addr # NoAddr => fn.addr >= SegStart)
    BY <2>1 DEF WalkInv, PendingInv, Pending
  <2>3. PICK i \in Decodable : Advance(i) /\ Returned(i)
    BY <1>1, <1>10, <2>1, <2>2, StepsAdvance
  <2>4. /\ fn' \in WalkType /\ fn'.start = fn.start
        /\ UNCHANGED <<funcs, text, outer, functions, inData>>
    BY <2>3 DEF Advance, Decoded
  <2>5. fn' # NoFn
    BY <1>1, <2>4, NoFnFacts
  <2>6. TakenOut' = TakenOut
    BY <2>1, <2>4, <2>5 DEF TakenOut
  <2> QED
    BY <1>2, <2>1, <2>4, <2>6, GraphKept
<1>11. CASE ScanDone \/ Over \/ UNCHANGED vars
  <2>1. UNCHANGED <<funcs, text, outer, functions, inData, fn>>
    BY <1>11 DEF ScanDone, Over, vars
  <2>2. TakenOut' = TakenOut
    BY <2>1 DEF TakenOut
  <2> QED
    BY <1>2, <2>1, <2>2, GraphKept
<1>12. ~BelowSegment /\ ~DecodePanics
  BY DEF BelowSegment, DecodePanics
<1> QED
  BY <1>5, <1>6, <1>7, <1>8, <1>9, <1>10, <1>11, <1>12 DEF Next, Scan

\* A finished scan reports of each function what its instructions say (its
\* end, its callees, near or far, its returns), reports the functions that are
\* configured or called and no others, and keeps calls into data apart
\* (func_details, scan_for_all_functions).
THEOREM ReportExactAlways == Spec => []ReportExact
<1> DEFINE G == status # "panicked" => GraphInv
           Idle == status = "done" => fn = NoFn /\ outer.queued = {}
<1>1. Init => G /\ Idle
  BY GraphInit DEF Init
<1>2. IInv /\ G /\ [Next]_vars => G'
  BY GraphStep
<1>3. Idle /\ [Next]_vars => Idle'
  BY DEF Next, Scan, NoSegment, BelowSegment, Refuse, Begin, PopBlock, DecodePanics, StepFails,
         StepFallthrough, StepReturn, StepJump, StepTransfer, Finish, ScanDone, Over, vars,
         Popped, Walking, AtInstr, Decoded
<1>4. IInv /\ G /\ Idle => ReportExact
  <2>1. SUFFICES ASSUME IInv, G, Idle PROVE ReportExact
    OBVIOUS
  <2>2. DetailsExact
    BY <2>1, WalkedReported DEF IInv, Reported, DetailsExact
  <2>3. ASSUME status = "done" PROVE CallsAccounted
    <3>1. GraphInv
      BY <2>1, <2>3
    <3>2. TakenOut = DOMAIN functions /\ outer.queued = {}
      BY <2>1, <2>3 DEF TakenOut
    <3>3. DOMAIN functions = outer.discovered
      BY <3>1, <3>2 DEF GraphInv
    <3>4. Least(DOMAIN functions, Roots, LAMBDA a : {c \in Callees(a) : ~InData(c)})
      <4>1. Roots \subseteq DOMAIN functions
        BY <3>1, <3>3 DEF GraphInv
      <4>2. \A a \in DOMAIN functions : CodeCalls(a) \subseteq DOMAIN functions
        BY <3>1, <3>3 DEF GraphInv
      <4>3. ASSUME NEW T \in SUBSET DOMAIN functions, Roots \subseteq T,
                   \A a \in T : CodeCalls(a) \subseteq T
            PROVE  T = DOMAIN functions
        BY <3>1, <3>3, <4>3 DEF GraphInv
      <4> QED
        BY <4>1, <4>2, <4>3 DEF Least, CodeCalls
    <3>5. inData = UNION {{a} \X {c \in Callees(a) : InData(c)} : a \in DOMAIN functions}
      <4> DEFINE U == UNION {{a} \X {c \in Callees(a) : InData(c)} : a \in DOMAIN functions}
      <4>1. \A x : x \in inData <=>
              \E a \in DOMAIN functions : \E c \in Callees(a) : InData(c) /\ x = <<a, c>>
        BY <3>1 DEF GraphInv
      <4>2. \A x : x \in U <=>
              \E a \in DOMAIN functions : \E c \in Callees(a) : InData(c) /\ x = <<a, c>>
        OBVIOUS
      <4> HIDE DEF U
      <4>3. inData = U
        BY <4>1, <4>2
      <4> QED
        BY <4>3 DEF U
    <3> QED
      BY <3>4, <3>5 DEF CallsAccounted, Roots
  <2>4. CallsAccounted
    BY <2>3 DEF CallsAccounted
  <2> QED
    BY <2>2, <2>4 DEF ReportExact
<1> QED
  BY <1>1, <1>2, <1>3, <1>4, InvAlways, PTL DEF Spec
=============================================================================
