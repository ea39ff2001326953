----------------------------- MODULE RegionConfig -----------------------------
(***************************************************************************)
(* The region arithmetic of dis86/src/config.rs: what a function's body is *)
(* and which part of it is code.  Shared by the coverage report and the    *)
(* function scan.                                                          *)
(***************************************************************************)
EXTENDS RangeSet

\* A region of the configuration: segment and offset of both ends.  Validation
\* rejects inverted and cross-segment ones, the code below meets them all the
\* same.
Region(seg, start, endseg, end) ==
  [seg |-> seg, start |-> start, endseg |-> endseg, end |-> end]
Regions == [seg : Nat, start : Nat, endseg : Nat, end : Nat]
NoEnd == -1

\* FuncRegion's derived order.
Before(a, b) ==
  \/ a.seg < b.seg
  \/ a.seg = b.seg /\ \/ a.start < b.start
                      \/ a.start = b.start /\
                           \/ a.endseg < b.endseg
                           \/ a.endseg = b.endseg /\ a.end < b.end

\* slice::sort (external): each element goes behind those not after it.
Placed(sorted, r) ==
  LET k == partition_point(Len(sorted), {i \in DOMAIN sorted : ~Before(r, sorted[i])})
  IN Spliced(sorted, k, k, r)
Sort(regions) == FoldLeft(Placed, <<>>, regions)

\* Mutant: the end of the later region always wins.
MergeLaterEnd(merged, r) ==
  IF merged # <<>> /\ Last(merged).seg = r.seg /\ r.start <= Last(merged).end
  THEN Append(Front(merged), Region(r.seg, Last(merged).start, r.endseg, r.end))
  ELSE Append(merged, r)

\* One turn of effective_regions' loop over the sorted regions.
Merge(merged, r) ==
  IF merged # <<>> /\ Last(merged).seg = r.seg /\ r.start <= Last(merged).end
  THEN IF r.end > Last(merged).end
       THEN Append(Front(merged), Region(r.seg, Last(merged).start, r.endseg, r.end))
       ELSE merged
  ELSE Append(merged, r)

effective_regions(f) ==
  IF f.regions # <<>> THEN FoldLeft(Merge, <<>>, Sort(f.regions))
  ELSE IF f.end # NoEnd THEN <<Region(f.seg, f.start, f.seg, f.end)>>
  ELSE <<>>

\* The declared data inside region r.
Holes(text, r) ==
  FoldLeft(LAMBDA holes, t :
             IF t.seg # r.seg \/ t.endseg # r.seg THEN holes
             ELSE insert(holes, MaxOf(t.start, r.start), MinOf(t.end, r.end)),
           <<>>, text)

\* What the holes leave of region r.
Runs(text, r) ==
  LET gaps == gaps_within(Holes(text, r), r.start, r.end)
  IN [i \in DOMAIN gaps |-> Region(r.seg, gaps[i].start, r.seg, gaps[i].end)]

code_regions(text, regions) ==
  Sort(FoldLeft(LAMBDA code, r : code \o Runs(text, r), <<>>, regions))
=============================================================================
