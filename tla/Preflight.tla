------------------------------ MODULE Preflight ------------------------------
(***************************************************************************)
(* What dis86 checks before a batch run and what the run then relies on:   *)
(* validate_config (dis86/src/validate.rs) against Spec::from_func and     *)
(* decode_regions (dis86/src/spec.rs).  A configuration is                 *)
(*   [segs, funcs, text, indirects]                                        *)
(* with functions [name, seg, start, end, entry, mode, regions], text      *)
(* regions [name, seg, start, endseg, end, typed, access] and indirect     *)
(* call locations, all in the shape RegionConfig works on.  An image is a  *)
(* plain one: the bytes 0 .. ImageLen-1 of segment Code, each the start of *)
(* the instruction the decoder (external) would find there.  Every other   *)
(* segment lies past the image.                                            *)
(***************************************************************************)
EXTENDS RegionConfig, FiniteSets, FiniteSetsExt

CONSTANTS Code, ImageLen

ASSUME ImageAssumption == Code \in Nat /\ ImageLen \in Nat \ {0}

None == -1
Modes == {"near", "far"}
Funcs == [name : STRING, seg : Nat, start : Nat, end : Nat \cup {NoEnd}, entry : Nat \cup {None},
          mode : Modes, regions : Seq(Regions)]
TextRegions == [name : STRING, seg : Nat, start : Nat, endseg : Nat, end : Nat, typed : BOOLEAN,
                access : Nat \cup {None}]
Configs == [segs : Seq([name : STRING, seg : Nat]), funcs : Seq(Funcs), text : Seq(TextRegions),
            indirects : Seq([seg : Nat, addr : Nat])]
Images == [0 .. ImageLen - 1 -> [kind : STRING, len : Nat \ {0}, to : Int]]

Err(what, at) == [severity |-> "error", what |-> what, at |-> at]
Warn(what, at) == [severity |-> "warning", what |-> what, at |-> at]
If(cond, diagnostic) == IF cond THEN {diagnostic} ELSE {}

---------------------------------------------------------------------------
(* config.rs, binary.rs: lookups *)

\* The first of sequence s that satisfies P, or NotFound.
NotFound == [found |-> FALSE]
Lookup(s, P(_)) == LET i == SelectInSeq(s, P) IN IF i = 0 THEN NotFound ELSE s[i]

code_seg_lookup(c, seg) == \E i \in DOMAIN c.segs : c.segs[i].seg = seg
code_seg_lookup_by_name(c, name) == Lookup(c.segs, LAMBDA s : s.name = name)
func_lookup_by_name(c, name) == Lookup(c.funcs, LAMBDA f : f.name = name)
func_lookup_by_seg(c, seg) ==
  FoldLeft(LAMBDA kept, f : IF f.seg = seg THEN Append(kept, f) ELSE kept, <<>>, c.funcs)
func_lookup(c, a) ==
  Lookup(c.funcs, LAMBDA f : f.seg = Code /\ a = IF f.entry # None THEN f.entry ELSE f.start)

RegionContains(r, seg, a) == seg = r.seg /\ r.start <= a /\ a < r.end
data_region_containing(c, a) == \E i \in DOMAIN c.text : RegionContains(c.text[i], Code, a)
has_data_in_regions(c, regions) ==
  \E i \in DOMAIN regions, j \in DOMAIN c.text :
    LET r == regions[i] t == c.text[j]
    IN t.seg = r.seg /\ t.start < r.end /\ r.start < t.end

contains_addr(seg, a) == seg = Code /\ a < ImageLen
contains_region(r) == r.seg = Code /\ r.endseg = Code /\ r.start <= r.end /\ r.end <= ImageLen

\* SegOff's order.
Later(a, b) == IF a.seg > b.seg \/ (a.seg = b.seg /\ a.off > b.off) THEN a ELSE b
EndOf(r) == [seg |-> r.endseg, off |-> r.end]
MaxEnd(regions, from) == FoldLeft(LAMBDA m, r : Later(EndOf(r), m), from, regions)

\* func.end, or the highest end of a region: NoEnd where there is neither.
Outer(f) ==
  IF f.end # NoEnd THEN [seg |-> f.seg, off |-> f.end]
  ELSE IF f.regions # <<>> THEN MaxEnd(Tail(f.regions), EndOf(f.regions[1]))
  ELSE [seg |-> f.seg, off |-> NoEnd]

---------------------------------------------------------------------------
(* asm/decode.rs as its callers see it, asm/instr.rs, asm/branch.rs *)

\* The linear decode of [start, end): the addresses of the instructions, and
\* the address that failed or None.  An instruction must end inside the range.
Decode(p, end, x, a) ==
  IF x.failed # None \/ a # x.next THEN x
  ELSE IF p[a].kind = "bad" \/ a + p[a].len > end THEN [x EXCEPT !.failed = a]
  ELSE [x EXCEPT !.at = Append(@, a), !.next = a + p[a].len]
Linear(p, start, end) ==
  FoldLeft(LAMBDA x, a : Decode(p, end, x, a), [at |-> <<>>, next |-> start, failed |-> None],
           [i \in 1 .. end - start |-> start + i - 1])

Calls == {"call", "callf"}
Branches == {"jmp", "jcc", "jmpf"}
has_fallthrough(i) == i.kind \notin {"ret", "retf", "iret", "jmp", "jmpf", "jmp_indirect", "hlt"}

\* The static target of a call or a branch, or None.
branch_target(i) == IF i.kind \in Branches THEN i.to ELSE None
direct_target(i) == IF i.kind \in Calls THEN i.to ELSE branch_target(i)

first_undecodable_addr(p, r) ==
  IF r.seg # r.endseg \/ r.end <= r.start THEN None ELSE Linear(p, r.start, r.end).failed

---------------------------------------------------------------------------
(* analyze/func_details.rs: what validation asks of the block walk.  The    *)
(* walk itself, step by step, is module FuncScan; this is its result.      *)

\* w: queued and discovered block starts, addr of the next instruction (None
\* between blocks), whether the last one was a push cs, and what was noted.
Follow(w, regions, segEnd, targets) ==
  LET inside == {t \in targets : t < segEnd /\ (regions # <<>> =>
                                   \E i \in DOMAIN regions : RegionContains(regions[i], Code, t))}
  IN [w EXCEPT !.addr = None, !.queued = @ \cup (inside \ w.discovered),
               !.discovered = @ \cup inside]

Returning(w, kind) ==
  [w EXCEPT !.addr = None,
            !.return_kind = IF @ = "none" THEN kind ELSE @,
            !.ignored = IF w.return_kind \in {"none", kind} THEN @ ELSE @ \cup {kind}]

\* The instruction at w.addr; region is the one around it, or NotFound.
WalkInstr(p, w, regions, region, end, segEnd) ==
  LET i == p[w.addr]
      next == w.addr + i.len
      mode == IF i.kind = "callf" \/ w.push_cs THEN "far" ELSE "near"
      noted == [w EXCEPT !.push_cs = i.kind = "push_cs",
                         !.calls = @ \cup If(i.kind \in Calls, [at |-> w.addr, mode |-> mode]),
                         !.indirect = @ + IF i.kind = "call_indirect" THEN 1 ELSE 0]
      goesOn == IF region # NotFound THEN RegionContains(region, Code, next)
                ELSE next < end /\ next < segEnd
  IN CASE i.kind \in {"ret", "retf", "iret"} ->
            Returning(noted, CASE i.kind = "ret" -> "near" [] i.kind = "retf" -> "far"
                               [] OTHER -> "interrupt")
       [] i.kind = "jmp" -> Follow(noted, regions, segEnd, {i.to})
       [] i.kind = "jcc" -> Follow(noted, regions, segEnd, {i.to, next})
       [] i.kind \in {"jmpf", "jmp_indirect"} -> [noted EXCEPT !.addr = None]
       [] i.kind = "hlt" -> [noted EXCEPT !.err = TRUE]
       [] OTHER -> [noted EXCEPT !.addr = IF goesOn THEN next ELSE None]

Return_kinds == {"none", "near", "far", "interrupt"}
Walks ==
  [queued : SUBSET Int, discovered : SUBSET Int, addr : Int, push_cs : BOOLEAN,
   calls : SUBSET [at : Int, mode : Modes], indirect : Nat, return_kind : Return_kinds,
   ignored : SUBSET Return_kinds, err : BOOLEAN]

\* One turn: the next block, or the next instruction of this one.
WalkTurn(p, w, regions, end, segEnd) ==
  IF w.addr = None
  THEN [w EXCEPT !.addr = Min(w.queued), !.queued = @ \ {Min(w.queued)}, !.push_cs = FALSE]
  ELSE LET region == Lookup(regions, LAMBDA r : RegionContains(r, Code, w.addr))
           stop == IF region # NotFound THEN MinOf(region.end, segEnd) ELSE segEnd
           i == p[w.addr]
       IN IF (regions # <<>> /\ region = NotFound) \/ i.kind = "bad" \/ w.addr + i.len > stop
          THEN [w EXCEPT !.err = TRUE]
          ELSE WalkInstr(p, w, regions, region, end, segEnd)

build_with_regions(p, start, end, regions, segEnd) ==
  LET walk[w \in Walks] ==
        IF w.err \/ (w.addr = None /\ w.queued = {}) THEN w
        ELSE walk[WalkTurn(p, w, regions, end, segEnd)]
  IN walk[[queued |-> {start}, discovered |-> {start}, addr |-> None, push_cs |-> FALSE,
           calls |-> {}, indirect |-> 0, return_kind |-> "none", ignored |-> {},
           err |-> FALSE]]

---------------------------------------------------------------------------
(* validate.rs *)

validate_code_segments(c, only) ==
  LET S == {i \in DOMAIN c.segs : only = "" \/ c.segs[i].name = only}
      twice(field) == \E i, j \in S : i < j /\ c.segs[i][field] = c.segs[j][field]
  IN If(twice("name"), Err("duplicate segment name", None))
     \cup If(twice("seg"), Err("duplicate segment", None))

ranges_overlap(a, b) == a.seg = b.seg /\ a.start < b.end /\ b.start < a.end
is_data_hole(t) == ~t.typed

\* only: the segment looked at, or None for all of them.
validate_text_sections(c, only) ==
  LET T == {i \in DOMAIN c.text : only = None \/ c.text[i].seg = only}
      twice(P(_, _)) == \E i, j \in T : i < j /\ P(c.text[i], c.text[j])
      one(t) ==
        IF t.seg # t.endseg THEN {Err("text crosses segments", t.start)}
        ELSE IF t.end <= t.start THEN {Err("text range", t.start)}
        ELSE If(~contains_region(t), Err("text outside image", t.start))
             \cup If(~code_seg_lookup(c, t.seg), Warn("text inert", t.start))
             \cup If(~t.typed /\ t.access # None, Err("access without type", t.start))
             \cup If(t.access # None /\ ~contains_addr(t.seg, t.access),
                     Err("access outside image", t.access))
  IN (UNION {one(c.text[i]) : i \in T})
     \cup If(twice(LAMBDA a, b : a.name = b.name), Err("duplicate text name", None))
     \cup If(twice(LAMBDA a, b : (is_data_hole(a) \/ is_data_hole(b)) /\ ranges_overlap(a, b)),
             Err("text overlaps", None))

validate_indirects(c, only) ==
  LET I == {i \in DOMAIN c.indirects : only = None \/ c.indirects[i].seg = only}
      outside == {i \in I : ~contains_addr(c.indirects[i].seg, c.indirects[i].addr)}
  IN If(\E i, j \in I : i < j /\ c.indirects[i] = c.indirects[j], Err("duplicate indirect", None))
     \cup {Err("indirect outside image", c.indirects[i].addr) : i \in outside}

validate_return_mode(f, d) ==
  If(d.return_kind = "near" /\ f.mode = "far", Err("returns near", f.start))
  \cup If(d.return_kind = "far" /\ f.mode = "near", Err("returns far", f.start))
  \cup If(d.return_kind = "interrupt", Warn("interrupt return", f.start))
  \cup If(d.return_kind = "none", Warn("no return", f.start))
  \cup If(d.ignored # {}, Warn("mixed returns", f.start))

\* Per target, in whatever modes it is called.
validate_direct_calls(c, p, calls) ==
  LET called(mode) == {p[a].to : a \in {a \in 0 .. ImageLen - 1 : [at |-> a, mode |-> mode] \in calls}}
      both == called("near") \cap called("far")
      one(to, mode) == LET target == func_lookup(c, to)
                       IN IF target = NotFound THEN {Warn("unconfigured target", to)}
                          ELSE If(target.mode # mode, Err("call mode", to))
  IN {Err("near and far", to) : to \in both}
     \cup (UNION {one(to, "near") : to \in called("near") \ both})
     \cup (UNION {one(to, "far") : to \in called("far") \ both})

first_data_fallthrough(c, p, regions) ==
  \E i \in DOMAIN regions :
    LET decoded == Linear(p, regions[i].start, regions[i].end)
    IN /\ data_region_containing(c, regions[i].end)
       /\ decoded.failed = None /\ decoded.at # <<>>
       /\ has_fallthrough(p[Last(decoded.at)])

validate_branch_targets(c, p, regions) ==
  LET in_range(a) == \E i \in DOMAIN regions : RegionContains(regions[i], Code, a)
      one(a) ==
        IF direct_target(p[a]) = None THEN {}
        ELSE IF data_region_containing(c, direct_target(p[a])) THEN {Err("target in data", a)}
        ELSE If(branch_target(p[a]) # None /\ ~in_range(branch_target(p[a])),
                Warn("branch leaves", a))
  IN UNION {one(a) : a \in UNION {ToSet(Linear(p, regions[i].start, regions[i].end).at) :
                                    i \in DOMAIN regions}}

\* A plain image has no segment table: a segment of the function's own, as
\* long as the highest end.
code_segment_for_function(f) == [seg |-> f.seg, end |-> MaxEnd(f.regions, Outer(f)).off]

data_errors(c, f) ==
  LET regions == effective_regions(f)
  IN {Err("region is data", regions[i].start) :
        i \in {i \in DOMAIN regions : code_regions(c.text, <<regions[i]>>) = <<>>}}
     \cup If(f.seg = Code /\ data_region_containing(c, f.start), Err("start in data", f.start))

\* The checks of explicit regions.
region_errors(f, seg) ==
  LET sorted == Sort(f.regions)
      one(j) ==
        LET r == sorted[j]
        IN If(r.seg # f.seg \/ r.endseg # f.seg, Err("region leaves segment", r.start))
           \cup If(\/ r.endseg < r.seg \/ (r.endseg = r.seg /\ r.end <= r.start), Err("region range", r.start))
           \cup If(f.end # NoEnd /\ (r.endseg > f.seg \/ (r.endseg = f.seg /\ r.end > f.end)),
                   Err("region past end", r.start))
           \cup If(r.seg = r.endseg /\ ~contains_region(r), Err("region outside image", r.start))
           \cup If(~RegionContains([seg |-> seg.seg, start |-> 0, end |-> seg.end], r.seg, r.start)
                   \/ r.endseg > seg.seg \/ (r.endseg = seg.seg /\ r.end > seg.end),
                   Err("region outside segment", r.start))
           \cup If(j > 1 /\ r.seg = sorted[j - 1].seg
                   /\ (sorted[j - 1].endseg > r.seg
                       \/ (sorted[j - 1].endseg = r.seg /\ r.start < sorted[j - 1].end)),
                   Err("regions overlap", r.start))
  IN (UNION {one(j) : j \in DOMAIN sorted})
     \cup If(~\E j \in DOMAIN sorted : RegionContains(sorted[j], f.seg, f.start),
             Err("start outside regions", f.start))

\* The code itself, once its ranges are known to be sound.
validate_analysis(c, p, f, d) ==
  IF d.err THEN {Warn("not analysed", f.start)}
  ELSE validate_return_mode(f, d) \cup validate_direct_calls(c, p, d.calls)
       \cup If(d.indirect # 0, Warn("indirect calls", f.start))
validate_code(c, p, f, code) ==
  LET analysis == IF f.regions = <<>> /\ ~has_data_in_regions(c, effective_regions(f))
                  THEN <<>> ELSE code
  IN IF \E i \in DOMAIN code : first_undecodable_addr(p, code[i]) # None
     THEN {Err("undecodable", f.start)}
     ELSE IF first_data_fallthrough(c, p, code) THEN {Err("falls into data", f.start)}
     ELSE validate_branch_targets(c, p, code)
          \cup validate_analysis(c, p, f, build_with_regions(p, f.start, Outer(f).off, analysis,
                                                         code_segment_for_function(f).end))

\* ranges: what is wrong with the function's regions, code: what is left of
\* them without data; local: whether indirect call locations are checked here.
validate_ranged(c, p, f, local, ranges, code) ==
  LET declared == If(~code_seg_lookup(c, f.seg), Err("undeclared segment", f.start))
  IN IF Outer(f).off = NoEnd THEN {Err("no end", f.start)}
     ELSE IF Outer(f).seg # f.seg THEN {Err("crosses segments", f.start)}
     ELSE IF Outer(f).off <= f.start THEN {Err("range", f.start)}
     ELSE IF f.regions = <<>> /\ ~contains_region(Region(f.seg, f.start, f.seg, f.end))
     THEN declared \cup ranges \cup {Err("outside image", f.start)}
     ELSE IF f.start >= code_segment_for_function(f).end
     THEN declared \cup ranges \cup {Err("starts outside segment", f.start)}
     ELSE IF ranges # {} THEN declared \cup ranges
     ELSE declared
          \cup If(f.entry # None /\ ~\E i \in DOMAIN code : RegionContains(code[i], Code, f.entry),
                  Err("entry outside", f.start))
          \cup (IF local THEN {Err("indirect outside image", x.addr) :
                                 x \in {x \in ToSet(c.indirects) :
                                          /\ \E i \in DOMAIN effective_regions(f) :
                                               RegionContains(effective_regions(f)[i], x.seg, x.addr)
                                          /\ x.seg = f.seg /\ ~contains_addr(x.seg, x.addr)}}
                ELSE {})
          \cup validate_code(c, p, f, code)
validate_function(c, p, f, local) ==
  validate_ranged(c, p, f, local,
    data_errors(c, f)
      \cup IF f.regions = <<>> THEN {} ELSE region_errors(f, code_segment_for_function(f)),
    code_regions(c.text, effective_regions(f)))

\* scope: [kind |-> "all" | "function" | "segment", name].
Selected(c, scope) ==
  CASE scope.kind = "all" -> c.funcs
    [] scope.kind = "function" -> LET f == func_lookup_by_name(c, scope.name)
                                  IN IF f = NotFound THEN <<>> ELSE <<f>>
    [] OTHER -> LET s == code_seg_lookup_by_name(c, scope.name)
                IN IF s = NotFound THEN <<>> ELSE func_lookup_by_seg(c, s.seg)

validate_config(c, p, scope) ==
  LET S == Selected(c, scope)
      only == IF scope.kind = "all" THEN None ELSE code_seg_lookup_by_name(c, scope.name).seg
  IN IF scope.kind = "function" /\ S = <<>> THEN {Err("no such function", None)}
     ELSE IF scope.kind = "segment" /\ code_seg_lookup_by_name(c, scope.name) = NotFound
     THEN {Err("no such segment", None)}
     ELSE If(scope.kind = "segment" /\ S = <<>>, Warn("no functions", None))
          \cup (IF scope.kind = "function" THEN {}
                ELSE validate_code_segments(c, IF scope.kind = "all" THEN "" ELSE scope.name)
                     \cup validate_text_sections(c, only) \cup validate_indirects(c, only))
          \cup If(\E i, j \in DOMAIN S : i < j /\ S[i].name = S[j].name, Err("duplicate name", None))
          \cup If(\E i, j \in DOMAIN S : i < j /\ S[i].seg = S[j].seg /\ S[i].start = S[j].start,
                  Err("shared start", None))
          \cup UNION {validate_function(c, p, S[i], scope.kind = "function") : i \in DOMAIN S}

has_errors(report) == \E d \in report : d.severity = "error"

should_fail(report, strict) == has_errors(report) \/ (strict /\ report # {})

---------------------------------------------------------------------------
(* spec.rs *)

\* Spec::from_func; it panics on a function without an end.
from_func(f) ==
  LET regions == effective_regions(f)
  IN [name |-> f.name, seg |-> f.seg, start |-> f.start, regions |-> regions]
from_func_panics(f) == f.end = NoEnd /\ effective_regions(f) = <<>>

from_start_and_end(start, end) ==
  [name |-> "range", seg |-> Code, start |-> start, regions |-> <<Region(Code, start, Code, end)>>]

\* app.rs infer_spec: [ok, seg], with the segment a failure is booked under.
infer_spec(f) ==
  LET regions == effective_regions(f)
      bad == SelectInSeq(regions, LAMBDA r : ~contains_region(r))
  IN IF from_func_panics(f) THEN [ok |-> FALSE, seg |-> f.seg]
     ELSE IF bad # 0 THEN [ok |-> FALSE, seg |-> regions[bad].seg]
     ELSE [ok |-> TRUE, seg |-> f.seg]

\* Mutant: what lies before the entry in its region is left out.
Chunks_unsplit(s, code) ==
  LET e == SelectInSeq(code, LAMBDA r : RegionContains(r, s.seg, s.start))
  IN <<<<s.start, code[e].end>>>>
     \o [i \in 1 .. Len(code) - 1 |-> LET r == code[IF i < e THEN i ELSE i + 1] IN <<r.start, r.end>>]

\* The ranges decode_regions decodes, entry first.
Chunks(s, code) ==
  LET e == SelectInSeq(code, LAMBDA r : RegionContains(r, s.seg, s.start))
  IN <<<<s.start, code[e].end>>>>
     \o (IF code[e].start < s.start THEN <<<<code[e].start, s.start>>>> ELSE <<>>)
     \o [i \in 1 .. Len(code) - 1 |-> LET r == code[IF i < e THEN i ELSE i + 1] IN <<r.start, r.end>>]

\* [ok, at]: the addresses decoded, in order, or the cause of the failure.
Failure(cause) == [ok |-> FALSE, cause |-> cause]
\* chunks decode to decoded: the first failure, or all of it.
Joined(c, p, chunks, decoded) ==
  LET all == FoldLeft(LAMBDA x, d : x \o d.at, <<>>, decoded)
      bad(i) == decoded[i].failed # None
      intoData(i) == /\ decoded[i].at # <<>> /\ data_region_containing(c, chunks[i][2])
                     /\ has_fallthrough(p[Last(decoded[i].at)])
      first == SelectInSeq([i \in DOMAIN chunks |-> bad(i) \/ intoData(i)], LAMBDA x : x)
  IN IF first # 0
     THEN Failure(IF bad(first) THEN "DECODE_ERROR" ELSE "CALL_TARGET_IN_DATA")
     ELSE IF \E i \in DOMAIN all : direct_target(p[all[i]]) # None
                                   /\ data_region_containing(c, direct_target(p[all[i]]))
     THEN Failure("CALL_TARGET_IN_DATA")
     ELSE [ok |-> TRUE, at |-> all]
decode_code(c, p, s, code) ==
  LET chunks == Chunks(s, code)
  IN IF data_region_containing(c, s.start) THEN Failure("CALL_TARGET_IN_DATA")
     ELSE IF ~\E i \in DOMAIN code : RegionContains(code[i], s.seg, s.start)
     THEN Failure("DECODE_ERROR")
     ELSE Joined(c, p, chunks, [i \in DOMAIN chunks |-> Linear(p, chunks[i][1], chunks[i][2])])
decode_regions(c, p, s) == decode_code(c, p, s, code_regions(c.text, s.regions))

\* process_call_segoff panics on a known callee of the other mode; every
\* instruction decoded is lowered, reachable or not.
CallModePanics(c, p, at) ==
  \E i \in DOMAIN at :
    LET a == at[i]
        pushed == i > 1 /\ p[at[i - 1]].kind = "push_cs"
        target == func_lookup(c, p[a].to)
    IN /\ p[a].kind \in Calls /\ target # NotFound
       /\ target.mode # IF p[a].kind = "callf" \/ pushed THEN "far" ELSE "near"
=============================================================================
