------------------------------- MODULE FuncScan -------------------------------
(***************************************************************************)
(* Function discovery of dis86 --analyze: scan_for_all_functions           *)
(* (analyze/analyze.rs) takes function addresses from a work queue, and    *)
(* build_with_regions_and_data (analyze/func_details.rs) walks the blocks  *)
(* of one function with a work queue of its own.  Addresses are offsets in *)
(* the one segment analysed; Elsewhere is any address outside it.  The     *)
(* bytes of the program are chosen as they are first decoded.              *)
(***************************************************************************)
EXTENDS RegionConfig, FiniteSets, FiniteSetsExt

CONSTANTS
  FuncLists, TextLists,     \* configurations, as in Coverage
  Instrs,                   \* instructions a decoder may find: [kind, len, to]
  Seg, SegStart, SegEnd,    \* the code segment
  Elsewhere                 \* stands for every other segment; sorts last

NoAddr == -1

\* A segment is not empty, instructions have at least one byte, a call has a
\* target, and Elsewhere is no address of the segment.
ASSUME ScanAssumption ==
  /\ Seg \in Nat /\ SegStart \in Nat /\ SegEnd \in Nat /\ SegStart < SegEnd
  /\ Elsewhere \in Nat /\ Elsewhere > SegEnd
  /\ \A i \in Instrs : i.len \in Nat \ {0} /\ i.to \in Nat \cup {NoAddr}
  /\ \A i \in Instrs : i.kind \in {"call", "callf"} => i.to \in Nat

Straight == {"plain", "push_cs", "call", "callf", "call_indirect"}
Returns == {"near", "far", "interrupt"}

VARIABLES
  funcs, text,    \* the configuration
  prog,           \* the instructions decoded so far
  outer,          \* the scan's work queue
  functions,      \* results by function address
  inData,         \* call_targets_in_data
  fn,             \* the function being walked, or NoFn
  status          \* "scanning", "done" or "panicked"

vars == <<funcs, text, prog, outer, functions, inData, fn, status>>

\* f with value v at a.
Extended(f, a, v) == [x \in DOMAIN f \cup {a} |-> IF x = a THEN v ELSE f[x]]

NoFn == [start |-> NoAddr]
Failed == [ok |-> FALSE]

---------------------------------------------------------------------------
(* workqueue.rs *)

EmptyQueue == [queued |-> {}, discovered |-> {}]

\* Mutant: an address is queued again whenever it is met.
queue_insert_again(q, S) == [queued |-> q.queued \cup S, discovered |-> q.discovered \cup S]

\* insert of every address of S.
queue_insert(q, S) ==
  [queued |-> q.queued \cup (S \ q.discovered), discovered |-> q.discovered \cup S]

First(q) == Min(q.queued)
queue_pop(q) == [q EXCEPT !.queued = @ \ {First(q)}]

---------------------------------------------------------------------------
(* code_segment.rs, config.rs: lookups *)

seg_contains(a) == SegStart <= a /\ a < SegEnd

InRegion(r, a) == a # Elsewhere /\ r.seg = Seg /\ r.start <= a /\ a < r.end

InData(a) == \E i \in DOMAIN text : InRegion(text[i], a)

\* The index of the first region with a, or 0.
region_for(regions, a) == SelectInSeq(regions, LAMBDA r : InRegion(r, a))

Entry(f) == IF f.entry # NoAddr THEN f.entry ELSE f.start

\* The function an address of the queue stands for, by entry before start.
analysis_func_lookup(a) ==
  LET byEntry == SelectInSeq(funcs, LAMBDA f : Entry(f) = a)
  IN IF byEntry # 0 THEN byEntry ELSE SelectInSeq(funcs, LAMBDA f : f.start = a)

\* effective_regions of every configured function, as a table.
Configured == UNION {ToSet(fs) : fs \in FuncLists}
Effective == [f \in Configured |-> effective_regions(f)]

\* The regions and the end the walk from a is given.
RegionsAt(a) ==
  LET i == analysis_func_lookup(a)
  IN IF i = 0 \/ funcs[i].start # a \/ funcs[i].regions = <<>>
     THEN <<>> ELSE Effective[funcs[i]]

outer_end(f) ==
  LET regions == Effective[f]
  IN IF f.end # NoEnd THEN f.end
     ELSE IF regions # <<>> THEN Last(regions).end ELSE NoEnd

EndAt(a) ==
  LET i == analysis_func_lookup(a)
  IN IF i = 0 THEN NoEnd
     ELSE IF RegionsAt(a) = <<>> THEN funcs[i].end ELSE outer_end(funcs[i])

\* What is expected of a configuration.  Validation (validate.rs) refuses data
\* and regions that cross segments, and functions that share a start; a region
\* may cross here if another it is merged with ends in the segment.  Validation
\* lets the entry of one function be the start of another: analysis_func_lookup
\* would take the first for the second, and the second would lose its regions,
\* so no such configuration is among FuncLists.
ASSUME ConfigAssumption ==
  /\ \A ts \in TextLists :
       ts \in Seq(Regions) /\ \A i \in DOMAIN ts : ts[i].seg = Seg => ts[i].endseg >= Seg
  /\ \A fs \in FuncLists :
       /\ fs \in Seq([seg : Nat, start : Nat, end : Nat \cup {NoEnd},
                      entry : Nat \cup {NoAddr}, regions : Seq(Regions)])
       /\ \A i, j \in DOMAIN fs :
            fs[j].regions # <<>> /\ fs[j].start \in {fs[i].start, Entry(fs[i])} => i = j
       /\ \A i \in DOMAIN fs : fs[i].regions # <<>> =>
            LET merged == effective_regions(fs[i])
            IN \A k \in DOMAIN merged : merged[k].seg = Seg => merged[k].endseg = Seg

---------------------------------------------------------------------------
Init ==
  /\ funcs \in FuncLists /\ text \in TextLists
  /\ prog = <<>>
  /\ outer = queue_insert(EmptyQueue, {funcs[i].start : i \in DOMAIN funcs})
  /\ functions = <<>> /\ inData = {}
  /\ fn = NoFn /\ status = "scanning"

Result(a, r) == functions' = Extended(functions, a, r)

\* The scan takes the lowest address ...
Popped == status = "scanning" /\ fn = NoFn /\ outer.queued # {}

\* ... which may lie in no code segment,
NoSegment ==
  /\ Popped /\ First(outer) = Elsewhere
  /\ Result(Elsewhere, Failed)
  /\ outer' = queue_pop(outer)
  /\ UNCHANGED <<funcs, text, prog, inData, fn, status>>

\* below the segment's first byte: the assertion in analyze_function_by_start,
BelowSegment ==
  /\ Popped /\ First(outer) < SegStart
  /\ outer' = queue_pop(outer)
  /\ status' = "panicked"
  /\ UNCHANGED <<funcs, text, prog, functions, inData, fn>>

StartRefused(a) ==
  \/ RegionsAt(a) # <<>> /\ region_for(RegionsAt(a), a) = 0
  \/ InData(a)

\* outside the function's regions or inside data,
Refuse ==
  /\ Popped
  /\ LET a == First(outer)
     IN a # Elsewhere /\ a >= SegStart /\ StartRefused(a) /\ Result(a, Failed)
  /\ outer' = queue_pop(outer)
  /\ UNCHANGED <<funcs, text, prog, inData, fn, status>>

\* or start a walk.  seen is history: the addresses decoded.
Begin ==
  /\ Popped
  /\ LET a == First(outer)
     IN /\ a # Elsewhere /\ a >= SegStart /\ ~StartRefused(a)
        /\ fn' = [start |-> a, regions |-> RegionsAt(a), end |-> EndAt(a),
                  queue |-> queue_insert(EmptyQueue, {a}), addr |-> NoAddr,
                  push_cs |-> FALSE, largest |-> a, direct_calls |-> {}, call_kinds |-> {},
                  indirect_calls |-> 0, return_kind |-> "none", ignored |-> <<>>,
                  seen |-> {}]
  /\ outer' = queue_pop(outer)
  /\ UNCHANGED <<funcs, text, prog, functions, inData, status>>

Walking == status = "scanning" /\ fn # NoFn

PopBlock ==
  /\ Walking /\ fn.addr = NoAddr /\ fn.queue.queued # {}
  /\ LET a == First(fn.queue)
     IN fn' = [fn EXCEPT !.queue = queue_pop(@), !.addr = a, !.push_cs = FALSE]
  /\ UNCHANGED <<funcs, text, prog, outer, functions, inData, status>>

\* next_data_start: the data declared after a.
DataAfter(a) ==
  {t.start : t \in {t \in ToSet(text) :
                      t.seg = Seg /\ t.start > a /\ (t.endseg > Seg \/ (t.endseg = Seg /\ t.end > a))}}

\* Mutant: an instruction may run into data.
decode_end_blind(a) ==
  LET i == region_for(fn.regions, a)
  IN IF i # 0 /\ fn.regions[i].endseg = Seg /\ fn.regions[i].end < SegEnd
     THEN fn.regions[i].end ELSE SegEnd

decode_end(a) ==
  LET i == region_for(fn.regions, a)
      bound == IF i # 0 /\ fn.regions[i].endseg = Seg /\ fn.regions[i].end < SegEnd
               THEN fn.regions[i].end ELSE SegEnd
  IN Min({bound} \cup DataAfter(a))

\* Binary::region slices start .. end of the image.
DecodePanics ==
  /\ Walking /\ fn.addr # NoAddr /\ fn.addr > decode_end(fn.addr)
  /\ status' = "panicked"
  /\ UNCHANGED <<funcs, text, prog, outer, functions, inData, fn>>

\* Between the slice and the decision what comes next.
AtInstr == Walking /\ fn.addr # NoAddr /\ fn.addr <= decode_end(fn.addr)

\* What the decoder (external) finds at the address of the walk: any
\* instruction the first time, the same one ever after.
Fetched == IF fn.addr \in DOMAIN prog THEN {prog[fn.addr]} ELSE Instrs
Remember(i) == prog' = IF fn.addr \in DOMAIN prog THEN prog ELSE Extended(prog, fn.addr, i)

\* Only so many bytes are left at the address of the walk: none where it is
\* outside the regions or inside data.
Room ==
  IF InData(fn.addr) \/ (fn.regions # <<>> /\ region_for(fn.regions, fn.addr) = 0)
  THEN 0 ELSE decode_end(fn.addr) - fn.addr
Decodable == LET room == Room IN {i \in Fetched : i.kind # "bad" /\ i.len <= room}

StepFails ==
  /\ AtInstr
  /\ \E i \in Fetched \ Decodable : Remember(i)
  /\ Result(fn.start, Failed)
  /\ fn' = NoFn
  /\ UNCHANGED <<funcs, text, outer, inData, status>>

\* Mutant: the push cs marker stays until the next call.
Noted_sticky(i) ==
  [fn EXCEPT !.largest = MaxOf(@, fn.addr + i.len),
             !.seen = @ \cup {fn.addr},
             !.direct_calls = IF i.kind \in {"call", "callf"} THEN @ \cup {i.to} ELSE @,
             !.call_kinds =
               IF i.kind \notin {"call", "callf"} THEN @
               ELSE @ \cup {<<i.to, IF i.kind = "callf" \/ fn.push_cs THEN "far" ELSE "near">>},
             !.indirect_calls = IF i.kind = "call_indirect" THEN @ + 1 ELSE @,
             !.push_cs = @ \/ i.kind = "push_cs"]

\* What every decoded instruction adds, calls included.
Noted(i) ==
  [fn EXCEPT !.largest = MaxOf(@, fn.addr + i.len),
             !.seen = @ \cup {fn.addr},
             !.direct_calls = IF i.kind \in {"call", "callf"} THEN @ \cup {i.to} ELSE @,
             !.call_kinds =
               IF i.kind \notin {"call", "callf"} THEN @
               ELSE @ \cup {<<i.to, IF i.kind = "callf" \/ fn.push_cs THEN "far" ELSE "near">>},
             !.indirect_calls = IF i.kind = "call_indirect" THEN @ + 1 ELSE @,
             !.push_cs = i.kind = "push_cs"]

Decoded(i) ==
  /\ Remember(i)
  /\ UNCHANGED <<funcs, text, outer, functions, inData, status>>

\* Whether the block goes on at target.
Continues(target) ==
  /\ ~InData(target)
  /\ IF fn.regions # <<>> THEN InRegion(fn.regions[region_for(fn.regions, fn.addr)], target)
     ELSE seg_contains(target) /\ (fn.end # NoEnd => target < fn.end)

StepFallthrough ==
  AtInstr /\ \E i \in Decodable :
    /\ i.kind \in Straight /\ Decoded(i)
    /\ LET target == fn.addr + i.len
       IN fn' = [Noted(i) EXCEPT !.addr = IF Continues(target) THEN target ELSE NoAddr]

StepReturn ==
  AtInstr /\ \E i \in Decodable :
    /\ i.kind \in Returns /\ Decoded(i)
    /\ fn' = [Noted(i) EXCEPT
                !.addr = NoAddr,
                !.return_kind = IF @ = "none" THEN i.kind ELSE @,
                !.ignored = IF fn.return_kind \in {"none", i.kind} \/ i.kind \in ToSet(@)
                            THEN @ ELSE Append(@, i.kind)]

\* A branch target is followed, a conditional branch's fallthrough is.
TargetFollowed(a) ==
  /\ ~InData(a) /\ seg_contains(a)
  /\ fn.regions # <<>> => region_for(fn.regions, a) # 0
NotTakenFollowed(a) ==
  /\ ~InData(a)
  /\ IF fn.regions # <<>> THEN region_for(fn.regions, a) # 0 ELSE seg_contains(a)

Followed(i) ==
  {a \in {i.to} : TargetFollowed(a)} \cup
  (IF i.kind # "jcc" THEN {} ELSE {a \in {fn.addr + i.len} : NotTakenFollowed(a)})

\* A far jump within the segment is a jump to that address.
Jumps(i) == i.kind \in {"jmp", "jcc"} \/ (i.kind = "jmpf" /\ i.to # Elsewhere)
Transfers(i) == i.kind = "jmp_indirect" \/ (i.kind = "jmpf" /\ i.to = Elsewhere)

StepJump ==
  AtInstr /\ \E i \in Decodable :
    /\ Jumps(i) /\ Decoded(i)
    /\ fn' = [Noted(i) EXCEPT !.addr = NoAddr, !.queue = queue_insert(@, Followed(i))]

StepTransfer ==
  AtInstr /\ \E i \in Decodable :
    /\ Transfers(i) /\ Decoded(i)
    /\ fn' = [Noted(i) EXCEPT !.addr = NoAddr]

\* The FuncDetails of the walk, with its history.
Details ==
  [ok |-> TRUE, start |-> fn.start, end_addr_inferred |-> fn.largest,
   direct_calls |-> fn.direct_calls, call_kinds |-> fn.call_kinds,
   indirect_calls |-> fn.indirect_calls, return_kind |-> fn.return_kind,
   ignored |-> fn.ignored, seen |-> fn.seen]

Finish ==
  /\ Walking /\ fn.addr = NoAddr /\ fn.queue.queued = {}
  /\ Result(fn.start, Details)
  /\ outer' = queue_insert(outer, {c \in fn.direct_calls : ~InData(c)})
  /\ inData' = inData \cup {<<fn.start, c>> : c \in {c \in fn.direct_calls : InData(c)}}
  /\ fn' = NoFn
  /\ UNCHANGED <<funcs, text, prog, status>>

ScanDone ==
  /\ status = "scanning" /\ fn = NoFn /\ outer.queued = {}
  /\ status' = "done"
  /\ UNCHANGED <<funcs, text, prog, outer, functions, inData, fn>>

Over == status # "scanning" /\ UNCHANGED vars

Scan ==
  \/ NoSegment \/ BelowSegment \/ Refuse \/ Begin
  \/ PopBlock \/ DecodePanics \/ StepFails
  \/ StepFallthrough \/ StepReturn \/ StepJump \/ StepTransfer
  \/ Finish \/ ScanDone

Next == Scan \/ Over

Spec == Init /\ [][Next]_vars

\* One thread in a loop: it never stops while it can take a step.
FairSpec == Spec /\ WF_vars(Scan)

---------------------------------------------------------------------------
(* Properties *)

Walked == {a \in DOMAIN functions : functions[a].ok}

\* The regions configured for the function at a, as they are written.
Body(a) == UNION {ToSet(funcs[i].regions) : i \in {i \in DOMAIN funcs : funcs[i].start = a}}

Allowed(a, p) ==
  /\ seg_contains(p) /\ ~InData(p)
  /\ Body(a) = {} \/ \E r \in Body(a) : InRegion(r, p)

\* Every byte the walk of a function has interpreted as part of an
\* instruction lies in the segment, in the function's regions where it has
\* some, and in no declared data: a hole the decoder must not treat as code.
DecodesOnlyCode ==
  fn # NoFn => \A p \in fn.seen : \A b \in p .. p + prog[p].len - 1 : Allowed(fn.start, b)

\* Reference: where instruction i at p leads inside the function at a, and the
\* control-flow edges of the program.
Successors(a, p, i) ==
  LET after == IF i.kind \in Straight /\ Body(a) = {} /\ EndAt(a) # NoEnd
                    /\ p + i.len >= EndAt(a)
               THEN {} ELSE {p + i.len}
      nexts == IF Jumps(i) THEN {i.to} \cup (IF i.kind = "jcc" THEN after ELSE {})
               ELSE IF i.kind \in Straight THEN after ELSE {}
  IN {q \in nexts : Allowed(a, q)}
Edges(a, p) == Successors(a, p, prog[p])

Least(S, roots, step(_)) ==
  LET closed(T) == roots \subseteq T /\ \A p \in T : step(p) \subseteq T
  IN closed(S) /\ \A T \in SUBSET S : closed(T) => T = S

\* A finished walk has decoded exactly the addresses control flow reaches
\* from the function's start, whatever order blocks and functions were taken
\* in and however blocks overlap.
WalkIsReachability ==
  status # "scanning" =>
    \A a \in Walked : Least(functions[a].seen, {a}, LAMBDA p : Edges(a, p))

\* The walk reads all of the reachable code and nothing else
\* (build_with_regions_and_data).
WalkExact == DecodesOnlyCode /\ WalkIsReachability

\* Control reaches p in the walk d of the function at a: right after a push cs,
\* or in another way.
Arrives(a, d, p, pushed) ==
  \/ \E q \in d.seen : p \in Edges(a, q) /\ (prog[q].kind = "push_cs") = pushed
  \/ ~pushed /\ p = a

\* What is reported of a function is what its instructions say: the end,
\* the call targets, near or far (a push cs before a near call makes it far,
\* on the paths that run through it), and every kind of return, each once.
Exact(a, d) ==
  LET at(kinds) == {p \in d.seen : prog[p].kind \in kinds}
      called(p, how) == <<prog[p].to, how>>
  IN /\ d.end_addr_inferred = Max({p + prog[p].len : p \in d.seen})
     /\ d.direct_calls = {prog[p].to : p \in at({"call", "callf"})}
     /\ d.call_kinds =
          {called(p, "far") : p \in at({"callf"})} \cup
          {called(p, "far") : p \in {p \in at({"call"}) : Arrives(a, d, p, TRUE)}} \cup
          {called(p, "near") : p \in {p \in at({"call"}) : Arrives(a, d, p, FALSE)}}
     /\ {prog[p].kind : p \in at(Returns)} = ({d.return_kind} \cup ToSet(d.ignored)) \ {"none"}
     /\ IsInjective(d.ignored) /\ d.return_kind \notin ToSet(d.ignored)
DetailsExact == status # "scanning" => \A a \in Walked : Exact(a, functions[a])

Callees(a) == IF functions[a].ok THEN functions[a].direct_calls ELSE {}

\* When the scan is done its results are the configured functions and what
\* they call, directly or not; a call into declared data is reported and
\* never becomes a function.
CallsAccounted ==
  status = "done" =>
    /\ Least(DOMAIN functions, {funcs[i].start : i \in DOMAIN funcs},
             LAMBDA a : {c \in Callees(a) : ~InData(c)})
    /\ inData = UNION {{a} \X {c \in Callees(a) : InData(c)} : a \in DOMAIN functions}

\* The report of a finished scan is exact, function by function and over the
\* call graph (func_details, scan_for_all_functions).
ReportExact == DetailsExact /\ CallsAccounted

\* The scan ends: loops, recursion and overlapping blocks do not keep either
\* work queue alive.
ScanEnds == <>(status # "scanning")
=============================================================================
