------------------------------ MODULE BlockBuild ------------------------------
(***************************************************************************)
(* How a decoded function becomes a graph of blocks, and what is known of  *)
(* the carry and of the direction flag where a block starts                *)
(* (dis86/src/decompile/ir_build.rs build_once, build, analyze_carry,      *)
(* analyze_df).  Instructions are those of Preflight's images; at is the   *)
(* order decode_regions gives them in, code the function's code regions.   *)
(* An address of 2^16 or more lies in another segment; the word of a jump  *)
(* table at address a is image[a].to; a jmp_indirect names its table by    *)
(* to, or has to = None when it is not of the table's shape.               *)
(* A block is <<"entry", start>>, <<"at", address>> or <<"out", address>>, *)
(* the empty block behind a transfer that cannot be modelled.              *)
(***************************************************************************)
EXTENDS Preflight

Elsewhere == 65536

---------------------------------------------------------------------------
(* Targets *)

\* config.rs text_region_lookup: the table of the jump at a, or NotFound.
text_region_lookup(c, addr, access) ==
  LET byStart == Lookup(c.text, LAMBDA t : t.seg = Code /\ t.start = addr)
  IN IF byStart # NotFound THEN byStart
     ELSE Lookup(c.text, LAMBDA t : t.seg = Code /\ t.access = access)

\* The targets of jmp cs:[reg+table]; a region without a type is not a table.
jump_indirect_targets(c, p, a) ==
  LET t == text_region_lookup(c, p[a].to, a)
  IN IF p[a].to = None \/ t = NotFound \/ ~t.typed THEN {}
     ELSE {p[t.start + 2 * n].to : n \in 0 .. (t.end - t.start) \div 2 - 1}

\* Where the branch at a goes, its fallthrough aside; nowhere for a transfer
\* that is unmodelled.
explicit_targets(c, p, a) ==
  CASE p[a].kind \in {"jmp", "jcc"} -> {p[a].to}
    [] p[a].kind = "jmpf" -> {t \in {p[a].to} : t < Elsewhere}
    [] p[a].kind = "jmp_indirect" -> jump_indirect_targets(c, p, a)
    [] OTHER -> {}
fallthrough(p, a) == IF p[a].kind = "jcc" THEN {a + p[a].len} ELSE {}
IsBranch(i) == i.kind \in Branches \cup {"jmp_indirect"}

target_in_range(code, t) == \E i \in DOMAIN code : RegionContains(code[i], Code, t)
out_of_range_edge(code, t, through) == t \notin through /\ ~target_in_range(code, t)

---------------------------------------------------------------------------
(* The block graph *)

Entry(at) == <<"entry", at[1]>>
At(a) == <<"at", a>>
Out(a) == <<"out", a>>

region_boundaries(code, at) == {code[i].start : i \in DOMAIN code} \ {at[1]}
block_starts(c, p, code, at) ==
  region_boundaries(code, at)
  \cup (UNION {explicit_targets(c, p, a) \cup fallthrough(p, a) : a \in ToSet(at)})
  \cup {at[i] : i \in {i \in 2 .. Len(at) : IsBranch(p[at[i - 1]])}}

\* Instructions that append nothing to the IR.
Silent == {"nop"}
Terminators == Branches \cup {"jmp_indirect", "ret", "retf"}

\* b: cur block, ended when its last IR instruction is a jump or a return,
\* the edges, the block of every instruction so far.
append_asm_instr(c, p, a, b) ==
  LET to == explicit_targets(c, p, a) \cup fallthrough(p, a)
      next == IF to # {} THEN {At(t) : t \in to} ELSE {Out(a)}
  IN [b EXCEPT !.of = Append(@, b.cur),
               !.ended = IF p[a].kind \in Silent THEN @ ELSE p[a].kind \in Terminators,
               !.edges = IF IsBranch(p[a]) THEN @ \cup ({b.cur} \X next) ELSE @]

start_next_blk(b, a) ==
  [b EXCEPT !.cur = At(a), !.ended = FALSE,
            !.edges = IF b.ended THEN @ ELSE @ \cup {<<b.cur, At(a)>>}]
start_next_region_blk(b, a) == [b EXCEPT !.cur = At(a), !.ended = FALSE]

\* Mutant: a region boundary is taken for an ordinary block start.
Enter_unbounded(b, a, starts, boundaries) ==
  IF a \in starts THEN start_next_blk(b, a) ELSE b

Enter(b, a, starts, boundaries) ==
  IF a \in boundaries THEN start_next_region_blk(b, a)
  ELSE IF a \in starts THEN start_next_blk(b, a)
  ELSE b

\* The part of the entry's region before the entry falls through into it,
\* unless its last block ended.
link_prestart_fallthrough(p, code, at, starts, b) ==
  LET r == code[SelectInSeq(code, LAMBDA x : RegionContains(x, Code, at[1]))]
      before == {i \in DOMAIN at : r.start <= at[i] /\ at[i] < at[1]}
      last == Max(before)
      target == IF at[1] \in starts THEN At(at[1]) ELSE Entry(at)
      ended == \/ \E e \in b.edges : e[1] = b.of[last]
               \/ \E i \in DOMAIN at : /\ b.of[i] = b.of[last] /\ p[at[i]].kind \in {"ret", "retf"}
                                       /\ \A j \in i + 1 .. last : p[at[j]].kind \in Silent
  IN IF before = {} \/ at[last] + p[at[last]].len # at[1] \/ ended \/ target = b.of[last]
     THEN b.edges ELSE b.edges \cup {<<b.of[last], target>>}

\* [starts, of, edges, warned]: the graph of a decoded function.
BuiltFrom(c, p, code, at, starts) ==
  LET boundaries == region_boundaries(code, at)
      b == FoldLeft(LAMBDA x, a : append_asm_instr(c, p, a, Enter(x, a, starts, boundaries)),
                    [cur |-> Entry(at), ended |-> FALSE, edges |-> {}, of |-> <<>>], at)
  IN [starts |-> starts, of |-> b.of,
      edges |-> link_prestart_fallthrough(p, code, at, starts, b),
      warned |-> {a \in ToSet(at) : \E t \in explicit_targets(c, p, a) :
                                      out_of_range_edge(code, t, fallthrough(p, a))}]
build_once(c, p, code, at) == BuiltFrom(c, p, code, at, block_starts(c, p, code, at))

---------------------------------------------------------------------------
(* Flags: a state is [known, clear], the carry and the direction flag *)

\* What an instruction leaves: CALL and INT lose the carry and keep DF, a
\* repeated string operation that may run downwards is a marker that
\* clobbers the flags, like every compare that is repeated.
Effect(kind, s) ==
  CASE kind = "cmp" -> [s EXCEPT !.known = TRUE]
    [] kind \in {"mul", "call", "callf", "call_indirect", "rep_cmps"} -> [s EXCEPT !.known = FALSE]
    [] kind = "rep_movs" -> [s EXCEPT !.known = @ /\ s.clear]
    [] kind = "popf" -> [known |-> FALSE, clear |-> FALSE]
    [] kind \in {"std", "iret"} -> [s EXCEPT !.clear = FALSE]
    [] kind = "cld" -> [s EXCEPT !.clear = TRUE]
    [] OTHER -> s

Blocks(g, at) == {Entry(at)} \cup {At(a) : a \in g.starts} \cup {e[2] : e \in g.edges}
Preds(g, blk) == {e[1] : e \in {e \in g.edges : e[2] = blk}}
PredsOf(g, B) == [b \in B |-> Preds(g, b)]
\* The state a block is left in when it is entered in state s.
ExitOf(p, at, g, blk, s) ==
  FoldLeft(LAMBDA x, i : IF g.of[i] = blk THEN Effect(p[at[i]].kind, x) ELSE x,
           s, [i \in DOMAIN at |-> i])

\* lo, hi: a block's exit when its entry is assumed FALSE and TRUE; a block
\* whose exit does not depend on it is constant, any other forwards.
EntryJoin(preds, entry, atEntry, lo, hi, m) ==
  [b \in DOMAIN m |->
     IF b = entry THEN atEntry
     ELSE /\ preds[b] # {}
          /\ \A q \in preds[b] : IF lo[q] = hi[q] THEN lo[q] ELSE m[q]]
Settle(preds, entry, atEntry, lo, hi, m) ==
  LET settled[x \in [DOMAIN m -> BOOLEAN]] ==
        LET next == EntryJoin(preds, entry, atEntry, lo, hi, x)
        IN IF next = x THEN x ELSE settled[next]
  IN settled[m]

\* The greatest solution: a loop that leaves DF alone stays clear.
analyze_df(p, at, g) ==
  LET B == Blocks(g, at)
      exit(assumed) == [b \in B |-> ExitOf(p, at, g, b, [known |-> FALSE,
                                                         clear |-> assumed \/ b = Entry(at)]).clear]
  IN Settle(PredsOf(g, B), Entry(at), TRUE, exit(FALSE), exit(TRUE),
            [b \in B |-> b = Entry(at) \/ Preds(g, b) # {}])

\* Mutant: the probes take the direction flag to be clear.
analyze_carry_unseeded(p, at, g, clear) ==
  LET exit(assumed) == [b \in DOMAIN clear |->
                          ExitOf(p, at, g, b, [known |-> assumed /\ b # Entry(at),
                                               clear |-> TRUE]).known]
  IN Settle(PredsOf(g, DOMAIN clear), Entry(at), FALSE, exit(FALSE), exit(TRUE),
            [b \in DOMAIN clear |-> FALSE])

\* The least solution, under the direction flags found before.
analyze_carry(p, at, g, clear) ==
  LET exit(assumed) == [b \in DOMAIN clear |->
                          ExitOf(p, at, g, b, [known |-> assumed /\ b # Entry(at),
                                               clear |-> clear[b]]).known]
  IN Settle(PredsOf(g, DOMAIN clear), Entry(at), FALSE, exit(FALSE), exit(TRUE),
            [b \in DOMAIN clear |-> FALSE])

\* build: the state every block is entered with.  An analysis nothing asks
\* for is not run.
Present(p, at, kinds) == \E a \in ToSet(at) : p[a].kind \in kinds
df_entry(p, at, g) ==
  LET writer == Present(p, at, {"std", "popf", "iret"})
  IN IF writer /\ Present(p, at, {"rep_movs", "rep_cmps"}) THEN analyze_df(p, at, g)
     ELSE [b \in Blocks(g, at) |-> ~writer \/ b = Entry(at)]
EntryFlags(clear, known) == [b \in DOMAIN clear |-> [known |-> known[b], clear |-> clear[b]]]
SeededFrom(p, at, g, clear) ==
  EntryFlags(clear, IF Present(p, at, {"adc"}) THEN analyze_carry(p, at, g, clear)
                    ELSE [b \in DOMAIN clear |-> FALSE])
build(p, at, g) == SeededFrom(p, at, g, df_entry(p, at, g))

---------------------------------------------------------------------------
(* What the graph and the flags ought to be *)

\* Where control goes after the instruction at a, instruction by instruction.
\* A HLT or IRET is a marker that traps; the code goes on after it.
Goes(c, p, a) ==
  IF IsBranch(p[a]) THEN explicit_targets(c, p, a) \cup fallthrough(p, a)
  ELSE IF p[a].kind \in {"ret", "retf"} THEN {}
  ELSE {a + p[a].len}

\* i follows a return in its own block: nothing reaches it.
Behind_return(p, at, g, i) ==
  \E j \in 1 .. i - 1 : g.of[j] = g.of[i] /\ p[at[j]].kind \in {"ret", "retf"}
Ends_block(g, i) == \A j \in DOMAIN g.of : g.of[j] = g.of[i] => j <= i
Starting(g, at, t) == IF t \in g.starts THEN At(t) ELSE Entry(at)
Splits(p, at, t) == \E a \in ToSet(at) : a < t /\ t < a + p[a].len

\* Every step of the code is in the graph: inside a block or along an edge.
\* A branch that leaves what was decoded has an edge to an empty block and a
\* warning, unless it is to its own fallthrough or into an instruction.
EdgesComplete(c, p, at, g) ==
  \A i \in DOMAIN at : ~Behind_return(p, at, g, i) =>
    \A t \in Goes(c, p, at[i]) :
      IF t \in ToSet(at)
      THEN \/ i < Len(at) /\ at[i + 1] = t /\ g.of[i + 1] = g.of[i]
           \/ Ends_block(g, i) /\ <<g.of[i], Starting(g, at, t)>> \in g.edges
      ELSE IsBranch(p[at[i]]) =>
             /\ <<g.of[i], At(t)>> \in g.edges
             /\ at[i] \in g.warned \/ t \in fallthrough(p, at[i]) \/ Splits(p, at, t)

\* Every edge is a step of the code.
EdgesSound(c, p, at, g) ==
  \A e \in g.edges :
    \/ \E i \in DOMAIN at : /\ g.of[i] = e[1] /\ Ends_block(g, i)
                            /\ \/ e[2] = Out(at[i]) /\ Goes(c, p, at[i]) = {}
                               \/ \E t \in Goes(c, p, at[i]) : e[2] = Starting(g, at, t)
    \/ e = <<Entry(at), At(at[1])>> /\ Entry(at) \notin ToSet(g.of)

\* The states in which the code arrives at its instructions.
From(c, p, at) ==
  LET States == [at : Int, flags : [known : BOOLEAN, clear : BOOLEAN]]
      after(x) == {[at |-> t, flags |-> Effect(p[x.at].kind, x.flags)] :
                     t \in Goes(c, p, x.at) \cap ToSet(at)}
      arrivals[new \in SUBSET States, seen \in SUBSET States] ==
        LET next == UNION {after(x) : x \in new}
        IN IF next \subseteq seen THEN seen ELSE arrivals[next \ seen, seen \cup next]
      first == {[at |-> at[1], flags |-> [known |-> FALSE, clear |-> TRUE]]}
  IN arrivals[first, first]

\* A block is entered with a carry that is known, a direction flag that is
\* clear, only if the code arrives there so on every way.  Where every
\* instruction can be reached this is exact for the direction flag, and for
\* the carry too where no branch goes backwards.
FlagsMatch(c, p, at, g, flags, arrivals) ==
  LET reached == ToSet(at) = {x.at : x \in arrivals}
      forward == \A a \in ToSet(at) : \A t \in Goes(c, p, a) : t > a
      needed == Present(p, at, {"adc"})
      strings == Present(p, at, {"rep_movs", "rep_cmps"})
      all(t, field) == \A x \in arrivals : x.at = t => x.flags[field]
  IN \A t \in {at[1]} \cup (g.starts \cap ToSet(at)) :
       LET b == Starting(g, at, t)
       IN /\ flags[b].known => all(t, "known")
          /\ flags[b].clear => all(t, "clear")
          /\ reached /\ strings => (flags[b].clear <=> all(t, "clear"))
          /\ reached /\ forward /\ needed => (flags[b].known <=> all(t, "known"))
=============================================================================
