---- MODULE SsaOpt ----
(***************************************************************************)
(* The optimiser (opt.rs), symbolisation (sym.rs), access fusion (fuse.rs) *)
(* and finalisation (ir/fin.rs) of the IR of SsaIr.  A pass is a rewrite   *)
(* of one instruction, applied to every instruction in program order.      *)
(***************************************************************************)
EXTENDS SsaIr

CONSTANTS Globals,       \* configured globals: address of the first word -> number of words
          N_OPT_PASSES   \* rounds of one optimize() (5 in the code)

Zero == K(0)
ToRef(ir, r, v) == Put(ir, r, [At(ir, r) EXCEPT !.op = "Ref", !.o = <<v>>])
ToNop(ir, r) == Put(ir, r, [At(ir, r) EXCEPT !.op = "Nop", !.o = <<>>])
Rewrite(ir, r, op, o) == Put(ir, r, [At(ir, r) EXCEPT !.op = op, !.o = o])

RECURSIVE SweepRefs(_, _, _)
SweepRefs(F(_, _), ir, refs) == IF refs = <<>> THEN ir ELSE SweepRefs(F, F(ir, refs[1]), Tail(refs))
RECURSIVE SweepFrom(_, _, _)
SweepFrom(F(_, _), ir, b) ==
  IF b > Len(ir) THEN ir
  ELSE SweepFrom(F, IF ir[b].live THEN SweepRefs(F, ir, Refs(ir, b)) ELSE ir, b + 1)
Sweep(F(_, _), ir) == SweepFrom(F, ir, 1)

RECURSIVE propagate(_, _, _)
propagate(ir, r, seen) ==
  IF /\ Is(ir, r, "Ref")
     /\ At(ir, r).at \cap {"MATERIALISE", "CALL_CONTRACT"} = {}
     /\ r \notin seen
  THEN propagate(ir, At(ir, r).o[1], seen \cup {r}) ELSE r
operand_propagate(ir, r) == propagate(ir, r, {})
Propagated(ir, r) == [k \in DOMAIN At(ir, r).o |-> operand_propagate(ir, At(ir, r).o[k])]

reduce_xor(ir, r) ==
  IF Is(ir, r, "Xor") /\ At(ir, r).o[1] = At(ir, r).o[2] THEN ToRef(ir, r, Zero) ELSE ir
reduce_trivial_or(ir, r) ==
  IF Is(ir, r, "Or") /\ At(ir, r).o[1] = At(ir, r).o[2] THEN ToRef(ir, r, At(ir, r).o[1]) ELSE ir

(* Both operands constant, word operations only. *)
Folded(op, x, y) ==
  CASE op = "Add" -> Signed(x + y)
    [] op = "Sub" -> Signed(x - y)
    [] op = "Eq" -> IF x = y THEN 1 ELSE 0
    [] op = "Neq" -> IF x # y THEN 1 ELSE 0
constant_folding(ir, r) ==
  LET i == At(ir, r) IN
  IF i.op \in {"Add", "Sub", "Eq", "Neq"} /\ IsConst(i.o[1]) /\ IsConst(i.o[2])
  THEN ToRef(ir, r, K(Folded(i.op, i.o[1][2], i.o[2][2]))) ELSE ir

(* make32 (upper16 (signext32 x)) x  is  signext32 x *)
reduce_make_32_signext_32(ir, r) ==
  IF /\ Is(ir, r, "Make32")
     /\ Is(ir, At(ir, r).o[1], "Upper16")
     /\ LET ext == At(ir, At(ir, r).o[1]).o[1] IN
        Is(ir, ext, "SignExtTo32") /\ At(ir, ext).o[1] = At(ir, r).o[2]
  THEN ToRef(ir, r, At(ir, At(ir, r).o[1]).o[1]) ELSE ir

(* make32 (upper16 x) (lower16 x)  is  x *)
reduce_upper_lower_make32(ir, r) ==
  IF /\ Is(ir, r, "Make32")
     /\ Is(ir, At(ir, r).o[1], "Upper16") /\ Is(ir, At(ir, r).o[2], "Lower16")
     /\ At(ir, At(ir, r).o[1]).o[1] = At(ir, At(ir, r).o[2]).o[1]
  THEN ToRef(ir, r, At(ir, At(ir, r).o[1]).o[1]) ELSE ir

(* (upper16 x | lower16 x) == 0  is  x == 0 *)
reduce_equal_zero_32(ir, r) ==
  LET i == At(ir, r)
      Halves(o) == {At(ir, q).op : q \in {q \in {o[1], o[2]} : IsInstr(q)}} IN
  IF /\ i.op \in {"Eq", "Neq"} /\ i.o[2] = Zero /\ Is(ir, i.o[1], "Or")
     /\ {"Upper16", "Lower16"} \subseteq Halves(At(ir, i.o[1]).o)
     /\ At(ir, At(ir, i.o[1]).o[1]).o[1] = At(ir, At(ir, i.o[1]).o[2]).o[1]
  THEN Rewrite(ir, r, i.op, <<At(ir, At(ir, i.o[1]).o[1]).o[1], Zero>>) ELSE ir

(* A phi of itself and one other value is that value. *)
reduce_phi_single_ref_first(ir, r) ==
  LET o == Propagated(ir, r) IN
  IF ~Is(ir, r, "Phi") \/ o = <<>> \/ o[1] = r THEN ir ELSE ToRef(ir, r, o[1])

reduce_phi_single_ref(ir, r) ==
  LET o == Propagated(ir, r)
      others == {o[k] : k \in DOMAIN o} \ {r} IN
  IF ~Is(ir, r, "Phi") THEN ir
  ELSE IF Cardinality(others) = 1 THEN ToRef(ir, r, CHOOSE v \in others : TRUE)
  ELSE Rewrite(ir, r, "Phi", o)
(* A phi whose operands are the same computation repeats it. *)
reduce_phi_common_subexpr(ir, r) ==
  LET o == Propagated(ir, r)
      others == SelectSeq(o, LAMBDA q : q # r)
      common == At(ir, others[1]) IN
  IF /\ Is(ir, r, "Phi") /\ others # <<>> /\ IsInstr(others[1])
     /\ ~has_side_effects(common.op) /\ common.op # "Phi"
     /\ \A k \in DOMAIN others : IsInstr(others[k]) /\ At(ir, others[k]) = common
  THEN Put(ir, r, common) ELSE ir

(* The reader of flags set by a subtraction compares its operands. *)
simplify_branch_conds(ir, r) ==
  LET i == At(ir, r)
      upd == At(ir, i.o[1])
      pred == At(ir, upd.o[2]) IN
  IF /\ i.op \in {"EqFlags", "NeqFlags"}
     /\ Is(ir, i.o[1], "UpdateFlags") /\ Is(ir, upd.o[2], "Sub")
  THEN Rewrite(ir, r, IF i.op = "EqFlags" THEN "Eq" ELSE "Neq", pred.o) ELSE ir

(* (x cmp 0) == 0 is the inverse comparison, (x cmp 0) != 0 the same one. *)
simplify_chained_comparisons(ir, r) ==
  LET i == At(ir, r)
      inner == At(ir, i.o[1])
      Inverse == [Eq |-> "Neq", Neq |-> "Eq"] IN
  IF /\ i.op \in {"Eq", "Neq"} /\ i.o[2] = Zero
     /\ IsInstr(i.o[1]) /\ inner.op \in {"Eq", "Neq"} /\ inner.o[2] = Zero
  THEN Rewrite(ir, r, IF i.op = "Eq" THEN Inverse[inner.op] ELSE inner.op, inner.o) ELSE ir
(* SP +- a of SP' +- b: one step from SP', wrapping. *)
stack_ptr_const_oper(ir, v) ==
  IF /\ IsInstr(v) /\ At(ir, v).op \in {"Add", "Sub"}
     /\ "STACK_PTR" \in At(ir, v).at /\ IsConst(At(ir, v).o[2])
  THEN <<At(ir, v).o[1], Signed(IF At(ir, v).op = "Add" THEN At(ir, v).o[2][2] ELSE -At(ir, v).o[2][2])>>
  ELSE <<>>
stack_ptr_accumulation(ir, r) ==
  LET outer == stack_ptr_const_oper(ir, r)
      inner == stack_ptr_const_oper(ir, At(ir, r).o[1])
      k == Signed(outer[2] + inner[2]) IN
  IF outer = <<>> THEN ir
  ELSE IF inner = <<>> THEN ir
  ELSE CASE k > 0 -> Rewrite(ir, r, "Add", <<inner[1], K(k)>>)
         [] k < 0 -> Rewrite(ir, r, "Sub", <<inner[1], K(Signed(-k))>>)
         [] k = 0 -> ToRef(ir, r, inner[1])

value_propagation(ir, r) == Put(ir, r, [At(ir, r) EXCEPT !.o = Propagated(ir, r)])

allow_cse(op) == op \in {"Add", "Sub", "Or", "Xor", "UDiv", "URem", "SignExtTo32", "Lower16", "Upper16",
                         "Make32", "UpdateFlags", "EqFlags", "NeqFlags", "Eq", "Neq"}
common_subexpression_elimination(ir, r) ==
  LET same == SelectSeq(Before(ir, r), LAMBDA q : At(ir, q) = At(ir, r)) IN
  IF allow_cse(At(ir, r).op) /\ same # <<>> THEN ToRef(ir, r, same[1]) ELSE ir

(* A write of a register's own value is inert; SP's entry value is a copy. *)
remove_register_self_writes(ir, r) ==
  LET i == At(ir, r) IN
  IF i.op = "WriteVar16" /\ i.o[1][2] = "Register" /\ i.o[2] = Entry(i.o[1][3])
  THEN Put(ir, r, Instr("Nop", <<>>, {})) ELSE ir

(* Mark from what has effects, sweep the rest. *)
deadcode_elimination(ir) ==
  LET roots == {r \in AllRefs(ir) : has_side_effects(At(ir, r).op) \/ "PIN" \in At(ir, r).at}
      live == Closure(ir, roots, {})
      Drop(i, r) == IF r \in live THEN i ELSE ToNop(i, r) IN
  Sweep(Drop, ir)

(***************************************************************************)
(* Blocks without predecessors go, with their phi operands in successors   *)
(* (repair_exit) and the pure values computed from theirs; if anything     *)
(* observable depends on the block it stays, with its edges restored.      *)
(***************************************************************************)
RemoveAt(s, k) == SubSeq(s, 1, k - 1) \o SubSeq(s, k + 1, Len(s))
RECURSIVE repair_exit(_, _, _)
repair_exit(ir, exit, b) ==
  LET at == {k \in DOMAIN ir[exit].preds : ir[exit].preds[k] = b}
      k == CHOOSE k \in at : \A j \in at : j <= k
      DropOperand(i, r) == IF Is(i, r, "Phi") /\ k <= Len(At(i, r).o)
                           THEN Put(i, r, [At(i, r) EXCEPT !.o = RemoveAt(@, k)]) ELSE i IN
  IF at = {} THEN ir
  ELSE repair_exit(SweepRefs(DropOperand, [ir EXCEPT ![exit].preds = RemoveAt(@, k)], Refs(ir, exit)), exit, b)
is_nopable_consumer(i) == ~has_side_effects(i.op) /\ "PIN" \notin i.at /\ i.op \notin {"Nop", "Phi"}
Mentions(i, b) == \E k \in DOMAIN i.o : i.o[k][1] \in {"i", "b"} /\ i.o[k][2] = b
RECURSIVE UsersOf(_, _, _)
UsersOf(ir, b, S) ==
  LET more == {r \in AllRefs(ir) : r[2] # b /\ \E k \in DOMAIN At(ir, r).o : At(ir, r).o[k] \in S} IN
  IF more \subseteq S THEN S ELSE UsersOf(ir, b, S \cup more)
Detached(ir, b, exits) ==
  CASE Len(exits) = 0 -> ir
    [] Len(exits) = 1 -> repair_exit(ir, exits[1], b)
    [] Len(exits) = 2 -> repair_exit(repair_exit(ir, exits[1], b), exits[2], b)
Erased(ir, users) ==
  LET Erase(i, r) == IF r \in users THEN ToNop(i, r) ELSE i IN Sweep(Erase, ir)
Removed(ir, b) ==
  LET Point(d) == [n \in {n \in DOMAIN d : ~(IsInstr(d[n]) /\ d[n][2] = b)} |-> d[n]] IN
  [c \in DOMAIN ir |-> IF c = b THEN [new_block EXCEPT !.live = FALSE] ELSE [ir[c] EXCEPT !.defs = Point(@)]]
RemoveUnless(ir, detached, b, users) ==
  IF \A r \in users : is_nopable_consumer(At(detached, r)) THEN Removed(Erased(detached, users), b) ELSE ir
RemoveOf(ir, detached, b) ==
  RemoveUnless(ir, detached, b, UsersOf(detached, b, {r \in AllRefs(detached) : r[2] # b /\ Mentions(At(detached, r), b)}))
RemoveDead(ir, b) == RemoveOf(ir, Detached(ir, b, block_exits(ir, b)), b)
RECURSIVE DeadFrom(_, _)
DeadFrom(ir, b) ==
  IF b > Len(ir) THEN ir
  ELSE DeadFrom(IF ir[b].live /\ ir[b].preds = <<>> THEN RemoveDead(ir, b) ELSE ir, b + 1)
deadblock_elimination(ir) == DeadFrom(ir, 2)   \* the entry is always alive

Reduced(ir) ==
  Sweep(reduce_phi_common_subexpr, Sweep(reduce_phi_single_ref, Sweep(reduce_equal_zero_32,
    Sweep(reduce_upper_lower_make32, Sweep(reduce_make_32_signext_32, Sweep(reduce_xor, ir))))))
Simplified(ir) ==
  Sweep(stack_ptr_accumulation, Sweep(constant_folding, Sweep(simplify_chained_comparisons,
    Sweep(reduce_trivial_or, Sweep(simplify_branch_conds, Reduced(ir))))))
Rounded(ir) ==
  Sweep(value_propagation, Sweep(common_subexpression_elimination, Sweep(value_propagation, Simplified(ir))))
RECURSIVE Rounds(_, _, _)
Rounds(ir, next, n) == IF n = 0 \/ next = ir THEN ir ELSE Rounds(next, Rounded(next), n - 1)
Round(ir, n) == Rounds(ir, Rounded(ir), n)

optimize(ir) ==
  deadcode_elimination(Round(Sweep(remove_register_self_writes, deadblock_elimination(ir)), N_OPT_PASSES))

(***************************************************************************)
(* Symbols: a stack access at a constant distance from the entry SP is a   *)
(* local (or, above it, a parameter); a DS access inside a configured      *)
(* global is that global.                                                  *)
(***************************************************************************)
ToSymbol(ir, r, sym) ==
  LET i == At(ir, r) IN
  CASE i.op = "Load16" -> Rewrite(ir, r, "ReadVar16", <<sym>>)
    [] i.op = "Load32" -> Rewrite(ir, r, "ReadVar32", <<sym>>)
    [] i.op = "Store16" -> Rewrite(ir, r, "WriteVar16", <<sym, i.o[3]>>)
symbolize_stack(ir, r) ==
  LET i == At(ir, r)
      a == At(ir, i.o[2])
      off == IF a.op = "Add" THEN a.o[2][2] ELSE -a.o[2][2] IN
  IF /\ is_load(i.op) \/ is_store(i.op)
     /\ i.o[1] = SS /\ IsInstr(i.o[2])
     /\ a.op \in {"Add", "Sub"} /\ a.o[1] = Entry("SP") /\ IsConst(a.o[2])
  THEN ToSymbol(ir, r, <<"sym", IF off > 0 THEN "Param" ELSE "Local", off, 0>>) ELSE ir
symbolize_globals(ir, r) ==
  LET i == At(ir, r)
      home == {g \in DOMAIN Globals : g <= i.o[2][2] /\ i.o[2][2] < g + Globals[g]}
      g == CHOOSE g \in home : TRUE IN
  IF /\ is_load(i.op) \/ is_store(i.op)
     /\ i.o[1] = DS /\ IsConst(i.o[2]) /\ home # {}
  THEN ToSymbol(ir, r, <<"sym", "Global", g, i.o[2][2] - g>>) ELSE ir
symbolize(ir) == Sweep(symbolize_globals, Sweep(symbolize_stack, ir))

(* A load gets the value of the latest store to the same address in its    *)
(* block, unless something in between may write memory unseen.             *)
forward_store_to_load(ir, r) ==
  LET i == At(ir, r)
      b4 == Before(ir, r)
      since == {k \in DOMAIN b4 : may_clobber_memory(At(ir, b4[k]).op)}
      same == {k \in DOMAIN b4 : /\ is_store(At(ir, b4[k]).op)
                                 /\ SubSeq(At(ir, b4[k]).o, 1, 2) = SubSeq(i.o, 1, 2)
                                 /\ \A j \in since : j < k} IN
  IF is_load(i.op) /\ same # {}
  THEN ToRef(ir, r, At(ir, b4[CHOOSE k \in same : \A j \in same : j <= k]).o[3]) ELSE ir
(* Push and pop slots become SSA values, in the blocks where nothing can   *)
(* write them unseen.                                                      *)
Liftable(i) == /\ i.op \in {"ReadVar16", "WriteVar16"}
               /\ i.o[1][2] = "Local" /\ "MAY_ESCAPE" \notin i.at
SlotName(sym) == "local" \o ToString(sym[3])
LiftOne(ir, r) ==
  LET i == At(ir, r)
      g == get_var(ir, SlotName(i.o[1]), r[2]) IN
  IF ~Liftable(i) \/ \E op \in Opcodes(ir, r[2]) : may_clobber_memory(op) THEN ir
  ELSE IF i.op = "WriteVar16" THEN set_var(ToRef(ir, r, i.o[2]), SlotName(i.o[1]), r[2], r)
  ELSE ToRef(g.ir, r, g.r)
mem_symbol_to_ref(ir) == SealFrom(Sweep(LiftOne, unseal_all_blocks(ir)), 1)

(***************************************************************************)
(* Fusion of adjacent word accesses to a two-word global, and of the two   *)
(* loads under a make32.                                                   *)
(***************************************************************************)
Half(i, k) == i.o[1][2] = "Global" /\ Globals[i.o[1][3]] = 2 /\ i.o[1][4] = k
Whole(i) == <<"sym", "Global", i.o[1][3], 0>>
fuse_writevar(ir, r) ==
  LET p == instr_prev(ir, r)
      i == At(ir, r)
      j == At(ir, p) IN
  IF /\ i.op = "WriteVar16" /\ Is(ir, p, "WriteVar16")
     /\ \/ Half(i, 0) /\ Half(j, 1)
        \/ Half(i, 1) /\ Half(j, 0)
     /\ i.o[1][3] = j.o[1][3]
  THEN LET hi == IF i.o[1][4] = 1 THEN i.o[2] ELSE j.o[2]
           lo == IF i.o[1][4] = 1 THEN j.o[2] ELSE i.o[2] IN
       Put(Put(ir, p, Instr("Make32", <<hi, lo>>, {})), r, Instr("WriteVar32", <<Whole(i), p>>, {"MAY_ESCAPE"}))
  ELSE ir
fuse_readvar(ir, r) ==
  LET p == instr_prev(ir, r)
      i == At(ir, r)
      j == At(ir, p)
      load == NewRef(ir, r[2]) IN
  IF /\ i.op = "ReadVar16" /\ Is(ir, p, "ReadVar16")
     /\ Half(i, 1) /\ Half(j, 0) /\ i.o[1][3] = j.o[1][3]
  THEN Put(Put(block_instr_insert_before(ir, r[2], p, Instr("ReadVar32", <<Whole(i)>>, {})),
               p, Instr("Lower16", <<load>>, {})), r, Instr("Upper16", <<load>>, {}))
  ELSE ir
(* The offsets of the two loads differ by one word. *)
is_fusable_load16_to_load32(ir, hi, lo) ==
  /\ Is(ir, hi, "Load16") /\ Is(ir, lo, "Load16") /\ At(ir, hi).o[1] = At(ir, lo).o[1]
  /\ IsInstr(At(ir, hi).o[2]) /\ IsInstr(At(ir, lo).o[2])
  /\ LET ho == At(ir, At(ir, hi).o[2])
         lo2 == At(ir, At(ir, lo).o[2]) IN
     /\ ho.op = "Add" /\ IsConst(ho.o[2])
     /\ \/ ho.o[1] = At(ir, lo).o[2] /\ ho.o[2] = K(1)
        \/ lo2.op = "Add" /\ ho.o[1] = lo2.o[1] /\ IsConst(lo2.o[2]) /\ ho.o[2][2] = lo2.o[2][2] + 1
fuse_make32(ir, r) ==
  LET i == At(ir, r)
      b4 == Before(ir, r)
      Pos(q) == CHOOSE k \in DOMAIN b4 : b4[k] = q IN
  IF /\ i.op = "Make32" /\ is_fusable_load16_to_load32(ir, i.o[1], i.o[2])
     /\ {i.o[1], i.o[2]} \subseteq {b4[k] : k \in DOMAIN b4}
     /\ \A k \in DOMAIN b4 : (k > Pos(i.o[1]) \/ k > Pos(i.o[2])) /\ b4[k] \notin {i.o[1], i.o[2]}
                              => ~is_mem_op(At(ir, b4[k]).op)
  THEN Put(ir, r, Instr("Load32", At(ir, i.o[2]).o, {"MAY_ESCAPE"})) ELSE ir
fuse_mem(ir) == Sweep(fuse_make32, Sweep(fuse_readvar, Sweep(fuse_writevar, ir)))

(* A block of its own on every edge from a branch to a block with phis. *)
target_has_phis(ir, b) == "Phi" \in Opcodes(ir, b)
InsertPhiBlock_stale(ir, r, k) ==
  Append([ir EXCEPT ![r[2]].ins[r[3]].o[k] = <<"b", Len(ir) + 1>>],
         [new_block EXCEPT !.preds = <<r[2]>>, !.code = <<1>>, !.ins = <<Instr("Jmp", <<At(ir, r).o[k]>>, {})>>])
InsertPhiBlock(ir, r, k) ==
  LET old == At(ir, r).o[k][2]
      new == Len(ir) + 1
      moved == [[ir EXCEPT ![r[2]].ins[r[3]].o[k] = <<"b", new>>]
                  EXCEPT ![old].preds = [j \in DOMAIN @ |-> IF @[j] = r[2] THEN new ELSE @[j]]] IN
  Append(moved, [new_block EXCEPT !.sealed = TRUE, !.preds = <<r[2]>>, !.code = <<1>>,
                                  !.ins = <<Instr("Jmp", <<<<"b", old>>>>, {})>>])
SplitEdges(ir, r) ==
  LET t == At(ir, r).o[2][2]
      f == At(ir, r).o[3][2]
      one == IF target_has_phis(ir, t) THEN InsertPhiBlock(ir, r, 2) ELSE ir IN
  IF ~Is(ir, r, "Jne") THEN ir
  ELSE IF ~target_has_phis(ir, f) THEN one
  ELSE IF f = t THEN [one EXCEPT ![r[2]].ins[r[3]].o[3] = At(one, r).o[2]]
  ELSE InsertPhiBlock(one, r, 3)
finalize(ir) ==
  LET n == Len(ir)
      Old(i, r) == IF r[2] <= n THEN SplitEdges(i, r) ELSE i IN
  Sweep(Old, ir)
====
