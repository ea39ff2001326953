---- MODULE SsaIr ----
(***************************************************************************)
(* The decompiler's IR and its construction (ir/def.rs, ir/methods.rs and  *)
(* the block driver of ir_build.rs).  A value is a reference: an           *)
(* instruction <<"i", block, index>>, a constant <<"k", n>>, the register  *)
(* value at entry <<"init", reg>>, a block <<"b", block>> or a symbol      *)
(* <<"sym", table, offset of the symbol, offset of the access>>.  A block  *)
(* keeps its instructions in a pool (ins) and their order (code), so that  *)
(* inserting never renumbers a reference.                                  *)
(*                                                                         *)
(* Words have M values, a machine word is one unit of address, and only    *)
(* word registers exist: byte fragments and flags are IrLower's business.  *)
(***************************************************************************)
EXTENDS Integers, Sequences, FiniteSets, TLC

CONSTANT M   \* number of word values

ASSUME WordAssumption == M \in Nat /\ M >= 4 /\ M % 2 = 0

GuestRegs == {"AX", "BX", "CX", "DX", "SP"}
K(n) == <<"k", n>>
Entry(reg) == <<"init", reg>>
Instr(op, o, at) == [op |-> op, o |-> o, at |-> at]
Signed(n) == IF n % M >= M \div 2 THEN (n % M) - M ELSE n % M
IsInstr(r) == r[1] = "i"
At(ir, r) == ir[r[2]].ins[r[3]]
Put(ir, r, i) == [ir EXCEPT ![r[2]].ins[r[3]] = i]
Is(ir, r, op) == IsInstr(r) /\ At(ir, r).op = op
IsConst(r) == r[1] = "k"
Live(ir) == {b \in DOMAIN ir : ir[b].live}
Refs(ir, b) == [k \in DOMAIN ir[b].code |-> <<"i", b, ir[b].code[k]>>]
AllRefs(ir) == UNION {{<<"i", b, n>> : n \in {ir[b].code[k] : k \in DOMAIN ir[b].code}} : b \in Live(ir)}
Opcodes(ir, b) == {At(ir, <<"i", b, n>>).op : n \in {ir[b].code[k] : k \in DOMAIN ir[b].code}}

is_load(op) == op \in {"Load16", "Load32"}
is_store(op) == op = "Store16"
is_call(op) == op \in {"CallFar", "CallArgs"}
may_clobber_memory(op) == op \in {"CallFar", "CallArgs", "Int"}
is_mem_op(op) == is_load(op) \/ is_store(op) \/ op \in {"ReadVar16", "ReadVar32", "WriteVar16", "WriteVar32"}
has_side_effects(op) ==
  op \in {"Pin", "Store16", "WriteVar16", "WriteVar32", "CallFar", "CallArgs", "Int", "Ret", "Jmp", "Jne"}

new_block == [live |-> TRUE, code |-> <<>>, ins |-> <<>>, preds |-> <<>>,
              defs |-> [n \in {} |-> K(0)], sealed |-> FALSE, inc |-> <<>>]

(* Insertion at the end, at the start and before an instruction; the new  *)
(* reference is NewRef of the block before the insertion.                  *)
NewRef(ir, b) == <<"i", b, Len(ir[b].ins) + 1>>
block_instr_append(ir, b, i) ==
  [ir EXCEPT ![b].ins = Append(@, i), ![b].code = Append(@, Len(ir[b].ins) + 1)]
block_instr_prepend(ir, b, i) ==
  [ir EXCEPT ![b].ins = Append(@, i), ![b].code = <<Len(ir[b].ins) + 1>> \o @]
block_instr_insert_before(ir, b, r, i) ==
  LET k == CHOOSE k \in DOMAIN ir[b].code : ir[b].code[k] = r[3] IN
  [ir EXCEPT ![b].ins = Append(@, i),
             ![b].code = SubSeq(@, 1, k - 1) \o <<Len(ir[b].ins) + 1>> \o SubSeq(@, k, Len(@))]

(* The neighbours of an instruction that are not Nops, nearest last. *)
Before(ir, r) ==
  LET c == ir[r[2]].code
      k == CHOOSE k \in DOMAIN c : c[k] = r[3] IN
  SelectSeq([j \in 1..(k - 1) |-> <<"i", r[2], c[j]>>], LAMBDA q : At(ir, q).op # "Nop")
instr_prev(ir, r) == LET s == Before(ir, r) IN IF s = <<>> THEN K(0) ELSE s[Len(s)]

block_exits(ir, b) ==
  LET s == SelectSeq(Refs(ir, b), LAMBDA q : At(ir, q).op # "Nop")
      i == At(ir, s[Len(s)]) IN
  IF s = <<>> THEN <<>>
  ELSE CASE i.op = "Jmp" -> <<i.o[1][2]>>
         [] i.op = "Jne" -> <<i.o[2][2], i.o[3][2]>>
         [] OTHER -> <<>>

set_var(ir, name, b, r) == [ir EXCEPT ![b].defs = (name :> r) @@ @]

(***************************************************************************)
(* Variables to values (get_var): local definition, else through a single  *)
(* predecessor, else a phi.  A phi is entered as the block's definition    *)
(* before its operands are looked up, and in a block that may still gain   *)
(* predecessors it stays empty until the block is sealed.                  *)
(***************************************************************************)
phi_create(ir, name, b) == set_var(block_instr_prepend(ir, b, Instr("Phi", <<>>, {})), name, b, NewRef(ir, b))

RECURSIVE get_var_from(_, _, _, _)
RECURSIVE OperandsFor(_, _, _, _)
(* phi_populate: one operand per predecessor, in their order. *)
OperandsFor(ir, name, phi, o) ==
  LET preds == ir[phi[2]].preds
      g == get_var_from(ir, name, preds[Len(o) + 1], {}) IN
  IF Len(o) = Len(preds) THEN [ir EXCEPT ![phi[2]].ins[phi[3]].o = o]
  ELSE OperandsFor(g.ir, name, phi, Append(o, g.r))

get_var_from(ir, name, b, visited) ==
  LET phi == NewRef(ir, b)
      made == phi_create(ir, name, b)
      blk == ir[b] IN
  CASE name \in DOMAIN blk.defs -> [ir |-> ir, r |-> blk.defs[name]]
    [] name \notin DOMAIN blk.defs /\ ~blk.sealed ->
         [ir |-> [made EXCEPT ![b].inc = Append(@, <<name, phi>>)], r |-> phi]
    [] name \notin DOMAIN blk.defs /\ blk.sealed ->
         IF Len(blk.preds) = 1 /\ b \notin visited
         THEN get_var_from(ir, name, blk.preds[1], visited \cup {b})
         ELSE [ir |-> OperandsFor(made, name, phi, <<>>), r |-> phi]

get_var(ir, name, b) == get_var_from(ir, name, b, {})

RECURSIVE PopulateAll(_, _)
PopulateAll(ir, inc) ==
  IF inc = <<>> THEN ir ELSE PopulateAll(OperandsFor(ir, inc[1][1], inc[1][2], <<>>), Tail(inc))

seal_block(ir, b) == PopulateAll([ir EXCEPT ![b].sealed = TRUE, ![b].inc = <<>>], ir[b].inc)

RECURSIVE SealFrom(_, _)
SealFrom(ir, b) ==
  IF b > Len(ir) THEN ir
  ELSE SealFrom(IF ir[b].live /\ ~ir[b].sealed THEN seal_block(ir, b) ELSE ir, b + 1)

unseal_all_blocks(ir) == [b \in DOMAIN ir |-> IF ir[b].live THEN [ir[b] EXCEPT !.sealed = FALSE] ELSE ir[b]]

(***************************************************************************)
(* Guest instructions, as far as SSA construction tells them apart.        *)
(***************************************************************************)
Src(ir, b, s) == IF s[1] = "reg" THEN get_var(ir, s[2], b) ELSE [ir |-> ir, r |-> s]
Def(ir, b, reg, i) == set_var(block_instr_append(ir, b, i), reg, b, NewRef(ir, b))
DS == Entry("DS")
SS == Entry("SS")
StackAttr(reg) == IF reg = "SP" THEN {"STACK_PTR"} ELSE {}

append_push(ir, b, v) ==
  LET sp == get_var(ir, "SP", b)
      ir1 == Def(sp.ir, b, "SP", Instr("Sub", <<sp.r, K(1)>>, {"STACK_PTR"})) IN
  block_instr_append(ir1, b, Instr("Store16", <<SS, NewRef(sp.ir, b), v>>, {"STACK_SAVE"}))

append_pop(ir, b) ==
  LET sp == get_var(ir, "SP", b)
      ir1 == block_instr_append(sp.ir, b, Instr("Load16", <<SS, sp.r>>, {})) IN
  [ir |-> Def(ir1, b, "SP", Instr("Add", <<sp.r, K(1)>>, {"STACK_PTR"})), r |-> NewRef(sp.ir, b)]

(* heuristic_infer_call_arguments_by_context: the words cleaned up after   *)
(* the call, if at least as many were pushed right before it.              *)
RECURSIVE PushedBefore(_, _)
PushedBefore(body, k) == IF k >= 1 /\ body[k][1] = "push" THEN 1 + PushedBefore(body, k - 1) ELSE 0
CleanedAfter(body, k) ==
  IF k + 1 > Len(body) THEN 0
  ELSE CASE body[k + 1][1] = "pop" /\ body[k + 1][2] = "CX" -> 1
         [] body[k + 1][1] = "Add" /\ body[k + 1][2] = "SP" /\ IsConst(body[k + 1][3]) -> body[k + 1][3][2]
         [] OTHER -> 0
InferredArgs(body, k) ==
  IF PushedBefore(body, k - 1) >= CleanedAfter(body, k) THEN CleanedAfter(body, k) ELSE 0

RECURSIVE load_args_from_stack(_, _, _, _)
load_args_from_stack(ir, b, n, args) ==
  LET sp == get_var(ir, "SP", b)
      off == IF args = <<>> THEN sp
             ELSE [ir |-> block_instr_append(sp.ir, b, Instr("Add", <<sp.r, K(Len(args))>>, {"STACK_PTR"})),
                   r |-> NewRef(sp.ir, b)]
      val == NewRef(off.ir, b) IN
  IF Len(args) = n THEN [ir |-> ir, args |-> args]
  ELSE load_args_from_stack(block_instr_append(off.ir, b, Instr("Load16", <<SS, off.r>>, {})),
                            b, n, Append(args, val))

append_upper_lower_split(ir, b, r) ==
  Def(Def(ir, b, "DX", Instr("Upper16", <<r>>, {})), b, "AX", Instr("Lower16", <<r>>, {}))

process_call(ir, b, n) ==
  LET a == load_args_from_stack(ir, b, n, <<>>) IN
  append_upper_lower_split(block_instr_append(a.ir, b, Instr("CallFar", a.args, {})), b, NewRef(a.ir, b))

(* Instructions a reference depends on, itself included. *)
RECURSIVE Closure(_, _, _)
Closure(ir, S, ops) ==
  LET more == UNION {{At(ir, r).o[k] : k \in DOMAIN At(ir, r).o} :
                       r \in {q \in S : IsInstr(q) /\ (ops = {} \/ At(ir, q).op \in ops)}} IN
  IF more \subseteq S THEN S ELSE Closure(ir, S \cup more, ops)

ref_reads_init(ir, r, reg) == Entry(reg) \in Closure(ir, {r}, {})
is_entry_value(ir, r, reg) ==
  \A q \in Closure(ir, {r}, {"Phi", "Ref"}) :
    \/ q = Entry(reg)
    \/ IsInstr(q) /\ At(ir, q).op \in {"Phi", "Ref"} /\ At(ir, q).o # <<>>

(* A write whose value reads another register's entry value goes before    *)
(* the write of that register; a cycle falls back to the given order.      *)
RECURSIVE order_guest_writes(_, _)
order_guest_writes(ir, pending) ==
  LET ready == {k \in DOMAIN pending : \A j \in DOMAIN pending :
                  pending[j][1] # pending[k][1] => ~ref_reads_init(ir, pending[j][2], pending[k][1])}
      k == IF ready = {} THEN 1 ELSE CHOOSE k \in ready : \A j \in ready : k <= j IN
  IF pending = <<>> THEN <<>>
  ELSE <<pending[k]>> \o order_guest_writes(ir, SubSeq(pending, 1, k - 1) \o SubSeq(pending, k + 1, Len(pending)))

Register(reg) == <<"sym", "Register", reg, 0>>
RECURSIVE write_guest_registers(_, _, _)
write_guest_registers(ir, b, writes) ==
  IF writes = <<>> THEN ir
  ELSE write_guest_registers(block_instr_append(ir, b,
         Instr("WriteVar16", <<Register(writes[1][1]), writes[1][2]>>, {"PIN"})), b, Tail(writes))

(* The values of registers, in their order, looked up one after another.   *)
RECURSIVE ValuesOf(_, _, _, _)
ValuesOf(ir, b, regs, acc) ==
  LET g == get_var(ir, regs[1], b) IN
  IF regs = <<>> THEN [ir |-> ir, vals |-> acc]
  ELSE ValuesOf(g.ir, b, Tail(regs), Append(acc, <<regs[1], g.r>>))

(* An interrupt handler reads and changes every register: the changed ones *)
(* are written out before it, and all are unknown (entry) after it.        *)
process_int(ir, b) ==
  LET v == ValuesOf(ir, b, <<"AX", "BX", "CX", "DX">>, <<>>)
      dirty == SelectSeq(v.vals, LAMBDA w : w[2] # Entry(w[1]))
      ir1 == write_guest_registers(v.ir, b, order_guest_writes(v.ir, dirty))
      ir2 == block_instr_append(ir1, b, Instr("Int", <<K(0)>>, {})) IN
  [ir2 EXCEPT ![b].defs = [n \in {"AX", "BX", "CX", "DX"} |-> Entry(n)] @@ @]

(* A call of a configured function: <<"known", name, regargs, contract>>,  *)
(* regargs <<>> when none are declared.  Declared inputs that were set up  *)
(* are written out; AX and DX are its result; a register of its contract   *)
(* (regouts and clobbers) is read from the live register after it.         *)
append_regargs(ir, b, regargs) ==
  LET v == ValuesOf(ir, b, regargs, <<>>)
      dirty == SelectSeq(v.vals, LAMBDA w : w[2] # Entry(w[1])) IN
  write_guest_registers(v.ir, b, order_guest_writes(v.ir, dirty))
RECURSIVE apply_call_contract(_, _, _)
apply_call_contract(ir, b, regs) ==
  LET reg == CHOOSE r \in regs : TRUE IN
  IF regs = {} THEN ir
  ELSE apply_call_contract(Def(ir, b, reg, Instr("Ref", <<Entry(reg)>>, {"CALL_CONTRACT"})), b, regs \ {reg})
process_call_known(ir, b, s, n) ==
  LET ir1 == append_regargs(ir, b, s[3])
      a == load_args_from_stack(ir1, b, n, <<>>)
      ir2 == block_instr_append(a.ir, b, Instr("CallArgs", <<<<"fn", s[2]>>>> \o a.args, {})) IN
  apply_call_contract(append_upper_lower_split(ir2, b, NewRef(a.ir, b)), b, s[4] \ {"AX", "DX"})

(* cmp reg,0 followed by a reader of the zero flag. *)
Compare(ir, b, reg, reader) ==
  LET g == get_var(ir, reg, b)
      ir1 == block_instr_append(g.ir, b, Instr("Sub", <<g.r, K(0)>>, {}))
      ir2 == block_instr_append(ir1, b, Instr("UpdateFlags", <<K(0), NewRef(g.ir, b)>>, {})) IN
  [ir |-> block_instr_append(ir2, b, Instr(reader, <<NewRef(ir1, b)>>, {})), r |-> NewRef(ir2, b)]

(* One guest instruction, s = body[k]. *)
append_asm_instr(ir, b, body, k) ==
  LET s == body[k] IN
  CASE s[1] = "mov" -> LET v == Src(ir, b, s[3]) IN set_var(v.ir, s[2], b, v.r)
    [] s[1] \in {"Add", "Sub", "Xor", "Or"} ->
         LET x == get_var(ir, s[2], b)
             y == Src(x.ir, b, s[3]) IN
         Def(y.ir, b, s[2], Instr(s[1], <<x.r, y.r>>, StackAttr(s[2])))
    [] s[1] = "load" -> LET a == Src(ir, b, s[3]) IN
                        Def(a.ir, b, s[2], Instr("Load16", <<DS, a.r>>, {"MAY_ESCAPE"}))
    [] s[1] = "store" -> LET v == Src(ir, b, s[3]) IN
                         block_instr_append(v.ir, b, Instr("Store16", <<DS, s[2], v.r>>, {"MAY_ESCAPE"}))
    [] s[1] = "les" -> LET r == NewRef(ir, b) IN
         append_upper_lower_split(block_instr_append(ir, b, Instr("Load32", <<DS, s[2]>>, {"MAY_ESCAPE"})), b, r)
    [] s[1] = "push" -> LET v == get_var(ir, s[2], b) IN append_push(v.ir, b, v.r)
    [] s[1] = "pop" -> LET p == append_pop(ir, b) IN set_var(p.ir, s[2], b, p.r)
    [] s[1] = "cwd" -> LET v == get_var(ir, "AX", b) IN
         Def(block_instr_append(v.ir, b, Instr("SignExtTo32", <<v.r>>, {})), b, "DX",
             Instr("Upper16", <<NewRef(v.ir, b)>>, {}))
    [] s[1] = "div" -> LET d == get_var(ir, "DX", b)
                           a == get_var(d.ir, "AX", b)
                           n == NewRef(a.ir, b)
                           ir1 == block_instr_append(a.ir, b, Instr("Make32", <<d.r, a.r>>, {})) IN
         Def(Def(ir1, b, "AX", Instr("UDiv", <<n, s[2]>>, {})), b, "DX", Instr("URem", <<n, s[2]>>, {}))
    [] s[1] = "set" -> LET c == Compare(ir, b, s[3], s[4]) IN set_var(c.ir, s[2], b, c.r)
    [] s[1] = "call" -> process_call(ir, b, InferredArgs(body, k))
    [] s[1] = "known" -> process_call_known(ir, b, s, InferredArgs(body, k))
    [] s[1] = "int" -> process_int(ir, b)

append_jmp(ir, b, t) ==
  [block_instr_append(ir, b, Instr("Jmp", <<<<"b", t>>>>, {})) EXCEPT ![t].preds = Append(@, b)]
append_jne(ir, b, c, t, f) ==
  LET ir1 == [ir EXCEPT ![t].preds = Append(@, b)]
      ir2 == [ir1 EXCEPT ![f].preds = Append(@, b)] IN
  block_instr_append(ir2, b, Instr("Jne", <<c, <<"b", t>>, <<"b", f>>>>, {}))

(* At a ret: AX and DX are its operands, SP is pinned, and the other       *)
(* registers are noted for the write-back (exit_register_values).          *)
append_ret(ir, b) ==
  LET v == ValuesOf(ir, b, <<"AX", "DX", "SP">>, <<>>)
      ir1 == set_var(block_instr_append(v.ir, b, Instr("Pin", <<v.vals[3][2]>>, {})), "SP", b, NewRef(v.ir, b))
      ret == NewRef(ir1, b)
      ir2 == block_instr_append(ir1, b, Instr("Ret", <<v.vals[1][2], v.vals[2][2]>>, {}))
      x == ValuesOf(ir2, b, <<"BX", "CX">>, <<>>) IN
  [ir |-> x.ir, exit |-> <<[ret |-> ret, pending |-> x.vals]>>]

RECURSIVE BuildBlock(_, _, _, _)
BuildBlock(ir, b, blk, k) ==
  IF k <= Len(blk.body) THEN BuildBlock(append_asm_instr(ir, b, blk.body, k), b, blk, k + 1)
  ELSE LET t == blk.term IN
       CASE t[1] = "jmp" -> [ir |-> append_jmp(ir, b, t[2]), exit |-> <<>>]
         [] t[1] = "jcc" -> LET c == Compare(ir, b, t[3], t[2]) IN
                            [ir |-> append_jne(c.ir, b, c.r, t[4], t[5]), exit |-> <<>>]
         [] t[1] = "ret" -> append_ret(ir, b)

RECURSIVE BuildFrom(_, _, _, _)
BuildFrom(prog, ir, b, exits) ==
  LET g == BuildBlock(ir, b, prog[b], 1) IN
  IF b > Len(prog) THEN [ir |-> ir, exits |-> exits]
  ELSE BuildFrom(prog, g.ir, b + 1, exits \o g.exit)

(* Before the ret: snapshots of the operands that read a register about to *)
(* be written, then the writes (write_back_exit_registers).                *)
RECURSIVE InsertAll(_, _, _, _)
InsertAll(ir, b, ret, writes) ==
  IF writes = <<>> THEN ir
  ELSE InsertAll(block_instr_insert_before(ir, b, ret,
         Instr("WriteVar16", <<Register(writes[1][1]), writes[1][2]>>, {"PIN", "EXIT_STATE"})), b, ret, Tail(writes))
RECURSIVE Snapshot(_, _, _, _)
Snapshot(ir, ret, regs, k) ==
  LET v == At(ir, ret).o[k] IN
  IF k > Len(At(ir, ret).o) THEN ir
  ELSE IF \E reg \in regs : ref_reads_init(ir, v, reg)
  THEN Snapshot([block_instr_insert_before(ir, ret[2], ret, Instr("Ref", <<v>>, {"MATERIALISE"}))
                   EXCEPT ![ret[2]].ins[ret[3]].o[k] = NewRef(ir, ret[2])], ret, regs, k + 1)
  ELSE Snapshot(ir, ret, regs, k + 1)
RECURSIVE write_back_exit_registers(_, _)
write_back_exit_registers(ir, exits) ==
  LET e == exits[1]
      pending == SelectSeq(e.pending, LAMBDA w : ~is_entry_value(ir, w[2], w[1]))
      ir1 == Snapshot(ir, e.ret, {pending[k][1] : k \in DOMAIN pending}, 1) IN
  IF exits = <<>> THEN ir
  ELSE write_back_exit_registers(
         IF pending = <<>> THEN ir ELSE InsertAll(ir1, e.ret[2], e.ret, order_guest_writes(ir1, pending)), Tail(exits))

(* build_once and the write-back: block 1 is the entry, sealed from the    *)
(* start and seeded with the entry values; the others are sealed when all  *)
(* jumps are known.                                                        *)
build(prog) ==
  LET blank == [b \in DOMAIN prog |-> new_block]
      seeded == [blank EXCEPT ![1].sealed = TRUE, ![1].defs = [n \in GuestRegs |-> Entry(n)]]
      g == BuildFrom(prog, seeded, 1, <<>>) IN
  write_back_exit_registers(SealFrom(g.ir, 1), g.exits)
====
